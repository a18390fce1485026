-------------------------- MODULE RelayRefinement --------------------------
(***************************************************************************)
(* The two forwarding tasks implement the gate: what module Relay does in  *)
(* many steps, interleaved, with pipes that fill up and a log that may     *)
(* fail, is one judgement per host line and one answer per tool line.      *)
(***************************************************************************)
EXTENDS Relay

(* A host line is judged when the tool has it, when its refusal is on its  *)
(* way to the host, or when the loop has dropped it.                       *)
Judged == IF fpc \in {"allow", "write", "raw", "deny", "denyText"} THEN nread - 1 ELSE nread

(* A tool line is settled when its text is written.                        *)
Settled == IF rpc \in {"scan", "audit", "text", "block"} THEN taken - 1 ELSE taken

Of(lines, kinds) == {line \in lines : line.kind \in kinds}

G == INSTANCE Gate WITH
  Passed <- Of(HostLine, Admitted),
  Refused <- Of(HostLine, {"violation"}),
  Final <- Of(HostLine \cup ToolLine, {"garbled"}),
  Skipped <- Of(ToolLine, {"empty", "garbled"}),
  Filler <- {Newline, ErrorText("timeout", 0)},
  asked <- sent, judged <- Judged, passed <- inbox,
  said <- out, settled <- Settled, seen <- hostOut,
  hostThere <- hostReads, toolThere <- toolListens,
  blocks <- {line \in ToolLine : config.scan = "strict" /\ SecretLeft(line)},
  scans <- config.scan # "disabled", stops <- config.strict

(* The session's steps are steps of the gate or invisible to it: no line   *)
(* is passed, refused or shown twice, out of order, or against the policy. *)
ImplementsGate == G!Spec
=============================================================================
