------------------------------ MODULE Session ------------------------------
(***************************************************************************)
(* The life of a broker session: the main task of run_proxy                *)
(* (crates/mcparmor-broker/src/proxy.rs) around the two forwarding tasks   *)
(* of module Relay.  It waits for the tasks, reaps the tool, explains an   *)
(* early death of the tool, enforces timeout_ms on the whole session, and  *)
(* lets the runtime shut down, which waits for a read of stdin or a write  *)
(* of stdout that no task is interested in any more.                       *)
(***************************************************************************)
EXTENDS Relay

CONSTANTS
  Codes  \* ways the tool may exit by itself

(* "notfound" is exit code 127; "signal" a death by SIGTERM or SIGKILL.    *)
ASSUME SessionAssumption == Codes \subseteq {"ok", "failed", "notfound"}

VARIABLES
  main,        \* where the main task is
  code,        \* the tool's exit status
  inWindow,    \* EARLY_EXIT_WINDOW_SECS have not passed since the spawn
  diedEarly,   \* history: the tool failed inside the window, unused
  diagnosis    \* what diagnose_early_exit told the operator

sessionVars == <<main, code, inWindow, diedEarly, diagnosis>>
allVars == <<vars, sessionVars>>

MainState == {"joinForward", "joinReturn", "wait", "grace", "report", "newline",
              "returned", "draining", "exited"}

SessionTypeOK ==
  /\ TypeOK
  /\ main \in MainState
  /\ code \in Codes \cup {"none", "signal"}
  /\ inWindow \in BOOLEAN /\ diedEarly \in BOOLEAN
  /\ diagnosis \in {"none", "notfound", "beforeFirst"}

SessionInit ==
  /\ Init
  /\ main = "joinForward" /\ code = "none" /\ inWindow = TRUE /\ diedEarly = FALSE
  /\ diagnosis = "none"

(* first_message_sent: set by the first write of a parsed message.         *)
FirstMessageSent == \E k \in DOMAIN inbox : sent[inbox[k]].kind # "malformed"

-----------------------------------------------------------------------------
(* Mutant: the end of one task is the end of both.                         *)
JoinEither ==
  /\ main = "joinForward" /\ fpc = "done" /\ live
  /\ main' = "wait"
  /\ UNCHANGED <<vars, code, inWindow, diedEarly, diagnosis>>

(* await_forwarding_tasks, and the same two awaits in run_with_timeout.    *)
JoinForward ==
  /\ main = "joinForward" /\ fpc = "done" /\ live
  /\ main' = "joinReturn"
  /\ UNCHANGED <<vars, code, inWindow, diedEarly, diagnosis>>

JoinReturn ==
  /\ main = "joinReturn" /\ rpc = "done" /\ live
  /\ main' = "wait"
  /\ UNCHANGED <<vars, code, inWindow, diedEarly, diagnosis>>

(* Mutants: the clock is not looked at; the exit code stands for its cause.*)
DiagnoseAnytime ==
  IF code = "ok" THEN "none"
  ELSE IF code = "notfound" THEN "notfound"
  ELSE IF ~FirstMessageSent THEN "beforeFirst" ELSE "none"
DiagnoseCode == IF code = "ok" \/ ~inWindow THEN "none" ELSE code

(* diagnose_early_exit looks at the clock when the tool is reaped.         *)
Diagnose ==
  IF code = "ok" \/ ~inWindow THEN "none"
  ELSE IF code = "notfound" THEN "notfound"
  ELSE IF ~FirstMessageSent THEN "beforeFirst" ELSE "none"

(* child.wait(), which no timeout bounds.                                  *)
Reap ==
  /\ main = "wait" /\ ~toolUp /\ live
  /\ main' = "returned"
  /\ diagnosis' = IF config.timed THEN "none" ELSE Diagnose
  /\ UNCHANGED <<vars, code, inWindow, diedEarly>>

(* Mutant: only the first of the two awaits is timed.                      *)
ElapseFirst ==
  /\ config.timed /\ main = "joinForward" /\ live
  /\ ~(fpc = "done" /\ rpc = "done")
  /\ main' = "grace"
  /\ UNCHANGED <<vars, code, inWindow, diedEarly, diagnosis>>

(* The timer of run_with_timeout fires while a task is still running;      *)
(* on Unix kill_child_gracefully sends SIGTERM and sleeps, then SIGKILL to *)
(* the process group.  The forwarding tasks are detached and run on.       *)
Elapse ==
  /\ config.timed /\ main \in {"joinForward", "joinReturn"} /\ live
  /\ ~(fpc = "done" /\ rpc = "done")
  /\ main' = "grace"
  /\ UNCHANGED <<vars, code, inWindow, diedEarly, diagnosis>>

ToolDies(status) ==
  /\ ToolExits
  /\ code' = status
  /\ diedEarly' = (inWindow /\ status # "ok" /\ ~FirstMessageSent)

(* Mutant: SIGTERM alone, which the tool may ignore.                       *)
KillPolitely ==
  /\ main = "grace" /\ live
  /\ main' = "report"
  /\ UNCHANGED <<vars, code, inWindow, diedEarly, diagnosis>>

(* Elsewhere the future of child.kill() is dropped without being awaited,  *)
(* and the tool lives on.                                                  *)
Kill ==
  /\ main = "grace" /\ live
  /\ main' = "report"
  /\ \/ config.unix /\ toolUp /\ ToolDies("signal")
     \/ ~(config.unix /\ toolUp) /\ UNCHANGED <<vars, code, diedEarly>>
  /\ UNCHANGED <<inWindow, diagnosis>>

ReportText ==
  /\ main = "report" /\ NoticeText
  /\ main' = "newline"
  /\ UNCHANGED <<code, inWindow, diedEarly, diagnosis>>

ReportNewline ==
  /\ main = "newline" /\ NoticeNewline
  /\ main' = "returned"
  /\ UNCHANGED <<code, inWindow, diedEarly, diagnosis>>

(* main() returns and the runtime is dropped: the tasks stop, but a read   *)
(* of the host's stdin or a write of its stdout that has begun cannot be   *)
(* cancelled (the chunk of such a write is left out of hostOut).           *)
ReadPending == fpc = "read" /\ nread = Len(sent) /\ hostOpen
WritePending ==
  /\ fpc \in {"denyText", "denyNewline"} \/ rpc \in {"text", "block", "newline"}
  /\ ~HostRoom

Shutdown ==
  /\ main = "returned" /\ Cease
  /\ main' = IF ReadPending \/ WritePending THEN "draining" ELSE "exited"
  /\ UNCHANGED <<code, inWindow, diedEarly, diagnosis>>

DrainEnds ==
  /\ main = "draining" /\ ~ReadPending /\ ~WritePending
  /\ main' = "exited"
  /\ UNCHANGED <<vars, code, inWindow, diedEarly, diagnosis>>

ExitStrict ==
  /\ StrictExit
  /\ main' = "exited"
  /\ UNCHANGED <<code, inWindow, diedEarly, diagnosis>>

-----------------------------------------------------------------------------
(* Only the untimed session looks at the clock of the window.              *)
WindowPasses ==
  /\ inWindow /\ ~config.timed /\ live
  /\ inWindow' = FALSE
  /\ UNCHANGED <<vars, main, code, diedEarly, diagnosis>>

(* The tool exits by itself, or of the SIGTERM.                            *)
ToolGoes ==
  /\ \/ \E status \in Codes : ToolDies(status)
     \/ main = "grace" /\ config.unix /\ ToolDies("signal")
  /\ UNCHANGED <<main, inWindow, diagnosis>>

(* A host whose broker has exited has nothing left to do here.             *)
HostActs == main # "exited" /\ HostStep /\ UNCHANGED sessionVars

ToolActs ==
  /\ \/ ToolReads
     \/ \E line \in ToolLine : ToolWrites(line)
     \/ ToolClosesStdin \/ ToolClosesStdout
  /\ UNCHANGED sessionVars

Forward == ForwardStep /\ UNCHANGED sessionVars
Return == ReturnStep /\ UNCHANGED sessionVars

MainStep ==
  \/ JoinForward \/ JoinReturn \/ Reap \/ Kill \/ ReportText \/ ReportNewline
  \/ Shutdown \/ DrainEnds

SessionNext ==
  \/ Forward \/ Return \/ ExitStrict \/ MainStep \/ Elapse
  \/ WindowPasses \/ ToolGoes \/ HostActs \/ ToolActs

(* The runtime runs every task that can go on, and the timer fires.        *)
BrokerFairness ==
  /\ WF_allVars(Forward) /\ WF_allVars(Return) /\ WF_allVars(ExitStrict)
  /\ WF_allVars(MainStep) /\ WF_allVars(Elapse)

(* A tool that serves: it reads its stdin, and exits when it has come to   *)
(* the end of it or has closed it.                                         *)
ToolObeysEof == ToolGoes /\ (toolListens => ~toolIn /\ consumed = Len(inbox))
ToolServes ==
  /\ WF_allVars(ToolReads /\ UNCHANGED sessionVars)
  /\ WF_allVars(ToolObeysEof)

(* A host that reads what it is given, as long as there is a broker.       *)
HostListens == WF_allVars(main # "exited" /\ HostTakes /\ UNCHANGED sessionVars)

SessionSpec == SessionInit /\ [][SessionNext]_allVars
FairSession == SessionSpec /\ BrokerFairness

-----------------------------------------------------------------------------
(* Properties                                                              *)

Over == main \in {"returned", "draining", "exited"}
EndedStrict == ~live /\ fpc = "exit"
Reaped == Over /\ notice = "none" /\ ~EndedStrict

(* A session that ends without a timeout has given the host everything the *)
(* tool wrote: the main task joins the return task before it reaps the     *)
(* tool (a line that is not UTF-8 ends the return task early, and a tool   *)
(* that wrote one is left out).                                            *)
CleanEndLosesNothing ==
  Reaped /\ (\A i \in DOMAIN out : out[i].kind # "garbled") =>
    \A i \in DOMAIN out :
      out[i].kind # "empty" => Shown("tool", i) \/ Shown("block", i) \/ ~hostReads

(* The broker leaves no tool behind: when the session is over, or the host *)
(* reads that it timed out, the tool is dead.  Only the exit of strict     *)
(* mode leaves the tool to its end of file, and so does a timeout where    *)
(* kill_child_gracefully kills nothing, off Unix.                          *)
NoToolLeftBehind ==
  /\ Over => ~toolUp \/ EndedStrict \/ (notice # "none" /\ ~config.unix)
  /\ Shown("timeout", 0) /\ config.unix => ~toolUp

(* A diagnosis is never wrong: the tool it explains failed inside the      *)
(* window and before it was given a message, or with exit code 127.        *)
DiagnosisSound ==
  diagnosis # "none" => diedEarly \/ code = "notfound"

(* The host hangs up, and the broker exits: the loops end one after the    *)
(* other, if the tool serves and so follows its end of file, and the host  *)
(* reads what it is still given or is gone.                                *)
HangupEndsSession == ToolServes /\ HostListens => (~hostOpen ~> main = "exited")

(* A denied request gets its error even when requests before it had to     *)
(* wait for the pipe of a tool that serves, unless the loop has ended, if  *)
(* the host reads: the error waits behind every answer on the same pipe.   *)
DenialArrives ==
  ToolServes /\ HostListens => \A i \in 1..MaxHostLines :
    (i \in DOMAIN sent /\ sent[i].kind = "violation")
      ~> (Shown("deny", i) \/ ~hostReads \/ fpc = "done" \/ main = "exited")

(* With timeout_ms set the tool comes to its end (on Unix) whatever it and *)
(* the host do, and so does the session if the host reads: the report of   *)
(* the timeout is awaited without a limit.  The tool must keep its stdout  *)
(* while it runs and write no line that is not UTF-8: both would end the   *)
(* return task early, and the wait for the tool after that is not timed.   *)
KeepsStdout == toolUp => toolOut /\ \A i \in DOMAIN out : out[i].kind # "garbled"
TimeoutEndsSession ==
  config.timed /\ []KeepsStdout =>
    /\ config.unix => <>(~toolUp \/ Over)
    /\ HostListens => <>Over

(* With timeout_ms set the session comes to its end, whatever the tool     *)
(* does ("the entire session is subject to that wall-clock limit"), on     *)
(* Unix and for a host that reads everything.                              *)
TimeoutIsAbsolute == config.timed /\ config.unix /\ HostListens => <>Over
=============================================================================
