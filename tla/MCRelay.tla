------------------------------ MODULE MCRelay ------------------------------
(***************************************************************************)
(* Small sets of lines and configurations for the runs of Relay.           *)
(***************************************************************************)
EXTENDS RelayRefinement, TLC

Host(kinds, ids) == [kind : kinds, id : ids]
Tool(kinds, ids, secrets) == [kind : kinds, id : ids, secret : secrets]

(* Every way a host line is treated: "call" and "other" are forwarded like *)
(* "list".  The tool writes lines with or without a secret, or garbage.    *)
MCHostAll == Host({"empty", "garbled", "malformed", "list", "violation"}, {NoId})
MCToolBrief == Tool({"text"}, {NoId}, {"none", "within"}) \cup Tool({"garbled"}, {NoId}, {"none"})
MCStrictness == [scan : {"strict"}, limited : {FALSE}, strict : BOOLEAN,
                 annotate : {TRUE}, audited : {FALSE}, timed : {TRUE}, unix : {TRUE}]

(* Every place of a secret in both modes of the scan, against a host that  *)
(* sends a call or a violation.                                            *)
MCHostBrief == Host({"call", "violation"}, {NoId})
MCToolSecrets == Tool({"text"}, {NoId}, SecretPlace)
Scans(mode, limit, timing) ==
  [scan |-> mode, limited |-> limit, strict |-> FALSE,
   annotate |-> FALSE, audited |-> TRUE, timed |-> timing, unix |-> TRUE]
MCScans == {Scans("redact", TRUE, FALSE), Scans("redact", FALSE, FALSE),
            Scans("strict", TRUE, FALSE), Scans("strict", FALSE, TRUE)}

(* Listings and answers to other requests, ids reused by the host.         *)
MCHostLists == Host({"list", "other"}, Id)
MCToolLists == Tool({"listing", "response"}, Id, {"none"})
MCShield == [scan : {"disabled"}, limited : {FALSE}, strict : {FALSE},
             annotate : {TRUE}, audited : {FALSE}, timed : {FALSE}, unix : {TRUE}]
(* No action tells one id from another.                                    *)
MCIds == Permutations(Id)
=============================================================================
