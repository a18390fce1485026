----------------------------- MODULE MCSession -----------------------------
(***************************************************************************)
(* Small sets of lines and configurations for the runs of Session.         *)
(***************************************************************************)
EXTENDS Session

MCHost == [kind : {"call", "violation"}, id : Id]
MCTool == [kind : {"response"}, id : Id, secret : {"none"}]
MCToolAll == MCTool \cup [kind : {"garbled"}, id : {NoId}, secret : {"none"}]

Plain(strictness, timing, platform) ==
  [scan : {"disabled"}, limited : {FALSE}, strict : strictness,
   annotate : {FALSE}, audited : {FALSE}, timed : timing, unix : platform]
(* The platform matters only to a timeout, which --strict may preclude.    *)
MCAnyConfig == Plain(BOOLEAN, {FALSE}, {TRUE}) \cup Plain({FALSE}, {TRUE}, BOOLEAN)
MCTimed == Plain({FALSE}, {TRUE}, {TRUE})
=============================================================================
