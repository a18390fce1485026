-------------------------------- MODULE Gate --------------------------------
(***************************************************************************)
(* What a broker session promises, without its tasks, pipes and log: a     *)
(* gate between a host and a tool.  Each line the host writes is judged    *)
(* once, in order: it is passed to the tool, refused to the host, or       *)
(* skipped.  Each line the tool writes is settled once, in order: it is    *)
(* shown to the host, blocked, or skipped.  Nothing else crosses.          *)
(***************************************************************************)
EXTENDS Naturals, Sequences

CONSTANTS
  HostLine, ToolLine,  \* the lines of the two sides
  Passed, Refused,     \* the policy's verdict on the host's lines
  Final,               \* lines after which their side is read no more
  Skipped,             \* the tool's lines that are not for the host
  Filler               \* chunks that may stand between two answers

VARIABLES
  asked,     \* the lines the host wrote
  judged,    \* how many of them have been judged
  passed,    \* the positions of those that went to the tool
  said,      \* the lines the tool wrote
  settled,   \* how many of them have been settled
  seen,      \* the chunks the host was given, answers and filler
  hostThere, toolThere,  \* each side still takes what it is given
  blocks,    \* the tool's lines the host must not see
  scans,     \* the tool's lines are scanned for secrets
  stops      \* the first refusal ends the session

rules == <<blocks, scans, stops>>
vars == <<asked, judged, passed, said, settled, seen, hostThere, toolThere, rules>>

Init ==
  /\ asked = <<>> /\ judged = 0 /\ passed = <<>>
  /\ said = <<>> /\ settled = 0 /\ seen = <<>>
  /\ hostThere = TRUE /\ toolThere = TRUE
  /\ blocks \in SUBSET ToolLine /\ scans \in BOOLEAN /\ stops \in BOOLEAN

HostAsks(line) ==
  /\ asked' = Append(asked, line)
  /\ UNCHANGED <<judged, passed, said, settled, seen, hostThere, toolThere, rules>>

ToolSays(line) ==
  /\ said' = Append(said, line)
  /\ UNCHANGED <<asked, judged, passed, settled, seen, hostThere, toolThere, rules>>

(* An answer to a host that has gone is lost.  No answer shows a secret    *)
(* when answers are scanned, and only lines of the tool can be marked.     *)
Answer(origin, position) ==
  IF hostThere
    THEN \E marked, secret \in BOOLEAN :
           /\ secret => ~scans /\ origin = "tool"
           /\ marked => origin = "tool"
           /\ seen' = Append(seen, [from |-> origin, ref |-> position,
                                    marked |-> marked, secret |-> secret])
    ELSE UNCHANGED seen

Fill ==
  /\ \E chunk \in Filler : seen' = Append(seen, chunk)
  /\ UNCHANGED <<asked, judged, passed, said, settled, hostThere, toolThere, rules>>

(* Nothing is judged behind a line that ended the host's side.             *)
Judging ==
  /\ judged < Len(asked)
  /\ \A i \in 1..judged :
       asked[i] \notin Final /\ ~(stops /\ asked[i] \in Refused)
  /\ judged' = judged + 1

Pass ==
  /\ Judging /\ asked[judged + 1] \in Passed
  /\ passed' = Append(passed, judged + 1)
  /\ UNCHANGED <<asked, said, settled, seen, hostThere, toolThere, rules>>

(* A line can only be lost to a tool that has stopped listening.           *)
Lose ==
  /\ Judging /\ asked[judged + 1] \in Passed /\ ~toolThere
  /\ UNCHANGED <<asked, passed, said, settled, seen, hostThere, toolThere, rules>>

Refuse ==
  /\ Judging /\ asked[judged + 1] \in Refused
  /\ Answer("deny", judged + 1)
  /\ UNCHANGED <<asked, passed, said, settled, hostThere, toolThere, rules>>

Skip ==
  /\ Judging /\ asked[judged + 1] \notin Passed \cup Refused
  /\ UNCHANGED <<asked, passed, said, settled, seen, hostThere, toolThere, rules>>

Settling ==
  /\ settled < Len(said)
  /\ \A i \in 1..settled : said[i] \notin Final
  /\ settled' = settled + 1

Show ==
  /\ Settling /\ said[settled + 1] \notin Skipped
  /\ Answer(IF said[settled + 1] \in blocks THEN "block" ELSE "tool", settled + 1)
  /\ UNCHANGED <<asked, judged, passed, said, hostThere, toolThere, rules>>

Ignore ==
  /\ Settling /\ said[settled + 1] \in Skipped
  /\ UNCHANGED <<asked, judged, passed, said, seen, hostThere, toolThere, rules>>

HostLeaves ==
  /\ hostThere' = FALSE
  /\ UNCHANGED <<asked, judged, passed, said, settled, seen, toolThere, rules>>

ToolLeaves ==
  /\ toolThere' = FALSE
  /\ UNCHANGED <<asked, judged, passed, said, settled, seen, hostThere, rules>>

Next ==
  \/ \E line \in HostLine : HostAsks(line)
  \/ \E line \in ToolLine : ToolSays(line)
  \/ Pass \/ Lose \/ Refuse \/ Skip \/ Show \/ Ignore \/ Fill
  \/ HostLeaves \/ ToolLeaves

Spec == Init /\ [][Next]_vars
=============================================================================
