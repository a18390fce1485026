---------------------------- MODULE Relay_proofs ----------------------------
(***************************************************************************)
(* Proofs about module Relay, for every host, tool, bound and              *)
(* configuration.                                                          *)
(*                                                                         *)
(* What each task does: types, that the tool gets the admitted lines, that *)
(* strict mode stops, and what the host sees: the verdict of the scan, one *)
(* answer per line of the tool and one per denied request, each in order,  *)
(* whatever the other writers of stdout put in between.                    *)
(*                                                                         *)
(* What they do together: the audit log both write is neither behind them  *)
(* nor ahead of them by more than the act in hand; the set of tools/list   *)
(* ids one fills and the other empties marks the first answer to each      *)
(* listing that was asked for, and no other line; and every step of theirs *)
(* is, under the mapping of RelayRefinement, one step of Gate or none.     *)
(***************************************************************************)
EXTENDS RelayRefinement, FiniteSetTheorems, TLAPS

(* A line is being dealt with only after it was read.                      *)
Reading == fpc \in {"read", "done"} \/ nread > 0

TypeInv == TypeOK /\ Reading

LEMMA AppendType ==
  ASSUME NEW S, NEW s \in Seq(S), NEW e \in S
  PROVE  /\ Append(s, e) \in Seq(S)
         /\ Len(Append(s, e)) = Len(s) + 1
         /\ \A i \in 1..Len(s) : Append(s, e)[i] = s[i]
         /\ Append(s, e)[Len(s) + 1] = e
  OBVIOUS

LEMMA EmitType ==
  ASSUME hostOut \in Seq(Chunk), hostSeen \in 0..Len(hostOut), NEW chunk \in Chunk, Emit(chunk)
  PROVE  hostOut' \in Seq(Chunk) /\ hostSeen \in 0..Len(hostOut')
  BY AppendType DEF Emit

LEMMA RecordType ==
  ASSUME audit \in Seq(AuditEntry), NEW event \in Event, NEW ref \in Nat, Record(event, ref)
  PROVE  audit' \in Seq(AuditEntry)
<1> DEFINE entry == [event |-> event, ref |-> ref]
<1>1. entry \in AuditEntry
  BY DEF AuditEntry
<1>2. audit' = Append(audit, entry) \/ audit' = audit
  BY Zenon DEF Record
<1> HIDE DEF entry
<1> QED BY <1>1, <1>2

LEMMA InitType == Init => TypeInv
  BY RelayAssumption DEF Init, TypeInv, TypeOK, Reading, ForwardState, ReturnState

LEMMA ForwardType == TypeInv /\ (ForwardStep \/ StrictExit) => TypeInv'
<1> SUFFICES ASSUME TypeInv, ForwardStep \/ StrictExit PROVE TypeInv'
  OBVIOUS
<1> USE RelayAssumption DEF TypeInv, TypeOK, Reading, ForwardState, hostVars, forwardVars,
        toolVars, returnVars
<1>0. nread \in Nat /\ Newline \in Chunk /\ ErrorText("deny", nread) \in Chunk
  BY DEF Newline, ErrorText, Chunk
<1>1. CASE ReadHostLine
  <2> DEFINE line == sent[nread + 1]
  <2>1. line \in HostLine /\ line.kind \in HostKind /\ line.id \in Id \cup {NoId}
    BY <1>1 DEF ReadHostLine
  <2>2. listIds' \subseteq Id
    BY <1>1, <2>1 DEF ReadHostLine, Track
  <2>3. fpc' \in ForwardState /\ toolIn' \in BOOLEAN
    BY <1>1, <2>1 DEF ReadHostLine, Admit, HostKind
  <2>4. nread' \in 1..Len(sent) /\ inbox' \in Seq(1..nread')
    BY <1>1 DEF ReadHostLine
  <2> QED BY <1>1, <2>2, <2>3, <2>4 DEF ReadHostLine
<1>2. CASE HostEof
  BY <1>2 DEF HostEof
<1>3. CASE AuditInvoke
  BY <1>0, <1>3, RecordType DEF AuditInvoke, Event
<1>4. CASE WriteToTool
  BY <1>4, AppendType DEF WriteToTool
<1>5. CASE WriteToToolFails
  BY <1>5 DEF WriteToToolFails
<1>6. CASE AuditViolation
  BY <1>0, <1>6, RecordType DEF AuditViolation, Event
<1>7. CASE DenyText
  BY <1>0, <1>7, EmitType DEF DenyText
<1>8. CASE DenyNewline
  BY <1>0, <1>8, EmitType DEF DenyNewline, AfterDenial
<1>9. CASE StrictExit
  BY <1>9 DEF StrictExit
<1> QED BY <1>1, <1>2, <1>3, <1>4, <1>5, <1>6, <1>7, <1>8, <1>9 DEF ForwardStep

LEMMA ReturnType ==
  TypeInv /\ (ReturnStep \/ NoticeText \/ NoticeNewline \/ Cease) => TypeInv'
<1> SUFFICES ASSUME TypeInv, ReturnStep \/ NoticeText \/ NoticeNewline \/ Cease PROVE TypeInv'
  OBVIOUS
<1> USE RelayAssumption DEF TypeInv, TypeOK, Reading, ReturnState, hostVars, forwardVars,
        toolVars, returnVars
<1>0. /\ taken \in Nat /\ Newline \in Chunk /\ ErrorText("block", taken) \in Chunk
      /\ ErrorText("timeout", 0) \in Chunk
      /\ [from |-> "tool", ref |-> taken, marked |-> reply.marked, secret |-> reply.secret] \in Chunk
  BY DEF Newline, ErrorText, Chunk
<1>1. CASE TakeToolLine
  <2> DEFINE line == out[taken + 1]
  <2>1. line \in ToolLine /\ line.id \in Id \cup {NoId}
    BY <1>1 DEF TakeToolLine
  <2>2. listIds' \subseteq Id
    BY <1>1 DEF TakeToolLine, Untrack
  <2>3. rpc' \in ReturnState /\ reply' \in [marked : BOOLEAN, secret : BOOLEAN]
    BY <1>1, <2>1 DEF TakeToolLine, Tracked, SecretLeft
  <2> QED BY <1>1, <2>2, <2>3 DEF TakeToolLine
<1>2. CASE ToolEof
  BY <1>2 DEF ToolEof
<1>3. CASE ScanClean
  BY <1>3 DEF ScanClean
<1>4. CASE ScanDetects
  BY <1>0, <1>4, RecordType DEF ScanDetects, AfterDetection, Event
<1>5. CASE AuditResponse
  BY <1>0, <1>5, RecordType DEF AuditResponse, Event
<1>6. CASE ReturnText
  BY <1>0, <1>6, EmitType DEF ReturnText
<1>7. CASE ReturnNewline
  BY <1>0, <1>7, EmitType DEF ReturnNewline
<1>8. CASE NoticeText
  BY <1>0, <1>8, EmitType DEF NoticeText
<1>9. CASE NoticeNewline
  BY <1>0, <1>9, EmitType DEF NoticeNewline
<1>10. CASE Cease
  <2>1. /\ live' = FALSE /\ toolIn' = FALSE
        /\ UNCHANGED <<hostVars, nread, fpc, toolVars, returnVars, listIds, hostOut, notice, audit, config>>
    BY <1>10 DEF Cease
  <2>2. /\ UNCHANGED <<sent, hostOpen, hostReads, hostSeen, nread, fpc, inbox, consumed>>
        /\ UNCHANGED <<toolUp, toolListens, toolOut, out, taken, rpc, reply>>
        /\ UNCHANGED <<listIds, hostOut, notice, audit, config>>
    BY <2>1
  <2> QED BY <2>1, <2>2
<1> QED BY <1>1, <1>2, <1>3, <1>4, <1>5, <1>6, <1>7, <1>8, <1>9, <1>10 DEF ReturnStep

LEMMA PartnerType == TypeInv /\ (HostStep \/ ToolStep \/ ToolExits) => TypeInv'
<1> SUFFICES ASSUME TypeInv, HostStep \/ ToolStep \/ ToolExits PROVE TypeInv'
  OBVIOUS
<1> USE DEF TypeInv, TypeOK, Reading, hostVars, forwardVars, toolVars, returnVars
<1>1. ASSUME NEW line \in HostLine, HostSends(line) PROVE TypeInv'
  BY <1>1 DEF HostSends
<1>2. CASE HostCloses
  BY <1>2 DEF HostCloses
<1>3. CASE HostDies
  BY <1>3 DEF HostDies
<1>8. CASE HostTakes
  BY <1>8 DEF HostTakes
<1>4. CASE ToolReads
  BY <1>4 DEF ToolReads
<1>5. ASSUME NEW line \in ToolLine, ToolWrites(line) PROVE TypeInv'
  BY <1>5 DEF ToolWrites
<1>6. CASE ToolClosesStdin \/ ToolClosesStdout
  BY <1>6 DEF ToolClosesStdin, ToolClosesStdout
<1>7. CASE ToolExits
  BY <1>7 DEF ToolExits
<1> QED BY <1>1, <1>2, <1>3, <1>4, <1>5, <1>6, <1>7, <1>8 DEF HostStep, ToolStep

LEMMA NextType == TypeInv /\ [Next]_vars => TypeInv'
<1>1. TypeInv /\ UNCHANGED vars => TypeInv'
  BY DEF TypeInv, TypeOK, Reading, vars, hostVars, forwardVars, toolVars, returnVars
<1> QED BY <1>1, ForwardType, ReturnType, PartnerType DEF Next

(* The variables of a session keep their types (proxy.rs): what a task     *)
(* points at has been read, and an inbox holds only lines that were read.  *)
THEOREM TypeCorrect == Spec => []TypeOK
<1>1. Spec => []TypeInv
  BY InitType, NextType, PTL DEF Spec
<1> QED BY <1>1, PTL DEF TypeInv

-----------------------------------------------------------------------------
(* What the forwarding task knows of the line it holds, and, in strict     *)
(* mode, of the lines behind it.                                           *)
Holding == {"allow", "write", "raw"}
Denying == {"deny", "denyText", "denyNewline", "exit"}

HeldIsNext ==
  fpc \in Holding =>
    sent[nread].kind \in Admitted /\ \A k \in DOMAIN inbox : inbox[k] < nread

OnlyAdmitted == \A k \in DOMAIN inbox : sent[inbox[k]].kind \in Admitted
InOrder == \A j, k \in DOMAIN inbox : j < k => inbox[j] < inbox[k]
NoneMissing ==
  \A i \in 1..nread :
    sent[i].kind \in Admitted => Delivered(i) \/ (i = nread /\ fpc \in Holding) \/ ~toolListens

ViolationIsLast ==
  config.strict => \A i \in 1..nread : sent[i].kind = "violation" => i = nread /\ fpc \in Denying

ForwardInv ==
  /\ TypeInv /\ HeldIsNext /\ OnlyAdmitted /\ InOrder /\ NoneMissing /\ ViolationIsLast

forwardView == <<sent, nread, fpc, inbox, toolListens, config>>

LEMMA ForwardInit == Init => ForwardInv
  BY InitType DEF Init, ForwardInv, HeldIsNext, OnlyAdmitted, InOrder, NoneMissing,
     ViolationIsLast, Holding

LEMMA ForwardFrame ==
  ForwardInv /\ TypeInv' /\ UNCHANGED forwardView => ForwardInv'
  BY DEF ForwardInv, HeldIsNext, OnlyAdmitted, InOrder, NoneMissing, ViolationIsLast,
     Delivered, forwardView

LEMMA ForwardRead == ForwardInv /\ TypeInv' /\ ReadHostLine => ForwardInv'
<1> SUFFICES ASSUME ForwardInv, TypeInv', ReadHostLine PROVE ForwardInv'
  OBVIOUS
<1>1. /\ fpc = "read" /\ nread \in Nat /\ nread' = nread + 1 /\ nread' =< Len(sent)
      /\ fpc' = Admit(sent[nread'])
      /\ sent' = sent /\ inbox' = inbox /\ toolListens' = toolListens /\ config' = config
      /\ inbox \in Seq(1..nread)
  BY DEF ForwardInv, TypeInv, TypeOK, ReadHostLine, hostVars, toolVars
<1>2. sent[nread'] \in HostLine /\ sent[nread'].kind \in HostKind
  BY <1>1, RelayAssumption DEF ForwardInv, TypeInv, TypeOK
<1>3. /\ fpc' \in Holding <=> sent[nread'].kind \in Admitted
      /\ fpc' \in Denying <=> sent[nread'].kind = "violation"
  BY <1>1, <1>2 DEF Admit, Holding, Denying, Admitted, HostKind
<1>4. HeldIsNext'
  BY <1>1, <1>3 DEF HeldIsNext
<1>5. OnlyAdmitted' /\ InOrder'
  BY <1>1 DEF ForwardInv, OnlyAdmitted, InOrder
<1>6. NoneMissing'
  BY <1>1, <1>3 DEF ForwardInv, NoneMissing, Delivered, Holding
<1>7. ViolationIsLast'
  BY <1>1, <1>3 DEF ForwardInv, ViolationIsLast, Denying
<1> QED BY <1>4, <1>5, <1>6, <1>7 DEF ForwardInv

LEMMA ForwardWrite == ForwardInv /\ TypeInv' /\ WriteToTool => ForwardInv'
<1> SUFFICES ASSUME ForwardInv, TypeInv', WriteToTool PROVE ForwardInv'
  OBVIOUS
<1>1. /\ fpc \in Holding /\ fpc' = "read" /\ inbox' = Append(inbox, nread)
      /\ sent' = sent /\ nread' = nread /\ toolListens' = toolListens /\ config' = config
      /\ nread \in 1..Len(sent) /\ inbox \in Seq(1..nread)
  BY DEF ForwardInv, TypeInv, TypeOK, Reading, WriteToTool, Holding, hostVars
<1>2. /\ Len(inbox') = Len(inbox) + 1 /\ inbox'[Len(inbox')] = nread
      /\ \A k \in 1..Len(inbox) : inbox'[k] = inbox[k]
      /\ DOMAIN inbox = 1..Len(inbox) /\ DOMAIN inbox' = 1..Len(inbox')
      /\ Len(inbox) \in Nat
  BY <1>1
<1>3. sent[nread].kind \in Admitted /\ \A k \in DOMAIN inbox : inbox[k] < nread
  BY <1>1 DEF ForwardInv, HeldIsNext
<1>4. HeldIsNext'
  BY <1>1 DEF HeldIsNext, Holding
<1>5. OnlyAdmitted'
  BY <1>1, <1>2, <1>3 DEF ForwardInv, OnlyAdmitted
<1>6. InOrder'
  BY <1>2, <1>3 DEF ForwardInv, InOrder
<1>7. NoneMissing'
  <2>1. ASSUME NEW i \in 1..nread, Delivered(i) PROVE Delivered(i)'
    <3>1. PICK k \in DOMAIN inbox : inbox[k] = i
      BY <2>1 DEF Delivered
    <3>2. k \in DOMAIN inbox' /\ inbox'[k] = i
      BY <1>2, <3>1
    <3> QED BY <3>2 DEF Delivered
  <2>2. Delivered(nread)'
    <3>1. Len(inbox') \in DOMAIN inbox' /\ inbox'[Len(inbox')] = nread'
      BY <1>1, <1>2
    <3> QED BY <1>1, <3>1 DEF Delivered
  <2> QED BY <1>1, <2>1, <2>2 DEF ForwardInv, NoneMissing
<1>8. ViolationIsLast'
  BY <1>1 DEF ForwardInv, ViolationIsLast, Holding, Denying
<1> QED BY <1>4, <1>5, <1>6, <1>7, <1>8 DEF ForwardInv

LEMMA ForwardOther ==
  ASSUME ForwardInv, TypeInv',
         HostEof \/ AuditInvoke \/ WriteToToolFails \/ AuditViolation \/ DenyText \/ DenyNewline
  PROVE  ForwardInv'
<1> USE DEF ForwardInv, HeldIsNext, OnlyAdmitted, InOrder, NoneMissing, ViolationIsLast,
        Holding, Denying, Delivered, hostVars, toolVars
<1>1. CASE HostEof
  BY <1>1 DEF HostEof
<1>2. CASE AuditInvoke
  BY <1>2 DEF AuditInvoke
<1>3. CASE WriteToToolFails
  BY <1>3 DEF WriteToToolFails
<1>4. CASE AuditViolation
  BY <1>4 DEF AuditViolation
<1>5. CASE DenyText
  BY <1>5 DEF DenyText
<1>6. CASE DenyNewline
  BY <1>6 DEF DenyNewline, AfterDenial
<1> QED BY <1>1, <1>2, <1>3, <1>4, <1>5, <1>6

LEMMA ForwardPartners ==
  ASSUME ForwardInv, TypeInv', HostStep \/ ToolStep \/ ToolExits
  PROVE  ForwardInv'
<1>1. ASSUME NEW line \in HostLine, HostSends(line) PROVE ForwardInv'
  <2>1. /\ sent' = Append(sent, line) /\ sent \in Seq(HostLine)
        /\ nread \in 0..Len(sent) /\ inbox \in Seq(1..nread)
        /\ UNCHANGED <<nread, fpc, inbox, toolListens, config>>
    BY <1>1 DEF ForwardInv, TypeInv, TypeOK, HostSends, forwardVars, toolVars
  <2>2. \A i \in 1..nread : sent'[i] = sent[i]
    BY <2>1
  <2>3. fpc \in Holding => nread \in 1..nread
    BY DEF ForwardInv, TypeInv, TypeOK, Reading, Holding
  <2>4. HeldIsNext'
    BY <2>1, <2>2, <2>3 DEF ForwardInv, HeldIsNext
  <2>5. OnlyAdmitted' /\ InOrder'
    BY <2>1, <2>2 DEF ForwardInv, OnlyAdmitted, InOrder
  <2>6. NoneMissing' /\ ViolationIsLast'
    BY <2>1, <2>2 DEF ForwardInv, NoneMissing, ViolationIsLast, Delivered
  <2> QED BY <2>4, <2>5, <2>6 DEF ForwardInv
<1>2. CASE ToolClosesStdin \/ ToolExits
  BY <1>2 DEF ToolClosesStdin, ToolExits, ForwardInv, HeldIsNext, OnlyAdmitted, InOrder,
     NoneMissing,
     ViolationIsLast, Delivered, hostVars, forwardVars
<1>3. CASE \/ HostCloses \/ HostDies \/ HostTakes
          \/ ToolReads \/ (\E line \in ToolLine : ToolWrites(line)) \/ ToolClosesStdout
  <2>1. UNCHANGED forwardView
    BY <1>3 DEF HostCloses, HostDies, HostTakes, ToolReads, ToolWrites, ToolClosesStdout,
       forwardView, forwardVars, toolVars, hostVars
  <2> QED BY <2>1, ForwardFrame
<1> QED BY <1>1, <1>2, <1>3 DEF HostStep, ToolStep

LEMMA ForwardNext == ForwardInv /\ [Next]_vars => ForwardInv'
<1> SUFFICES ASSUME ForwardInv, [Next]_vars PROVE ForwardInv'
  OBVIOUS
<1>1. TypeInv'
  BY NextType DEF ForwardInv
<1>2. CASE ForwardStep
  BY <1>1, <1>2, ForwardRead, ForwardWrite, ForwardOther DEF ForwardStep
<1>3. CASE HostStep \/ ToolStep \/ ToolExits
  BY <1>1, <1>3, ForwardPartners
<1>4. CASE StrictExit \/ ReturnStep \/ NoticeText \/ NoticeNewline \/ Cease \/ UNCHANGED vars
  <2>1. UNCHANGED forwardView
    BY <1>4 DEF StrictExit, ReturnStep, NoticeText, NoticeNewline, Cease, TakeToolLine, ToolEof,
       ScanClean, ScanDetects, AuditResponse, ReturnText, ReturnNewline,
       forwardView, vars, forwardVars, toolVars, hostVars
  <2> QED BY <1>1, <2>1, ForwardFrame
<1> QED BY <1>2, <1>3, <1>4 DEF Next

(* Whatever the host writes and however the tasks interleave, the tool     *)
(* receives admitted lines only, in order and once, and misses one only    *)
(* when it was gone (forward_host_to_tool).                                *)
THEOREM ForwardingCorrect == Spec => []ForwardsFaithfully
<1>1. ForwardInv => ForwardsFaithfully
  BY DEF ForwardInv, OnlyAdmitted, InOrder, NoneMissing, Holding, ForwardsFaithfully
<1> QED BY <1>1, ForwardInit, ForwardNext, PTL DEF Spec

(* With --strict no line that the host wrote after a violation ever        *)
(* reaches the tool (handle_denied_message).                               *)
THEOREM StrictCorrect == Spec => []StrictStops
<1>1. ForwardInv => StrictStops
  <2> SUFFICES ASSUME ForwardInv, config.strict, NEW k \in DOMAIN inbox, NEW i \in 1..inbox[k]
               PROVE  sent[i].kind # "violation"
    BY DEF StrictStops
  <2>1. inbox[k] \in 1..nread /\ nread \in Nat
    BY DEF ForwardInv, TypeInv, TypeOK
  <2>2. sent[inbox[k]].kind # "violation"
    BY DEF ForwardInv, OnlyAdmitted, Admitted
  <2>3. sent[i].kind = "violation" => i = nread
    BY <2>1 DEF ForwardInv, ViolationIsLast
  <2> QED BY <2>1, <2>2, <2>3
<1> QED BY <1>1, ForwardInit, ForwardNext, PTL DEF Spec

-----------------------------------------------------------------------------
(* What the host sees.                                                     *)

(* Most steps leave hostOut alone or add to it; both are told by Grows.    *)
Grows(chunk) ==
  \/ hostOut' = hostOut
  \/ hostOut' = Append(hostOut, chunk)

LEMMA EmitGrows ==
  ASSUME NEW chunk, Emit(chunk)
  PROVE  Grows(chunk) /\ (hostReads => hostOut' = Append(hostOut, chunk))
  BY DEF Emit, Grows

LEMMA GrownParts ==
  ASSUME hostOut \in Seq(Chunk), NEW chunk \in Chunk, Grows(chunk)
  PROVE  /\ \A k \in DOMAIN hostOut : k \in DOMAIN hostOut' /\ hostOut'[k] = hostOut[k]
         /\ \A k \in DOMAIN hostOut' :
              \/ k \in DOMAIN hostOut /\ hostOut'[k] = hostOut[k]
              \/ /\ hostOut'[k] = chunk /\ hostOut' = Append(hostOut, chunk)
                 /\ \A j \in DOMAIN hostOut : j < k
                 /\ k \notin DOMAIN hostOut
         /\ DOMAIN hostOut \subseteq Nat /\ DOMAIN hostOut' \subseteq Nat
  BY AppendType DEF Grows

LEMMA StillShown ==
  ASSUME hostOut \in Seq(Chunk), NEW chunk \in Chunk, Grows(chunk),
         NEW from, NEW ref, Shown(from, ref)
  PROVE  Shown(from, ref)'
<1>1. PICK k \in DOMAIN hostOut : hostOut[k].from = from /\ hostOut[k].ref = ref
  BY DEF Shown
<1>2. k \in DOMAIN hostOut' /\ hostOut'[k] = hostOut[k]
  BY GrownParts
<1> QED BY <1>1, <1>2 DEF Shown

LEMMA NowShown ==
  ASSUME hostOut \in Seq(Chunk), NEW chunk \in Chunk, hostOut' = Append(hostOut, chunk)
  PROVE  \E k \in DOMAIN hostOut' : hostOut'[k] = chunk
<1>1. Len(hostOut') \in DOMAIN hostOut' /\ hostOut'[Len(hostOut')] = chunk
  BY AppendType
<1> QED BY <1>1

-----------------------------------------------------------------------------
(* What the steps of the tasks leave alone.                                *)

LEMMA TasksFrame ==
  ASSUME ForwardStep \/ ReturnStep
  PROVE  /\ live /\ live' = live /\ toolUp' = toolUp /\ notice' = notice
         /\ sent' = sent /\ out' = out /\ config' = config
  BY DEF ForwardStep, ReadHostLine, HostEof, AuditInvoke, WriteToTool, WriteToToolFails,
     AuditViolation, DenyText, DenyNewline, ReturnStep, TakeToolLine, ToolEof, ScanClean,
     ScanDetects, AuditResponse, ReturnText, ReturnNewline, hostVars, toolVars, returnVars

LEMMA PartnersFrame ==
  ASSUME TypeInv, HostStep \/ ToolStep
  PROVE  /\ live' = live /\ nread' = nread /\ fpc' = fpc /\ rpc' = rpc /\ taken' = taken
         /\ toolUp' = toolUp
         /\ notice' = notice /\ hostOut' = hostOut /\ inbox' = inbox /\ config' = config
         /\ \A i \in DOMAIN sent : i \in DOMAIN sent' /\ sent'[i] = sent[i]
         /\ rpc = "done" => out' = out
<1>1. CASE \E line \in HostLine : HostSends(line)
  <2> PICK line \in HostLine : HostSends(line)
    BY <1>1
  <2>1. sent \in Seq(HostLine) /\ sent' = Append(sent, line)
    BY DEF HostSends, TypeInv, TypeOK
  <2>2. \A i \in DOMAIN sent : i \in DOMAIN sent' /\ sent'[i] = sent[i]
    BY <2>1, AppendType
  <2> QED BY <2>2 DEF HostSends, forwardVars, toolVars, returnVars
<1>2. CASE HostCloses \/ HostDies \/ HostTakes
  BY <1>2 DEF HostCloses, HostDies, HostTakes, forwardVars, toolVars, returnVars
<1>3. CASE ToolStep
  BY <1>3 DEF ToolStep, ToolReads, ToolWrites, ToolClosesStdin, ToolClosesStdout, hostVars,
     forwardVars, returnVars
<1> QED BY <1>1, <1>2, <1>3 DEF HostStep

-----------------------------------------------------------------------------
(* What the return task knows of the line it has in hand, and how the      *)
(* texts on stdout relate to the lines it has taken.                       *)
InHand == {"scan", "audit", "text", "block"}
FromTool(chunk) == chunk.from \in {"tool", "block"}

ReplyJudged ==
  /\ rpc \in InHand => taken > 0
  /\ rpc = "scan" => reply.secret = SecretLeft(out[taken])
  /\ rpc \in {"audit", "text"} =>
       /\ config.scan # "disabled" => ~reply.secret
       /\ config.scan = "strict" => ~SecretLeft(out[taken])
  /\ rpc = "block" => config.scan = "strict" /\ SecretLeft(out[taken])

ShownWereTaken ==
  \A k \in DOMAIN hostOut :
    FromTool(hostOut[k]) =>
      /\ hostOut[k].ref \in 1..taken
      /\ rpc \in InHand => hostOut[k].ref < taken

ShownInTurn ==
  \A j, k \in DOMAIN hostOut :
    j < k /\ FromTool(hostOut[j]) /\ FromTool(hostOut[k]) => hostOut[j].ref < hostOut[k].ref

NoneSwallowed ==
  \A i \in 1..taken :
    out[i].kind \notin {"empty", "garbled"} =>
      \/ Shown("tool", i) \/ Shown("block", i) \/ ~hostReads
      \/ i = taken /\ rpc \in InHand

ReturnInv ==
  /\ TypeInv /\ ReplyJudged /\ ScanVerdict /\ ShownWereTaken /\ ShownInTurn /\ NoneSwallowed

LEMMA ReturnInit == Init => ReturnInv
  BY InitType DEF Init, ReturnInv, ReplyJudged, ScanVerdict, ShownWereTaken, ShownInTurn,
     NoneSwallowed, InHand

(* A step that neither takes a line nor shows one: the lines taken stay    *)
(* what they are, and a chunk of another writer may come.                  *)
LEMMA ReturnFrame ==
  ASSUME ReturnInv, TypeInv', ReplyJudged',
         taken' = taken, config' = config, rpc' \in InHand <=> rpc \in InHand,
         \A i \in 1..taken : out'[i] = out[i],
         hostReads' => hostReads,
         NEW chunk \in Chunk, ~FromTool(chunk), ~chunk.secret, Grows(chunk)
  PROVE  ReturnInv'
<1>1. hostOut \in Seq(Chunk) /\ taken \in Nat
  BY DEF ReturnInv, TypeInv, TypeOK
<1>2. ShownWereTaken'
  BY <1>1, GrownParts DEF ReturnInv, ShownWereTaken
<1>3. ShownInTurn'
  BY <1>1, GrownParts DEF ReturnInv, ShownInTurn
<1>4. ScanVerdict'
  <2>1. \A k \in DOMAIN hostOut : FromTool(hostOut[k]) => out'[hostOut[k].ref] = out[hostOut[k].ref]
    BY DEF ReturnInv, ShownWereTaken
  <2> QED BY <1>1, <2>1, GrownParts DEF ReturnInv, ScanVerdict, FromTool, SecretLeft
<1>5. NoneSwallowed'
  <2> SUFFICES ASSUME NEW i \in 1..taken, out[i].kind \notin {"empty", "garbled"}
               PROVE  \/ Shown("tool", i)' \/ Shown("block", i)' \/ ~hostReads'
                      \/ i = taken /\ rpc' \in InHand
    BY DEF NoneSwallowed
  <2> QED BY <1>1, StillShown DEF ReturnInv, NoneSwallowed
<1> QED BY <1>2, <1>3, <1>4, <1>5 DEF ReturnInv

(* What the task knows of its line does not depend on the other tasks.     *)
LEMMA StillJudged ==
  ASSUME ReturnInv, rpc' = rpc, reply' = reply, taken' = taken, config' = config,
         \A i \in 1..taken : out'[i] = out[i]
  PROVE  ReplyJudged'
<1>1. rpc \in InHand => out'[taken] = out[taken]
  BY DEF ReturnInv, ReplyJudged, TypeInv, TypeOK
<1> QED BY <1>1 DEF ReturnInv, ReplyJudged, InHand, SecretLeft

LEMMA NewlineChunk == Newline \in Chunk /\ ~FromTool(Newline) /\ ~Newline.secret
  BY DEF Newline, Chunk, FromTool

LEMMA ErrorChunk ==
  ASSUME NEW from \in {"deny", "timeout"}, NEW ref \in Nat
  PROVE  /\ ErrorText(from, ref) \in Chunk
         /\ ~FromTool(ErrorText(from, ref)) /\ ~ErrorText(from, ref).secret
  BY DEF ErrorText, Chunk, FromTool

LEMMA ReturnTake == ReturnInv /\ TypeInv' /\ TakeToolLine => ReturnInv'
<1> SUFFICES ASSUME ReturnInv, TypeInv', TakeToolLine PROVE ReturnInv'
  OBVIOUS
<1>1. /\ rpc = "read" /\ taken \in Nat /\ taken' = taken + 1
      /\ out' = out /\ config' = config /\ hostOut' = hostOut /\ hostReads' = hostReads
      /\ rpc' = CASE out[taken'].kind = "empty" -> "read"
                  [] out[taken'].kind = "garbled" -> "done"
                  [] OTHER -> "scan"
      /\ reply'.secret = SecretLeft(out[taken'])
      /\ hostOut \in Seq(Chunk)
  BY DEF ReturnInv, TypeInv, TypeOK, TakeToolLine, hostVars, toolVars
<1>2. rpc' \in {"read", "done", "scan"}
  BY <1>1
<1>3. ReplyJudged'
  BY <1>1, <1>2 DEF ReplyJudged, InHand, SecretLeft
<1>4. ScanVerdict'
  BY <1>1 DEF ReturnInv, ScanVerdict, SecretLeft
<1>5. ShownWereTaken' /\ ShownInTurn'
  BY <1>1 DEF ReturnInv, ShownWereTaken, ShownInTurn, FromTool
<1>6. NoneSwallowed'
  BY <1>1 DEF ReturnInv, NoneSwallowed, Shown, InHand
<1> QED BY <1>3, <1>4, <1>5, <1>6 DEF ReturnInv

LEMMA ReturnShow == ReturnInv /\ TypeInv' /\ ReturnText => ReturnInv'
<1> SUFFICES ASSUME ReturnInv, TypeInv', ReturnText PROVE ReturnInv'
  OBVIOUS
<1> DEFINE chunk == IF rpc = "block"
                      THEN ErrorText("block", taken)
                      ELSE [from |-> "tool", ref |-> taken, marked |-> reply.marked,
                            secret |-> reply.secret]
<1>1. /\ rpc \in {"text", "block"} /\ rpc' = "newline" /\ Emit(chunk)
      /\ UNCHANGED <<taken, out, config, reply, hostReads>>
      /\ hostOut \in Seq(Chunk) /\ taken \in Nat /\ taken > 0
      /\ reply \in [marked : BOOLEAN, secret : BOOLEAN]
  BY DEF ReturnInv, ReplyJudged, InHand, TypeInv, TypeOK, ReturnText, hostVars, toolVars
<1>2. /\ chunk \in Chunk /\ chunk.ref = taken
      /\ chunk.from = IF rpc = "block" THEN "block" ELSE "tool"
      /\ chunk.secret <=> (rpc # "block" /\ reply.secret)
  BY <1>1 DEF ErrorText, Chunk
<1>3. /\ config.scan # "disabled" => ~chunk.secret
      /\ chunk.from = "block" => config.scan = "strict" /\ SecretLeft(out[chunk.ref])
      /\ chunk.from = "tool" /\ config.scan = "strict" => ~SecretLeft(out[chunk.ref])
  BY <1>1, <1>2 DEF ReturnInv, ReplyJudged
<1>4. \A k \in DOMAIN hostOut : FromTool(hostOut[k]) => hostOut[k].ref \in 1..(taken - 1)
  BY <1>1 DEF ReturnInv, ShownWereTaken, InHand
<1> HIDE DEF chunk
<1>5. Grows(chunk)
  BY <1>1, EmitGrows
<1>6. ReplyJudged'
  BY <1>1 DEF ReplyJudged, InHand
<1>7. ScanVerdict'
  BY <1>1, <1>2, <1>3, <1>5, GrownParts DEF ReturnInv, ScanVerdict, SecretLeft
<1>8. ShownWereTaken'
  BY <1>1, <1>2, <1>4, <1>5, GrownParts DEF ShownWereTaken, InHand
<1>9. ShownInTurn'
  BY <1>1, <1>2, <1>4, <1>5, GrownParts DEF ReturnInv, ShownInTurn
<1>10. NoneSwallowed'
  <2>1. ASSUME NEW i \in 1..taken, i # taken, out[i].kind \notin {"empty", "garbled"}
        PROVE  Shown("tool", i)' \/ Shown("block", i)' \/ ~hostReads'
    BY <1>1, <1>2, <1>5, <2>1, StillShown DEF ReturnInv, NoneSwallowed
  <2>2. Shown("tool", taken)' \/ Shown("block", taken)' \/ ~hostReads'
    <3>1. hostReads => \E k \in DOMAIN hostOut' : hostOut'[k] = chunk
      BY <1>1, <1>2, EmitGrows, NowShown
    <3> QED BY <1>1, <1>2, <3>1 DEF Shown
  <2> QED BY <1>1, <2>1, <2>2 DEF NoneSwallowed
<1> QED BY <1>6, <1>7, <1>8, <1>9, <1>10 DEF ReturnInv

LEMMA ReturnOther ==
  ASSUME ReturnInv, TypeInv',
         ToolEof \/ ScanClean \/ ScanDetects \/ AuditResponse \/ ReturnNewline
  PROVE  ReturnInv'
<1>1. /\ taken' = taken /\ config' = config /\ out' = out /\ hostReads' = hostReads
      /\ rpc' \in InHand <=> rpc \in InHand
      /\ Grows(Newline)
  BY EmitGrows DEF ToolEof, ScanClean, ScanDetects, AfterDetection, AuditResponse, ReturnNewline,
     Grows, InHand, hostVars, toolVars
<1>2. reply \in [marked : BOOLEAN, secret : BOOLEAN]
  BY DEF ReturnInv, TypeInv, TypeOK
<1>3. ReplyJudged'
  <2> USE <1>1 DEF ReturnInv, ReplyJudged, InHand, SecretLeft, toolVars
  <2>1. CASE ToolEof \/ ReturnNewline
    BY <2>1 DEF ToolEof, ReturnNewline
  <2>2. CASE ScanClean
    BY <2>2 DEF ScanClean, Detected
  <2>3. CASE ScanDetects
    BY <1>2, <2>3 DEF ScanDetects, Detected, AfterDetection
  <2>4. CASE AuditResponse
    BY <2>4 DEF AuditResponse
  <2> QED BY <2>1, <2>2, <2>3, <2>4
<1> QED BY <1>1, <1>3, ReturnFrame, NewlineChunk DEF ReturnInv, TypeInv, TypeOK

(* The other writers of stdout, and the steps that write nothing.          *)
LEMMA ReturnWriters ==
  ASSUME ReturnInv, TypeInv', DenyText \/ DenyNewline \/ NoticeText \/ NoticeNewline
  PROVE  ReturnInv'
<1>1. UNCHANGED <<taken, config, out, hostReads, rpc, reply>>
  BY DEF DenyText, DenyNewline, NoticeText, NoticeNewline, hostVars, toolVars, returnVars
<1>2. ReplyJudged'
  BY <1>1, StillJudged
<1>3. nread \in Nat
  BY DEF ReturnInv, TypeInv, TypeOK
<1>4. CASE DenyNewline \/ NoticeNewline
  <2>1. Grows(Newline)
    BY <1>4, EmitGrows DEF DenyNewline, NoticeNewline
  <2> QED BY <1>1, <1>2, <2>1, ReturnFrame, NewlineChunk
<1>5. CASE DenyText
  <2>1. Grows(ErrorText("deny", nread))
    BY <1>5, EmitGrows DEF DenyText
  <2> QED BY <1>1, <1>2, <1>3, <2>1, ReturnFrame, ErrorChunk
<1>6. CASE NoticeText
  <2>1. Grows(ErrorText("timeout", 0))
    BY <1>6, EmitGrows DEF NoticeText
  <2> QED BY <1>1, <1>2, <2>1, ReturnFrame, ErrorChunk
<1> QED BY <1>4, <1>5, <1>6

LEMMA ReturnBystanders ==
  ASSUME ReturnInv, TypeInv', UNCHANGED <<taken, config, rpc, reply, hostOut>>,
         \A i \in 1..taken : out'[i] = out[i], hostReads' => hostReads
  PROVE  ReturnInv'
  BY ReturnFrame, StillJudged, NewlineChunk DEF Grows

LEMMA ReturnNext == ReturnInv /\ [Next]_vars => ReturnInv'
<1> SUFFICES ASSUME ReturnInv, [Next]_vars PROVE ReturnInv'
  OBVIOUS
<1>1. TypeInv'
  BY NextType DEF ReturnInv
<1>2. out \in Seq(ToolLine) /\ taken \in 0..Len(out)
  BY DEF ReturnInv, TypeInv, TypeOK
<1>3. CASE ReturnStep
  BY <1>1, <1>3, ReturnTake, ReturnShow, ReturnOther DEF ReturnStep
<1>4. CASE DenyText \/ DenyNewline \/ NoticeText \/ NoticeNewline
  BY <1>1, <1>4, ReturnWriters
<1>5. CASE ReadHostLine \/ HostEof \/ AuditInvoke \/ WriteToTool \/ WriteToToolFails
             \/ AuditViolation \/ StrictExit \/ Cease
  <2>1. UNCHANGED <<taken, config, rpc, reply, hostOut, out, hostReads>>
    BY <1>5 DEF ReadHostLine, HostEof, AuditInvoke, WriteToTool, WriteToToolFails,
       AuditViolation, StrictExit, Cease, hostVars, toolVars, returnVars
  <2> QED BY <1>1, <2>1, ReturnBystanders
<1>6. CASE HostStep \/ ToolExits \/ UNCHANGED vars
  <2>1. UNCHANGED <<taken, config, rpc, reply, hostOut, out>> /\ (hostReads' => hostReads)
    BY <1>6 DEF HostStep, HostSends, HostCloses, HostDies, HostTakes, ToolExits, vars, hostVars,
       toolVars, returnVars
  <2> QED BY <1>1, <2>1, ReturnBystanders
<1>7. CASE ToolStep
  <2>1. UNCHANGED <<taken, config, rpc, reply, hostOut, hostReads>>
    BY <1>7 DEF ToolStep, ToolReads, ToolWrites, ToolClosesStdin, ToolClosesStdout, hostVars,
       returnVars
  <2>2. out' = out \/ \E line \in ToolLine : out' = Append(out, line)
    BY <1>7 DEF ToolStep, ToolReads, ToolWrites, ToolClosesStdin, ToolClosesStdout
  <2>3. \A i \in 1..taken : out'[i] = out[i]
    BY <1>2, <2>2
  <2> QED BY <1>1, <2>1, <2>3, ReturnBystanders
<1> QED BY <1>3, <1>4, <1>5, <1>6, <1>7 DEF Next, ForwardStep

(* No secret that the scan can see reaches the host, and only a line with  *)
(* one is blocked, for every mode, limit and interleaving of the two tasks *)
(* (process_response after apply_size_limit).                              *)
THEOREM ScanCorrect == Spec => []ScanVerdict
<1>1. ReturnInv => ScanVerdict
  BY DEF ReturnInv
<1> QED BY <1>1, ReturnInit, ReturnNext, PTL DEF Spec

(* The host sees one text for each line of the tool, in the tool's order,  *)
(* whatever the other tasks write to stdout (forward_tool_to_host).        *)
THEOREM AnswersCorrect == Spec => []ResponsesInOrder
<1>1. ReturnInv => ResponsesInOrder
  BY DEF ReturnInv, ShownInTurn, NoneSwallowed, FromTool, InHand, ResponsesInOrder
<1> QED BY <1>1, ReturnInit, ReturnNext, PTL DEF Spec

-----------------------------------------------------------------------------
(* What the forwarding task knows of the request it is denying, and how    *)
(* the errors on stdout relate to the lines it has read.                   *)
Unanswered == {"deny", "denyText"}

ViolationInHand == fpc \in Unanswered => sent[nread].kind = "violation"

DeniedWereRead ==
  \A k \in DOMAIN hostOut :
    hostOut[k].from = "deny" =>
      /\ hostOut[k].ref \in 1..nread /\ sent[hostOut[k].ref].kind = "violation"
      /\ fpc \in Unanswered => hostOut[k].ref < nread

DeniedInTurn ==
  \A j, k \in DOMAIN hostOut :
    j < k /\ hostOut[j].from = "deny" /\ hostOut[k].from = "deny" => hostOut[j].ref < hostOut[k].ref

AllDenied ==
  \A i \in 1..nread :
    sent[i].kind = "violation" =>
      Shown("deny", i) \/ ~hostReads \/ (i = nread /\ fpc \in Unanswered)

DenyInv == TypeInv /\ ViolationInHand /\ DeniedWereRead /\ DeniedInTurn /\ AllDenied

LEMMA DenyInit == Init => DenyInv
  BY InitType DEF Init, DenyInv, ViolationInHand, DeniedWereRead, DeniedInTurn, AllDenied, Unanswered

(* A step that reads no request and answers none.                          *)
LEMMA DenyFrame ==
  ASSUME DenyInv, TypeInv', nread' = nread, fpc' \in Unanswered <=> fpc \in Unanswered,
         \A i \in 1..nread : sent'[i] = sent[i],
         hostReads' => hostReads,
         NEW chunk \in Chunk, chunk.from # "deny", Grows(chunk)
  PROVE  DenyInv'
<1>1. hostOut \in Seq(Chunk) /\ nread \in Nat
  BY DEF DenyInv, TypeInv, TypeOK
<1>2. ViolationInHand'
  <2>1. fpc \in Unanswered => nread \in 1..nread
    BY DEF DenyInv, TypeInv, TypeOK, Reading, Unanswered
  <2> QED BY <2>1 DEF DenyInv, ViolationInHand
<1>3. DeniedWereRead'
  BY <1>1, GrownParts DEF DenyInv, DeniedWereRead
<1>4. DeniedInTurn'
  BY <1>1, GrownParts DEF DenyInv, DeniedInTurn
<1>5. AllDenied'
  <2> SUFFICES ASSUME NEW i \in 1..nread, sent[i].kind = "violation"
               PROVE  Shown("deny", i)' \/ ~hostReads' \/ (i = nread /\ fpc' \in Unanswered)
    BY DEF AllDenied
  <2> QED BY <1>1, StillShown DEF DenyInv, AllDenied
<1> QED BY <1>2, <1>3, <1>4, <1>5 DEF DenyInv

LEMMA DenyRead == DenyInv /\ TypeInv' /\ ReadHostLine => DenyInv'
<1> SUFFICES ASSUME DenyInv, TypeInv', ReadHostLine PROVE DenyInv'
  OBVIOUS
<1>1. /\ fpc = "read" /\ nread \in Nat /\ nread' = nread + 1 /\ nread' =< Len(sent)
      /\ fpc' = Admit(sent[nread'])
      /\ UNCHANGED <<sent, hostOut, hostReads>>
      /\ hostOut \in Seq(Chunk)
  BY DEF DenyInv, TypeInv, TypeOK, ReadHostLine, hostVars
<1>2. sent[nread'].kind \in HostKind
  BY <1>1, RelayAssumption DEF DenyInv, TypeInv, TypeOK
<1>3. fpc' \in Unanswered <=> sent[nread'].kind = "violation"
  BY <1>1, <1>2 DEF Admit, Unanswered, HostKind
<1>4. ViolationInHand'
  BY <1>1, <1>3 DEF ViolationInHand
<1>5. DeniedWereRead' /\ DeniedInTurn'
  BY <1>1 DEF DenyInv, DeniedWereRead, DeniedInTurn
<1>6. AllDenied'
  BY <1>1, <1>3 DEF DenyInv, AllDenied, Shown, Unanswered
<1> QED BY <1>4, <1>5, <1>6 DEF DenyInv

LEMMA DenyShow == DenyInv /\ TypeInv' /\ DenyText => DenyInv'
<1> SUFFICES ASSUME DenyInv, TypeInv', DenyText PROVE DenyInv'
  OBVIOUS
<1> DEFINE chunk == ErrorText("deny", nread)
<1>1. /\ fpc = "denyText" /\ fpc' = "denyNewline" /\ Emit(chunk)
      /\ UNCHANGED <<nread, sent, hostReads>>
      /\ hostOut \in Seq(Chunk) /\ nread \in Nat /\ nread > 0
      /\ sent[nread].kind = "violation"
  BY DEF DenyInv, ViolationInHand, Unanswered, TypeInv, TypeOK, Reading, DenyText, hostVars
<1>2. chunk \in Chunk /\ chunk.ref = nread /\ chunk.from = "deny"
  BY <1>1 DEF ErrorText, Chunk
<1>3. \A k \in DOMAIN hostOut : hostOut[k].from = "deny" => hostOut[k].ref \in 1..(nread - 1)
  BY <1>1 DEF DenyInv, DeniedWereRead, Unanswered
<1> HIDE DEF chunk
<1>4. Grows(chunk)
  BY <1>1, EmitGrows
<1>5. ViolationInHand'
  BY <1>1 DEF ViolationInHand, Unanswered
<1>6. DeniedWereRead'
  BY <1>1, <1>2, <1>4, GrownParts DEF DenyInv, DeniedWereRead, Unanswered
<1>7. DeniedInTurn'
  BY <1>1, <1>2, <1>3, <1>4, GrownParts DEF DenyInv, DeniedInTurn
<1>8. AllDenied'
  <2>1. ASSUME NEW i \in 1..nread, i # nread, sent[i].kind = "violation"
        PROVE  Shown("deny", i)' \/ ~hostReads'
    BY <1>1, <1>2, <1>4, <2>1, StillShown DEF DenyInv, AllDenied
  <2>2. Shown("deny", nread)' \/ ~hostReads'
    <3>1. hostReads => \E k \in DOMAIN hostOut' : hostOut'[k] = chunk
      BY <1>1, <1>2, EmitGrows, NowShown
    <3> QED BY <1>1, <1>2, <3>1 DEF Shown
  <2> QED BY <1>1, <2>1, <2>2 DEF AllDenied
<1> QED BY <1>5, <1>6, <1>7, <1>8 DEF DenyInv

LEMMA DenyNext == DenyInv /\ [Next]_vars => DenyInv'
<1> SUFFICES ASSUME DenyInv, [Next]_vars PROVE DenyInv'
  OBVIOUS
<1>1. TypeInv' /\ sent \in Seq(HostLine) /\ nread \in 0..Len(sent) /\ taken \in Nat
  BY NextType DEF DenyInv, TypeInv, TypeOK
<1>2. CASE ReadHostLine
  BY <1>1, <1>2, DenyRead
<1>3. CASE DenyText
  BY <1>1, <1>3, DenyShow
<1>4. CASE HostEof \/ AuditInvoke \/ WriteToTool \/ WriteToToolFails \/ AuditViolation
             \/ DenyNewline \/ StrictExit \/ NoticeNewline \/ Cease
             \/ (ReturnStep /\ ~ReturnText) \/ UNCHANGED vars
  <2>1. nread' = nread /\ sent' = sent /\ hostReads' = hostReads
    BY <1>4 DEF HostEof, AuditInvoke, WriteToTool, WriteToToolFails, AuditViolation, DenyNewline,
       StrictExit, NoticeNewline, Cease, ReturnStep, TakeToolLine, ToolEof, ScanClean, ScanDetects,
       AuditResponse, ReturnNewline, vars, hostVars, forwardVars
  <2>2. fpc' \in Unanswered <=> fpc \in Unanswered
    BY <1>4 DEF HostEof, AuditInvoke, WriteToTool, WriteToToolFails, AuditViolation, DenyNewline,
       AfterDenial, StrictExit, NoticeNewline, Cease, ReturnStep, TakeToolLine, ToolEof, ScanClean,
       ScanDetects, AuditResponse, ReturnNewline, vars, forwardVars, Unanswered
  <2>3. Grows(Newline)
    BY <1>4, EmitGrows DEF HostEof, AuditInvoke, WriteToTool, WriteToToolFails, AuditViolation,
       DenyNewline, StrictExit, NoticeNewline, Cease, ReturnStep, TakeToolLine, ToolEof, ScanClean,
       ScanDetects, AuditResponse, ReturnNewline, vars, Grows
  <2> QED BY <1>1, <2>1, <2>2, <2>3, DenyFrame, NewlineChunk DEF Newline
<1>5. CASE ReturnText \/ NoticeText
  <2>1. nread' = nread /\ sent' = sent /\ hostReads' = hostReads /\ fpc' = fpc
    BY <1>5 DEF ReturnText, NoticeText, hostVars, forwardVars
  <2>2. \E chunk \in Chunk : chunk.from # "deny" /\ Grows(chunk)
    <3>1. CASE ReturnText
      <4> DEFINE chunk == IF rpc = "block"
                            THEN ErrorText("block", taken)
                            ELSE [from |-> "tool", ref |-> taken, marked |-> reply.marked,
                                  secret |-> reply.secret]
      <4>1. reply \in [marked : BOOLEAN, secret : BOOLEAN]
        BY DEF DenyInv, TypeInv, TypeOK
      <4>2. chunk \in Chunk /\ chunk.from # "deny"
        BY <1>1, <4>1 DEF ErrorText, Chunk
      <4>3. Grows(chunk)
        BY <3>1, EmitGrows DEF ReturnText
      <4> QED BY <4>2, <4>3
    <3>2. CASE NoticeText
      <4>1. Grows(ErrorText("timeout", 0))
        BY <3>2, EmitGrows DEF NoticeText
      <4>2. ErrorText("timeout", 0) \in Chunk /\ ErrorText("timeout", 0).from # "deny"
        BY DEF ErrorText, Chunk
      <4> QED BY <4>1, <4>2
    <3> QED BY <1>5, <3>1, <3>2
  <2> QED BY <1>1, <2>1, <2>2, DenyFrame
<1>6. CASE HostStep \/ ToolStep \/ ToolExits
  <2>1. UNCHANGED <<nread, fpc, hostOut>> /\ (hostReads' => hostReads)
    BY <1>6 DEF HostStep, HostSends, HostCloses, HostDies, HostTakes, ToolStep, ToolReads,
       ToolWrites,
       ToolClosesStdin, ToolClosesStdout, ToolExits, hostVars, forwardVars
  <2>2. sent' = sent \/ \E line \in HostLine : sent' = Append(sent, line)
    BY <1>6 DEF HostStep, HostSends, HostCloses, HostDies, HostTakes, ToolStep, ToolReads,
       ToolWrites,
       ToolClosesStdin, ToolClosesStdout, ToolExits, hostVars
  <2>3. \A i \in 1..nread : sent'[i] = sent[i]
    BY <1>1, <2>2
  <2> QED BY <1>1, <2>1, <2>3, DenyFrame, NewlineChunk DEF Grows, Newline
<1> QED BY <1>2, <1>3, <1>4, <1>5, <1>6 DEF Next, ForwardStep, ReturnStep

(* Every denied request that the loop has dealt with has its error on the  *)
(* host's stdout, in the order of the requests, and nothing else is denied *)
(* (handle_denied_message), whatever the other tasks write meanwhile.      *)
THEOREM DenialsCorrect == Spec => []DenialsAnswered
<1>1. DenyInv => DenialsAnswered
  BY DEF DenyInv, DeniedWereRead, DeniedInTurn, AllDenied, Unanswered, DenialsAnswered
<1> QED BY <1>1, DenyInit, DenyNext, PTL DEF Spec

-----------------------------------------------------------------------------
(* The audit log.                                                          *)

(* The log, the tool's stdin and stdout as sets of line numbers.           *)
Invoked == {i \in Nat : Recorded("invoke", i)}
Refused == {i \in Nat : Recorded("violation", i)}
Answered == {i \in Nat : Recorded("response", i)}
Caught == {i \in Nat : Recorded("secret", i)}
ToTool == {i \in Nat : Delivered(i)}
Denied == {i \in Nat : Shown("deny", i)}
Returned == {i \in Nat : Shown("tool", i)}
Blocked == {i \in Nat : Shown("block", i)}

LoggedOnce == \A j, k \in DOMAIN audit : audit[j] = audit[k] => j = k

(* No write of the log fails.                                              *)
Logging == config.audited /\ ~AuditMayFail

-----------------------------------------------------------------------------
(* What a step can do to these sets.                                       *)

LEMMA SameAudit ==
  ASSUME audit' = audit
  PROVE  Invoked' = Invoked /\ Refused' = Refused /\ Answered' = Answered /\ Caught' = Caught
  BY DEF Invoked, Refused, Answered, Caught, Recorded

LEMMA SameOut ==
  ASSUME hostOut' = hostOut
  PROVE  Denied' = Denied /\ Returned' = Returned /\ Blocked' = Blocked
  BY DEF Denied, Returned, Blocked, Shown

LEMMA LogGrows ==
  ASSUME audit \in Seq(AuditEntry), LoggedOnce, NEW event \in Event, NEW ref \in Nat,
         Record(event, ref), ~Recorded(event, ref)
  PROVE  /\ LoggedOnce'
         /\ \A e \in Event, i \in Nat :
              /\ Recorded(e, i) => Recorded(e, i)'
              /\ Recorded(e, i)' => Recorded(e, i) \/ (e = event /\ i = ref)
         /\ Logging => Recorded(event, ref)'
<1> DEFINE entry == [event |-> event, ref |-> ref]
<1>1. entry \in AuditEntry
  BY DEF AuditEntry
<1>2. audit' = Append(audit, entry) \/ (audit' = audit /\ ~Logging)
  BY Zenon DEF Record, Logging
<1>3. CASE audit' = audit /\ ~Logging
  BY <1>3 DEF LoggedOnce, Recorded
<1>4. CASE audit' = Append(audit, entry)
  <2>1. \A k \in DOMAIN audit : audit[k] # entry
    BY DEF Recorded
  <2> HIDE DEF entry
  <2>2. /\ \A k \in DOMAIN audit : k \in DOMAIN audit' /\ audit'[k] = audit[k]
        /\ \A k \in DOMAIN audit' :
             (k \in DOMAIN audit /\ audit'[k] = audit[k])
               \/ (k = Len(audit) + 1 /\ audit'[k] = entry)
        /\ Len(audit) + 1 \in DOMAIN audit' /\ audit'[Len(audit) + 1] = entry
    BY <1>1, <1>4, AppendType
  <2>3. LoggedOnce'
    BY <2>1, <2>2 DEF LoggedOnce
  <2>4. \A e \in Event, i \in Nat : Recorded(e, i) => Recorded(e, i)'
    BY <2>2 DEF Recorded
  <2>5. \A e \in Event, i \in Nat : Recorded(e, i)' => Recorded(e, i) \/ (e = event /\ i = ref)
    BY <2>2 DEF Recorded, entry
  <2>6. Recorded(event, ref)'
    BY <2>2 DEF Recorded, entry
  <2> QED BY <2>3, <2>4, <2>5, <2>6
<1> QED BY <1>2, <1>3, <1>4

LEMMA OutGrows ==
  ASSUME hostOut \in Seq(Chunk), NEW chunk \in Chunk, Emit(chunk)
  PROVE  \A from, i :
           /\ Shown(from, i) => Shown(from, i)'
           /\ Shown(from, i)' => Shown(from, i) \/ (from = chunk.from /\ i = chunk.ref)
           /\ hostReads /\ from = chunk.from /\ i = chunk.ref => Shown(from, i)'
<1>1. Grows(chunk) /\ (hostReads => hostOut' = Append(hostOut, chunk))
  BY EmitGrows
<1>2. \A from, i : Shown(from, i) => Shown(from, i)'
  BY <1>1, StillShown
<1>3. \A from, i : Shown(from, i)' => Shown(from, i) \/ (from = chunk.from /\ i = chunk.ref)
  BY <1>1, GrownParts DEF Shown
<1>4. hostReads => Shown(chunk.from, chunk.ref)'
  BY <1>1, NowShown DEF Shown
<1> QED BY <1>2, <1>3, <1>4

-----------------------------------------------------------------------------
(* The forwarding task and its entries.  An entry comes between two of the *)
(* task's states, and the act it reports between the next two.             *)
HeldKind ==
  /\ fpc \in Holding \cup Unanswered => nread \in 1..nread
  /\ fpc = "raw" => sent[nread].kind = "malformed"
  /\ fpc \in {"allow", "write"} => sent[nread].kind \in Admitted \ {"malformed"}
  /\ fpc \in Unanswered => sent[nread].kind = "violation"

ForwardAhead ==
  Logging =>
    /\ \A i \in ToTool : sent[i].kind # "malformed" => i \in Invoked
    /\ fpc = "write" => nread \in Invoked
    /\ Denied \subseteq Refused
    /\ fpc = "denyText" => nread \in Refused

InvokedSound ==
  \A i \in Invoked :
    /\ i \in 1..nread /\ (fpc = "allow" => i # nread)
    /\ sent[i].kind \in Admitted \ {"malformed"}
    /\ i \in ToTool \/ (i = nread /\ fpc = "write") \/ ~toolListens

RefusedSound ==
  \A i \in Refused :
    /\ i \in 1..nread /\ (fpc = "deny" => i # nread)
    /\ sent[i].kind = "violation"
    /\ i \in Denied \/ (i = nread /\ fpc = "denyText") \/ ~hostReads

ForwardLogged ==
  /\ ToTool \subseteq 1..nread /\ HeldKind /\ ForwardAhead /\ InvokedSound /\ RefusedSound

LEMMA ForwardLoggedInit == Init => ForwardLogged
  BY DEF Init, ForwardLogged, HeldKind, ForwardAhead, InvokedSound, RefusedSound, ToTool,
     Delivered, Invoked, Refused, Denied, Recorded, Shown, Holding, Unanswered

(* A step that the forwarding task has no part in.                         *)
LEMMA ForwardLoggedFrame ==
  ASSUME ForwardLogged, nread \in Nat, nread' = nread, fpc' = fpc, config' = config,
         \A i \in 1..nread : sent'[i] = sent[i],
         hostReads' => hostReads, toolListens' => toolListens, inbox' = inbox,
         Invoked' = Invoked, Refused' = Refused, Denied' = Denied
  PROVE  ForwardLogged'
<1>1. ToTool' = ToTool
  BY DEF ToTool, Delivered
<1>2. HeldKind'
  BY DEF ForwardLogged, HeldKind, Holding, Unanswered
<1>3. ForwardAhead'
  BY <1>1 DEF ForwardLogged, ForwardAhead, Logging
<1>4. InvokedSound'
  BY <1>1 DEF ForwardLogged, InvokedSound
<1>5. RefusedSound'
  BY DEF ForwardLogged, RefusedSound
<1> QED BY <1>1, <1>2, <1>3, <1>4, <1>5 DEF ForwardLogged

LEMMA ForwardLoggedRead ==
  ASSUME ForwardLogged, TypeInv, TypeInv', ReadHostLine
  PROVE  ForwardLogged'
<1>1. /\ fpc = "read" /\ nread \in Nat /\ nread' = nread + 1 /\ nread' =< Len(sent)
      /\ fpc' = Admit(sent[nread'])
      /\ UNCHANGED <<sent, inbox, toolListens, config, hostOut, hostReads, audit>>
  BY DEF TypeInv, TypeOK, ReadHostLine, hostVars, toolVars
<1>2. sent[nread'].kind \in HostKind
  BY <1>1, RelayAssumption DEF TypeInv, TypeOK
<1>3. /\ ToTool' = ToTool /\ Invoked' = Invoked /\ Refused' = Refused /\ Denied' = Denied
  BY <1>1, SameAudit, SameOut DEF ToTool, Delivered
<1>4. HeldKind' /\ fpc' \notin {"write", "denyText"}
  BY <1>1, <1>2 DEF HeldKind, Admit, HostKind, Holding, Unanswered, Admitted
<1>5. ForwardAhead'
  BY <1>1, <1>3, <1>4 DEF ForwardLogged, ForwardAhead, Logging
<1>6. InvokedSound'
  BY <1>1, <1>3, <1>4 DEF ForwardLogged, InvokedSound
<1>7. RefusedSound'
  BY <1>1, <1>3, <1>4 DEF ForwardLogged, RefusedSound
<1> QED BY <1>1, <1>3, <1>4, <1>5, <1>6, <1>7 DEF ForwardLogged

LEMMA ForwardLoggedInvoke ==
  ASSUME ForwardLogged, LoggedOnce, TypeInv, AuditInvoke
  PROVE  ForwardLogged' /\ LoggedOnce' /\ Answered' = Answered /\ Caught' = Caught
<1>1. /\ fpc = "allow" /\ fpc' = "write" /\ Record("invoke", nread) /\ nread \in Nat
      /\ UNCHANGED <<nread, sent, inbox, toolListens, config, hostOut, hostReads>>
      /\ audit \in Seq(AuditEntry)
  BY DEF TypeInv, TypeOK, AuditInvoke, hostVars, toolVars
<1>2. ~Recorded("invoke", nread)
  BY <1>1 DEF ForwardLogged, InvokedSound, Invoked
<1>3. /\ LoggedOnce' /\ Refused' = Refused /\ Answered' = Answered /\ Caught' = Caught
      /\ Invoked \subseteq Invoked' /\ Invoked' \subseteq Invoked \cup {nread}
      /\ Logging => nread \in Invoked'
  BY <1>1, <1>2, LogGrows DEF Event, Invoked, Refused, Answered, Caught
<1>4. ToTool' = ToTool /\ Denied' = Denied
  BY <1>1, SameOut DEF ToTool, Delivered
<1>5. HeldKind'
  BY <1>1 DEF ForwardLogged, HeldKind, Holding, Unanswered
<1>6. ForwardAhead'
  BY <1>1, <1>3, <1>4 DEF ForwardLogged, ForwardAhead, Logging
<1>7. InvokedSound'
  BY <1>1, <1>3, <1>4 DEF ForwardLogged, InvokedSound, HeldKind, Holding
<1>8. RefusedSound'
  BY <1>1, <1>3, <1>4 DEF ForwardLogged, RefusedSound
<1> QED BY <1>1, <1>3, <1>4, <1>5, <1>6, <1>7, <1>8 DEF ForwardLogged

LEMMA ForwardLoggedWrite ==
  ASSUME ForwardLogged, TypeInv, WriteToTool
  PROVE  ForwardLogged'
<1>1. /\ fpc \in {"write", "raw"} /\ fpc' = "read" /\ inbox' = Append(inbox, nread)
      /\ UNCHANGED <<nread, sent, toolListens, config, hostOut, hostReads, audit>>
      /\ nread \in Nat /\ inbox \in Seq(Nat)
  BY DEF TypeInv, TypeOK, WriteToTool, hostVars
<1>2. Invoked' = Invoked /\ Refused' = Refused /\ Denied' = Denied
  BY <1>1, SameAudit, SameOut
<1>3. ToTool' = ToTool \cup {nread}
  <2>1. /\ \A k \in DOMAIN inbox : k \in DOMAIN inbox' /\ inbox'[k] = inbox[k]
        /\ \A k \in DOMAIN inbox' : (k \in DOMAIN inbox /\ inbox'[k] = inbox[k]) \/ inbox'[k] = nread
        /\ Len(inbox) + 1 \in DOMAIN inbox' /\ inbox'[Len(inbox) + 1] = nread
    BY <1>1, AppendType
  <2> QED BY <1>1, <2>1 DEF ToTool, Delivered
<1>4. HeldKind'
  BY <1>1 DEF HeldKind, Holding, Unanswered
<1>5. ForwardAhead'
  BY <1>1, <1>2, <1>3 DEF ForwardLogged, ForwardAhead, HeldKind, Logging
<1>6. InvokedSound'
  BY <1>1, <1>2, <1>3 DEF ForwardLogged, InvokedSound
<1>7. RefusedSound'
  BY <1>1, <1>2, <1>3 DEF ForwardLogged, RefusedSound
<1>8. nread \in 1..nread
  BY <1>1 DEF ForwardLogged, HeldKind, Holding
<1> QED BY <1>1, <1>3, <1>4, <1>5, <1>6, <1>7, <1>8 DEF ForwardLogged

LEMMA ForwardLoggedRefuse ==
  ASSUME ForwardLogged, LoggedOnce, TypeInv, AuditViolation
  PROVE  ForwardLogged' /\ LoggedOnce' /\ Answered' = Answered /\ Caught' = Caught
<1>1. /\ fpc = "deny" /\ fpc' = "denyText" /\ Record("violation", nread) /\ nread \in Nat
      /\ UNCHANGED <<nread, sent, inbox, toolListens, config, hostOut, hostReads>>
      /\ audit \in Seq(AuditEntry)
  BY DEF TypeInv, TypeOK, AuditViolation, hostVars, toolVars
<1>2. ~Recorded("violation", nread)
  BY <1>1 DEF ForwardLogged, RefusedSound, Refused
<1>3. /\ LoggedOnce' /\ Invoked' = Invoked /\ Answered' = Answered /\ Caught' = Caught
      /\ Refused \subseteq Refused' /\ Refused' \subseteq Refused \cup {nread}
      /\ Logging => nread \in Refused'
  BY <1>1, <1>2, LogGrows DEF Event, Invoked, Refused, Answered, Caught
<1>4. ToTool' = ToTool /\ Denied' = Denied
  BY <1>1, SameOut DEF ToTool, Delivered
<1>5. HeldKind'
  BY <1>1 DEF ForwardLogged, HeldKind, Holding, Unanswered
<1>6. ForwardAhead'
  BY <1>1, <1>3, <1>4 DEF ForwardLogged, ForwardAhead, Logging
<1>7. InvokedSound'
  BY <1>1, <1>3, <1>4 DEF ForwardLogged, InvokedSound
<1>8. RefusedSound'
  BY <1>1, <1>3, <1>4 DEF ForwardLogged, RefusedSound, HeldKind, Unanswered
<1> QED BY <1>1, <1>3, <1>4, <1>5, <1>6, <1>7, <1>8 DEF ForwardLogged

LEMMA ForwardLoggedDeny ==
  ASSUME ForwardLogged, TypeInv, DenyText
  PROVE  ForwardLogged' /\ Returned' = Returned /\ Blocked' = Blocked
<1>1. /\ fpc = "denyText" /\ fpc' = "denyNewline" /\ Emit(ErrorText("deny", nread))
      /\ UNCHANGED <<nread, sent, inbox, toolListens, config, hostReads, audit>>
      /\ nread \in Nat /\ hostOut \in Seq(Chunk)
  BY DEF TypeInv, TypeOK, DenyText, hostVars, toolVars
<1>2. Invoked' = Invoked /\ Refused' = Refused /\ ToTool' = ToTool
  BY <1>1, SameAudit DEF ToTool, Delivered
<1>3. /\ Denied \subseteq Denied' /\ Denied' \subseteq Denied \cup {nread}
      /\ hostReads => nread \in Denied'
      /\ Returned' = Returned /\ Blocked' = Blocked
  <2>1. /\ ErrorText("deny", nread) \in Chunk /\ ErrorText("deny", nread).from = "deny"
        /\ ErrorText("deny", nread).ref = nread
    BY <1>1 DEF ErrorText, Chunk
  <2> QED BY <1>1, <2>1, OutGrows DEF Denied, Returned, Blocked
<1>4. HeldKind'
  BY <1>1 DEF HeldKind, Holding, Unanswered
<1>5. ForwardAhead'
  BY <1>1, <1>2, <1>3 DEF ForwardLogged, ForwardAhead, Logging
<1>6. InvokedSound'
  BY <1>1, <1>2 DEF ForwardLogged, InvokedSound
<1>7. RefusedSound'
  BY <1>1, <1>2, <1>3 DEF ForwardLogged, RefusedSound
<1> QED BY <1>1, <1>2, <1>3, <1>4, <1>5, <1>6, <1>7 DEF ForwardLogged

(* The other steps of the task leave the sets as they are.                 *)
LEMMA ForwardLoggedOther ==
  ASSUME ForwardLogged, UNCHANGED <<nread, sent, inbox, toolListens, config, hostReads>>,
         Invoked' = Invoked, Refused' = Refused, Denied' = Denied,
         fpc' = fpc \/ fpc' \in {"read", "done", "exit"},
         fpc = "write" => fpc' = fpc \/ ~toolListens,
         fpc # "denyText" \/ fpc' = fpc
  PROVE  ForwardLogged'
<1>1. ToTool' = ToTool
  BY DEF ToTool, Delivered
<1>2. HeldKind'
  BY DEF ForwardLogged, HeldKind, Holding, Unanswered
<1>3. ForwardAhead'
  BY <1>1 DEF ForwardLogged, ForwardAhead, Logging
<1>4. InvokedSound'
  BY <1>1 DEF ForwardLogged, InvokedSound
<1>5. RefusedSound'
  BY DEF ForwardLogged, RefusedSound
<1> QED BY <1>1, <1>2, <1>3, <1>4, <1>5 DEF ForwardLogged

-----------------------------------------------------------------------------
(* The return task and its entries.                                        *)
ReturnAhead ==
  Logging =>
    /\ Returned \subseteq Answered /\ Blocked \subseteq Caught
    /\ \A i \in Returned : config.scan = "redact" /\ SecretLeft(out[i]) => i \in Caught
    /\ rpc = "text" => taken \in Answered
    /\ rpc = "block" => taken \in Caught
    /\ rpc \in {"audit", "text"} /\ config.scan = "redact" /\ SecretLeft(out[taken])
         => taken \in Caught

AnsweredSound ==
  \A i \in Answered :
    /\ i \in 1..taken /\ (rpc \in {"scan", "audit"} => i # taken)
    /\ i \in Returned \/ (i = taken /\ rpc = "text") \/ ~hostReads

CaughtSound ==
  \A i \in Caught : i \in 1..taken /\ (rpc = "scan" => i # taken) /\ SecretLeft(out[i])

ReturnLogged ==
  /\ Returned \subseteq 1..taken /\ (rpc \in InHand => taken \in 1..taken)
  /\ ReturnAhead /\ AnsweredSound /\ CaughtSound

LEMMA ReturnLoggedInit == Init => ReturnLogged
  BY DEF Init, ReturnLogged, ReturnAhead, AnsweredSound, CaughtSound, Returned, Blocked,
     Answered, Caught, Recorded, Shown, InHand

(* A step that the return task has no part in.                             *)
LEMMA ReturnLoggedFrame ==
  ASSUME ReturnLogged, taken \in Nat, taken' = taken, rpc' = rpc, config' = config,
         \A i \in 1..taken : out'[i] = out[i],
         hostReads' => hostReads,
         Answered' = Answered, Caught' = Caught, Returned' = Returned, Blocked' = Blocked
  PROVE  ReturnLogged'
<1>1. /\ Returned \subseteq 1..taken
      /\ rpc \in {"scan", "audit", "text", "block"} => taken \in 1..taken
  BY DEF ReturnLogged, InHand
<1>2. ReturnAhead'
  BY <1>1 DEF ReturnLogged, ReturnAhead, Logging, SecretLeft
<1>3. AnsweredSound'
  BY DEF ReturnLogged, AnsweredSound
<1>4. CaughtSound'
  BY DEF ReturnLogged, CaughtSound, SecretLeft
<1> QED BY <1>1, <1>2, <1>3, <1>4 DEF ReturnLogged, InHand

(* A step of the task that neither logs nor shows a line.                  *)
LEMMA ReturnLoggedQuiet ==
  ASSUME ReturnLogged, ReplyJudged, TypeInv,
         TakeToolLine \/ ToolEof \/ ScanClean \/ ReturnNewline,
         Returned' = Returned, Blocked' = Blocked
  PROVE  ReturnLogged'
<1>1. /\ UNCHANGED <<out, config, hostReads, audit>>
      /\ taken \in Nat /\ Returned \subseteq 1..taken
      /\ \/ taken' = taken + 1 /\ rpc = "read" /\ rpc' \in {"read", "done", "scan"}
         \/ taken' = taken /\ rpc \in {"read", "newline"} /\ rpc' \in {"read", "done"}
         \/ taken' = taken /\ ScanClean
  BY DEF TypeInv, TypeOK, ReturnLogged, TakeToolLine, ToolEof, ScanClean, ReturnNewline,
     hostVars, toolVars
<1>2. Answered' = Answered /\ Caught' = Caught
  BY <1>1, SameAudit
<1>3. CASE ~ScanClean
  <2>1. rpc' \in {"read", "done", "scan"} /\ taken' \in Nat /\ (rpc' = "scan" => taken' = taken + 1)
    BY <1>1, <1>3
  <2>2. 1..taken \subseteq 1..taken' /\ (rpc' = "scan" => taken' \in 1..taken')
    BY <1>1, <1>3
  <2>3. ReturnAhead'
    BY <1>1, <1>2, <2>1 DEF ReturnLogged, ReturnAhead, Logging, SecretLeft
  <2>4. AnsweredSound'
    BY <1>1, <1>2, <1>3, <2>1, <2>2 DEF ReturnLogged, AnsweredSound
  <2>5. CaughtSound'
    BY <1>1, <1>2, <2>1, <2>2 DEF ReturnLogged, CaughtSound, SecretLeft
  <2> QED BY <1>1, <2>1, <2>2, <2>3, <2>4, <2>5 DEF ReturnLogged, InHand
<1>4. CASE ScanClean
  <2>1. /\ taken' = taken /\ rpc = "scan" /\ rpc' = "audit"
        /\ config.scan = "redact" => ~SecretLeft(out[taken])
    BY <1>4 DEF ScanClean, Detected, ReplyJudged
  <2>2. ReturnAhead'
    BY <1>1, <1>2, <2>1 DEF ReturnLogged, ReturnAhead, Logging, SecretLeft
  <2>3. AnsweredSound'
    BY <1>1, <1>2, <2>1 DEF ReturnLogged, AnsweredSound
  <2>4. CaughtSound'
    BY <1>1, <1>2, <2>1 DEF ReturnLogged, CaughtSound, SecretLeft
  <2> QED BY <1>1, <2>1, <2>2, <2>3, <2>4 DEF ReturnLogged, InHand
<1> QED BY <1>3, <1>4

LEMMA ReturnLoggedDetect ==
  ASSUME ReturnLogged, ReplyJudged, LoggedOnce, TypeInv, ScanDetects
  PROVE  ReturnLogged' /\ LoggedOnce' /\ Invoked' = Invoked /\ Refused' = Refused
<1>0. SecretLeft(out[taken])
  BY DEF ReplyJudged, ScanDetects, Detected, SecretLeft
<1>1. /\ rpc = "scan" /\ rpc' \in {"audit", "block"} /\ Record("secret", taken)
      /\ UNCHANGED <<taken, out, config, hostReads, hostOut>>
      /\ SecretLeft(out[taken]) /\ taken \in Nat /\ audit \in Seq(AuditEntry)
  BY <1>0 DEF TypeInv, TypeOK, ScanDetects, AfterDetection, hostVars, toolVars
<1>2. ~Recorded("secret", taken)
  BY <1>1 DEF ReturnLogged, CaughtSound, Caught
<1>3. /\ LoggedOnce' /\ Invoked' = Invoked /\ Refused' = Refused /\ Answered' = Answered
      /\ Caught \subseteq Caught' /\ Caught' \subseteq Caught \cup {taken}
      /\ Logging => taken \in Caught'
  BY <1>1, <1>2, LogGrows DEF Event, Invoked, Refused, Answered, Caught
<1>4. Returned' = Returned /\ Blocked' = Blocked
  BY <1>1, SameOut
<1>5. ReturnAhead'
  BY <1>1, <1>3, <1>4 DEF ReturnLogged, ReturnAhead, Logging, SecretLeft
<1>6. AnsweredSound'
  BY <1>1, <1>3, <1>4 DEF ReturnLogged, AnsweredSound
<1>7. CaughtSound'
  BY <1>1, <1>3 DEF ReturnLogged, CaughtSound, SecretLeft, InHand
<1> QED BY <1>1, <1>3, <1>4, <1>5, <1>6, <1>7 DEF ReturnLogged, InHand

LEMMA ReturnLoggedAnswer ==
  ASSUME ReturnLogged, LoggedOnce, TypeInv, AuditResponse
  PROVE  ReturnLogged' /\ LoggedOnce' /\ Invoked' = Invoked /\ Refused' = Refused
<1>1. /\ rpc = "audit" /\ rpc' = "text" /\ Record("response", taken)
      /\ UNCHANGED <<taken, out, config, hostReads, hostOut>>
      /\ taken \in Nat /\ audit \in Seq(AuditEntry)
  BY DEF TypeInv, TypeOK, AuditResponse, hostVars, toolVars
<1>2. ~Recorded("response", taken)
  BY <1>1 DEF ReturnLogged, AnsweredSound, Answered
<1>3. /\ LoggedOnce' /\ Invoked' = Invoked /\ Refused' = Refused /\ Caught' = Caught
      /\ Answered \subseteq Answered' /\ Answered' \subseteq Answered \cup {taken}
      /\ Logging => taken \in Answered'
  BY <1>1, <1>2, LogGrows DEF Event, Invoked, Refused, Answered, Caught
<1>4. Returned' = Returned /\ Blocked' = Blocked
  BY <1>1, SameOut
<1>5. ReturnAhead'
  BY <1>1, <1>3, <1>4 DEF ReturnLogged, ReturnAhead, Logging, SecretLeft
<1>6. AnsweredSound'
  BY <1>1, <1>3, <1>4 DEF ReturnLogged, AnsweredSound, InHand
<1>7. CaughtSound'
  BY <1>1, <1>3 DEF ReturnLogged, CaughtSound, SecretLeft
<1> QED BY <1>1, <1>3, <1>4, <1>5, <1>6, <1>7 DEF ReturnLogged, InHand

LEMMA ReturnLoggedShow ==
  ASSUME ReturnLogged, TypeInv, ReturnText
  PROVE  ReturnLogged' /\ Denied' = Denied
<1> DEFINE chunk == IF rpc = "block"
                      THEN ErrorText("block", taken)
                      ELSE [from |-> "tool", ref |-> taken, marked |-> reply.marked,
                            secret |-> reply.secret]
<1>1. /\ rpc \in {"text", "block"} /\ rpc' = "newline" /\ Emit(chunk)
      /\ UNCHANGED <<taken, out, config, hostReads, audit>>
      /\ taken \in Nat /\ hostOut \in Seq(Chunk) /\ reply \in [marked : BOOLEAN, secret : BOOLEAN]
  BY DEF TypeInv, TypeOK, ReturnText, hostVars, toolVars
<1>2. /\ chunk \in Chunk /\ chunk.ref = taken
      /\ chunk.from = IF rpc = "block" THEN "block" ELSE "tool"
  BY <1>1 DEF ErrorText, Chunk
<1> HIDE DEF chunk
<1>3. /\ Denied' = Denied
      /\ Returned \subseteq Returned' /\ Blocked \subseteq Blocked'
      /\ rpc = "text" => Blocked' = Blocked /\ Returned' \subseteq Returned \cup {taken}
      /\ rpc = "block" => Returned' = Returned /\ Blocked' \subseteq Blocked \cup {taken}
      /\ rpc = "text" /\ hostReads => taken \in Returned'
  BY <1>1, <1>2, OutGrows DEF Denied, Returned, Blocked
<1>4. Answered' = Answered /\ Caught' = Caught
  BY <1>1, SameAudit
<1>5. ReturnAhead'
  BY <1>1, <1>3, <1>4 DEF ReturnLogged, ReturnAhead, Logging, SecretLeft
<1>6. AnsweredSound'
  BY <1>1, <1>3, <1>4 DEF ReturnLogged, AnsweredSound
<1>7. CaughtSound'
  BY <1>1, <1>4 DEF ReturnLogged, CaughtSound, SecretLeft
<1> QED BY <1>1, <1>3, <1>5, <1>6, <1>7 DEF ReturnLogged, InHand

-----------------------------------------------------------------------------
AuditInv == ReturnInv /\ ForwardLogged /\ ReturnLogged /\ LoggedOnce

LEMMA AuditInit == Init => AuditInv
  BY ReturnInit, ForwardLoggedInit, ReturnLoggedInit DEF AuditInv, LoggedOnce, Init

(* The steps of the forwarding task; the return task's share is framed.    *)
LEMMA AuditForward ==
  ASSUME AuditInv, TypeInv', ForwardStep
  PROVE  ForwardLogged' /\ ReturnLogged' /\ LoggedOnce'
<1>1. /\ ForwardLogged /\ ReturnLogged /\ LoggedOnce /\ TypeInv
      /\ taken \in Nat /\ nread \in Nat /\ hostOut \in Seq(Chunk)
  BY DEF AuditInv, ReturnInv, TypeInv, TypeOK
<1>2. UNCHANGED <<taken, rpc, config, out, hostReads>>
  BY DEF ForwardStep, ReadHostLine, HostEof, AuditInvoke, WriteToTool, WriteToToolFails,
     AuditViolation, DenyText, DenyNewline, hostVars, toolVars, returnVars
<1>3. CASE ReadHostLine \/ WriteToTool
  <2>1. audit' = audit /\ hostOut' = hostOut
    BY <1>3 DEF ReadHostLine, WriteToTool
  <2>2. ForwardLogged'
    BY <1>1, <1>3, ForwardLoggedRead, ForwardLoggedWrite
  <2>3. ReturnLogged'
    BY <1>1, <1>2, <2>1, SameAudit, SameOut, ReturnLoggedFrame
  <2> QED BY <1>1, <2>1, <2>2, <2>3 DEF LoggedOnce
<1>4. CASE AuditInvoke \/ AuditViolation
  <2>1. hostOut' = hostOut
    BY <1>4 DEF AuditInvoke, AuditViolation
  <2>2. ForwardLogged' /\ LoggedOnce' /\ Answered' = Answered /\ Caught' = Caught
    BY <1>1, <1>4, ForwardLoggedInvoke, ForwardLoggedRefuse
  <2>3. ReturnLogged'
    BY <1>1, <1>2, <2>1, <2>2, SameOut, ReturnLoggedFrame
  <2> QED BY <2>2, <2>3
<1>5. CASE DenyText
  <2>1. audit' = audit
    BY <1>5 DEF DenyText
  <2>2. ForwardLogged' /\ Returned' = Returned /\ Blocked' = Blocked
    BY <1>1, <1>5, ForwardLoggedDeny
  <2>3. ReturnLogged'
    BY <1>1, <1>2, <2>1, <2>2, SameAudit, ReturnLoggedFrame
  <2> QED BY <1>1, <2>1, <2>2, <2>3 DEF LoggedOnce
<1>6. CASE HostEof \/ WriteToToolFails \/ DenyNewline
  <2>1. audit' = audit /\ UNCHANGED <<nread, sent, inbox, toolListens, config, hostReads>>
    BY <1>6 DEF HostEof, WriteToToolFails, DenyNewline, hostVars, toolVars
  <2>2. /\ fpc' = fpc \/ fpc' \in {"read", "done", "exit"}
        /\ fpc = "write" => fpc' = fpc \/ ~toolListens
        /\ fpc # "denyText" \/ fpc' = fpc
    BY <1>6 DEF HostEof, WriteToToolFails, DenyNewline, AfterDenial
  <2>3. Denied' = Denied /\ Returned' = Returned /\ Blocked' = Blocked
    <3>1. CASE HostEof \/ WriteToToolFails
      BY <3>1, SameOut DEF HostEof, WriteToToolFails
    <3>2. CASE DenyNewline
      <4>1. Emit(Newline) /\ Newline \in Chunk /\ Newline.from = "newline"
        BY <3>2 DEF DenyNewline, Newline, Chunk
      <4> QED BY <1>1, <4>1, OutGrows DEF Denied, Returned, Blocked
    <3> QED BY <1>6, <3>1, <3>2
  <2>4. Invoked' = Invoked /\ Refused' = Refused /\ Answered' = Answered /\ Caught' = Caught
    BY <2>1, SameAudit
  <2>5. ForwardLogged'
    BY <1>1, <2>1, <2>2, <2>3, <2>4, ForwardLoggedOther
  <2>6. ReturnLogged'
    BY <1>1, <1>2, <2>3, <2>4, ReturnLoggedFrame
  <2> QED BY <1>1, <2>1, <2>5, <2>6 DEF LoggedOnce
<1> QED BY <1>3, <1>4, <1>5, <1>6 DEF ForwardStep

LEMMA AuditReturn ==
  ASSUME AuditInv, TypeInv', ReturnStep
  PROVE  ForwardLogged' /\ ReturnLogged' /\ LoggedOnce'
<1>1. /\ ForwardLogged /\ ReturnLogged /\ LoggedOnce /\ TypeInv /\ ReplyJudged
      /\ taken \in Nat /\ nread \in Nat /\ hostOut \in Seq(Chunk)
  BY DEF AuditInv, ReturnInv, TypeInv, TypeOK
<1>2. UNCHANGED <<nread, fpc, config, sent, hostReads, toolListens, inbox>>
  BY DEF ReturnStep, TakeToolLine, ToolEof, ScanClean, ScanDetects, AuditResponse, ReturnText,
     ReturnNewline, hostVars, forwardVars, toolVars
<1>3. CASE TakeToolLine \/ ToolEof \/ ScanClean \/ ReturnNewline
  <2>1. audit' = audit
    BY <1>3 DEF TakeToolLine, ToolEof, ScanClean, ReturnNewline
  <2>2. Denied' = Denied /\ Returned' = Returned /\ Blocked' = Blocked
    <3>1. CASE TakeToolLine \/ ToolEof \/ ScanClean
      BY <3>1, SameOut DEF TakeToolLine, ToolEof, ScanClean
    <3>2. CASE ReturnNewline
      <4>1. Emit(Newline) /\ Newline \in Chunk /\ Newline.from = "newline"
        BY <3>2 DEF ReturnNewline, Newline, Chunk
      <4> QED BY <1>1, <4>1, OutGrows DEF Denied, Returned, Blocked
    <3> QED BY <1>3, <3>1, <3>2
  <2>3. ReturnLogged'
    BY <1>1, <1>3, <2>2, ReturnLoggedQuiet
  <2>4. ForwardLogged'
    BY <1>1, <1>2, <2>1, <2>2, SameAudit, ForwardLoggedFrame
  <2> QED BY <1>1, <2>1, <2>3, <2>4 DEF LoggedOnce
<1>4. CASE ScanDetects \/ AuditResponse
  <2>1. hostOut' = hostOut
    BY <1>4 DEF ScanDetects, AuditResponse
  <2>2. ReturnLogged' /\ LoggedOnce' /\ Invoked' = Invoked /\ Refused' = Refused
    BY <1>1, <1>4, ReturnLoggedDetect, ReturnLoggedAnswer
  <2>3. ForwardLogged'
    BY <1>1, <1>2, <2>1, <2>2, SameOut, ForwardLoggedFrame
  <2> QED BY <2>2, <2>3
<1>5. CASE ReturnText
  <2>1. audit' = audit
    BY <1>5 DEF ReturnText
  <2>2. ReturnLogged' /\ Denied' = Denied
    BY <1>1, <1>5, ReturnLoggedShow
  <2>3. ForwardLogged'
    BY <1>1, <1>2, <2>1, <2>2, SameAudit, ForwardLoggedFrame
  <2> QED BY <1>1, <2>1, <2>2, <2>3 DEF LoggedOnce
<1> QED BY <1>3, <1>4, <1>5 DEF ReturnStep

(* The main task, the host and the tool: none of them logs.                *)
LEMMA AuditBystanders ==
  ASSUME AuditInv,
         \/ StrictExit \/ NoticeText \/ NoticeNewline \/ Cease
         \/ HostStep \/ ToolStep \/ ToolExits \/ UNCHANGED vars
  PROVE  ForwardLogged' /\ ReturnLogged' /\ LoggedOnce'
<1>1. /\ ForwardLogged /\ ReturnLogged /\ LoggedOnce
      /\ taken \in Nat /\ taken \in 0..Len(out) /\ nread \in Nat /\ nread \in 0..Len(sent)
      /\ hostOut \in Seq(Chunk) /\ out \in Seq(ToolLine) /\ sent \in Seq(HostLine)
  BY DEF AuditInv, ReturnInv, TypeInv, TypeOK
<1>2. /\ UNCHANGED <<nread, fpc, taken, rpc, config, audit, inbox>>
      /\ hostReads' => hostReads
      /\ toolListens' => toolListens
  BY DEF StrictExit, NoticeText, NoticeNewline, Cease, HostStep, HostSends, HostCloses, HostDies,
     HostTakes,
     ToolStep, ToolReads, ToolWrites, ToolClosesStdin, ToolClosesStdout, ToolExits, vars,
     hostVars, forwardVars,
     toolVars, returnVars
<1>3. /\ sent' = sent \/ \E line \in HostLine : sent' = Append(sent, line)
      /\ out' = out \/ \E line \in ToolLine : out' = Append(out, line)
  BY DEF StrictExit, NoticeText, NoticeNewline, Cease, HostStep, HostSends, HostCloses, HostDies,
     HostTakes,
     ToolStep, ToolReads, ToolWrites, ToolClosesStdin, ToolClosesStdout, ToolExits, vars,
     hostVars, toolVars
<1>4. (\A i \in 1..nread : sent'[i] = sent[i]) /\ (\A i \in 1..taken : out'[i] = out[i])
  <2>1. \A i \in 1..nread : sent'[i] = sent[i]
    <3>1. ASSUME NEW line \in HostLine, sent' = Append(sent, line)
          PROVE  \A i \in 1..Len(sent) : sent'[i] = sent[i]
      BY <1>1, <3>1, AppendType
    <3>2. 1..nread \subseteq 1..Len(sent)
      BY <1>1
    <3> QED BY <1>3, <3>1, <3>2
  <2>2. \A i \in 1..taken : out'[i] = out[i]
    BY <1>1, <1>3
  <2> QED BY <2>1, <2>2
<1>5. hostOut' = hostOut \/ Emit(ErrorText("timeout", 0)) \/ Emit(Newline)
  BY DEF StrictExit, NoticeText, NoticeNewline, Cease, HostStep, HostSends, HostCloses, HostDies,
     HostTakes,
     ToolStep, ToolReads, ToolWrites, ToolClosesStdin, ToolClosesStdout, ToolExits, vars
<1>6. Denied' = Denied /\ Returned' = Returned /\ Blocked' = Blocked
  <2>1. CASE Emit(Newline)
    <3>1. Newline \in Chunk /\ Newline.from = "newline"
      BY DEF Newline, Chunk
    <3> QED BY <1>1, <2>1, <3>1, OutGrows DEF Denied, Returned, Blocked
  <2>2. CASE Emit(ErrorText("timeout", 0))
    <3>1. ErrorText("timeout", 0) \in Chunk /\ ErrorText("timeout", 0).from = "timeout"
      BY DEF ErrorText, Chunk
    <3> QED BY <1>1, <2>2, <3>1, OutGrows DEF Denied, Returned, Blocked
  <2> QED BY <1>5, <2>1, <2>2, SameOut
<1>7. Invoked' = Invoked /\ Refused' = Refused /\ Answered' = Answered /\ Caught' = Caught
  BY <1>2, SameAudit
<1>8. ForwardLogged'
  BY <1>1, <1>2, <1>4, <1>6, <1>7, ForwardLoggedFrame
<1>9. ReturnLogged'
  BY <1>1, <1>2, <1>4, <1>6, <1>7, ReturnLoggedFrame
<1> QED BY <1>1, <1>2, <1>8, <1>9 DEF LoggedOnce

LEMMA AuditNext == ASSUME AuditInv, [Next]_vars PROVE AuditInv'
<1>1. ReturnInv' /\ TypeInv'
  BY ReturnNext DEF AuditInv, ReturnInv
<1> QED BY <1>1, AuditForward, AuditReturn, AuditBystanders DEF Next, AuditInv

LEMMA LogFaithful == AuditInv => AuditFaithful
<1> SUFFICES ASSUME AuditInv PROVE AuditFaithful
  OBVIOUS
<1>1. /\ hostOut \in Seq(Chunk) /\ inbox \in Seq(Nat) /\ audit \in Seq(AuditEntry)
  BY DEF AuditInv, ReturnInv, TypeInv, TypeOK
<1>2. AuditAhead
  <2> SUFFICES ASSUME config.audited, ~AuditMayFail
               PROVE  /\ \A k \in DOMAIN inbox :
                           sent[inbox[k]].kind # "malformed" => inbox[k] \in Invoked
                      /\ \A k \in DOMAIN hostOut : LET chunk == hostOut[k] IN
                           /\ chunk.from = "deny" => chunk.ref \in Refused
                           /\ chunk.from = "tool" => chunk.ref \in Answered
                           /\ chunk.from = "block" => chunk.ref \in Caught
                           /\ chunk.from = "tool" /\ config.scan = "redact"
                                /\ SecretLeft(out[chunk.ref]) => chunk.ref \in Caught
    BY DEF AuditAhead, Invoked, Refused, Answered, Caught
  <2>1. \A k \in DOMAIN inbox : inbox[k] \in ToTool
    BY <1>1 DEF ToTool, Delivered
  <2>2. \A k \in DOMAIN hostOut :
          /\ hostOut[k].from = "deny" => hostOut[k].ref \in Denied
          /\ hostOut[k].from = "tool" => hostOut[k].ref \in Returned
          /\ hostOut[k].from = "block" => hostOut[k].ref \in Blocked
    <3>1. \A k \in DOMAIN hostOut : hostOut[k].ref \in Nat
      <4>1. \A k \in DOMAIN hostOut : hostOut[k] \in Chunk
        BY <1>1
      <4> QED BY <4>1 DEF Chunk
    <3>2. \A k \in DOMAIN hostOut : Shown(hostOut[k].from, hostOut[k].ref)
      BY DEF Shown
    <3> QED BY <3>1, <3>2 DEF Denied, Returned, Blocked
  <2> QED BY <2>1, <2>2 DEF AuditInv, ForwardLogged, ReturnLogged, ForwardAhead, ReturnAhead, Logging
<1>3. AuditSound
  <2>1. ASSUME NEW k \in DOMAIN audit
        PROVE  /\ audit[k].event = "invoke" => audit[k].ref \in Invoked
               /\ audit[k].event = "violation" => audit[k].ref \in Refused
               /\ audit[k].event = "response" => audit[k].ref \in Answered
               /\ audit[k].event = "secret" => audit[k].ref \in Caught
               /\ audit[k].event \in Event
    <3>1. audit[k] \in AuditEntry
      BY <1>1
    <3>2. audit[k] = [event |-> audit[k].event, ref |-> audit[k].ref]
      BY <3>1 DEF AuditEntry
    <3> QED BY <3>1, <3>2 DEF AuditEntry, Invoked, Refused, Answered, Caught, Recorded
  <2>2. /\ \A i \in Denied : Shown("deny", i)
        /\ \A i \in Returned : Shown("tool", i)
        /\ \A i \in ToTool : Delivered(i)
    BY DEF Denied, Returned, ToTool
  <2>3. /\ LoggedOnce /\ InvokedSound /\ RefusedSound /\ AnsweredSound /\ CaughtSound
    BY DEF AuditInv, ForwardLogged, ReturnLogged
  <2> QED BY <2>1, <2>2, <2>3 DEF AuditSound, LoggedOnce, InvokedSound, RefusedSound,
          AnsweredSound, CaughtSound, Event
<1> QED BY <1>2, <1>3 DEF AuditFaithful

(* Whatever the two tasks interleave and whenever they stop, no act is     *)
(* without an earlier entry, unless a write of the log failed, and no      *)
(* entry is without its act, of the right kind, logged once (proxy.rs: the *)
(* write_*_audit calls before each write to the tool and to the host).     *)
THEOREM AuditCorrect == Spec => []AuditFaithful
  BY AuditInit, AuditNext, LogFaithful, PTL DEF Spec

-----------------------------------------------------------------------------
(* The shield.                                                             *)

(* In these states the line in hand may still be shown as it is.           *)
Carried == {"scan", "audit", "text"}

-----------------------------------------------------------------------------
(* No mark without a request.                                              *)

Requests(id) == {i \in 1..nread : sent[i].kind = "list" /\ sent[i].id = id}
Marks(id) == {k \in DOMAIN hostOut : hostOut[k].marked /\ out[hostOut[k].ref].id = id}
MarkInHand(id) == rpc \in Carried /\ reply.marked /\ out[taken].id = id

(* Each request read with an id stands for one mark at most: the id that   *)
(* is still in the set, the mark in hand, or one on stdout.                *)
MarksCounted ==
  \A id \in Id :
    Cardinality(Marks(id)) + (IF id \in listIds THEN 1 ELSE 0) + (IF MarkInHand(id) THEN 1 ELSE 0)
      =< Cardinality(Requests(id))
MarkedFromTool == \A k \in DOMAIN hostOut : hostOut[k].marked => FromTool(hostOut[k])

MarksInv == ReturnInv /\ MarkedFromTool /\ MarksCounted

-----------------------------------------------------------------------------
(* No first listing without a mark.                                        *)

(* The tool's own requests use other ids than the host's.                  *)
RequestsApart == \A line \in ToolLine : line.kind = "request" => line.id \notin Id

AnswerTo(line, id) == line.kind \in {"listing", "response"} /\ line.id = id
FirstListing(i) ==
  /\ out[i].kind = "listing" /\ out[i].id # NoId
  /\ \A j \in 1..(i - 1) : ~AnswerTo(out[j], out[i].id)

(* An id that was asked with is in the set until an answer is taken.       *)
AskedTracked ==
  \A i \in 1..nread :
    sent[i].kind = "list" /\ sent[i].id # NoId =>
      sent[i].id \in listIds \/ \E j \in 1..taken : AnswerTo(out[j], sent[i].id)
(* The tool's stdin holds only what the loop has read, so what it answers  *)
(* has been tracked.                                                       *)
ListingsAsked ==
  \A j \in DOMAIN out :
    out[j].kind = "listing" => \E i \in 1..nread : sent[i].kind = "list" /\ sent[i].id = out[j].id
FirstInHand == rpc \in Carried /\ FirstListing(taken) => reply.marked
FirstMarked ==
  \A k \in DOMAIN hostOut :
    hostOut[k].from = "tool" /\ FirstListing(hostOut[k].ref) => hostOut[k].marked

Shielding == config.annotate /\ HonestTool /\ RequestsApart
ShieldParts == AskedTracked /\ ListingsAsked /\ FirstInHand /\ FirstMarked
ShieldInv == ReturnInv /\ (Shielding => ShieldParts)

-----------------------------------------------------------------------------
(* All steps but three only add an unmarked chunk, if anything.            *)
LEMMA OtherSteps ==
  ASSUME TypeInv, [Next]_vars, ~ReadHostLine, ~TakeToolLine, ~ReturnText
  PROVE  /\ nread' = nread /\ taken' = taken /\ listIds' = listIds /\ config' = config
         /\ reply'.marked = reply.marked /\ (rpc' \in Carried => rpc \in Carried)
         /\ \A i \in 1..nread : sent'[i] = sent[i]
         /\ \A j \in 1..taken : out'[j] = out[j]
         /\ \E chunk \in Chunk : Grows(chunk) /\ ~chunk.marked /\ ~FromTool(chunk)
<1>1. /\ sent \in Seq(HostLine) /\ nread \in 0..Len(sent) /\ out \in Seq(ToolLine)
      /\ taken \in 0..Len(out) /\ reply \in [marked : BOOLEAN, secret : BOOLEAN]
  BY DEF TypeInv, TypeOK
<1>2. ~Newline.marked
  BY DEF Newline
<1>3. CASE DenyText \/ NoticeText
  <2>1. PICK from \in {"deny", "timeout"}, ref \in Nat : Emit(ErrorText(from, ref))
    BY <1>1, <1>3 DEF DenyText, NoticeText
  <2>2. ErrorText(from, ref) \in Chunk /\ ~FromTool(ErrorText(from, ref)) /\ ~ErrorText(from, ref).marked
    BY ErrorChunk DEF ErrorText
  <2>3. \E chunk \in Chunk : Grows(chunk) /\ ~chunk.marked /\ ~FromTool(chunk)
    BY <2>1, <2>2, EmitGrows
  <2> QED BY <1>3, <2>3 DEF DenyText, NoticeText, hostVars, toolVars, forwardVars, returnVars
<1>4. CASE HostEof \/ AuditInvoke \/ WriteToTool \/ WriteToToolFails \/ AuditViolation
           \/ DenyNewline \/ StrictExit \/ NoticeNewline \/ Cease \/ UNCHANGED vars
  <2>1. Grows(Newline)
    BY <1>4, EmitGrows DEF HostEof, AuditInvoke, WriteToTool, WriteToToolFails, AuditViolation,
       DenyNewline, StrictExit, NoticeNewline, Cease, vars, Grows
  <2>2. UNCHANGED <<nread, taken, listIds, config, reply, rpc, sent, out>>
    BY <1>4 DEF HostEof, AuditInvoke, WriteToTool, WriteToToolFails, AuditViolation,
       DenyNewline, StrictExit, NoticeNewline, Cease, vars, hostVars, toolVars, forwardVars, returnVars
  <2> QED BY <1>2, <2>1, <2>2, NewlineChunk
<1>5. CASE ToolEof \/ ScanClean \/ ScanDetects \/ AuditResponse \/ ReturnNewline
  <2>1. Grows(Newline)
    BY <1>5, EmitGrows DEF ToolEof, ScanClean, ScanDetects, AuditResponse, ReturnNewline, Grows
  <2>2. UNCHANGED <<nread, taken, listIds, config, sent, out>> /\ reply'.marked = reply.marked
    BY <1>1, <1>5 DEF ToolEof, ScanClean, ScanDetects, AuditResponse, ReturnNewline, hostVars,
       toolVars, forwardVars
  <2>3. rpc' \in Carried => rpc \in Carried
    BY <1>5 DEF ToolEof, ScanClean, ScanDetects, AuditResponse, ReturnNewline, Carried
  <2> QED BY <1>2, <2>1, <2>2, <2>3, NewlineChunk
<1>6. CASE HostStep \/ ToolStep \/ ToolExits
  <2>1. UNCHANGED <<nread, taken, listIds, config, reply, rpc, hostOut>>
    BY <1>6 DEF HostStep, HostSends, HostCloses, HostDies, HostTakes, ToolStep, ToolReads,
       ToolWrites,
       ToolClosesStdin, ToolClosesStdout, ToolExits, forwardVars, returnVars
  <2>2. sent' = sent \/ \E line \in HostLine : sent' = Append(sent, line)
    BY <1>6 DEF HostStep, HostSends, HostCloses, HostDies, HostTakes, ToolStep, ToolReads,
       ToolWrites,
       ToolClosesStdin, ToolClosesStdout, ToolExits, hostVars
  <2>3. out' = out \/ \E line \in ToolLine : out' = Append(out, line)
    BY <1>6 DEF HostStep, HostSends, HostCloses, HostDies, HostTakes, ToolStep, ToolReads,
       ToolWrites,
       ToolClosesStdin, ToolClosesStdout, ToolExits, toolVars
  <2>4. \A i \in 1..nread : sent'[i] = sent[i]
    BY <1>1, <2>2
  <2>5. \A j \in 1..taken : out'[j] = out[j]
    BY <1>1, <2>3, AppendType
  <2> QED BY <1>2, <2>1, <2>4, <2>5, NewlineChunk DEF Grows
<1> QED BY <1>3, <1>4, <1>5, <1>6 DEF Next, ForwardStep, ReturnStep

(* What the return task makes of a line it takes.                          *)
LEMMA Taken ==
  ASSUME TypeInv, TakeToolLine
  PROVE  /\ rpc = "read" /\ taken \in Nat /\ taken' = taken + 1 /\ taken' \in DOMAIN out
         /\ UNCHANGED <<nread, sent, out, hostOut, config>>
         /\ listIds' = IF Tracked(out[taken']) THEN listIds \ {out[taken'].id} ELSE listIds
         /\ reply'.marked = (Tracked(out[taken']) /\ out[taken'].kind = "listing")
  BY DEF TypeInv, TypeOK, TakeToolLine, Untrack, hostVars, forwardVars, toolVars

-----------------------------------------------------------------------------
LEMMA MarksFinite ==
  ASSUME TypeInv, NEW id
  PROVE  /\ IsFiniteSet(Marks(id)) /\ Cardinality(Marks(id)) \in Nat
         /\ IsFiniteSet(Requests(id)) /\ Cardinality(Requests(id)) \in Nat
<1>1. DOMAIN hostOut = 1..Len(hostOut) /\ Len(hostOut) \in Nat /\ nread \in Nat
  BY DEF TypeInv, TypeOK
<1>2. IsFiniteSet(1..Len(hostOut)) /\ IsFiniteSet(1..nread)
  BY <1>1, FS_Interval
<1>3. Marks(id) \in SUBSET (1..Len(hostOut)) /\ Requests(id) \in SUBSET (1..nread)
  BY <1>1 DEF Marks, Requests
<1>4. IsFiniteSet(Marks(id)) /\ IsFiniteSet(Requests(id))
  BY <1>2, <1>3, FS_Subset
<1> QED BY <1>4, FS_CardinalityType

(* A chunk without a mark changes nothing.                                 *)
LEMMA SameMarks ==
  ASSUME ReturnInv, MarkedFromTool, NEW id, NEW chunk \in Chunk, Grows(chunk), ~chunk.marked,
         \A j \in 1..taken : out'[j] = out[j]
  PROVE  Marks(id)' = Marks(id) /\ MarkedFromTool'
<1>1. hostOut \in Seq(Chunk)
  BY DEF ReturnInv, TypeInv, TypeOK
<1>2. \A k \in DOMAIN hostOut : hostOut[k].marked => out'[hostOut[k].ref] = out[hostOut[k].ref]
  BY DEF ReturnInv, ShownWereTaken, MarkedFromTool
<1>3. Marks(id)' = Marks(id)
  BY <1>1, <1>2, GrownParts DEF Marks
<1>4. MarkedFromTool'
  BY <1>1, GrownParts DEF MarkedFromTool
<1> QED BY <1>3, <1>4

LEMMA MarksRead == MarksInv /\ ReturnInv' /\ ReadHostLine => MarksInv'
<1> SUFFICES ASSUME MarksInv, ReturnInv', ReadHostLine PROVE MarksInv'
  OBVIOUS
<1> DEFINE line == sent[nread + 1]
<1>1. /\ nread \in Nat /\ nread' = nread + 1
      /\ UNCHANGED <<sent, hostOut, out, taken, rpc, reply>>
      /\ listIds' = listIds \cup (IF config.annotate /\ line.kind = "list" THEN {line.id} \ {NoId} ELSE {})
  BY DEF MarksInv, ReturnInv, TypeInv, TypeOK, ReadHostLine, Track, hostVars, toolVars, returnVars
<1>2. MarkedFromTool'
  BY <1>1 DEF MarksInv, MarkedFromTool
<1>3. ASSUME NEW id \in Id
      PROVE  Cardinality(Marks(id)') + (IF id \in listIds' THEN 1 ELSE 0) + (IF MarkInHand(id)' THEN 1 ELSE 0)
               =< Cardinality(Requests(id)')
  <2>1. /\ Cardinality(Marks(id)) + (IF id \in listIds THEN 1 ELSE 0) + (IF MarkInHand(id) THEN 1 ELSE 0)
             =< Cardinality(Requests(id))
        /\ Cardinality(Marks(id)) \in Nat /\ Cardinality(Requests(id)) \in Nat
        /\ IsFiniteSet(Requests(id))
    BY MarksFinite DEF MarksInv, MarksCounted, ReturnInv
  <2>2. Marks(id)' = Marks(id) /\ MarkInHand(id)' = MarkInHand(id)
    BY <1>1 DEF Marks, MarkInHand
  <2>3. CASE line.kind = "list" /\ line.id = id
    <3>1. Requests(id)' = Requests(id) \cup {nread + 1} /\ nread + 1 \notin Requests(id)
      BY <1>1, <2>3 DEF Requests
    <3>2. Cardinality(Requests(id)') = Cardinality(Requests(id)) + 1
      BY <2>1, <3>1, FS_AddElement
    <3> QED BY <2>1, <2>2, <3>2
  <2>4. CASE ~(line.kind = "list" /\ line.id = id)
    <3>1. Requests(id)' = Requests(id)
      BY <1>1, <2>4 DEF Requests
    <3>2. id \in listIds' <=> id \in listIds
      BY <1>1, <2>4
    <3> QED BY <2>1, <2>2, <3>1, <3>2
  <2> QED BY <2>3, <2>4
<1> QED BY <1>2, <1>3 DEF MarksInv, MarksCounted

(* The mark in hand was the id in the set.                                 *)
LEMMA MarksTake == MarksInv /\ ReturnInv' /\ TakeToolLine => MarksInv'
<1> SUFFICES ASSUME MarksInv, ReturnInv', TakeToolLine PROVE MarksInv'
  OBVIOUS
<1>0. TypeInv
  BY DEF MarksInv, ReturnInv
<1>1. MarkedFromTool'
  BY <1>0, Taken DEF MarksInv, MarkedFromTool, FromTool
<1>2. ASSUME NEW id \in Id
      PROVE  Cardinality(Marks(id)') + (IF id \in listIds' THEN 1 ELSE 0) + (IF MarkInHand(id)' THEN 1 ELSE 0)
               =< Cardinality(Requests(id)')
  <2>1. /\ Cardinality(Marks(id)) + (IF id \in listIds THEN 1 ELSE 0) + (IF MarkInHand(id) THEN 1 ELSE 0)
             =< Cardinality(Requests(id))
        /\ Cardinality(Marks(id)) \in Nat /\ Cardinality(Requests(id)) \in Nat
    BY <1>0, MarksFinite DEF MarksInv, MarksCounted
  <2>2. Marks(id)' = Marks(id) /\ Requests(id)' = Requests(id) /\ ~MarkInHand(id)
    BY <1>0, Taken DEF Marks, Requests, MarkInHand, Carried
  <2>3. /\ id \in listIds' => id \in listIds
        /\ MarkInHand(id)' => id \in listIds /\ id \notin listIds'
    BY <1>0, Taken DEF MarkInHand, Tracked
  <2> QED BY <2>1, <2>2, <2>3
<1> QED BY <1>1, <1>2 DEF MarksInv, MarksCounted

(* The mark on stdout was the one in hand.                                 *)
LEMMA MarksShow == MarksInv /\ ReturnInv' /\ ReturnText => MarksInv'
<1> SUFFICES ASSUME MarksInv, ReturnInv', ReturnText PROVE MarksInv'
  OBVIOUS
<1> DEFINE chunk == IF rpc = "block"
                      THEN ErrorText("block", taken)
                      ELSE [from |-> "tool", ref |-> taken, marked |-> reply.marked,
                            secret |-> reply.secret]
<1>1. /\ rpc \in {"text", "block"} /\ rpc' = "newline" /\ Emit(chunk)
      /\ UNCHANGED <<nread, sent, taken, out, listIds>>
      /\ hostOut \in Seq(Chunk) /\ taken \in Nat
      /\ reply \in [marked : BOOLEAN, secret : BOOLEAN]
  BY DEF MarksInv, ReturnInv, TypeInv, TypeOK, ReturnText, hostVars, toolVars, forwardVars
<1>2. /\ chunk \in Chunk /\ chunk.ref = taken /\ FromTool(chunk)
      /\ chunk.marked => rpc = "text" /\ reply.marked
  BY <1>1 DEF ErrorText, Chunk, FromTool
<1> HIDE DEF chunk
<1>3. Grows(chunk)
  BY <1>1, EmitGrows
<1>4. MarkedFromTool'
  BY <1>1, <1>2, <1>3, GrownParts DEF MarksInv, MarkedFromTool
<1>5. ASSUME NEW id \in Id
      PROVE  Cardinality(Marks(id)') + (IF id \in listIds' THEN 1 ELSE 0) + (IF MarkInHand(id)' THEN 1 ELSE 0)
               =< Cardinality(Requests(id)')
  <2>1. /\ Cardinality(Marks(id)) + (IF id \in listIds THEN 1 ELSE 0) + (IF MarkInHand(id) THEN 1 ELSE 0)
             =< Cardinality(Requests(id))
        /\ Cardinality(Marks(id)) \in Nat /\ Cardinality(Requests(id)) \in Nat
        /\ IsFiniteSet(Marks(id))
    BY MarksFinite DEF MarksInv, MarksCounted, ReturnInv
  <2>2. Requests(id)' = Requests(id) /\ ~MarkInHand(id)' /\ listIds' = listIds
    BY <1>1 DEF Requests, MarkInHand, Carried
  <2>3. CASE chunk.marked /\ out[taken].id = id
    <3>1. MarkInHand(id)
      BY <1>1, <1>2, <2>3 DEF MarkInHand, Carried
    <3>2. PICK new : new = Len(hostOut) + 1
      OBVIOUS
    <3>3. Marks(id)' \subseteq Marks(id) \cup {new}
      <4>1. DOMAIN hostOut' \subseteq DOMAIN hostOut \cup {new}
        BY <1>1, <1>2, <1>3, <3>2 DEF Grows
      <4> QED BY <1>1, <1>2, <1>3, <4>1, GrownParts DEF Marks
    <3>4. /\ IsFiniteSet(Marks(id) \cup {new})
          /\ Cardinality(Marks(id) \cup {new}) =< Cardinality(Marks(id)) + 1
      <4>1. CASE new \in Marks(id)
        BY <2>1, <4>1, FS_AddElement
      <4>2. CASE new \notin Marks(id)
        <5>1. /\ IsFiniteSet(Marks(id) \cup {new})
              /\ Cardinality(Marks(id) \cup {new}) = Cardinality(Marks(id)) + 1
          BY <2>1, <4>2, FS_AddElement
        <5> QED BY <2>1, <5>1
      <4> QED BY <4>1, <4>2
    <3>5. /\ IsFiniteSet(Marks(id)')
          /\ Cardinality(Marks(id)') =< Cardinality(Marks(id) \cup {new})
      BY <3>3, <3>4, FS_Subset
    <3>6. Cardinality(Marks(id)') =< Cardinality(Marks(id)) + 1 /\ Cardinality(Marks(id)') \in Nat
      BY <2>1, <3>4, <3>5, FS_CardinalityType
    <3> QED BY <2>1, <2>2, <3>1, <3>6
  <2>4. CASE ~(chunk.marked /\ out[taken].id = id)
    <3>1. Marks(id)' = Marks(id)
      BY <1>1, <1>2, <1>3, <2>4, GrownParts DEF Marks
    <3> QED BY <2>1, <2>2, <3>1
  <2> QED BY <2>3, <2>4
<1> QED BY <1>4, <1>5 DEF MarksInv, MarksCounted

LEMMA MarksNext == MarksInv /\ [Next]_vars => MarksInv'
<1> SUFFICES ASSUME MarksInv, [Next]_vars PROVE MarksInv'
  OBVIOUS
<1>1. ReturnInv' /\ TypeInv /\ ReturnInv
  BY ReturnNext DEF MarksInv, ReturnInv
<1>2. CASE ReadHostLine \/ TakeToolLine \/ ReturnText
  BY <1>1, <1>2, MarksRead, MarksTake, MarksShow
<1>3. CASE ~ReadHostLine /\ ~TakeToolLine /\ ~ReturnText
  <2>1. /\ nread' = nread /\ taken' = taken /\ listIds' = listIds
        /\ reply'.marked = reply.marked /\ (rpc' \in Carried => rpc \in Carried)
        /\ \A i \in 1..nread : sent'[i] = sent[i]
        /\ \A j \in 1..taken : out'[j] = out[j]
    BY <1>1, <1>3, OtherSteps
  <2>2. PICK chunk \in Chunk : Grows(chunk) /\ ~chunk.marked
    BY <1>1, <1>3, OtherSteps
  <2>3. MarkedFromTool' /\ \A id : Marks(id)' = Marks(id)
    BY <1>1, <2>1, <2>2, SameMarks DEF MarksInv
  <2>4. \A id : Requests(id)' = Requests(id)
    BY <2>1 DEF Requests
  <2>5. \A id : MarkInHand(id)' => MarkInHand(id)
    <3>1. rpc \in Carried => taken \in 1..taken
      BY <1>1 DEF ReturnInv, ReplyJudged, Carried, InHand, TypeInv, TypeOK
    <3> QED BY <2>1, <3>1 DEF MarkInHand
  <2>6. ASSUME NEW id \in Id
        PROVE  Cardinality(Marks(id)') + (IF id \in listIds' THEN 1 ELSE 0) + (IF MarkInHand(id)' THEN 1 ELSE 0)
                 =< Cardinality(Requests(id)')
    <3>1. /\ Cardinality(Marks(id)) + (IF id \in listIds THEN 1 ELSE 0) + (IF MarkInHand(id) THEN 1 ELSE 0)
               =< Cardinality(Requests(id))
          /\ Cardinality(Marks(id)) \in Nat /\ Cardinality(Requests(id)) \in Nat
      BY <1>1, MarksFinite DEF MarksInv, MarksCounted
    <3>2. Marks(id)' = Marks(id) /\ Requests(id)' = Requests(id) /\ (MarkInHand(id)' => MarkInHand(id))
      BY <2>3, <2>4, <2>5
    <3> QED BY <2>1, <3>1, <3>2
  <2> QED BY <1>1, <2>3, <2>6 DEF MarksInv, MarksCounted
<1> QED BY <1>2, <1>3

(* However the host reuses ids and the tool answers, no more lines with an *)
(* id are marked than listings were asked for with it                      *)
(* (track_tools_list_id, annotate_tools_list_response).                    *)
THEOREM MarksCorrect == Spec => []MarksWereRequested
<1>1. Init => MarksInv
  <2> SUFFICES ASSUME Init PROVE MarksInv
    OBVIOUS
  <2>1. ReturnInv /\ TypeInv
    BY ReturnInit DEF ReturnInv
  <2>2. \A id : Marks(id) = {} /\ ~MarkInHand(id) /\ listIds = {}
    BY DEF Init, Marks, MarkInHand
  <2>3. MarkedFromTool
    BY DEF Init, MarkedFromTool
  <2> QED BY <2>1, <2>2, <2>3, MarksFinite, FS_EmptySet DEF MarksInv, MarksCounted
<1>2. MarksInv => MarksWereRequested
  <2> SUFFICES ASSUME MarksInv, NEW id \in Id
               PROVE  Cardinality(Marks(id)) =< Cardinality(Requests(id))
    BY DEF MarksWereRequested, Marks, Requests
  <2>1. Cardinality(Marks(id)) \in Nat /\ Cardinality(Requests(id)) \in Nat
    BY MarksFinite DEF MarksInv, ReturnInv
  <2> QED BY <2>1 DEF MarksInv, MarksCounted
<1> QED BY <1>1, <1>2, MarksNext, PTL DEF Spec

-----------------------------------------------------------------------------
(* What was a first listing remains one.                                   *)
LEMMA SameFirst ==
  ASSUME NEW j \in 1..taken, taken \in Nat, \A i \in 1..taken : out'[i] = out[i]
  PROVE  FirstListing(j)' <=> FirstListing(j)
  BY DEF FirstListing, AnswerTo

LEMMA ShieldRead ==
  ASSUME ReturnInv, Shielding, ShieldParts, ReadHostLine
  PROVE  ShieldParts'
<1>1. /\ nread \in Nat /\ nread' = nread + 1
      /\ UNCHANGED <<sent, hostOut, out, taken, rpc, reply>>
      /\ sent[nread + 1].id # NoId => sent[nread + 1].id \in Id
      /\ listIds' = listIds \cup
           (IF sent[nread + 1].kind = "list" THEN {sent[nread + 1].id} \ {NoId} ELSE {})
  BY RelayAssumption DEF ReturnInv, TypeInv, TypeOK, ReadHostLine, Track, Shielding, hostVars,
     toolVars, returnVars
<1>2. AskedTracked'
  BY <1>1 DEF ShieldParts, AskedTracked
<1>3. ListingsAsked'
  BY <1>1 DEF ShieldParts, ListingsAsked
<1>4. FirstInHand' /\ FirstMarked'
  BY <1>1 DEF ShieldParts, FirstInHand, FirstMarked, FirstListing
<1> QED BY <1>2, <1>3, <1>4 DEF ShieldParts

(* The first answer to an id finds it in the set.                          *)
LEMMA ShieldTake ==
  ASSUME ReturnInv, Shielding, ShieldParts, TakeToolLine
  PROVE  ShieldParts'
<1>0. TypeInv /\ out \in Seq(ToolLine) /\ HostLine \subseteq [kind : HostKind, id : Id \cup {NoId}]
      /\ sent \in Seq(HostLine) /\ nread \in 0..Len(sent)
  BY RelayAssumption DEF ReturnInv, TypeInv, TypeOK
<1> DEFINE line == out[taken + 1]
<1>1. /\ rpc = "read" /\ taken \in Nat /\ taken' = taken + 1 /\ taken + 1 \in DOMAIN out
      /\ UNCHANGED <<nread, sent, out, hostOut>>
      /\ listIds' = IF Tracked(line) THEN listIds \ {line.id} ELSE listIds
      /\ reply'.marked = (Tracked(line) /\ line.kind = "listing")
  BY <1>0, Taken
<1>2. line \in ToolLine
  BY <1>0, <1>1
<1>3. AskedTracked'
  <2> SUFFICES ASSUME NEW i \in 1..nread, sent[i].kind = "list", sent[i].id # NoId
               PROVE  sent[i].id \in listIds' \/ \E j \in 1..taken' : AnswerTo(out[j], sent[i].id)
    BY <1>1 DEF AskedTracked, AnswerTo
  <2>1. sent[i].id \in Id
    BY <1>0
  <2>2. CASE \E j \in 1..taken : AnswerTo(out[j], sent[i].id)
    BY <1>1, <2>2
  <2>3. CASE sent[i].id \in listIds
    <3>1. CASE sent[i].id \in listIds'
      BY <3>1
    <3>2. CASE sent[i].id \notin listIds'
      <4>1. Tracked(line) /\ line.id = sent[i].id
        BY <1>1, <2>3, <3>2
      <4>2. line.kind # "request"
        BY <1>2, <2>1, <4>1 DEF Shielding, RequestsApart
      <4>3. AnswerTo(line, sent[i].id)
        BY <4>1, <4>2 DEF AnswerTo, Tracked
      <4> QED BY <1>1, <4>3
    <3> QED BY <3>1, <3>2
  <2> QED BY <2>2, <2>3 DEF ShieldParts, AskedTracked
<1>4. ListingsAsked'
  BY <1>1 DEF ShieldParts, ListingsAsked
<1>5. FirstInHand'
  <2> SUFFICES ASSUME FirstListing(taken + 1) PROVE reply'.marked
    BY <1>1 DEF FirstInHand, FirstListing, AnswerTo
  <2>1. line.kind = "listing" /\ line.id # NoId /\ \A j \in 1..taken : ~AnswerTo(out[j], line.id)
    BY <1>1 DEF FirstListing
  <2>2. PICK i \in 1..nread : sent[i].kind = "list" /\ sent[i].id = line.id
    BY <1>1, <2>1 DEF ShieldParts, ListingsAsked
  <2>3. line.id \in listIds
    BY <2>1, <2>2 DEF ShieldParts, AskedTracked
  <2> QED BY <1>1, <2>1, <2>3 DEF Tracked, Shielding
<1>6. FirstMarked'
  BY <1>1 DEF ShieldParts, FirstMarked, FirstListing, AnswerTo
<1> QED BY <1>3, <1>4, <1>5, <1>6 DEF ShieldParts

LEMMA ShieldShow ==
  ASSUME ReturnInv, Shielding, ShieldParts, ReturnText
  PROVE  ShieldParts'
<1> DEFINE chunk == IF rpc = "block"
                      THEN ErrorText("block", taken)
                      ELSE [from |-> "tool", ref |-> taken, marked |-> reply.marked,
                            secret |-> reply.secret]
<1>1. /\ rpc \in {"text", "block"} /\ rpc' = "newline" /\ Emit(chunk)
      /\ UNCHANGED <<nread, sent, taken, out, listIds>>
      /\ hostOut \in Seq(Chunk) /\ taken \in Nat
      /\ reply \in [marked : BOOLEAN, secret : BOOLEAN]
  BY DEF ReturnInv, TypeInv, TypeOK, ReturnText, hostVars, toolVars, forwardVars
<1>2. /\ chunk \in Chunk /\ chunk.ref = taken
      /\ chunk.from = "tool" => rpc = "text" /\ chunk.marked = reply.marked
  BY <1>1 DEF ErrorText, Chunk
<1> HIDE DEF chunk
<1>3. Grows(chunk)
  BY <1>1, EmitGrows
<1>4. chunk.from = "tool" /\ FirstListing(taken) => chunk.marked
  BY <1>2 DEF ShieldParts, FirstInHand, Carried
<1>5. FirstMarked'
  BY <1>1, <1>2, <1>3, <1>4, GrownParts DEF ShieldParts, FirstMarked, FirstListing
<1>6. AskedTracked' /\ ListingsAsked'
  BY <1>1 DEF ShieldParts, AskedTracked, ListingsAsked
<1>7. FirstInHand'
  BY <1>1 DEF FirstInHand, Carried
<1> QED BY <1>5, <1>6, <1>7 DEF ShieldParts

(* The tool answers what it was given, and it was given what was read.     *)
LEMMA ToolAsked ==
  ASSUME TypeInv, HonestTool, ListingsAsked, [Next]_vars, nread' = nread,
         \A i \in 1..nread : sent'[i] = sent[i]
  PROVE  ListingsAsked'
<1>0. /\ nread \in Nat /\ inbox \in Seq(1..nread) /\ consumed \in 0..Len(inbox) /\ out \in Seq(ToolLine)
  BY DEF TypeInv, TypeOK
<1>1. CASE out' = out
  BY <1>1 DEF ListingsAsked
<1>2. CASE \E line \in ToolLine : ToolWrites(line)
  <2> PICK line \in ToolLine : ToolWrites(line)
    BY <1>2
  <2>1. out' = Append(out, line) /\ (line.kind = "listing" => Answers(line))
    BY DEF ToolWrites
  <2>2. line.kind = "listing" => \E i \in 1..nread : sent[i].kind = "list" /\ sent[i].id = line.id
    <3> SUFFICES ASSUME line.kind = "listing"
                 PROVE  \E i \in 1..nread : sent[i].kind = "list" /\ sent[i].id = line.id
      OBVIOUS
    <3>1. PICK k \in 1..consumed : sent[inbox[k]].id = line.id /\ sent[inbox[k]].kind = "list"
      BY <2>1 DEF Answers
    <3>2. inbox[k] \in 1..nread
      BY <1>0, <3>1
    <3> QED BY <3>1, <3>2
  <2>3. \A j \in DOMAIN out' : (j \in DOMAIN out /\ out'[j] = out[j]) \/ out'[j] = line
    BY <1>0, <2>1, AppendType
  <2> QED BY <2>2, <2>3 DEF ListingsAsked
<1>3. out' = out \/ \E line \in ToolLine : ToolWrites(line)
  BY DEF Next, ForwardStep, ReadHostLine, HostEof, AuditInvoke, WriteToTool, WriteToToolFails,
     AuditViolation, DenyText, DenyNewline, StrictExit, ReturnStep, TakeToolLine, ToolEof, ScanClean,
     ScanDetects, AuditResponse, ReturnText, ReturnNewline, NoticeText, NoticeNewline, Cease,
     HostStep, HostSends, HostCloses, HostDies, HostTakes, ToolStep, ToolReads, ToolClosesStdin,
     ToolClosesStdout, ToolExits,
     vars, toolVars
<1> QED BY <1>1, <1>2, <1>3

LEMMA ShieldOther ==
  ASSUME ReturnInv, Shielding, ShieldParts, [Next]_vars, ~ReadHostLine, ~TakeToolLine, ~ReturnText
  PROVE  ShieldParts'
<1>0. TypeInv /\ hostOut \in Seq(Chunk) /\ taken \in Nat
  BY DEF ReturnInv, TypeInv, TypeOK
<1>1. /\ nread' = nread /\ taken' = taken /\ listIds' = listIds
      /\ reply'.marked = reply.marked /\ (rpc' \in Carried => rpc \in Carried)
      /\ \A i \in 1..nread : sent'[i] = sent[i]
      /\ \A j \in 1..taken : out'[j] = out[j]
  BY <1>0, OtherSteps
<1>2. PICK chunk \in Chunk : Grows(chunk) /\ ~FromTool(chunk)
  BY <1>0, OtherSteps
<1>3. \A j \in 1..taken : FirstListing(j)' <=> FirstListing(j)
  BY <1>0, <1>1, SameFirst
<1>4. AskedTracked'
  BY <1>1 DEF ShieldParts, AskedTracked, AnswerTo
<1>5. ListingsAsked'
  BY <1>0, <1>1, ToolAsked DEF ShieldParts, Shielding
<1>6. FirstInHand'
  <2>1. rpc \in Carried => taken \in 1..taken
    BY <1>0 DEF ReturnInv, ReplyJudged, Carried, InHand
  <2> QED BY <1>1, <1>3, <2>1 DEF ShieldParts, FirstInHand
<1>7. FirstMarked'
  <2> SUFFICES ASSUME NEW k \in (DOMAIN hostOut)', hostOut'[k].from = "tool",
                      FirstListing(hostOut[k].ref)'
               PROVE  hostOut'[k].marked
    BY DEF FirstMarked
  <2>1. k \in DOMAIN hostOut /\ hostOut'[k] = hostOut[k]
    BY <1>0, <1>2, GrownParts DEF FromTool
  <2>2. hostOut[k].ref \in 1..taken
    BY <2>1 DEF ReturnInv, ShownWereTaken, FromTool
  <2>3. FirstListing(hostOut[k].ref)
    BY <1>0, <1>1, <2>1, <2>2 DEF FirstListing, AnswerTo
  <2> QED BY <2>1, <2>3 DEF ShieldParts, FirstMarked
<1> QED BY <1>4, <1>5, <1>6, <1>7 DEF ShieldParts

LEMMA ShieldNext == ShieldInv /\ [Next]_vars => ShieldInv'
<1> SUFFICES ASSUME ShieldInv, [Next]_vars PROVE ShieldInv'
  OBVIOUS
<1>1. ReturnInv /\ ReturnInv'
  BY ReturnNext DEF ShieldInv
<1>2. config' = config
  BY DEF Next, ForwardStep, ReadHostLine, HostEof, AuditInvoke, WriteToTool, WriteToToolFails,
     AuditViolation, DenyText, DenyNewline, StrictExit, ReturnStep, TakeToolLine, ToolEof, ScanClean,
     ScanDetects, AuditResponse, ReturnText, ReturnNewline, NoticeText, NoticeNewline, Cease,
     HostStep, HostSends, HostCloses, HostDies, HostTakes, ToolStep, ToolReads, ToolWrites,
     ToolClosesStdin, ToolClosesStdout,
     ToolExits, vars
<1>3. CASE ~Shielding
  BY <1>1, <1>2, <1>3 DEF ShieldInv, Shielding
<1>4. CASE Shielding
  <2>1. ShieldParts'
    BY <1>1, <1>4, ShieldRead, ShieldTake, ShieldShow, ShieldOther DEF ShieldInv
  <2> QED BY <1>1, <2>1 DEF ShieldInv, ShieldParts
<1> QED BY <1>3, <1>4

(* With a tool that answers what it has read, and whose own requests use   *)
(* other ids, the first answer to each listing is marked: its id is in the *)
(* set before the tool can have read the request, and leaves it only for   *)
(* an answer; and no other line is marked.                                 *)
THEOREM ShieldsCorrect ==
  ASSUME RequestsApart
  PROVE  Spec => []ShieldsExact
<1>1. Init => ShieldInv
  BY ReturnInit DEF Init, ShieldInv, ShieldParts, AskedTracked, ListingsAsked, FirstInHand, FirstMarked, Carried
<1>2. ShieldInv => ListingsAnnotated
  <2> SUFFICES ASSUME ShieldInv, config.annotate, HonestTool, NEW k \in DOMAIN hostOut,
                      hostOut[k].from = "tool", FirstListing(hostOut[k].ref)
               PROVE  hostOut[k].marked
    BY DEF ListingsAnnotated, FirstListing, AnswerTo
  <2> QED BY DEF ShieldInv, Shielding, ShieldParts, FirstMarked
<1> QED BY <1>1, <1>2, ShieldNext, MarksCorrect, PTL DEF Spec, ShieldsExact

-----------------------------------------------------------------------------
(* The gate.                                                               *)

(* A loop that has met a line that is not UTF-8 has ended, and a line the  *)
(* return task has in hand is one for the host.                            *)
HostSideEnded == \A i \in 1..nread : sent[i].kind = "garbled" => fpc = "done"
ToolSideEnded == \A i \in 1..taken : out[i].kind = "garbled" => rpc = "done"
HandHasAnswer == rpc \in InHand => out[taken].kind \notin {"empty", "garbled"}

GateInv == ForwardInv /\ ReturnInv /\ DenyInv /\ HostSideEnded /\ ToolSideEnded /\ HandHasAnswer

LEMMA SidesEnd ==
  ASSUME GateInv, TypeInv', [Next]_vars
  PROVE  HostSideEnded' /\ ToolSideEnded' /\ HandHasAnswer'
<1>1. TypeInv /\ HostSideEnded /\ ToolSideEnded /\ HandHasAnswer
  BY DEF GateInv, ForwardInv
<1>2. sent \in Seq(HostLine) /\ nread \in 0..Len(sent) /\ out \in Seq(ToolLine) /\ taken \in 0..Len(out)
  BY <1>1 DEF TypeInv, TypeOK
<1>3. CASE ReadHostLine
  <2>1. nread' = nread + 1 /\ sent' = sent /\ fpc = "read"
    BY <1>3 DEF ReadHostLine, hostVars
  <2>2. sent[nread + 1].kind = "garbled" => fpc' = "done"
    BY <1>3 DEF ReadHostLine, Admit
  <2>3. HostSideEnded'
    BY <1>1, <1>2, <2>1, <2>2 DEF HostSideEnded
  <2> QED BY <1>1, <1>3, <2>3 DEF ReadHostLine, ToolSideEnded, HandHasAnswer, toolVars, returnVars
<1>4. CASE TakeToolLine
  <2>1. taken' = taken + 1 /\ out' = out /\ rpc = "read" /\ UNCHANGED <<hostVars, forwardVars>>
    BY <1>4 DEF TakeToolLine, toolVars
  <2>2. /\ out[taken + 1].kind = "garbled" => rpc' = "done"
        /\ out[taken + 1].kind = "empty" => rpc' = "read"
    BY <1>4, Zenon DEF TakeToolLine
  <2>3. ToolSideEnded'
    BY <1>1, <1>2, <2>1, <2>2 DEF ToolSideEnded
  <2>4. HandHasAnswer'
    BY <2>1, <2>2 DEF HandHasAnswer, InHand
  <2> QED BY <1>1, <2>1, <2>3, <2>4 DEF HostSideEnded, hostVars, forwardVars
<1>5. CASE ForwardStep /\ ~ReadHostLine
  <2>1. nread' = nread /\ sent' = sent /\ (fpc = "done" => fpc' = "done")
        /\ out' = out /\ UNCHANGED returnVars
    BY <1>5 DEF ForwardStep, HostEof, AuditInvoke, WriteToTool, WriteToToolFails,
       AuditViolation, DenyText, DenyNewline, hostVars, toolVars
  <2> QED BY <1>1, <2>1 DEF HostSideEnded, ToolSideEnded, HandHasAnswer, returnVars
<1>6. CASE ReturnStep /\ ~TakeToolLine
  <2>1. /\ taken' = taken /\ out' = out /\ (rpc = "done" => rpc' = "done")
        /\ rpc' \in InHand => rpc \in InHand
        /\ sent' = sent /\ UNCHANGED forwardVars
    BY <1>6 DEF ReturnStep, ToolEof, ScanClean, ScanDetects, AuditResponse, ReturnText,
       ReturnNewline, hostVars, toolVars, InHand
  <2> QED BY <1>1, <2>1 DEF HostSideEnded, ToolSideEnded, HandHasAnswer, forwardVars
<1>7. CASE HostStep \/ ToolStep
  <2>1. /\ fpc' = fpc /\ rpc' = rpc /\ taken' = taken /\ nread' = nread
        /\ \A i \in DOMAIN sent : sent'[i] = sent[i]
    BY <1>1, <1>7, PartnersFrame
  <2>2. \A i \in 1..taken : out'[i] = out[i]
    <3>1. CASE \E line \in ToolLine : ToolWrites(line)
      BY <1>2, <3>1, AppendType DEF ToolWrites
    <3>2. CASE ~\E line \in ToolLine : ToolWrites(line)
      BY <1>7, <3>2 DEF HostStep, HostSends, HostCloses, HostDies, HostTakes, ToolStep, ToolReads,
         ToolClosesStdin, ToolClosesStdout, toolVars
    <3> QED BY <3>1, <3>2
  <2>3. rpc \in InHand => taken \in 1..taken
    BY <1>2 DEF GateInv, ReturnInv, ReplyJudged
  <2> QED BY <1>1, <1>2, <2>1, <2>2, <2>3 DEF HostSideEnded, ToolSideEnded, HandHasAnswer
<1>8. CASE StrictExit \/ NoticeText \/ NoticeNewline \/ Cease \/ ToolExits \/ UNCHANGED vars
  <2>1. UNCHANGED <<sent, nread, fpc, out, taken, rpc>>
    BY <1>8 DEF StrictExit, NoticeText, NoticeNewline, Cease, ToolExits, vars, hostVars,
       forwardVars, toolVars, returnVars
  <2> QED BY <1>1, <2>1 DEF HostSideEnded, ToolSideEnded, HandHasAnswer
<1> QED BY <1>3, <1>4, <1>5, <1>6, <1>7, <1>8 DEF Next

LEMMA GateInvNext == ASSUME GateInv, [Next]_vars PROVE GateInv'
<1>1. ForwardInv' /\ ReturnInv' /\ DenyInv'
  BY ForwardNext, ReturnNext, DenyNext DEF GateInv
<1>2. TypeInv'
  BY <1>1 DEF ForwardInv
<1> QED BY <1>1, <1>2, SidesEnd DEF GateInv

-----------------------------------------------------------------------------
(* The steps of the gate.                                                  *)

LEMMA SameRules == ASSUME config' = config PROVE UNCHANGED G!rules
  BY DEF G!rules, SecretLeft

LEMMA Stutter ==
  ASSUME sent' = sent, Judged' = Judged, inbox' = inbox, out' = out, Settled' = Settled,
         hostOut' = hostOut, hostReads' = hostReads, toolListens' = toolListens, config' = config
  PROVE  UNCHANGED G!vars
  BY SameRules DEF G!vars

(* Newlines and the timeout error are filler.                              *)
LEMMA Filling ==
  ASSUME sent' = sent, Judged' = Judged, inbox' = inbox, out' = out, Settled' = Settled,
         hostReads' = hostReads, toolListens' = toolListens, config' = config,
         NEW chunk \in {Newline, ErrorText("timeout", 0)}, Emit(chunk)
  PROVE  [G!Next]_G!vars
<1>1. CASE hostReads
  BY <1>1, SameRules DEF Emit, G!Next, G!Fill
<1>2. CASE ~hostReads
  BY <1>2, Stutter DEF Emit
<1> QED BY <1>1, <1>2

(* Nothing is judged behind the end of the host's side.                    *)
LEMMA MayJudge ==
  ASSUME GateInv, Judged' = Judged + 1, Judged < Len(sent), fpc # "done",
         \A i \in 1..Judged : i = nread => fpc = "read"
  PROVE  G!Judging
<1>1. nread \in Nat /\ Judged \in Nat /\ \A i \in 1..Judged : i \in 1..nread
  BY DEF GateInv, ForwardInv, TypeInv, TypeOK, Reading, Judged
<1>2. \A i \in 1..Judged : sent[i].kind # "garbled"
  BY <1>1 DEF GateInv, HostSideEnded
<1>3. \A i \in 1..Judged : config.strict => sent[i].kind # "violation"
  BY <1>1 DEF GateInv, ForwardInv, ViolationIsLast, Denying
<1> QED BY <1>2, <1>3 DEF G!Judging, Of

LEMMA MaySettle ==
  ASSUME GateInv, Settled' = Settled + 1, Settled < Len(out), rpc # "done"
  PROVE  G!Settling
<1>1. \A i \in 1..Settled : i \in 1..taken
  BY DEF GateInv, ForwardInv, TypeInv, TypeOK, Settled
<1>2. \A i \in 1..Settled : out[i].kind # "garbled"
  BY <1>1 DEF GateInv, ToolSideEnded
<1> QED BY <1>2 DEF G!Settling, Of

LEMMA HostLineInHand ==
  ASSUME TypeInv, fpc \notin {"read", "done"}
  PROVE  nread \in 1..Len(sent) /\ sent[nread] \in HostLine
  BY DEF TypeInv, TypeOK, Reading

LEMMA ToolLineInHand ==
  ASSUME ReturnInv, rpc \in InHand
  PROVE  taken \in 1..Len(out) /\ out[taken] \in ToolLine
  BY DEF ReturnInv, ReplyJudged, TypeInv, TypeOK

LEMMA GateReads ==
  ASSUME GateInv, ReadHostLine
  PROVE  [G!Next]_G!vars
<1> DEFINE line == sent[nread + 1]
<1>1. /\ fpc = "read" /\ fpc' = Admit(line) /\ nread' = nread + 1 /\ nread < Len(sent)
      /\ sent' = sent /\ inbox' = inbox /\ out' = out /\ hostOut' = hostOut
      /\ hostReads' = hostReads /\ toolListens' = toolListens /\ config' = config
      /\ UNCHANGED returnVars
  BY DEF ReadHostLine, hostVars, toolVars
<1>2. Settled' = Settled
  BY <1>1 DEF Settled, returnVars
<1>3. nread \in Nat /\ line \in HostLine /\ Judged = nread
  BY <1>1 DEF GateInv, ForwardInv, TypeInv, TypeOK, Judged
<1>4. CASE line.kind \in {"empty", "garbled"}
  <2>1. Judged' = nread + 1
    BY <1>1, <1>4 DEF Judged, Admit
  <2>2. G!Judging
    BY <1>1, <1>3, <2>1, MayJudge
  <2>3. line \notin Of(HostLine, Admitted) \cup Of(HostLine, {"violation"})
    BY <1>4 DEF Of, Admitted
  <2> QED BY <1>1, <1>2, <1>3, <2>2, <2>3, SameRules DEF G!Next, G!Skip
<1>5. CASE line.kind \notin {"empty", "garbled"}
  <2>1. fpc' \in {"raw", "deny", "allow"}
    BY <1>1, <1>5 DEF Admit
  <2>2. Judged' = Judged
    BY <1>1, <1>3, <2>1 DEF Judged
  <2> QED BY <1>1, <1>2, <2>2, Stutter
<1> QED BY <1>4, <1>5

LEMMA GateWrites ==
  ASSUME GateInv, WriteToTool \/ WriteToToolFails
  PROVE  [G!Next]_G!vars
<1>1. /\ fpc \in {"write", "raw"} /\ fpc' \in {"read", "done"} /\ nread' = nread
      /\ sent' = sent /\ out' = out /\ hostOut' = hostOut
      /\ hostReads' = hostReads /\ toolListens' = toolListens /\ config' = config
      /\ UNCHANGED returnVars
  BY DEF WriteToTool, WriteToToolFails, hostVars, toolVars
<1>2. nread \in 1..Len(sent) /\ sent[nread] \in HostLine /\ sent[nread].kind \in Admitted
  BY <1>1, HostLineInHand DEF GateInv, ForwardInv, HeldIsNext, Holding
<1>3. Judged = nread - 1 /\ Judged' = nread /\ Settled' = Settled
  BY <1>1 DEF Judged, Settled, returnVars
<1>4. G!Judging /\ sent[Judged + 1] \in Of(HostLine, Admitted) /\ Judged + 1 = nread
  BY <1>1, <1>2, <1>3, MayJudge DEF Of
<1>5. CASE WriteToTool
  <2>1. inbox' = Append(inbox, nread)
    BY <1>5 DEF WriteToTool
  <2> QED BY <1>1, <1>3, <1>4, <2>1, SameRules DEF G!Next, G!Pass
<1>6. CASE WriteToToolFails
  <2>1. inbox' = inbox /\ ~toolListens
    BY <1>6 DEF WriteToToolFails, toolVars
  <2> QED BY <1>1, <1>3, <1>4, <2>1, SameRules DEF G!Next, G!Lose
<1> QED BY <1>5, <1>6

LEMMA GateDenies ==
  ASSUME GateInv, DenyText
  PROVE  [G!Next]_G!vars
<1>1. /\ fpc = "denyText" /\ fpc' = "denyNewline" /\ nread' = nread
      /\ sent' = sent /\ inbox' = inbox /\ out' = out
      /\ hostReads' = hostReads /\ toolListens' = toolListens /\ config' = config
      /\ UNCHANGED returnVars /\ Emit(ErrorText("deny", nread))
  BY DEF DenyText, hostVars, toolVars
<1>2. nread \in 1..Len(sent) /\ sent[nread] \in HostLine /\ sent[nread].kind = "violation"
  BY <1>1, HostLineInHand DEF GateInv, ForwardInv, DenyInv, ViolationInHand, Unanswered
<1>3. Judged = nread - 1 /\ Judged' = nread /\ Settled' = Settled
  BY <1>1 DEF Judged, Settled, returnVars
<1>4. G!Judging /\ sent[Judged + 1] \in Of(HostLine, {"violation"}) /\ Judged + 1 = nread
  BY <1>1, <1>2, <1>3, MayJudge DEF Of
<1>5. G!Answer("deny", nread)
  BY <1>1 DEF Emit, ErrorText, G!Answer
<1> QED BY <1>1, <1>3, <1>4, <1>5, SameRules DEF G!Next, G!Refuse

LEMMA GateTakes ==
  ASSUME GateInv, TakeToolLine
  PROVE  [G!Next]_G!vars
<1> DEFINE line == out[taken + 1]
<1>1. /\ rpc = "read" /\ taken' = taken + 1 /\ taken < Len(out)
      /\ sent' = sent /\ inbox' = inbox /\ out' = out /\ hostOut' = hostOut
      /\ hostReads' = hostReads /\ toolListens' = toolListens /\ config' = config
      /\ UNCHANGED forwardVars
  BY DEF TakeToolLine, hostVars, toolVars
<1>2. Judged' = Judged
  BY <1>1 DEF Judged, forwardVars
<1>3. taken \in Nat /\ line \in ToolLine /\ Settled = taken
  BY <1>1 DEF GateInv, ForwardInv, TypeInv, TypeOK, Settled
<1>4. CASE line.kind \in {"empty", "garbled"}
  <2>1. rpc' \in {"read", "done"}
    BY <1>4, Zenon DEF TakeToolLine
  <2>2. Settled' = taken + 1
    BY <1>1, <2>1 DEF Settled
  <2>3. G!Settling
    BY <1>1, <1>3, <2>2, MaySettle
  <2> QED BY <1>1, <1>2, <1>3, <1>4, <2>3, SameRules DEF G!Next, G!Ignore, Of
<1>5. CASE line.kind \notin {"empty", "garbled"}
  <2>1. rpc' = "scan"
    BY <1>5, Zenon DEF TakeToolLine
  <2>2. Settled' = Settled
    BY <1>1, <1>3, <2>1 DEF Settled
  <2> QED BY <1>1, <1>2, <2>2, Stutter
<1> QED BY <1>4, <1>5

LEMMA GateShows ==
  ASSUME GateInv, ReturnText
  PROVE  [G!Next]_G!vars
<1>1. /\ rpc \in {"text", "block"} /\ rpc' = "newline" /\ taken' = taken
      /\ sent' = sent /\ inbox' = inbox /\ out' = out
      /\ hostReads' = hostReads /\ toolListens' = toolListens /\ config' = config
      /\ UNCHANGED forwardVars
  BY DEF ReturnText, hostVars, toolVars
<1>2. /\ taken \in 1..Len(out) /\ out[taken] \in ToolLine
      /\ out[taken].kind \notin {"empty", "garbled"}
      /\ reply \in [marked : BOOLEAN, secret : BOOLEAN]
  BY <1>1, ToolLineInHand DEF GateInv, HandHasAnswer, InHand, ForwardInv, TypeInv, TypeOK
<1>3. Settled = taken - 1 /\ Settled' = taken /\ Judged' = Judged
  BY <1>1 DEF Judged, Settled, forwardVars
<1>4. G!Settling /\ Settled + 1 = taken
  BY <1>1, <1>2, <1>3, MaySettle
<1>5. /\ rpc = "block" <=> config.scan = "strict" /\ SecretLeft(out[taken])
      /\ rpc = "text" => (config.scan # "disabled" => ~reply.secret)
  BY <1>1 DEF GateInv, ReturnInv, ReplyJudged
<1> DEFINE origin == IF rpc = "block" THEN "block" ELSE "tool"
<1>6. G!Answer(origin, taken)
  <2>1. CASE hostReads /\ rpc = "block"
    BY <2>1 DEF ReturnText, Emit, ErrorText, G!Answer
  <2>2. CASE hostReads /\ rpc = "text"
    BY <1>2, <1>5, <2>2 DEF ReturnText, Emit, G!Answer
  <2>3. CASE ~hostReads
    BY <2>3 DEF ReturnText, Emit, G!Answer
  <2> QED BY <1>1, <2>1, <2>2, <2>3
<1>7. out[taken] \in {line \in ToolLine : config.scan = "strict" /\ SecretLeft(line)} <=> rpc = "block"
  BY <1>2, <1>5
<1>8. out[taken] \notin Of(ToolLine, {"empty", "garbled"})
  BY <1>2 DEF Of
<1> QED BY <1>1, <1>3, <1>4, <1>6, <1>7, <1>8, SameRules DEF G!Next, G!Show

(* Steps that only write a newline or the timeout error.                   *)
LEMMA GateFills ==
  ASSUME GateInv, DenyNewline \/ ReturnNewline \/ NoticeText \/ NoticeNewline
  PROVE  [G!Next]_G!vars
<1>1. /\ sent' = sent /\ inbox' = inbox /\ out' = out /\ nread' = nread /\ taken' = taken
      /\ hostReads' = hostReads /\ toolListens' = toolListens /\ config' = config
  BY DEF DenyNewline, ReturnNewline, NoticeText, NoticeNewline, hostVars, forwardVars, toolVars,
     returnVars
<1>2. Judged' = Judged
  BY <1>1 DEF DenyNewline, AfterDenial, ReturnNewline, NoticeText, NoticeNewline, forwardVars, Judged
<1>3. Settled' = Settled
  BY <1>1 DEF DenyNewline, ReturnNewline, NoticeText, NoticeNewline, returnVars, Settled
<1>4. PICK chunk \in {Newline, ErrorText("timeout", 0)} : Emit(chunk)
  BY DEF DenyNewline, ReturnNewline, NoticeText, NoticeNewline
<1> QED BY <1>1, <1>2, <1>3, <1>4, Filling

(* Steps the gate does not see.                                            *)
LEMMA GateRests ==
  ASSUME \/ HostEof \/ AuditInvoke \/ AuditViolation \/ StrictExit \/ Cease
         \/ ToolEof \/ ScanClean \/ ScanDetects \/ AuditResponse
         \/ HostCloses \/ HostTakes \/ ToolReads \/ ToolClosesStdout \/ UNCHANGED vars
  PROVE  [G!Next]_G!vars
<1>1. /\ sent' = sent /\ inbox' = inbox /\ out' = out /\ nread' = nread /\ taken' = taken
      /\ hostReads' = hostReads /\ toolListens' = toolListens /\ config' = config /\ hostOut' = hostOut
  BY DEF HostEof, AuditInvoke, AuditViolation, StrictExit, Cease, ToolEof, ScanClean, ScanDetects,
     AuditResponse, HostCloses, HostTakes, ToolReads, ToolClosesStdout, vars, hostVars, forwardVars,
     toolVars, returnVars
<1>2. Judged' = Judged
  BY <1>1 DEF HostEof, AuditInvoke, AuditViolation, StrictExit, Cease, ToolEof, ScanClean,
     ScanDetects, AuditResponse, HostCloses, HostTakes, ToolReads, ToolClosesStdout, vars,
     forwardVars, Judged
<1>3. Settled' = Settled
  BY <1>1 DEF HostEof, AuditInvoke, AuditViolation, StrictExit, Cease, ToolEof, ScanClean,
     ScanDetects, AfterDetection, AuditResponse, HostCloses, HostTakes, ToolReads,
     ToolClosesStdout, vars,
     returnVars, Settled
<1> QED BY <1>1, <1>2, <1>3, Stutter

(* Steps of the host and the tool that the gate sees.                      *)
LEMMA GatePartners ==
  ASSUME \/ \E line \in HostLine : HostSends(line)
         \/ \E line \in ToolLine : ToolWrites(line)
         \/ HostDies \/ ToolClosesStdin \/ ToolExits
  PROVE  [G!Next]_G!vars
<1>1. Judged' = Judged /\ Settled' = Settled /\ config' = config /\ inbox' = inbox /\ hostOut' = hostOut
  BY DEF HostSends, ToolWrites, HostDies, ToolClosesStdin, ToolExits, forwardVars, toolVars,
     returnVars,
     Judged, Settled
<1>2. CASE \E line \in HostLine : HostSends(line)
  BY <1>1, <1>2, SameRules DEF HostSends, toolVars, G!Next, G!HostAsks
<1>3. CASE \E line \in ToolLine : ToolWrites(line)
  BY <1>1, <1>3, SameRules DEF ToolWrites, hostVars, G!Next, G!ToolSays
<1>4. CASE HostDies
  BY <1>1, <1>4, SameRules DEF HostDies, toolVars, G!Next, G!HostLeaves
<1>5. CASE ToolClosesStdin \/ ToolExits
  BY <1>1, <1>5, SameRules DEF ToolClosesStdin, ToolExits, hostVars, G!Next, G!ToolLeaves
<1> QED BY <1>2, <1>3, <1>4, <1>5

LEMMA GateStep == ASSUME GateInv, [Next]_vars PROVE [G!Next]_G!vars
  BY GateReads, GateWrites, GateDenies, GateTakes, GateShows, GateFills, GateRests, GatePartners
     DEF Next, ForwardStep, ReturnStep, HostStep, ToolStep

(* For any lines, any policy and any bounds the two tasks, their pipes and *)
(* their log are one gate: each host line is judged once and in order,     *)
(* each tool line answered once and in order, by its kind alone, and       *)
(* nothing else crosses (forward_host_to_tool and forward_tool_to_host).   *)
THEOREM RelayIsGate == Spec => ImplementsGate
<1>1. Init => G!Init
  <2> SUFFICES ASSUME Init PROVE G!Init
    OBVIOUS
  <2>1. config.strict \in BOOLEAN
    BY RelayAssumption DEF Init, Config
  <2>2. Judged = 0 /\ Settled = 0
    BY DEF Init, Judged, Settled
  <2>3. {line \in ToolLine : config.scan = "strict" /\ SecretLeft(line)} \in SUBSET ToolLine
    OBVIOUS
  <2>4. (config.scan # "disabled") \in BOOLEAN
    OBVIOUS
  <2> QED BY <2>1, <2>2, <2>3, <2>4 DEF Init, G!Init
<1>2. Init => GateInv
  BY ForwardInit, ReturnInit, DenyInit DEF Init, GateInv, HostSideEnded, ToolSideEnded,
     HandHasAnswer, InHand
<1>3. GateInv /\ [Next]_vars => GateInv'
  BY GateInvNext
<1>4. GateInv /\ [Next]_vars => [G!Next]_G!vars
  BY GateStep
<1> QED BY <1>1, <1>2, <1>3, <1>4, PTL DEF Spec, ImplementsGate, G!Spec

=============================================================================
