--------------------------- MODULE Session_proofs ---------------------------
(***************************************************************************)
(* Proofs about module Session: a session is a behaviour of Relay, so all  *)
(* that holds of the forwarding tasks holds in it; it leaves no tool       *)
(* behind, and loses nothing when it ends by itself; and its diagnosis is  *)
(* never wrong.                                                            *)
(***************************************************************************)
EXTENDS Session, Relay_proofs

LEMMA SessionStep ==
  ASSUME [SessionNext]_allVars
  PROVE  [Next]_vars
<1>1. CASE Forward \/ Return \/ ExitStrict
  BY <1>1 DEF Forward, Return, ExitStrict, Next
<1>2. CASE MainStep
  BY <1>2 DEF MainStep, JoinForward, JoinReturn, Reap, Kill, ToolDies, ReportText,
     ReportNewline, Shutdown, DrainEnds, Next
<1>3. CASE Elapse \/ WindowPasses \/ UNCHANGED allVars
  BY <1>3 DEF Elapse, WindowPasses, allVars
<1>4. CASE ToolGoes \/ HostActs \/ ToolActs
  BY <1>4 DEF ToolGoes, ToolDies, HostActs, ToolActs, ToolStep, Next
<1> QED BY <1>1, <1>2, <1>3, <1>4 DEF SessionNext

(* A session is a run of the two forwarding tasks: run_proxy does nothing  *)
(* to their pipes and their state that module Relay does not have.         *)
THEOREM SessionIsRelay == SessionSpec => Spec
<1>1. SessionInit => Init
  BY DEF SessionInit
<1>2. [SessionNext]_allVars => [Next]_vars
  BY SessionStep
<1> QED BY <1>1, <1>2, PTL DEF SessionSpec, Spec

(* So whatever the main task does, and whenever it ends the session, what  *)
(* was proved of the tasks holds.                                          *)
THEOREM SessionKeepsPromises ==
  SessionSpec => [](/\ ForwardsFaithfully /\ StrictStops /\ DenialsAnswered
                    /\ ResponsesInOrder /\ ScanVerdict /\ AuditFaithful)
<1> QED BY SessionIsRelay, ForwardingCorrect, StrictCorrect, DenialsCorrect,
           AnswersCorrect, ScanCorrect, AuditCorrect, PTL

-----------------------------------------------------------------------------
(* The types.                                                              *)

LEMMA DeathType ==
  ASSUME NEW status, ToolDies(status)
  PROVE  code' = status /\ diedEarly' \in BOOLEAN
  BY DEF ToolDies

LEMMA SessionTypeNext ==
  ASSUME TypeInv, SessionTypeOK, [SessionNext]_allVars
  PROVE  SessionTypeOK'
<1>1. TypeOK'
  BY SessionStep, NextType DEF TypeInv
<1>2. CASE JoinForward \/ JoinReturn \/ Elapse \/ ReportText \/ ReportNewline \/ Shutdown
           \/ DrainEnds \/ ExitStrict \/ WindowPasses
  BY <1>1, <1>2 DEF SessionTypeOK, MainState, JoinForward, JoinReturn, Elapse, ReportText,
     ReportNewline, Shutdown, DrainEnds, ExitStrict, WindowPasses
<1>3. CASE Reap
  <2>1. diagnosis' \in {"none", "notfound", "beforeFirst"}
    BY <1>3 DEF Reap, Diagnose
  <2> QED BY <1>1, <1>3, <2>1 DEF SessionTypeOK, MainState, Reap
<1>4. CASE Kill
  <2>1. main' = "report" /\ inWindow' = inWindow /\ diagnosis' = diagnosis
    BY <1>4 DEF Kill
  <2>2. code' \in Codes \cup {"none", "signal"} /\ diedEarly' \in BOOLEAN
    BY <1>4, DeathType DEF Kill, SessionTypeOK
  <2> QED BY <1>1, <2>1, <2>2 DEF SessionTypeOK, MainState
<1>5. CASE ToolGoes
  <2>1. main' = main /\ inWindow' = inWindow /\ diagnosis' = diagnosis
    BY <1>5 DEF ToolGoes
  <2>2. code' \in Codes \cup {"none", "signal"} /\ diedEarly' \in BOOLEAN
    BY <1>5, DeathType DEF ToolGoes
  <2> QED BY <1>1, <2>1, <2>2 DEF SessionTypeOK
<1>6. CASE UNCHANGED sessionVars
  BY <1>1, <1>6 DEF SessionTypeOK, sessionVars
<1> QED BY <1>2, <1>3, <1>4, <1>5, <1>6 DEF SessionNext, MainStep, Forward, Return,
        HostActs, ToolActs, allVars

(* The types of all variables of a session, whatever ends it.              *)
THEOREM SessionTypeCorrect == SessionSpec => []SessionTypeOK
<1>1. SessionInit => TypeInv /\ SessionTypeOK
  BY InitType DEF SessionInit, SessionTypeOK, MainState, TypeInv
<1>2. TypeInv /\ SessionTypeOK /\ [SessionNext]_allVars => (TypeInv /\ SessionTypeOK)'
  BY SessionTypeNext, SessionStep, NextType
<1> QED BY <1>1, <1>2, PTL DEF SessionSpec

-----------------------------------------------------------------------------
(* The end of the tool.                                                    *)

ToolEnds ==
  /\ main \in {"report", "newline"} /\ config.unix => ~toolUp
  /\ Over => ~toolUp \/ EndedStrict \/ (notice # "none" /\ ~config.unix)
  /\ Shown("timeout", 0) /\ config.unix => ~toolUp
  /\ main = "newline" => notice # "none"

EndInv == TypeInv /\ ToolEnds

LEMMA NoTimeoutText ==
  ASSUME TypeInv, [Next]_vars, ~NoticeText, Shown("timeout", 0)'
  PROVE  Shown("timeout", 0)
<1>1. hostOut \in Seq(Chunk) /\ nread \in Nat /\ taken \in Nat
      /\ reply \in [marked : BOOLEAN, secret : BOOLEAN]
  BY DEF TypeInv, TypeOK
<1>2. ASSUME NEW chunk \in Chunk, chunk.from # "timeout", Grows(chunk)
      PROVE  Shown("timeout", 0)
  BY <1>1, <1>2, GrownParts DEF Shown
<1>3. CASE hostOut' = hostOut
  BY <1>3 DEF Shown
<1>4. CASE DenyNewline \/ ReturnNewline \/ NoticeNewline
  <2>1. Newline \in Chunk /\ Newline.from # "timeout"
    BY DEF Newline, Chunk
  <2> QED BY <1>2, <1>4, <2>1, EmitGrows DEF DenyNewline, ReturnNewline, NoticeNewline
<1>5. CASE DenyText
  <2>1. ErrorText("deny", nread) \in Chunk /\ ErrorText("deny", nread).from # "timeout"
    BY <1>1 DEF ErrorText, Chunk
  <2> QED BY <1>2, <1>5, <2>1, EmitGrows DEF DenyText
<1>6. CASE ReturnText
  <2> DEFINE chunk == IF rpc = "block" THEN ErrorText("block", taken)
                      ELSE [from |-> "tool", ref |-> taken, marked |-> reply.marked, secret |-> reply.secret]
  <2>1. chunk \in Chunk /\ chunk.from # "timeout"
    BY <1>1 DEF ErrorText, Chunk
  <2>2. Grows(chunk)
    BY <1>6, EmitGrows DEF ReturnText
  <2> HIDE DEF chunk
  <2> QED BY <1>2, <2>1, <2>2
<1>7. \/ hostOut' = hostOut \/ DenyText \/ DenyNewline \/ ReturnText \/ ReturnNewline
      \/ NoticeNewline
  BY DEF Next, ForwardStep, ReadHostLine, HostEof, AuditInvoke, WriteToTool, WriteToToolFails,
     AuditViolation, StrictExit, ReturnStep, TakeToolLine, ToolEof, ScanClean, ScanDetects,
     AuditResponse, Cease, HostStep, HostSends, HostCloses, HostDies, HostTakes, ToolStep, ToolReads,
     ToolWrites, ToolClosesStdin, ToolClosesStdout, ToolExits, vars
<1> QED BY <1>3, <1>4, <1>5, <1>6, <1>7

(* When the return task has ended it takes no more lines, and there are    *)
(* none.                                                                   *)
LEMMA DoneLast ==
  ASSUME TypeInv, [Next]_vars
  PROVE  /\ rpc = "done" => rpc' = "done" /\ taken' = taken /\ out' = out
         /\ notice # "none" => notice' # "none"
<1>1. CASE ForwardStep
  BY <1>1 DEF ForwardStep, ReadHostLine, HostEof, AuditInvoke, WriteToTool, WriteToToolFails,
     AuditViolation, DenyText, DenyNewline, toolVars, returnVars
<1>2. CASE ReturnStep
  BY <1>2, TasksFrame DEF ReturnStep, TakeToolLine, ToolEof, ScanClean, ScanDetects,
     AuditResponse, ReturnText, ReturnNewline
<1>3. CASE HostStep \/ ToolStep
  BY <1>3, PartnersFrame
<1>4. CASE StrictExit \/ NoticeText \/ NoticeNewline \/ Cease \/ ToolExits \/ UNCHANGED vars
  BY <1>4 DEF StrictExit, NoticeText, NoticeNewline, Cease, ToolExits, vars, toolVars, returnVars
<1> QED BY <1>1, <1>2, <1>3, <1>4 DEF Next

(* Once dead the tool stays dead, and after the exit of strict mode        *)
(* nothing is running.                                                     *)
LEMMA EndsLast ==
  ASSUME [Next]_vars
  PROVE  (~toolUp => ~toolUp') /\ (EndedStrict => EndedStrict') /\ config' = config
<1>1. ASSUME ForwardStep \/ ReturnStep
      PROVE  (~toolUp => ~toolUp') /\ (EndedStrict => EndedStrict') /\ config' = config
  BY <1>1, TasksFrame DEF EndedStrict
<1>2. ASSUME ~(ForwardStep \/ ReturnStep)
      PROVE  (~toolUp => ~toolUp') /\ (EndedStrict => EndedStrict') /\ config' = config
  BY <1>2 DEF Next, EndedStrict, StrictExit, NoticeText, NoticeNewline, Cease, HostStep,
     HostSends, HostCloses, HostDies, HostTakes, ToolStep, ToolReads, ToolWrites, ToolClosesStdin, ToolClosesStdout,
     ToolExits, vars, forwardVars, toolVars
<1> QED BY <1>1, <1>2

LEMMA EndNext == ASSUME EndInv, [SessionNext]_allVars PROVE EndInv'
<1>1. [Next]_vars /\ TypeInv'
  BY SessionStep, NextType DEF EndInv
<1>2. /\ ~toolUp => ~toolUp'
      /\ EndedStrict => EndedStrict'
      /\ notice # "none" => notice' # "none"
      /\ config' = config
  BY <1>1, EndsLast, DoneLast DEF EndInv
<1>3. (Shown("timeout", 0) /\ config.unix => ~toolUp)'
  <2>1. CASE ~NoticeText
    BY <1>1, <1>2, <2>1, NoTimeoutText DEF EndInv, ToolEnds
  <2>2. CASE NoticeText
    <3>1. notice' # notice
      BY <2>2 DEF NoticeText
    <3>2. ReportText
      <4>1. ~Forward /\ ~Return
        BY <3>1, TasksFrame DEF Forward, Return
      <4>2. ~HostActs /\ ~ToolActs
        BY <3>1, PartnersFrame DEF HostActs, ToolActs, ToolStep, EndInv
      <4>3. ~ReportNewline
        BY <2>2 DEF NoticeText, ReportNewline, NoticeNewline
      <4> QED BY <3>1, <4>1, <4>2, <4>3 DEF SessionNext, MainStep, ExitStrict, StrictExit,
              JoinForward, JoinReturn, Reap, Kill, ToolDies, ToolExits, Shutdown, Cease,
              DrainEnds, Elapse, WindowPasses, ToolGoes, allVars, vars
    <3> QED BY <1>2, <3>2 DEF ReportText, EndInv, ToolEnds
  <2> QED BY <2>1, <2>2
<1>4. /\ (main \in {"report", "newline"} /\ config.unix => ~toolUp)'
      /\ (Over => ~toolUp \/ EndedStrict \/ (notice # "none" /\ ~config.unix))'
      /\ (main = "newline" => notice # "none")'
  <2>1. CASE main' = main
    BY <1>2, <2>1 DEF EndInv, ToolEnds, Over
  <2>2. CASE JoinForward \/ JoinReturn \/ Elapse
    BY <2>2 DEF JoinForward, JoinReturn, Elapse, Over
  <2>3. CASE Reap \/ Kill
    BY <1>2, <2>3 DEF Reap, Kill, ToolDies, ToolExits, Over, vars, toolVars
  <2>4. CASE ReportText \/ ReportNewline \/ Shutdown \/ DrainEnds
    BY <1>2, <2>4 DEF ReportText, NoticeText, ReportNewline, Shutdown, DrainEnds, Over, EndInv,
       ToolEnds
  <2>5. CASE ExitStrict
    BY <2>5 DEF ExitStrict, StrictExit, EndedStrict, Over
  <2>6. CASE UNCHANGED sessionVars \/ WindowPasses \/ ToolGoes
    BY <2>1, <2>6 DEF sessionVars, WindowPasses, ToolGoes
  <2> QED BY <2>2, <2>3, <2>4, <2>5, <2>6 DEF SessionNext, MainStep, Forward, Return,
          HostActs, ToolActs, allVars
<1> QED BY <1>1, <1>3, <1>4 DEF EndInv, ToolEnds

(* When the session is over the tool is dead, unless strict mode has ended *)
(* the broker or the session has timed out off Unix, where the kill does   *)
(* nothing; on Unix it is dead before the host reads of the timeout        *)
(* (run_with_timeout kills before it reports, and otherwise waits for the  *)
(* child).                                                                 *)
THEOREM LeavesNoTool == SessionSpec => []NoToolLeftBehind
<1>1. SessionInit => EndInv
  BY InitType DEF SessionInit, Init, EndInv, ToolEnds, Over, Shown
<1>2. EndInv /\ [SessionNext]_allVars => EndInv'
  BY EndNext
<1>3. EndInv => NoToolLeftBehind
  BY DEF EndInv, ToolEnds, NoToolLeftBehind
<1> QED BY <1>1, <1>2, <1>3, PTL DEF SessionSpec

-----------------------------------------------------------------------------
(* The last lines of the tool.                                             *)

TakenToTheEnd ==
  rpc = "done" => taken = Len(out) \/ \E i \in DOMAIN out : out[i].kind = "garbled"
JoinedFirst ==
  (main = "wait" \/ Over) /\ notice = "none" /\ ~EndedStrict => rpc = "done"
SpokenFirst == main = "newline" => notice # "none"

CleanInv == ReturnInv /\ TakenToTheEnd /\ JoinedFirst /\ SpokenFirst

LEMMA TakenNext ==
  ASSUME TypeInv, TakenToTheEnd, [Next]_vars
  PROVE  TakenToTheEnd'
<1>1. CASE rpc = "done"
  BY <1>1, DoneLast DEF TakenToTheEnd
<1>2. CASE TakeToolLine
  <2>1. taken + 1 \in DOMAIN out /\ out' = out
    BY <1>2 DEF TakeToolLine, TypeInv, TypeOK, toolVars
  <2>2. out[taken + 1].kind # "garbled" => rpc' # "done"
    BY <1>2, Zenon DEF TakeToolLine
  <2> QED BY <2>1, <2>2 DEF TakenToTheEnd
<1>3. CASE ToolEof
  BY <1>3 DEF ToolEof, TakenToTheEnd, toolVars
<1>4. CASE rpc # "done" /\ ~TakeToolLine /\ ~ToolEof
  <2>1. rpc' # "done"
    BY <1>4, PartnersFrame DEF Next, ForwardStep, ReadHostLine, HostEof, AuditInvoke, WriteToTool,
       WriteToToolFails, AuditViolation, DenyText, DenyNewline, StrictExit, ReturnStep,
       ScanClean, ScanDetects, AfterDetection, AuditResponse, ReturnText, ReturnNewline,
       NoticeText, NoticeNewline, Cease, ToolExits, vars, returnVars
  <2> QED BY <2>1 DEF TakenToTheEnd
<1> QED BY <1>1, <1>2, <1>3, <1>4

LEMMA CleanNext == ASSUME CleanInv, [SessionNext]_allVars PROVE CleanInv'
<1>1. [Next]_vars /\ TypeInv
  BY SessionStep DEF CleanInv, ReturnInv
<1>2. /\ rpc = "done" => rpc' = "done"
      /\ notice # "none" => notice' # "none"
      /\ EndedStrict => EndedStrict'
  BY <1>1, DoneLast, EndsLast
<1>3. JoinedFirst' /\ SpokenFirst'
  <2>1. CASE main' = main
    BY <1>2, <2>1 DEF CleanInv, JoinedFirst, SpokenFirst, Over
  <2>2. CASE JoinForward \/ Elapse \/ Kill
    BY <2>2 DEF JoinForward, Elapse, Kill, JoinedFirst, SpokenFirst, Over
  <2>3. CASE JoinReturn \/ Reap
    BY <1>2, <2>3 DEF JoinReturn, Reap, CleanInv, JoinedFirst, SpokenFirst, Over
  <2>4. CASE ReportText \/ ReportNewline
    BY <2>4 DEF ReportText, ReportNewline, NoticeText, NoticeNewline, JoinedFirst, SpokenFirst,
       Over
  <2>5. CASE Shutdown \/ DrainEnds
    BY <1>2, <2>5 DEF Shutdown, DrainEnds, CleanInv, JoinedFirst, SpokenFirst, Over
  <2>6. CASE ExitStrict
    BY <2>6 DEF ExitStrict, StrictExit, EndedStrict, JoinedFirst, SpokenFirst
  <2>7. CASE UNCHANGED sessionVars \/ WindowPasses \/ ToolGoes
    BY <2>1, <2>7 DEF sessionVars, WindowPasses, ToolGoes
  <2> QED BY <2>2, <2>3, <2>4, <2>5, <2>6, <2>7 DEF SessionNext, MainStep, Forward, Return,
          HostActs, ToolActs, allVars
<1> QED BY <1>1, <1>3, TakenNext, ReturnNext DEF CleanInv

(* A session that ends by itself has shown the host every line the tool    *)
(* wrote (await_forwarding_tasks before child.wait()).                     *)
THEOREM CleanEnd == SessionSpec => []CleanEndLosesNothing
<1>1. SessionInit => CleanInv
  BY ReturnInit DEF SessionInit, Init, CleanInv, TakenToTheEnd, JoinedFirst, SpokenFirst, Over
<1>2. CleanInv /\ [SessionNext]_allVars => CleanInv'
  BY CleanNext
<1>3. CleanInv => CleanEndLosesNothing
  <2> SUFFICES ASSUME CleanInv, Reaped, \A i \in DOMAIN out : out[i].kind # "garbled",
                      NEW i \in DOMAIN out, out[i].kind # "empty"
               PROVE  Shown("tool", i) \/ Shown("block", i) \/ ~hostReads
    BY DEF CleanEndLosesNothing
  <2>1. rpc = "done" /\ taken = Len(out)
    BY DEF CleanInv, Reaped, JoinedFirst, TakenToTheEnd
  <2>2. i \in 1..taken /\ NoneSwallowed
    BY <2>1 DEF CleanInv, ReturnInv, TypeInv, TypeOK
  <2> QED BY <2>1, <2>2 DEF NoneSwallowed, InHand
<1> QED BY <1>1, <1>2, <1>3, PTL DEF SessionSpec

-----------------------------------------------------------------------------
(* The diagnosis.                                                          *)

EarlyDeathNoted ==
  ~toolUp /\ inWindow /\ code # "ok" /\ ~FirstMessageSent => diedEarly
ExplainsDeath == diagnosis # "none" => ~toolUp /\ (diedEarly \/ code = "notfound")

DiagnosisInv == TypeInv /\ EarlyDeathNoted /\ ExplainsDeath

(* The tool is never without the messages it was given.                    *)
LEMMA MessagesStay ==
  ASSUME TypeInv, [Next]_vars, FirstMessageSent
  PROVE  FirstMessageSent'
<1>1. inbox \in Seq(1..nread) /\ sent \in Seq(HostLine) /\ nread \in 0..Len(sent)
  BY DEF TypeInv, TypeOK
<1>2. PICK k \in DOMAIN inbox : sent[inbox[k]].kind # "malformed"
  BY DEF FirstMessageSent
<1>3. inbox[k] \in DOMAIN sent
  BY <1>1
<1>4. \A i \in DOMAIN sent : i \in DOMAIN sent' /\ sent'[i] = sent[i]
  BY PartnersFrame, TasksFrame DEF Next, StrictExit, NoticeText, NoticeNewline, Cease, ToolExits,
     vars, hostVars
<1>5. CASE WriteToTool
  <2>1. inbox' = Append(inbox, nread) /\ fpc # "read" /\ fpc # "done"
    BY <1>5 DEF WriteToTool
  <2>2. nread \in 1..nread
    BY <1>1, <2>1 DEF TypeInv, Reading
  <2>3. k \in DOMAIN inbox' /\ inbox'[k] = inbox[k]
    BY <1>1, <2>1, <2>2, AppendType
  <2> QED BY <1>2, <1>3, <1>4, <2>3 DEF FirstMessageSent
<1>6. CASE ~WriteToTool
  <2>1. inbox' = inbox
    BY <1>6, PartnersFrame DEF Next, ForwardStep, ReadHostLine, HostEof, AuditInvoke,
       WriteToToolFails, AuditViolation, DenyText, DenyNewline, StrictExit, ReturnStep,
       TakeToolLine, ToolEof, ScanClean, ScanDetects, AuditResponse, ReturnText, ReturnNewline,
       NoticeText, NoticeNewline, Cease, ToolExits, vars, toolVars
  <2> QED BY <1>2, <1>3, <1>4, <2>1 DEF FirstMessageSent
<1> QED BY <1>5, <1>6

LEMMA DiagnosisNext == ASSUME DiagnosisInv, [SessionNext]_allVars PROVE DiagnosisInv'
<1>1. [Next]_vars /\ TypeInv /\ TypeInv'
  BY SessionStep, NextType DEF DiagnosisInv
<1> SUFFICES EarlyDeathNoted' /\ ExplainsDeath'
  BY <1>1 DEF DiagnosisInv
<1>2. (FirstMessageSent => FirstMessageSent') /\ (~toolUp => ~toolUp')
  BY <1>1, MessagesStay, EndsLast
<1>3. ASSUME NEW status, ToolDies(status), diagnosis' = diagnosis, inWindow' = inWindow
      PROVE  EarlyDeathNoted' /\ ExplainsDeath'
  <2>1. toolUp /\ diagnosis = "none"
    BY <1>3 DEF ToolDies, ToolExits, DiagnosisInv, ExplainsDeath
  <2>2. EarlyDeathNoted'
    BY <1>2, <1>3 DEF ToolDies, EarlyDeathNoted
  <2> QED BY <1>3, <2>1, <2>2 DEF ExplainsDeath
<1>4. ASSUME toolUp' = toolUp, inWindow' => inWindow,
             code' = code, diedEarly' = diedEarly, diagnosis' = diagnosis
      PROVE  EarlyDeathNoted' /\ ExplainsDeath'
  BY <1>2, <1>4 DEF DiagnosisInv, EarlyDeathNoted, ExplainsDeath
<1>5. CASE Reap
  <2>1. ~toolUp /\ UNCHANGED <<vars, code, inWindow, diedEarly>>
    BY <1>5 DEF Reap
  <2>2. diagnosis' = "none" \/ diagnosis' = Diagnose
    BY <1>5 DEF Reap
  <2>3. Diagnose # "none" => diedEarly \/ code = "notfound"
    BY <2>1 DEF Diagnose, DiagnosisInv, EarlyDeathNoted
  <2>4. toolUp' = toolUp /\ EarlyDeathNoted'
    BY <1>2, <2>1 DEF DiagnosisInv, EarlyDeathNoted, vars, toolVars
  <2> QED BY <2>1, <2>2, <2>3, <2>4 DEF ExplainsDeath
<1>6. CASE Forward \/ Return
  BY <1>4, <1>6, TasksFrame DEF Forward, Return, sessionVars
<1>7. CASE HostActs \/ ToolActs
  BY <1>1, <1>4, <1>7, PartnersFrame DEF HostActs, ToolActs, ToolStep, sessionVars
<1>8. CASE ToolGoes
  BY <1>3, <1>8 DEF ToolGoes
<1>9. CASE Kill
  <2>1. CASE config.unix /\ toolUp
    BY <1>3, <1>9, <2>1 DEF Kill
  <2>2. CASE ~(config.unix /\ toolUp)
    BY <1>4, <1>9, <2>2 DEF Kill, vars, toolVars
  <2> QED BY <2>1, <2>2
<1>10. CASE \/ JoinForward \/ JoinReturn \/ ReportText \/ ReportNewline \/ Shutdown
            \/ DrainEnds \/ ExitStrict \/ Elapse \/ WindowPasses \/ UNCHANGED allVars
  BY <1>4, <1>10 DEF JoinForward, JoinReturn, ReportText, NoticeText, ReportNewline,
     NoticeNewline, Shutdown, Cease, DrainEnds, ExitStrict, StrictExit, Elapse, WindowPasses,
     allVars, sessionVars, vars, toolVars
<1> QED BY <1>5, <1>6, <1>7, <1>8, <1>9, <1>10 DEF SessionNext, MainStep

(* What the operator is told about an early death is true: the tool failed *)
(* inside the window before it was given a message, or was not found       *)
(* (diagnose_early_exit).                                                  *)
THEOREM DiagnosisCorrect == SessionSpec => []DiagnosisSound
<1>1. SessionInit => DiagnosisInv
  BY InitType DEF SessionInit, Init, DiagnosisInv, EarlyDeathNoted, ExplainsDeath
<1>2. DiagnosisInv /\ [SessionNext]_allVars => DiagnosisInv'
  BY DiagnosisNext
<1>3. DiagnosisInv => DiagnosisSound
  BY DEF DiagnosisInv, ExplainsDeath, DiagnosisSound
<1> QED BY <1>1, <1>2, <1>3, PTL DEF SessionSpec
=============================================================================
