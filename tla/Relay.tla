------------------------------- MODULE Relay -------------------------------
(***************************************************************************)
(* The data path of one broker session (crates/mcparmor-broker/src/        *)
(* proxy.rs): two tokio tasks sit between the MCP host and the tool.       *)
(*                                                                         *)
(*   host --sent--> forward_host_to_tool --inbox--> tool                   *)
(*   host <--hostOut-- forward_tool_to_host <--out-- tool                  *)
(*                                                                         *)
(* The forwarding task also answers denied requests on the host's stdout,  *)
(* so two tasks (and, on a timeout, the main task) write to it.  Pipes are *)
(* histories with a read pointer: sent/nread, inbox/consumed, out/taken.   *)
(* A step of a task is the code between two points where another thread    *)
(* can see a difference.                                                   *)
(*                                                                         *)
(* Who ends the session, and when, is the subject of module Session; here  *)
(* the runtime may stop at any moment (Cease), which also covers a broker  *)
(* that is killed.                                                         *)
(***************************************************************************)
EXTENDS Naturals, Sequences, FiniteSets

CONSTANTS
  Id,            \* JSON-RPC ids, as track_tools_list_id serialises them
  NoId,          \* the message has no id
  HostLine,      \* the lines the host may write
  ToolLine,      \* the lines the tool may write
  MaxHostLines,  \* bound on the lines of one session, host side
  MaxToolLines,  \* bound on the lines of one session, tool side
  PipeCapacity,  \* lines a pipe to or from the tool can hold
  HostCapacity,  \* chunks the pipe to the host can hold
  Configs,       \* manifests and flags a session may be started with
  AuditMayFail,  \* writes of the audit log may fail (full disk, races)
  HonestTool     \* the tool answers only requests that it has read

(* How the broker tells host lines apart: "violation" is a tools/call that *)
(* check_message denies, "call" one that it allows, "garbled" is not UTF-8.*)
HostKind == {"empty", "garbled", "malformed", "call", "violation", "list", "other"}
(* "listing" is a response with a result.tools array, "request" is a       *)
(* request or notification of the tool's own, "text" is not JSON.          *)
ToolKind == {"empty", "garbled", "text", "listing", "response", "request"}
(* Where a secret stands in a line: in the part that the size limit keeps, *)
(* or beyond it (then the line is longer than the limit).                  *)
SecretPlace == {"none", "within", "beyond"}

(* What the tasks look at of the manifest and the flags (ProxyConfig):     *)
(* output.scan_secrets, output.max_size_kb is set, --strict, not           *)
(* --no-annotate, audit.enabled, timeout_ms is set; and the platform the   *)
(* broker was built for.                                                   *)
Config == [scan : {"disabled", "redact", "strict"}, limited : BOOLEAN, strict : BOOLEAN,
           annotate : BOOLEAN, audited : BOOLEAN, timed : BOOLEAN, unix : BOOLEAN]

ASSUME RelayAssumption ==
  /\ NoId \notin Id
  /\ HostLine \subseteq [kind : HostKind, id : Id \cup {NoId}]
  /\ ToolLine \subseteq [kind : ToolKind, id : Id \cup {NoId}, secret : SecretPlace]
  /\ MaxHostLines \in Nat /\ MaxToolLines \in Nat
  /\ PipeCapacity \in Nat \ {0} /\ HostCapacity \in Nat \ {0}
  /\ Configs \subseteq Config
  /\ {AuditMayFail, HonestTool} \subseteq BOOLEAN

VARIABLES
  sent, hostOpen, hostReads,    \* the host: what it wrote, its two pipe ends
  hostSeen,                     \* how many chunks of hostOut it has read
  nread, fpc, toolIn,           \* forward_host_to_tool; it owns the tool's stdin
  inbox, consumed,              \* the tool's stdin: positions in sent
  toolUp, toolListens,          \* the tool: running, its end of its stdin open
  toolOut, out,                 \* its stdout open, what it wrote
  taken, rpc, reply,            \* forward_tool_to_host
  listIds,                      \* tools_list_ids, shared by the two tasks
  hostOut,                      \* chunks on the host's stdout
  notice,                       \* the main task's own message (timeout error)
  audit,                        \* audit entries, in the order they were written
  live,                         \* the runtime still runs the tasks
  config                        \* chosen when the session starts

hostVars == <<sent, hostOpen, hostReads, hostSeen>>
forwardVars == <<nread, fpc, toolIn>>
toolVars == <<inbox, consumed, toolUp, toolListens, toolOut, out>>
returnVars == <<taken, rpc, reply>>
vars == <<hostVars, forwardVars, toolVars, returnVars, listIds, hostOut, notice, audit, live, config>>

ForwardState == {"read", "allow", "write", "raw", "deny", "denyText", "denyNewline", "exit", "done"}
ReturnState == {"read", "scan", "audit", "text", "block", "newline", "done"}
Event == {"invoke", "violation", "response", "secret"}
AuditEntry == [event : Event, ref : Nat]

(* A chunk is one write to stdout: the text of a line, or its newline.     *)
Newline == [from |-> "newline", ref |-> 0, marked |-> FALSE, secret |-> FALSE]
ErrorText(from, ref) == [from |-> from, ref |-> ref, marked |-> FALSE, secret |-> FALSE]
Chunk == [from : {"newline", "tool", "block", "deny", "timeout"}, ref : Nat,
          marked : BOOLEAN, secret : BOOLEAN]

TypeOK ==
  /\ sent \in Seq(HostLine) /\ hostOpen \in BOOLEAN /\ hostReads \in BOOLEAN
  /\ nread \in 0..Len(sent) /\ fpc \in ForwardState /\ toolIn \in BOOLEAN
  /\ inbox \in Seq(1..nread) /\ consumed \in 0..Len(inbox)
  /\ toolUp \in BOOLEAN /\ toolListens \in BOOLEAN /\ toolOut \in BOOLEAN /\ out \in Seq(ToolLine)
  /\ taken \in 0..Len(out) /\ rpc \in ReturnState
  /\ reply \in [marked : BOOLEAN, secret : BOOLEAN]
  /\ listIds \subseteq Id
  /\ hostOut \in Seq(Chunk) /\ hostSeen \in 0..Len(hostOut)
  /\ notice \in {"none", "text", "done"}
  /\ audit \in Seq(AuditEntry)
  /\ live \in BOOLEAN /\ config \in Configs

Init ==
  /\ sent = <<>> /\ hostOpen = TRUE /\ hostReads = TRUE /\ hostSeen = 0
  /\ nread = 0 /\ fpc = "read" /\ toolIn = TRUE
  /\ inbox = <<>> /\ consumed = 0
  /\ toolUp = TRUE /\ toolListens = TRUE /\ toolOut = TRUE /\ out = <<>>
  /\ taken = 0 /\ rpc = "read" /\ reply = [marked |-> FALSE, secret |-> FALSE]
  /\ listIds = {} /\ hostOut = <<>> /\ notice = "none" /\ audit = <<>> /\ live = TRUE
  /\ config \in Configs

-----------------------------------------------------------------------------
(* Writes shared by the tasks.                                             *)

(* write_raw_to_stdout hands each chunk to the process-wide stdout.  It    *)
(* waits while the host does not read and the pipe is full; a host that is *)
(* gone loses the chunk, and the failure is only logged.                   *)
HostRoom == ~hostReads \/ Len(hostOut) - hostSeen < HostCapacity
Emit(chunk) ==
  /\ HostRoom
  /\ hostOut' = IF hostReads THEN Append(hostOut, chunk) ELSE hostOut

(* The write_*_audit functions fail open.                                  *)
Record(event, ref) ==
  \/ /\ config.audited
     /\ audit' = Append(audit, [event |-> event, ref |-> ref])
  \/ /\ ~config.audited \/ AuditMayFail
     /\ UNCHANGED audit

-----------------------------------------------------------------------------
(* forward_host_to_tool                                                    *)

(* Mutant of Track: the id of a request without an id is tracked as well.  *)
TrackNull(line) ==
  listIds' = listIds \cup (IF config.annotate /\ line.kind = "list" THEN {line.id} ELSE {})

(* track_tools_list_id                                                     *)
Track(line) ==
  listIds' = listIds \cup (IF config.annotate /\ line.kind = "list" THEN {line.id} \ {NoId} ELSE {})

(* Mutant: a line that is not UTF-8 is passed on like a malformed one.     *)
AdmitLossy(line) ==
  CASE line.kind = "empty" -> "read"
    [] line.kind \in {"malformed", "garbled"} -> "raw"
    [] line.kind = "violation" -> "deny"
    [] OTHER -> "allow"

(* What the loop does with a line: skip it, end, write it as it is, deny   *)
(* it, or pass it as an allowed message (check_message).                   *)
Admit(line) ==
  CASE line.kind = "empty" -> "read"
    [] line.kind = "garbled" -> "done"
    [] line.kind = "malformed" -> "raw"
    [] line.kind = "violation" -> "deny"
    [] OTHER -> "allow"

(* next_line, the JSON parse, the tracking of the id and check_message.    *)
ReadHostLine ==
  /\ live /\ fpc = "read" /\ nread < Len(sent)
  /\ nread' = nread + 1
  /\ LET line == sent[nread + 1] IN
       /\ Track(line)
       /\ fpc' = Admit(line)
       /\ toolIn' = (Admit(line) # "done")
  /\ UNCHANGED <<hostVars, toolVars, returnVars, hostOut, notice, audit, live, config>>

(* Mutant: the loop ends but keeps the tool's stdin.                       *)
HostEofKeepsStdin ==
  /\ live /\ fpc = "read" /\ nread = Len(sent) /\ ~hostOpen
  /\ fpc' = "done"
  /\ UNCHANGED <<hostVars, nread, toolIn, toolVars, returnVars, listIds, hostOut, notice, audit, live, config>>

(* End of the host's stream: the loop ends and tool_stdin is dropped.      *)
HostEof ==
  /\ live /\ fpc = "read" /\ nread = Len(sent) /\ ~hostOpen
  /\ fpc' = "done" /\ toolIn' = FALSE
  /\ UNCHANGED <<hostVars, nread, toolVars, returnVars, listIds, hostOut, notice, audit, live, config>>

(* handle_allowed_message: the audit entry, then the write.                *)
AuditInvoke ==
  /\ live /\ fpc = "allow"
  /\ Record("invoke", nread)
  /\ fpc' = "write"
  /\ UNCHANGED <<hostVars, nread, toolIn, toolVars, returnVars, listIds, hostOut, notice, live, config>>

(* Mutant: a message is dropped when the pipe is full.                     *)
WriteOrDrop ==
  /\ live /\ fpc \in {"write", "raw"} /\ toolListens
  /\ inbox' = IF Len(inbox) - consumed < PipeCapacity THEN Append(inbox, nread) ELSE inbox
  /\ fpc' = "read"
  /\ UNCHANGED <<hostVars, nread, toolIn, consumed, toolUp, toolListens, toolOut, out, returnVars,
                 listIds, hostOut, notice, audit, live, config>>

(* write_line waits while the pipe is full.                                *)
WriteToTool ==
  /\ live /\ fpc \in {"write", "raw"} /\ toolListens
  /\ Len(inbox) - consumed < PipeCapacity
  /\ inbox' = Append(inbox, nread)
  /\ fpc' = "read"
  /\ UNCHANGED <<hostVars, nread, toolIn, consumed, toolUp, toolListens, toolOut, out, returnVars,
                 listIds, hostOut, notice, audit, live, config>>

(* A broken pipe, of a tool that is gone or has closed its stdin, ends the *)
(* loop for a parsed message and is only logged for a malformed one.       *)
WriteToToolFails ==
  /\ live /\ fpc \in {"write", "raw"} /\ ~toolListens
  /\ fpc' = IF fpc = "raw" THEN "read" ELSE "done"
  /\ toolIn' = (fpc = "raw")
  /\ UNCHANGED <<hostVars, nread, toolVars, returnVars, listIds, hostOut, notice, audit, live, config>>

(* handle_denied_message: the audit entry, the error text, its newline,    *)
(* and in strict mode process::exit(2).                                    *)
AuditViolation ==
  /\ live /\ fpc = "deny"
  /\ Record("violation", nread)
  /\ fpc' = "denyText"
  /\ UNCHANGED <<hostVars, nread, toolIn, toolVars, returnVars, listIds, hostOut, notice, live, config>>

(* Mutants: a request without an id gets no error; the denial queues       *)
(* behind the messages to the tool.                                        *)
DenyIfIdentified ==
  /\ live /\ fpc = "denyText"
  /\ IF sent[nread].id = NoId THEN UNCHANGED hostOut ELSE Emit(ErrorText("deny", nread))
  /\ fpc' = "denyNewline"
  /\ UNCHANGED <<hostVars, nread, toolIn, toolVars, returnVars, listIds, notice, audit, live, config>>
DenyInTurn ==
  /\ live /\ fpc = "denyText" /\ Len(inbox) - consumed < PipeCapacity
  /\ Emit(ErrorText("deny", nread))
  /\ fpc' = "denyNewline"
  /\ UNCHANGED <<hostVars, nread, toolIn, toolVars, returnVars, listIds, notice, audit, live, config>>

DenyText ==
  /\ live /\ fpc = "denyText"
  /\ Emit(ErrorText("deny", nread))
  /\ fpc' = "denyNewline"
  /\ UNCHANGED <<hostVars, nread, toolIn, toolVars, returnVars, listIds, notice, audit, live, config>>

(* Mutant: the strict flag is not looked at.                               *)
ReadOn == "read"
AfterDenial == IF config.strict THEN "exit" ELSE "read"

DenyNewline ==
  /\ live /\ fpc = "denyNewline"
  /\ Emit(Newline)
  /\ fpc' = AfterDenial
  /\ UNCHANGED <<hostVars, nread, toolIn, toolVars, returnVars, listIds, notice, audit, live, config>>

StrictExit ==
  /\ live /\ fpc = "exit"
  /\ live' = FALSE /\ toolIn' = FALSE
  /\ UNCHANGED <<hostVars, nread, fpc, toolVars, returnVars, listIds, hostOut, notice, audit, config>>

-----------------------------------------------------------------------------
(* forward_tool_to_host                                                    *)

(* annotate_tools_list_response takes the id of any JSON line out of the   *)
(* shared set, and marks the line if it is a listing.                      *)
Tracked(line) ==
  config.annotate /\ line.kind \in {"listing", "response", "request"} /\ line.id \in listIds

(* Mutant: the id stays in the set, and marks a second listing.            *)
KeepId(line) == UNCHANGED listIds
Untrack(line) == listIds' = IF Tracked(line) THEN listIds \ {line.id} ELSE listIds

(* apply_size_limit comes before the scan: what it cuts is not scanned.    *)
SecretLeft(line) == line.secret = "within" \/ (line.secret = "beyond" /\ ~config.limited)

TakeToolLine ==
  /\ live /\ rpc = "read" /\ taken < Len(out)
  /\ taken' = taken + 1
  /\ LET line == out[taken + 1] IN
       /\ rpc' = CASE line.kind = "empty" -> "read"
                   [] line.kind = "garbled" -> "done"
                   [] OTHER -> "scan"
       /\ Untrack(line)
       /\ reply' = [marked |-> Tracked(line) /\ line.kind = "listing",
                    secret |-> SecretLeft(line)]
  /\ UNCHANGED <<hostVars, forwardVars, toolVars, hostOut, notice, audit, live, config>>

ToolEof ==
  /\ live /\ rpc = "read" /\ taken = Len(out) /\ ~toolOut
  /\ rpc' = "done"
  /\ UNCHANGED <<hostVars, forwardVars, toolVars, taken, reply, listIds, hostOut, notice, audit, live, config>>

(* Mutant: redact mode does not scan.                                      *)
DetectedStrict == config.scan = "strict" /\ reply.secret

(* process_response                                                        *)
Detected == config.scan # "disabled" /\ reply.secret

(* Mutant: a line over the size limit is dropped instead of cut.           *)
ScanOrDrop ==
  /\ live /\ rpc = "scan" /\ ~Detected
  /\ rpc' = IF config.limited /\ out[taken].secret = "beyond" THEN "read" ELSE "audit"
  /\ UNCHANGED <<hostVars, forwardVars, toolVars, taken, reply, listIds, hostOut, notice, audit, live, config>>

ScanClean ==
  /\ live /\ rpc = "scan" /\ ~Detected
  /\ rpc' = "audit"
  /\ UNCHANGED <<hostVars, forwardVars, toolVars, taken, reply, listIds, hostOut, notice, audit, live, config>>

AfterDetection == IF config.scan = "strict" THEN "block" ELSE "audit"

(* Mutant: the detection is not logged.                                    *)
DetectUnlogged ==
  /\ live /\ rpc = "scan" /\ Detected
  /\ rpc' = AfterDetection
  /\ reply' = [reply EXCEPT !.secret = FALSE]
  /\ UNCHANGED <<hostVars, forwardVars, toolVars, taken, listIds, hostOut, notice, audit, live, config>>

ScanDetects ==
  /\ live /\ rpc = "scan" /\ Detected
  /\ Record("secret", taken)
  /\ rpc' = AfterDetection
  /\ reply' = [reply EXCEPT !.secret = FALSE]
  /\ UNCHANGED <<hostVars, forwardVars, toolVars, taken, listIds, hostOut, notice, live, config>>

AuditResponse ==
  /\ live /\ rpc = "audit"
  /\ Record("response", taken)
  /\ rpc' = "text"
  /\ UNCHANGED <<hostVars, forwardVars, toolVars, taken, reply, listIds, hostOut, notice, live, config>>

ReturnText ==
  /\ live /\ rpc \in {"text", "block"}
  /\ Emit(IF rpc = "block"
            THEN ErrorText("block", taken)
            ELSE [from |-> "tool", ref |-> taken, marked |-> reply.marked, secret |-> reply.secret])
  /\ rpc' = "newline"
  /\ UNCHANGED <<hostVars, forwardVars, toolVars, taken, reply, listIds, notice, audit, live, config>>

ReturnNewline ==
  /\ live /\ rpc = "newline"
  /\ Emit(Newline)
  /\ rpc' = "read"
  /\ UNCHANGED <<hostVars, forwardVars, toolVars, taken, reply, listIds, notice, audit, live, config>>

-----------------------------------------------------------------------------
(* The main task's timeout error, written like any other line.             *)

NoticeText ==
  /\ live /\ config.timed /\ notice = "none"
  /\ Emit(ErrorText("timeout", 0))
  /\ notice' = "text"
  /\ UNCHANGED <<hostVars, forwardVars, toolVars, returnVars, listIds, audit, live, config>>

NoticeNewline ==
  /\ live /\ notice = "text"
  /\ Emit(Newline)
  /\ notice' = "done"
  /\ UNCHANGED <<hostVars, forwardVars, toolVars, returnVars, listIds, audit, live, config>>

(* The runtime shuts down, or the broker is killed: both tasks stop where  *)
(* they are and the tool's stdin is closed.                                *)
Cease ==
  /\ live /\ live' = FALSE /\ toolIn' = FALSE
  /\ UNCHANGED <<hostVars, nread, fpc, toolVars, returnVars, listIds, hostOut, notice, audit, config>>

-----------------------------------------------------------------------------
(* The host and the tool.                                                  *)

HostSends(line) ==
  /\ hostOpen /\ Len(sent) < MaxHostLines
  /\ sent' = Append(sent, line)
  /\ UNCHANGED <<hostOpen, hostReads, hostSeen, forwardVars, toolVars, returnVars, listIds, hostOut, notice, audit, live, config>>

HostCloses ==
  /\ hostOpen /\ hostOpen' = FALSE
  /\ UNCHANGED <<sent, hostReads, hostSeen, forwardVars, toolVars, returnVars, listIds, hostOut, notice, audit, live, config>>

HostDies ==
  /\ hostReads /\ hostOpen' = FALSE /\ hostReads' = FALSE
  /\ UNCHANGED <<sent, hostSeen, forwardVars, toolVars, returnVars, listIds, hostOut, notice, audit, live, config>>

HostTakes ==
  /\ hostReads /\ hostSeen < Len(hostOut)
  /\ hostSeen' = hostSeen + 1
  /\ UNCHANGED <<sent, hostOpen, hostReads, forwardVars, toolVars, returnVars, listIds, hostOut, notice, audit, live, config>>

ToolReads ==
  /\ toolListens /\ consumed < Len(inbox)
  /\ consumed' = consumed + 1
  /\ UNCHANGED <<hostVars, forwardVars, inbox, toolUp, toolListens, toolOut, out, returnVars, listIds, hostOut, notice, audit, live, config>>

(* The tool has read a request that this line can be the answer to.        *)
Answers(line) ==
  \E k \in 1..consumed :
    LET request == sent[inbox[k]] IN
      /\ request.id = line.id
      /\ IF line.kind = "listing" THEN request.kind = "list" ELSE request.kind \in {"call", "other"}

(* Writing to a pipe nobody reads fails, so the broker must still read it. *)
ToolWrites(line) ==
  /\ HonestTool /\ line.kind \in {"listing", "response"} => Answers(line)
  /\ toolUp /\ toolOut /\ live /\ rpc # "done"
  /\ Len(out) < MaxToolLines /\ Len(out) - taken < PipeCapacity
  /\ out' = Append(out, line)
  /\ UNCHANGED <<hostVars, forwardVars, inbox, consumed, toolUp, toolListens, toolOut, returnVars, listIds, hostOut, notice, audit, live, config>>

(* A tool may close its stdin and live on.                                 *)
ToolClosesStdin ==
  /\ toolListens /\ toolListens' = FALSE
  /\ UNCHANGED <<hostVars, forwardVars, inbox, consumed, toolUp, toolOut, out, returnVars, listIds, hostOut, notice, audit, live, config>>

ToolClosesStdout ==
  /\ toolUp /\ toolOut /\ toolOut' = FALSE
  /\ UNCHANGED <<hostVars, forwardVars, inbox, consumed, toolUp, toolListens, out, returnVars, listIds, hostOut, notice, audit, live, config>>

ToolExits ==
  /\ toolUp /\ toolUp' = FALSE /\ toolListens' = FALSE /\ toolOut' = FALSE
  /\ UNCHANGED <<hostVars, forwardVars, inbox, consumed, out, returnVars, listIds, hostOut, notice, audit, live, config>>

-----------------------------------------------------------------------------
ForwardStep ==
  \/ ReadHostLine \/ HostEof \/ AuditInvoke \/ WriteToTool \/ WriteToToolFails
  \/ AuditViolation \/ DenyText \/ DenyNewline

ReturnStep ==
  \/ TakeToolLine \/ ToolEof \/ ScanClean \/ ScanDetects \/ AuditResponse
  \/ ReturnText \/ ReturnNewline

HostStep == (\E line \in HostLine : HostSends(line)) \/ HostCloses \/ HostDies \/ HostTakes

ToolStep ==
  \/ ToolReads \/ (\E line \in ToolLine : ToolWrites(line))
  \/ ToolClosesStdin \/ ToolClosesStdout

Next ==
  \/ ForwardStep \/ StrictExit \/ ReturnStep
  \/ NoticeText \/ NoticeNewline \/ Cease
  \/ HostStep \/ ToolStep \/ ToolExits

Spec == Init /\ [][Next]_vars

-----------------------------------------------------------------------------
(* Properties                                                              *)

Admitted == {"malformed", "call", "list", "other"}
Delivered(i) == \E k \in DOMAIN inbox : inbox[k] = i
Recorded(event, i) == \E k \in DOMAIN audit : audit[k] = [event |-> event, ref |-> i]
Shown(from, i) == \E k \in DOMAIN hostOut : hostOut[k].from = from /\ hostOut[k].ref = i

(* The tool receives what the policy admits, in the order the host wrote   *)
(* it, and nothing else: no denied, empty or undecodable line, no line     *)
(* twice.  A line the loop has passed is missing only when the tool had    *)
(* closed its stdin or was gone (forward_host_to_tool, with its failing    *)
(* writes and early breaks).                                               *)
ForwardsFaithfully ==
  /\ \A k \in DOMAIN inbox : sent[inbox[k]].kind \in Admitted
  /\ \A j, k \in DOMAIN inbox : j < k => inbox[j] < inbox[k]
  /\ \A i \in 1..nread :
       sent[i].kind \in Admitted =>
         \/ Delivered(i)
         \/ i = nread /\ fpc \in {"allow", "write", "raw"}
         \/ ~toolListens

(* With --strict the first violation is the end of the session: no line    *)
(* that the host wrote after it reaches the tool, whatever the two tasks   *)
(* are doing when the process exits (handle_denied_message).               *)
StrictStops ==
  config.strict =>
    \A k \in DOMAIN inbox : \A i \in 1..inbox[k] : sent[i].kind # "violation"

(* The log is written ahead: what the tool has received, what was refused, *)
(* forwarded, redacted or blocked has its entry already, so a broker that  *)
(* stops between two steps never leaves an act without a record.           *)
AuditAhead ==
  config.audited /\ ~AuditMayFail =>
    /\ \A k \in DOMAIN inbox :
         sent[inbox[k]].kind # "malformed" => Recorded("invoke", inbox[k])
    /\ \A k \in DOMAIN hostOut : LET chunk == hostOut[k] IN
         /\ chunk.from = "deny" => Recorded("violation", chunk.ref)
         /\ chunk.from = "tool" => Recorded("response", chunk.ref)
         /\ chunk.from = "block" => Recorded("secret", chunk.ref)
         /\ chunk.from = "tool" /\ config.scan = "redact" /\ SecretLeft(out[chunk.ref])
              => Recorded("secret", chunk.ref)

(* And the log tells no lies: each act is logged once, an entry is of a    *)
(* line of the right kind, and what it reports has happened, is about to,  *)
(* or failed because the one it was meant for no longer listened.          *)
AuditSound ==
  /\ \A j, k \in DOMAIN audit : audit[j] = audit[k] => j = k
  /\ \A k \in DOMAIN audit : LET i == audit[k].ref IN
       CASE audit[k].event = "invoke" ->
              /\ sent[i].kind \in Admitted \ {"malformed"}
              /\ Delivered(i) \/ (i = nread /\ fpc = "write") \/ ~toolListens
         [] audit[k].event = "violation" ->
              /\ sent[i].kind = "violation"
              /\ Shown("deny", i) \/ (i = nread /\ fpc = "denyText") \/ ~hostReads
         [] audit[k].event = "response" ->
              Shown("tool", i) \/ (i = taken /\ rpc = "text") \/ ~hostReads
         [] audit[k].event = "secret" -> SecretLeft(out[i])

(* The log and what the two tasks did agree in both directions: no act     *)
(* without an earlier entry, no entry without its act (proxy.rs writes     *)
(* each entry before the write it reports, whichever task it is in).       *)
AuditFaithful == AuditAhead /\ AuditSound

(* Every denied request that the loop has dealt with was answered, once,   *)
(* and was not passed on; the denials come in the order of the requests.   *)
DenialsAnswered ==
  /\ \A i \in 1..nread :
       sent[i].kind = "violation" =>
         \/ Shown("deny", i) \/ ~hostReads
         \/ i = nread /\ fpc \in {"deny", "denyText"}
  /\ \A j, k \in DOMAIN hostOut :
       j < k /\ hostOut[j].from = "deny" /\ hostOut[k].from = "deny"
         => hostOut[j].ref < hostOut[k].ref
  /\ \A k \in DOMAIN hostOut :
       hostOut[k].from = "deny" => sent[hostOut[k].ref].kind = "violation"

(* The host sees one text for each line the tool wrote, in the tool's      *)
(* order, whatever other tasks write in between (forward_tool_to_host).    *)
ResponsesInOrder ==
  LET FromTool(chunk) == chunk.from \in {"tool", "block"} IN
  /\ \A j, k \in DOMAIN hostOut :
       j < k /\ FromTool(hostOut[j]) /\ FromTool(hostOut[k]) => hostOut[j].ref < hostOut[k].ref
  /\ \A i \in 1..taken :
       out[i].kind \notin {"empty", "garbled"} =>
         \/ Shown("tool", i) \/ Shown("block", i) \/ ~hostReads
         \/ i = taken /\ rpc \in {"scan", "audit", "text", "block"}

(* A secret the scan can see does not reach the host: in strict mode the   *)
(* line is blocked, in redact mode it is rewritten; and only a line with   *)
(* a secret is blocked (process_response after apply_size_limit).          *)
ScanVerdict ==
  \A k \in DOMAIN hostOut : LET chunk == hostOut[k] IN
    /\ config.scan # "disabled" => ~chunk.secret
    /\ chunk.from = "block" => config.scan = "strict" /\ SecretLeft(out[chunk.ref])
    /\ chunk.from = "tool" /\ config.scan = "strict" => ~SecretLeft(out[chunk.ref])

(* The first answer to a tools/list request carries the shield, because    *)
(* its id is in the shared set before the tool can have read the request.  *)
ListingsAnnotated ==
  config.annotate /\ HonestTool =>
    \A k \in DOMAIN hostOut :
      LET i == hostOut[k].ref IN
        /\ hostOut[k].from = "tool"
        /\ out[i].kind = "listing" /\ out[i].id # NoId
        /\ \A j \in 1..(i - 1) :
             ~(out[j].kind \in {"listing", "response"} /\ out[j].id = out[i].id)
        => hostOut[k].marked

(* No line is marked that the host did not ask for: the marked lines with  *)
(* an id are at most the tools/list requests read with that id.            *)
MarksWereRequested ==
  \A id \in Id :
    Cardinality({k \in DOMAIN hostOut : hostOut[k].marked /\ out[hostOut[k].ref].id = id})
      =< Cardinality({i \in 1..nread : sent[i].kind = "list" /\ sent[i].id = id})

(* The set of ids that the two tasks share neither loses a request, even   *)
(* one that is answered at once, nor lends its mark to another line.       *)
ShieldsExact == ListingsAnnotated /\ MarksWereRequested

(* Each text the two tasks write to stdout is one line of its own          *)
(* (write_raw_to_stdout), already before any timeout error.                *)
LinesWhole ==
  notice = "none" => \A k \in DOMAIN hostOut :
    hostOut[k].from # "newline" => k = Len(hostOut) \/ hostOut[k + 1] = Newline
=============================================================================
