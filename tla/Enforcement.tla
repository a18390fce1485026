---------------------------- MODULE Enforcement ----------------------------
(***************************************************************************)
(* One call through both layers: the broker has started the tool in the    *)
(* Seatbelt profile of its manifest, inspects a tools/call (inspect.rs),   *)
(* forwards it or denies it, and passes the tool's answer on, cut and      *)
(* redacted (proxy.rs, scanner.rs).  Relay has the loops around this and   *)
(* takes the verdicts as given; here they are computed.                    *)
(***************************************************************************)
EXTENDS Seatbelt, Scanner

CONSTANTS
  Cases,   \* families of inputs, explored one at a time: the manifests, the
           \* strings, the URLs (as their parts), the answers and what the
           \* patterns find in them (one list per pattern) that meet each other
  ToolPath \* resolve_absolute_path of the tool's command

VARIABLES
  case,      \* the name of the family of this behaviour
  manifest,  \* what run() made of armor.json
  profile,   \* the Seatbelt profile the tool was started in
  phase,     \* where the call is
  call,      \* its string, and the parts if it was put together as a URL
  verdict,   \* of check_message
  answer,    \* what the tool wrote, and what the patterns find in what is left
  reply      \* what process_response makes of it

vars == <<case, manifest, profile, phase, call, verdict, answer, reply>>

NoCall == [text |-> <<>>, parts |-> <<>>]
NoAnswer == [line |-> <<>>, found |-> <<>>]
NoReply == [verdict |-> "none", text |-> <<>>]

(* A URL as its author means it.  User information, port and path are      *)
(* there or <<>>; the path, with the query and the fragment behind it,     *)
(* begins with "/", or with "?" or "#" if there is no path proper.         *)
Render(url) ==
  url.scheme \o Scheme \o (IF url.user = <<>> THEN <<>> ELSE url.user \o <<"@">>)
    \o url.host \o (IF url.port = <<>> THEN <<>> ELSE <<":">> \o url.port) \o url.path

Init ==
  /\ case \in DOMAIN Cases
  /\ manifest \in Cases[case].manifests
  /\ manifest.profile = "browser" => ~manifest.denyLocal  \* apply_browser_defaults
  /\ profile = GenerateSbplProfile(manifest, ToolPath)
  /\ phase = "ready" /\ call = NoCall /\ verdict = "none"
  /\ answer = NoAnswer /\ reply = NoReply

HostCalls ==
  /\ phase = "ready"
  /\ \/ \E s \in Cases[case].texts : call' = [text |-> s, parts |-> <<>>]
     \/ \E url \in Cases[case].urls : call' = [text |-> Render(url), parts |-> url]
  /\ phase' = "called"
  /\ UNCHANGED <<case, manifest, profile, verdict, answer, reply>>

Inspect ==
  /\ phase = "called"
  /\ verdict' = CheckMessage("tools/call", <<call.text>>, manifest)
  /\ phase' = IF verdict' = "allow" THEN "running" ELSE "denied"
  /\ UNCHANGED <<case, manifest, profile, call, answer, reply>>

ToolAnswers ==
  /\ phase = "running"
  /\ \E line \in Cases[case].lines : answer' = [line |-> line, found |-> <<>>]
  /\ phase' = "answered"
  /\ UNCHANGED <<case, manifest, profile, call, verdict, reply>>

(* A regular expression finds whole characters.                            *)
FoundIn(text, found) ==
  \A p \in DOMAIN found : \A k \in DOMAIN found[p] :
    /\ found[p][k].end <= Len(text)
    /\ Boundary(text, found[p][k].start) /\ Boundary(text, found[p][k].end)

(* process_response scans what apply_size_limit has left of the line.      *)
Filter ==
  /\ phase = "answered"
  /\ LET text == ApplySizeLimit(answer.line, manifest.maxSize)
     IN  \E found \in Cases[case].findings :
           /\ FoundIn(text, found)
           /\ answer' = [answer EXCEPT !.found = found]
           /\ reply' = ProcessResponse(text, found, manifest.scan)
  /\ phase' = "done"
  /\ UNCHANGED <<case, manifest, profile, call, verdict>>

NextCall ==
  /\ phase \in {"denied", "done"}
  /\ phase' = "ready" /\ call' = NoCall /\ verdict' = "none"
  /\ answer' = NoAnswer /\ reply' = NoReply
  /\ UNCHANGED <<case, manifest, profile>>

Next == HostCalls \/ Inspect \/ ToolAnswers \/ Filter \/ NextCall

Spec == Init /\ [][Next]_vars

-----------------------------------------------------------------------------
(* Properties                                                              *)

(* The ways to spell one character of a traversal.                         *)
Spelling(token, code) == {<<token>>} \cup {<<"%">> \o c : c \in code}
Dots == Spelling(".", {<<"2", "e">>, <<"2", "E">>})
Separators == Spelling("/", {<<"2", "f">>, <<"2", "F">>})
              \cup Spelling("\\", {<<"5", "c">>, <<"5", "C">>})
Occurs(s, i, spelling) ==
  /\ i >= 1 /\ i + Len(spelling) - 1 <= Len(s)
  /\ SubSeq(s, i, i + Len(spelling) - 1) = spelling

SpellsTraversal(s) ==
  \E i \in 1..Len(s), d1 \in Dots, d2 \in Dots :
    LET end == i + Len(d1) + Len(d2)
    IN  /\ end <= Len(s) + 1
        /\ Occurs(s, i, d1) /\ Occurs(s, i + Len(d1), d2)
        /\ i = 1 \/ \E p \in Separators : Occurs(s, i - Len(p), p)
        /\ end = Len(s) + 1 \/ \E p \in Separators : Occurs(s, end, p)

PercentsApart(s) ==
  \A i, j \in DOMAIN s : s[i] = "%" /\ s[j] = "%" /\ i < j => j >= i + 3

(* Exactly the strings with a component "..", its characters and the       *)
(* separators around it in any mixture of plain and encoded spellings, are *)
(* taken for a traversal (inspect.rs, decode_traversal_chars: one pass     *)
(* that consumes two characters after each "%"), as long as no "%" is      *)
(* among the two characters behind another.                                *)
TraversalCaught ==
  PercentsApart(call.text) =>
    (ContainsPathTraversal(call.text) <=> SpellsTraversal(call.text))

(* A URL is judged by the host and port its author wrote, whatever the     *)
(* user information before them and the path behind them contain           *)
(* (inspect.rs, parse_host_port and policy.rs, check_network_allow), if    *)
(* the host and port end where the text ends or at a "/": the only sign    *)
(* the code looks for.  A query or a fragment right behind them is read as *)
(* a part of them, which is not what the code's comment promises.          *)
EndsAtSlash(url) == url.path = <<>> \/ Head(url.path) = "/"
Judged == phase \in {"running", "denied", "answered", "done"} /\ verdict # "path"
UrlMeansParts ==
  Judged /\ call.parts # <<>> /\ EndsAtSlash(call.parts) =>
    LET url == call.parts
        port == IF url.port = <<>> THEN DefaultPort(url.scheme) ELSE U16(url.port)
    IN  verdict = "allow" <=>
          port >= 0 /\ AllowsNetworkConnection(manifest, url.host, port)

(* The second layer never takes back what the first has let through: a     *)
(* path the call may write to can be written under the Seatbelt profile,   *)
(* and the port of a URL it may use can be connected to ("SBPL enforces at *)
(* the directory level; Layer 1 ... precise glob patterns within").        *)
LayersAgree ==
  phase = "running" =>
    /\ LooksLikePath(call.text) /\ AllowsPathWrite(manifest, call.text) =>
         MayWrite(profile, ExpandHome(call.text))
    /\ call.parts # <<>> => MayConnect(profile, ParseHostPort(call.text).port)

(* The longest part of the line within the limit that splits no character. *)
Fits(b) ==
  /\ b \in 0..Len(answer.line) /\ Boundary(answer.line, b)
  /\ manifest.maxSize < 0 \/ b <= manifest.maxSize
Cut == CHOOSE b \in 0..Len(answer.line) : Fits(b) /\ \A c \in b + 1..Len(answer.line) : ~Fits(c)

(* The reply is the longest whole-character part of the line within the    *)
(* limit; in redact mode every maximal run of bytes that some detection    *)
(* covers has become the label of the first detection that starts it, and  *)
(* no other byte is changed, lost or moved (truncate_utf8, redact and      *)
(* merge_detections: offsets into a text that is being rewritten).         *)
ReplyExact ==
  reply.verdict = "forward" =>
    LET found == FlattenSeq(answer.found)
        Covered(i) == \E k \in DOMAIN found : found[k].start < i /\ i <= found[k].end
        Starting(i) == SelectInSeq(found, LAMBDA d : d.start = i - 1)
        Shown(i) == IF manifest.scan = "disabled" \/ ~Covered(i) THEN <<i>>
                    ELSE IF i = 1 \/ ~Covered(i - 1) THEN Label(found[Starting(i)].type)
                    ELSE <<>>
    IN  reply.text = FlattenSeq([i \in 1..Cut |-> Shown(i)])
=============================================================================
