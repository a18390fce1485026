------------------------------- MODULE Policy -------------------------------
(***************************************************************************)
(* What a manifest permits: the pure decisions of                          *)
(* crates/mcparmor-core/src/policy.rs and the first layer that asks them,  *)
(* crates/mcparmor-broker/src/inspect.rs.                                  *)
(*                                                                         *)
(* A string is a sequence of tokens: the punctuation the code looks for    *)
(* ("/", ".", ":", "@", "*", "~", "%" and the hexadecimal digits) one      *)
(* token each, everything else a word.                                     *)
(***************************************************************************)
EXTENDS Integers, SequencesExt

CONSTANT Value  \* the words that spell a number, with the number

ASSUME ValueAssumption == \A w \in DOMAIN Value : Value[w] \in Nat

(* The part of ArmorManifest that the decisions read, after serde has put  *)
(* the defaults in the place of absent fields.                             *)
Profile == {"strict", "sandboxed", "network", "system", "browser"}
Manifest(paths, rules) ==
  [profile : Profile, read : SUBSET paths, write : SUBSET paths,
   allow : SUBSET rules, denyLocal : BOOLEAN, denyMetadata : BOOLEAN,
   spawn : BOOLEAN, scan : {"disabled", "redact", "strict"}, maxSize : Int]

From(s, i) == SubSeq(s, i, Len(s))
LastOf(s, token) == SelectLastInSeq(s, LAMBDA t : t = token)

(* str::parse::<u16>; -1 is its error.                                     *)
U16(s) ==
  IF Len(s) = 1 /\ s[1] \in DOMAIN Value /\ Value[s[1]] < 2^16
  THEN Value[s[1]] ELSE -1

-----------------------------------------------------------------------------
(* policy.rs                                                               *)

IsLocalAddress(host) ==
  \/ host \in {<<"localhost">>, <<":", ":", "1">>, <<"0", ".", "0", ".", "0", ".", "0">>}
  \/ IsPrefix(<<"127", ".">>, host)

IsMetadataAddress(host) == IsPrefix(<<"169", ".", "254", ".">>, host)

NetworkHostMatches(rule, host) ==
  \/ rule = <<"*">>
  \/ IsPrefix(<<"*", ".">>, rule) /\ IsSuffix(From(rule, 3), host)
  \/ rule = host

NetworkPortMatches(rule, port) == rule = <<"*">> \/ (U16(rule) = port /\ port >= 0)

NetworkRuleMatches(rule, host, port) ==
  LET colon == LastOf(rule, ":")
  IN  /\ colon > 0
      /\ NetworkHostMatches(SubSeq(rule, 1, colon - 1), host)
      /\ NetworkPortMatches(From(rule, colon + 1), port)

AllowsNetworkConnection(m, host, port) ==
  /\ ~(m.denyLocal /\ IsLocalAddress(host))
  /\ ~(m.denyMetadata /\ IsMetadataAddress(host))
  /\ \E rule \in m.allow : NetworkRuleMatches(rule, host, port)

(* The glob crate with require_literal_separator: "*" stays inside one     *)
(* component, "**" is a component of its own and stands for any number of  *)
(* them.  fits[<<i, j>>]: the pattern from i matches the path from j.      *)
GlobMatches(pattern, path) ==
  LET p == Len(pattern)
      n == Len(path)
      Starts(j) == j = 1 \/ path[j - 1] = "/"
      fits[at \in (1..p + 2) \X (1..n + 1)] ==
        LET i == at[1]
            j == at[2]
        IN  IF i > p THEN j = n + 1
            ELSE IF pattern[i] = "**" THEN
              \/ i >= p  \* a last "**" takes the rest
              \/ \E k \in j..n + 1 : Starts(k) /\ fits[<<i + 2, k>>]
            ELSE IF pattern[i] = "*" THEN
              \E k \in j..n + 1 : (\A l \in j..k - 1 : path[l] # "/") /\ fits[<<i + 1, k>>]
            ELSE j <= n /\ pattern[i] = path[j] /\ fits[<<i + 1, j + 1>>]
      WellFormed == \A i \in 1..p : pattern[i] = "**" =>
        (i = 1 \/ pattern[i - 1] = "/") /\ (i = p \/ pattern[i + 1] = "/")
  IN  WellFormed /\ fits[<<1, 1>>]

AllowsPathRead(m, path) == \E pattern \in m.read : GlobMatches(pattern, path)
AllowsPathWrite(m, path) == \E pattern \in m.write : GlobMatches(pattern, path)

-----------------------------------------------------------------------------
(* inspect.rs                                                              *)

Encoded(a, b) ==
  CASE a = "2" /\ b \in {"e", "E"} -> <<".">>
    [] a = "2" /\ b \in {"f", "F"} -> <<"/">>
    [] a = "5" /\ b \in {"c", "C"} -> <<"\\">>
    [] OTHER -> <<"%", a, b>>

(* Mutant: the code for a dot is known in lower case only.                 *)
DecodeLowerCase(s) ==
  LET rest[i \in 1..Len(s) + 1] ==
        IF i > Len(s) THEN <<>>
        ELSE IF s[i] # "%" THEN <<s[i]>> \o rest[i + 1]
        ELSE IF i + 2 > Len(s) THEN From(s, i)
        ELSE (IF s[i + 2] = "E" THEN SubSeq(s, i, i + 2) ELSE Encoded(s[i + 1], s[i + 2]))
             \o rest[i + 3]
  IN  rest[1]

(* One pass from the left; what a "%" takes with it is not looked at again.*)
DecodeTraversalChars(s) ==
  LET rest[i \in 1..Len(s) + 1] ==
        IF i > Len(s) THEN <<>>
        ELSE IF s[i] # "%" THEN <<s[i]>> \o rest[i + 1]
        ELSE IF i + 2 > Len(s) THEN From(s, i)
        ELSE Encoded(s[i + 1], s[i + 2]) \o rest[i + 3]
  IN  rest[1]

ContainsPathTraversal(s) ==
  LET d == DecodeTraversalChars(s)
      Separates(i) == i \in {0, Len(d) + 1} \/ d[i] \in {"/", "\\"}
  IN  \E i \in 1..Len(d) - 1 :
        SubSeq(d, i, i + 1) = <<".", ".">> /\ Separates(i - 1) /\ Separates(i + 2)

LooksLikePath(s) == IsPrefix(<<"/">>, s) \/ IsPrefix(<<"~", "/">>, s)

Scheme == <<":", "/", "/">>
SchemeEnds(s, from) ==
  {i \in from..Len(s) - 2 : SubSeq(s, i, i + 2) = Scheme}
LooksLikeUrl(s) == SchemeEnds(s, 1) # {}

DefaultPort(scheme) ==
  CASE scheme \in {<<"https">>, <<"wss">>} -> 443
    [] scheme \in {<<"http">>, <<"ws">>} -> 80
    [] scheme = <<"ftp">> -> 21
    [] scheme \in {<<"ssh">>, <<"sftp">>} -> 22
    [] OTHER -> 443

(* Mutant: the user information is cut off at the first "@".               *)
ParseFirstAt(url) ==
  LET i == Min(SchemeEnds(url, 1))
      after == From(url, i + 3)
      slash == SelectInSeq(after, LAMBDA t : t = "/")
      authority == IF slash = 0 THEN after ELSE SubSeq(after, 1, slash - 1)
      hostPort == From(authority, SelectInSeq(authority, LAMBDA t : t = "@") + 1)
      colon == SelectInSeq(hostPort, LAMBDA t : t = ":")
  IN  IF colon = 0
      THEN [host |-> hostPort, port |-> DefaultPort(SubSeq(url, 1, i - 1))]
      ELSE [host |-> SubSeq(hostPort, 1, colon - 1), port |-> U16(From(hostPort, colon + 1))]

(* The text between the first "://" and the next, up to its first slash,   *)
(* behind its last "@", cut at its last colon; port -1 is a failure.       *)
ParseHostPort(url) ==
  LET i == Min(SchemeEnds(url, 1))
      next == SchemeEnds(url, i + 3)
      after == SubSeq(url, i + 3, IF next = {} THEN Len(url) ELSE Min(next) - 1)
      slash == SelectInSeq(after, LAMBDA t : t = "/")
      authority == IF slash = 0 THEN after ELSE SubSeq(after, 1, slash - 1)
      hostPort == From(authority, LastOf(authority, "@") + 1)
      colon == LastOf(hostPort, ":")
  IN  IF colon = 0
      THEN [host |-> hostPort, port |-> DefaultPort(SubSeq(url, 1, i - 1))]
      ELSE [host |-> SubSeq(hostPort, 1, colon - 1), port |-> U16(From(hostPort, colon + 1))]

CheckPath(path, m) ==
  IF AllowsPathRead(m, path) \/ AllowsPathWrite(m, path) THEN "allow" ELSE "path"

CheckUrl(url, m) ==
  LET to == ParseHostPort(url)
  IN  IF to.port >= 0 /\ AllowsNetworkConnection(m, to.host, to.port)
      THEN "allow" ELSE "network"

CheckString(s, m) ==
  IF ContainsPathTraversal(s) THEN "path"
  ELSE IF LooksLikePath(s) THEN CheckPath(s, m)
  ELSE IF LooksLikeUrl(s) THEN CheckUrl(s, m)
  ELSE "allow"

(* Only tools/call is inspected.  texts are the string leaves of its       *)
(* arguments in document order; the first denial is the answer.            *)
CheckMessage(method, texts, m) ==
  LET denied == {i \in DOMAIN texts : CheckString(texts[i], m) # "allow"}
  IN  IF method # "tools/call" \/ denied = {} THEN "allow"
      ELSE CheckString(texts[Min(denied)], m)
=============================================================================
