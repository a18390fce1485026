--------------------------- MODULE MCEnforcement ---------------------------
(***************************************************************************)
(* Families of inputs for the run of Enforcement.                          *)
(***************************************************************************)
EXTENDS Enforcement

MCValue == ("443" :> 443) @@ ("80" :> 80) @@ ("53" :> 53) @@ ("70000" :> 70000)
MCHome == <<"/", "home", "/", "u">>
MCTool == <<"/", "bin", "/", "tool">>

Plain ==
  [profile |-> "sandboxed", read |-> {}, write |-> {}, allow |-> {},
   denyLocal |-> TRUE, denyMetadata |-> TRUE, spawn |-> FALSE,
   scan |-> "disabled", maxSize |-> -1]
None == [manifests |-> {Plain}, texts |-> {}, urls |-> {}, lines |-> {<<"lead">>}, findings |-> {<<>>}]

(* Strings put together from the pieces of a traversal.                    *)
Pieces(pieces, n) ==
  {FlattenSeq(s) : s \in UNION {[1..k -> pieces] : k \in 1..n}}
Few == {<<".">>, <<"%", "2", "e">>, <<"/">>, <<"a">>, <<"%">>}
Many == Few \cup {<<"%", "2", "E">>, <<"%", "2", "f">>, <<"\\">>, <<"%", "5", "c">>}
Traversals == [None EXCEPT !.texts = Pieces(Few, 5) \cup Pieces(Many, 4)]

(* Absolute paths, and patterns that may cover them.                       *)
Word == {<<"a">>, <<"b">>, <<"x">>, <<"b", "x">>}
Below1(prefixes) == {p \o <<"/">> \o w : p \in prefixes, w \in Word}
PathTexts ==
  LET one == Below1({<<>>})
      two == Below1(one)
  IN  one \cup two \cup Below1(two) \cup Below1({<<"~">>}) \cup Below1(Below1({<<"~">>}))
Patterns ==
  {<<"/", "a", "/", "*">>, <<"/", "a", "/", "**">>, <<"/", "a", "/", "**", "/", "x">>,
   <<"/", "a", "/", "b", "*">>, <<"/", "b", "/", "x">>, <<"**", "/", "x">>,
   <<"/", "*">>, <<"~", "/", "a", "/", "*">>, <<"~", "/", "b">>, <<"a", "/", "*">>}
Writers == {[Plain EXCEPT !.write = {p, q}] : p, q \in Patterns}
PathCalls == [None EXCEPT !.manifests = Writers, !.texts = PathTexts]

Urls ==
  [scheme : {<<"https">>, <<"http">>, <<"custom">>},
   user : {<<>>, <<"u">>, <<"u", ":", "443">>, <<"u", "@", "v">>},
   host : {<<"api", ".", "corp", ".", "com">>, <<"corp", ".", "com">>,
           <<"not", "corp", ".", "com">>, <<"other", ".", "com">>, <<"localhost">>,
           <<"127", ".", "0", ".", "0", ".", "1">>, <<"169", ".", "254", ".", "0", ".", "1">>},
   port : {<<>>, <<"443">>, <<"80">>, <<"70000">>, <<"x">>},
   path : {<<>>, <<"/", "p">>, <<"?", "q">>, <<"#", "q">>,
           <<"/", "q", "@", "corp", ".", "com", ":", "443">>,
           <<"/", "to", "=", "https", ":", "/", "/", "corp", ".", "com", "/", "p">>}]
Rules ==
  {{<<"*", ".", "corp", ".", "com", ":", "443">>},
   {<<"corp", ".", "com", ":", "*">>, <<"localhost", ":", "80">>},
   {<<"*", ":", "443">>, <<"other", ".", "com", ":", "x">>}, {<<"other", ".", "com">>}, {}}
Connectors ==
  {[Plain EXCEPT !.allow = r, !.denyLocal = l, !.denyMetadata = ~l, !.profile = p] :
     r \in Rules, l \in BOOLEAN, p \in {"network", "browser"}}
UrlCalls == [None EXCEPT !.manifests = Connectors, !.urls = Urls]

(* Lines of up to five bytes, characters of up to three, and up to two     *)
(* findings of each of two patterns.                                       *)
Lines ==
  {s \in UNION {[1..n -> {"lead", "cont"}] : n \in 0..5} :
     IsLine(s) /\ ~\E i \in 1..Len(s) - 3 : \A k \in 1..3 : s[i + k] = "cont"}
Spans(type) == {d \in [type : {type}, start : 0..4, end : 1..5] : d.start < d.end}
Finds(type) ==
  {<<>>} \cup {<<d>> : d \in Spans(type)}
    \cup {f \in {<<d, e>> : d, e \in Spans(type)} : f[1].end <= f[2].start}
Filters ==
  {[Plain EXCEPT !.scan = s, !.maxSize = n] :
     s \in {"disabled", "redact", "strict"}, n \in {-1, 0, 3, 4}}
Answers ==
  [None EXCEPT !.manifests = Filters, !.texts = {<<"hello">>}, !.lines = Lines,
               !.findings = {<<f, g>> : f \in Finds(1), g \in Finds(2)}]

MCCases ==
  [traversal |-> Traversals, path |-> PathCalls, url |-> UrlCalls, answer |-> Answers]
=============================================================================
