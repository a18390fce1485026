------------------------- MODULE Deployment_proofs -------------------------
(***************************************************************************)
(* Proofs about Deployment: what wrap writes can be taken apart again,     *)
(* every tool can be had back and is run as its user wrote it, under the   *)
(* manifest wrap chose, `status` tells so, and an update is complete.      *)
(***************************************************************************)
EXTENDS Deployment, SequenceTheorems, WellFoundedInduction, TLAPS

-----------------------------------------------------------------------------
(* Words of a command line                                                 *)

LEMMA Words ==
  /\ \A n \in Name : Word(n) \in Text
  /\ Separator \in Text /\ Broker \in Text
  /\ Separator # Word("run") /\ Separator # Word("--armor") /\ Separator # Word("--profile")
  /\ Word("run") # Word("--armor") /\ Word("--profile") # Word("--armor")
<1>1. \A m, n : m # n => Word(m) # Word(n)
  <2> SUFFICES ASSUME NEW m, NEW n, Word(m) = Word(n)
               PROVE  m = n
    OBVIOUS
  <2>1. Word(m)[2] = m /\ Word(n)[2] = n
    BY DEF Word
  <2> QED
    BY <2>1
<1>2. \A n \in Name : Word(n) \in Text
  BY DEF Word, Text, PlainText
<1>3. "--" \in Name /\ "mcparmor" \in Name
  BY WordsAssumption
<1>4. Word("--") \in Text /\ Word("mcparmor") \in Text
  BY <1>2, <1>3
<1>5. "--" # "run" /\ "--" # "--armor" /\ "--" # "--profile" /\ "run" # "--armor"
        /\ "--profile" # "--armor"
  OBVIOUS
<1>6. Word("--") # Word("run") /\ Word("--") # Word("--armor") /\ Word("--") # Word("--profile")
  BY <1>1, <1>5
<1>7. Word("run") # Word("--armor") /\ Word("--profile") # Word("--armor")
  BY <1>1, <1>5
<1> QED
  BY <1>2, <1>4, <1>6, <1>7 DEF Separator, Broker

LEMMA LeastOfSet ==
  ASSUME NEW I, I \subseteq Nat, I # {}
  PROVE  \E k \in I : \A j \in I : k <= j
<1> DEFINE R == OpToRel(<, Nat)
<1>1. \A x, y \in Nat : <<y, x>> \notin R => x <= y
  BY DEF OpToRel
<1>2. IsWellFoundedOn(R, Nat)
  BY NatLessThanWellFounded
<1> HIDE DEF R
<1>3. PICK k \in I : \A j \in I : <<j, k>> \notin R
  BY <1>2, WFMin
<1> QED
  BY <1>1, <1>3

(* The place of a word is the first where it stands.                       *)
LEMMA PlaceIsFirst ==
  ASSUME NEW s \in Seq(Text), NEW w
  PROVE  /\ First(s, w) \in 0..Len(s)
         /\ First(s, w) # 0 => s[First(s, w)] = w /\ \A j \in 1..First(s, w) - 1 : s[j] # w
         /\ First(s, w) = 0 => \A j \in 1..Len(s) : s[j] # w
<1> DEFINE I == {j \in 1..Len(s) : s[j] = w}
<1>1. First(s, w) = IF I # {} THEN Min(I) ELSE 0
  BY DEF First, SelectInSeq
<1>2. I \subseteq 1..Len(s) /\ Len(s) \in Nat
  OBVIOUS
<1>3. CASE I = {}
  BY <1>1, <1>2, <1>3
<1>4. CASE I # {}
  <2>1. PICK k \in I : \A j \in I : k <= j
    <3> HIDE DEF I
    <3>1. I \subseteq Nat
      BY <1>2
    <3> QED
      BY <3>1, <1>4, LeastOfSet
  <2>2. Min(I) = k
    <3> HIDE DEF I
    <3>1. \A x \in I : (\A j \in I : x <= j) => x = k
      BY <2>1, <1>2
    <3> QED
      BY <2>1, <3>1 DEF Min
  <2>3. First(s, w) = k
    BY <1>1, <1>4, <2>2
  <2>4. s[k] = w /\ k \in 1..Len(s)
    BY <2>1
  <2>5. \A j \in 1..k - 1 : s[j] # w
    BY <2>1, <2>4, <1>2
  <2> QED
    BY <2>3, <2>4, <2>5
<1> QED
  BY <1>3, <1>4

LEMMA PlaceIs ==
  ASSUME NEW s \in Seq(Text), NEW w, NEW i \in 1..Len(s), s[i] = w,
         \A j \in 1..i - 1 : s[j] # w
  PROVE  First(s, w) = i
<1>1. /\ First(s, w) \in 0..Len(s)
      /\ First(s, w) # 0 => s[First(s, w)] = w /\ \A j \in 1..First(s, w) - 1 : s[j] # w
      /\ First(s, w) = 0 => \A j \in 1..Len(s) : s[j] # w
  BY PlaceIsFirst
<1>2. First(s, w) \in 1..Len(s)
  BY <1>1
<1>3. ~(First(s, w) < i)
  BY <1>1, <1>2
<1>4. ~(i < First(s, w))
  BY <1>1, <1>2
<1> QED
  BY <1>2, <1>3, <1>4

LEMMA NoPlace ==
  ASSUME NEW s \in Seq(Text), NEW w, \A j \in 1..Len(s) : s[j] # w
  PROVE  First(s, w) = 0
  BY PlaceIsFirst

-----------------------------------------------------------------------------
(* What wrap writes                                                        *)

LEMMA Joined ==
  ASSUME NEW s \in Seq(Text), NEW t \in Seq(Text)
  PROVE  /\ s \o t \in Seq(Text) /\ Len(s \o t) = Len(s) + Len(t)
         /\ Len(s) \in Nat /\ Len(t) \in Nat
         /\ \A j \in 1..Len(s) : (s \o t)[j] = s[j]
         /\ \A j \in 1..Len(t) : (s \o t)[Len(s) + j] = t[j]
  OBVIOUS

LEMMA BackOfJoined ==
  ASSUME NEW S, NEW s \in Seq(S), NEW t \in Seq(S)
  PROVE  SubSeq(s \o t, Len(s) + 1, Len(s) + Len(t)) = t
  OBVIOUS

(* The tool's command line behind options that have no "--" among them.    *)
Behind(head, command, args) == head \o <<Separator, command>> \o args

Splits(all, head, command, args) ==
  /\ all \in Seq(Text) /\ Len(all) = Len(head) + 2 + Len(args)
  /\ \A j \in 1..Len(head) : all[j] = head[j]
  /\ First(all, Separator) = Len(head) + 1
  /\ all[Len(head) + 2] = command
  /\ Rest(all, Len(head) + 3) = args

LEMMA BehindOptions ==
  ASSUME NEW head \in Seq(Text), \A j \in 1..Len(head) : head[j] # Separator,
         NEW command \in Text, NEW args \in Seq(Text),
         NEW all, all = Behind(head, command, args)
  PROVE  Splits(all, head, command, args)
<1> DEFINE front == head \o <<Separator, command>>
<1>1. <<Separator, command>> \in Seq(Text) /\ Len(<<Separator, command>>) = 2
  BY Words
<1>2. front \in Seq(Text) /\ Len(front) = Len(head) + 2
  BY <1>1
<1>3. front[Len(head) + 1] = Separator /\ front[Len(head) + 2] = command
  BY <1>1
<1>4. \A j \in 1..Len(head) : front[j] = head[j]
  BY <1>1
<1>5. all = front \o args
  <2> USE DEF Behind
  <2> QED
    OBVIOUS
<1> HIDE DEF front
<1>6. /\ front \o args \in Seq(Text) /\ Len(front \o args) = Len(front) + Len(args)
      /\ \A j \in 1..Len(front) : (front \o args)[j] = front[j]
  BY <1>2, Joined
<1>7. /\ all \in Seq(Text) /\ Len(all) = Len(front) + Len(args)
      /\ \A j \in 1..Len(front) : all[j] = front[j]
  BY <1>5, <1>6
<1>9. /\ Len(head) \in Nat /\ Len(args) \in Nat
      /\ all[Len(head) + 1] = Separator /\ all[Len(head) + 2] = command
      /\ \A j \in 1..Len(head) : all[j] = head[j]
  BY <1>2, <1>3, <1>4, <1>7
<1>10. First(all, Separator) = Len(head) + 1
  <2>1. Len(head) + 1 \in 1..Len(all) /\ (Len(head) + 1) - 1 = Len(head)
    BY <1>2, <1>7, <1>9
  <2> QED
    BY <1>7, <1>9, <2>1, PlaceIs
<1>11. Rest(all, Len(head) + 3) = args
  <2>1. Rest(all, Len(head) + 3) = SubSeq(front \o args, Len(front) + 1, Len(front) + Len(args))
    BY <1>2, <1>5, <1>7, <1>9 DEF Rest
  <2>2. SubSeq(front \o args, Len(front) + 1, Len(front) + Len(args)) = args
    BY <1>2, BackOfJoined
  <2> QED
    BY <2>1, <2>2
<1> QED
  BY <1>2, <1>7, <1>9, <1>10, <1>11 DEF Splits

LEMMA JoinedWithout ==
  ASSUME NEW s \in Seq(Text), NEW t \in Seq(Text), NEW w,
         \A j \in 1..Len(s) : s[j] # w, \A j \in 1..Len(t) : t[j] # w
  PROVE  \A j \in 1..Len(s \o t) : (s \o t)[j] # w
<1> TAKE j \in 1..Len(s \o t)
<1>1. CASE j <= Len(s)
  <2>1. j \in 1..Len(s)
    BY <1>1, Joined
  <2> QED
    BY <2>1, Joined
<1>2. CASE ~(j <= Len(s))
  <2>1. j - Len(s) \in 1..Len(t) /\ Len(s) + (j - Len(s)) = j
    BY <1>2, Joined
  <2>2. (s \o t)[Len(s) + (j - Len(s))] = t[j - Len(s)]
    BY <2>1, Joined
  <2> QED
    BY <2>1, <2>2
<1> QED
  BY <1>1, <1>2

(* The part of a command line in front of its i-th word.                   *)
LEMMA OptionPart ==
  ASSUME NEW args \in Seq(Text), NEW i \in 1..Len(args)
  PROVE  LET options == SubSeq(args, 2, i - 1)
         IN  /\ options \in Seq(Text)
             /\ Len(options) = IF i = 1 THEN 0 ELSE i - 2
             /\ \A j \in 1..i - 2 : options[j] = args[j + 1]
<1>1. i \in Nat /\ Len(args) \in Nat /\ 1 <= i /\ i <= Len(args)
  OBVIOUS
<1>2. 2 \in Int /\ i - 1 \in Int /\ \A j \in 2..i - 1 : args[j] \in Text
  BY <1>1
<1>3. /\ SubSeq(args, 2, i - 1) \in Seq(Text)
      /\ Len(SubSeq(args, 2, i - 1)) = IF 2 <= i - 1 THEN ((i - 1) - 2) + 1 ELSE 0
      /\ \A j \in 1..((i - 1) - 2) + 1 : SubSeq(args, 2, i - 1)[j] = args[(2 + j) - 1]
  BY <1>2, SubSeqProperties
<1>4. ((i - 1) - 2) + 1 = i - 2 /\ \A j \in 1..i - 2 : (2 + j) - 1 = j + 1
  BY <1>1
<1>5. (IF 2 <= i - 1 THEN i - 2 ELSE 0) = IF i = 1 THEN 0 ELSE i - 2
  BY <1>1
<1> QED
  BY <1>3, <1>4, <1>5

(* How clap reads the words that wrap writes.                              *)
LEMMA ArmorWord ==
  /\ TakesNext(Word("--armor")) /\ ~IsFlag(Word("--armor")) /\ ~HasValue(Word("--armor"))
  /\ Lead(Word("--armor")) = "--armor" /\ Leads(Word("--armor"), Dashed)
  /\ "--armor" \in Dashed
  /\ Leads(Word("--armor"), ArmorOption) /\ "" \notin ArmorOption
<1>1. Word("--armor")[1] = "" /\ Word("--armor")[2] = "--armor"
  BY DEF Word
<1>2. Lead(Word("--armor")) = "--armor"
  BY <1>1 DEF Lead
<1>3. "--armor" \in ArmorOption /\ "" \notin ArmorOption
  BY DEF ArmorOption
<1>4. "--armor" \in ValueNames /\ "" \notin ValueNames
  BY <1>3 DEF ValueNames, ValueOptions, ArmorOption, ProfileOption, AuditLogOption
<1>5. "--armor" \notin FlagNames
  BY DEF FlagNames, Flags
<1>6. "--armor" \in Dashed
  BY <1>4, WordsAssumption
<1> QED
  BY <1>1, <1>2, <1>3, <1>4, <1>5, <1>6 DEF TakesNext, IsFlag, HasValue, Leads

LEMMA ProfileWord ==
  /\ TakesNext(Word("--profile")) /\ Lead(Word("--profile")) = "--profile"
  /\ Leads(Word("--profile"), Dashed) /\ "--profile" \in Dashed
<1>1. Word("--profile")[1] = "" /\ Word("--profile")[2] = "--profile"
  BY DEF Word
<1>2. Lead(Word("--profile")) = "--profile"
  BY <1>1 DEF Lead
<1>3. "--profile" \in ValueNames
  BY DEF ValueNames, ValueOptions, ProfileOption
<1>4. "--profile" \in Dashed
  BY <1>3, WordsAssumption
<1> QED
  BY <1>1, <1>2, <1>3, <1>4 DEF TakesNext, Leads

(* Every spelling of an option has a hyphen, and is of that option only.   *)
LEMMA Spellings ==
  ASSUME NEW option \in ValueOptions \cup Flags
  PROVE  option \subseteq Dashed /\ ~("--armor" \in option /\ "--profile" \in option)
<1>1. option \subseteq ValueNames \cup FlagNames
  BY DEF ValueNames, FlagNames
<1>2. ~("--armor" \in option /\ "--profile" \in option)
  <2>1. CASE option \in ValueOptions
    BY <2>1 DEF ValueOptions, ArmorOption, ProfileOption, AuditLogOption
  <2>2. CASE option \in Flags
    BY <2>2 DEF Flags
  <2> QED
    BY <2>1, <2>2
<1> QED
  BY <1>1, <1>2, WordsAssumption

(* What clap takes for a value.                                            *)
Values == {w \in PlainText : ~Leads(w, Dashed)}

(* A subcommand and two options, each of a name and a value or not there.  *)
WithOptions(r, o1, o2) == <<r>> \o o1 \o o2

IsOption(o, name) ==
  /\ o \in Seq(Text) /\ \A j \in 1..Len(o) : o[j] # Separator
  /\ Len(o) \in {0, 2} /\ (Len(o) = 2 => o[1] = name /\ o[2] \in Values)

(* What stands behind the subcommand: --armor, --profile, both or none.    *)
FromWrap(head) ==
  /\ Len(head) \in {1, 3, 5}
  /\ Len(head) >= 3 => head[2] \in {Word("--armor"), Word("--profile")} /\ head[3] \in Values
  /\ Len(head) = 5 =>
       head[2] = Word("--armor") /\ head[4] = Word("--profile") /\ head[5] \in Values

LEMMA ValuesAreWords == Values \subseteq Text \ {Separator, Word("--armor")}
<1>1. Leads(Separator, Dashed) /\ Leads(Word("--armor"), Dashed)
  <2>1. Lead(Separator) = "--"
    BY DEF Lead, Separator, Word
  <2>2. "--" \in Dashed
    BY WordsAssumption
  <2> QED
    BY <2>1, <2>2, ArmorWord DEF Leads
<1> QED
  BY <1>1 DEF Values, Text

(* clap takes the options that wrap writes.                                *)
LEMMA WrapIsAccepted ==
  ASSUME NEW head, FromWrap(head), NEW o, Len(o) = Len(head) - 1,
         \A j \in 1..Len(head) - 1 : o[j] = head[j + 1]
  PROVE  ClapAccepts(o)
<1> DEFINE a == Word("--armor")  p == Word("--profile")  n == Len(o)
<1>1. /\ n \in {0, 2, 4}
      /\ n >= 2 => o[1] \in {a, p} /\ o[2] \in Values
      /\ n = 4 => o[1] = a /\ o[3] = p /\ o[4] \in Values
  BY DEF FromWrap
<1>2. \A v \in Values : ~Leads(v, Dashed)
  BY DEF Values
<1>3. /\ TakesNext(a) /\ TakesNext(p) /\ Leads(a, Dashed) /\ Leads(p, Dashed)
      /\ Lead(a) = "--armor" /\ Lead(p) = "--profile"
  BY ArmorWord, ProfileWord
<1> HIDE DEF a, p
<1>4. n \in Nat /\ \A i \in 1..n : i \in {1, 2, 3, 4} /\ (i > 2 => n = 4) /\ n >= 2
  BY <1>1
<1> HIDE DEF n
<1>5. ASSUME NEW i \in 1..n
      PROVE  IF Leads(o[i], Dashed)
             THEN \/ IsFlag(o[i]) \/ HasValue(o[i])
                  \/ TakesNext(o[i]) /\ i < n /\ ~Leads(o[i + 1], Dashed)
             ELSE i > 1 /\ TakesNext(o[i - 1])
  <2>1. CASE i = 1
    <3>1. TakesNext(o[1]) /\ Leads(o[1], Dashed) /\ ~Leads(o[2], Dashed) /\ 1 < n
      BY <1>1, <1>2, <1>3, <1>4, <1>5
    <3> QED
      BY <2>1, <3>1
  <2>2. CASE i = 2
    <3>1. TakesNext(o[1]) /\ ~Leads(o[2], Dashed)
      BY <1>1, <1>2, <1>3, <1>4, <1>5
    <3> QED
      BY <2>2, <3>1
  <2>3. CASE i = 3
    <3>1. TakesNext(o[3]) /\ Leads(o[3], Dashed) /\ ~Leads(o[4], Dashed) /\ 3 < n
      BY <1>1, <1>2, <1>3, <1>4, <1>5, <2>3
    <3> QED
      BY <2>3, <3>1
  <2>4. CASE i = 4
    <3>1. TakesNext(o[3]) /\ ~Leads(o[4], Dashed)
      BY <1>1, <1>2, <1>3, <1>4, <1>5, <2>4
    <3> QED
      BY <2>4, <3>1
  <2> QED
    BY <1>4, <2>1, <2>2, <2>3, <2>4
<1>6. ASSUME NEW i \in 1..n, NEW j \in 1..i - 1, NEW option \in ValueOptions \cup Flags
      PROVE  ~(Leads(o[i], option) /\ Leads(o[j], option))
  <2>1. option \subseteq Dashed /\ ~("--armor" \in option /\ "--profile" \in option)
    BY Spellings
  <2>2. CASE i = 2 \/ i = 4
    <3>1. o[i] \in Values
      BY <1>1, <1>4, <2>2
    <3> QED
      BY <1>2, <2>1, <3>1 DEF Leads
  <2>3. CASE i = 3 /\ j = 2
    <3>1. o[j] \in Values
      BY <1>1, <1>4, <2>3
    <3> QED
      BY <1>2, <2>1, <3>1 DEF Leads
  <2>4. CASE i = 3 /\ j = 1
    <3>1. Lead(o[i]) = "--profile" /\ Lead(o[j]) = "--armor"
      BY <1>1, <1>3, <1>4, <2>4
    <3> QED
      BY <2>1, <3>1 DEF Leads
  <2>5. i = 2 \/ i = 4 \/ (i = 3 /\ j = 2) \/ (i = 3 /\ j = 1)
    <3>1. i \in {1, 2, 3, 4} /\ j \in 1..i - 1
      BY <1>4
    <3> QED
      BY <3>1
  <2> QED
    BY <2>2, <2>3, <2>4, <2>5
<1> QED
  BY <1>5, <1>6 DEF ClapAccepts, n

LEMMA JoinedOptions ==
  ASSUME NEW r \in Text, r # Separator, r # Word("--armor"),
         NEW o1, IsOption(o1, Word("--armor")), NEW o2, IsOption(o2, Word("--profile")),
         NEW head, head = WithOptions(r, o1, o2)
  PROVE  /\ head \in Seq(Text) /\ Len(head) >= 1 /\ head[1] = r
         /\ \A j \in 1..Len(head) : head[j] # Separator
         /\ FromWrap(head)
         /\ Len(o1) = 2 => Len(head) >= 3 /\ head[2] = o1[1] /\ head[3] = o1[2]
<1> DEFINE front == <<r>> \o o1
<1>1. <<r>> \in Seq(Text) /\ Len(<<r>>) = 1 /\ <<r>>[1] = r
  OBVIOUS
<1>2. o1 \in Seq(Text) /\ o2 \in Seq(Text)
  BY DEF IsOption
<1>3. /\ front \in Seq(Text) /\ Len(front) = 1 + Len(o1) /\ front[1] = r
      /\ \A j \in 1..Len(o1) : front[1 + j] = o1[j]
  BY <1>1, <1>2, Joined
<1>4. \A j \in 1..Len(<<r>>) : <<r>>[j] # Separator
  BY <1>1
<1>5. \A j \in 1..Len(front) : front[j] # Separator
  BY <1>1, <1>2, <1>4, JoinedWithout DEF IsOption
<1>6. head = front \o o2
  BY DEF WithOptions
<1> HIDE DEF front
<1>7. /\ head \in Seq(Text) /\ Len(head) = Len(front) + Len(o2)
      /\ \A j \in 1..Len(front) : head[j] = front[j]
      /\ \A j \in 1..Len(o2) : head[Len(front) + j] = o2[j]
  <2>1. front \in Seq(Text)
    BY <1>3
  <2>2. /\ front \o o2 \in Seq(Text) /\ Len(front \o o2) = Len(front) + Len(o2)
        /\ \A j \in 1..Len(front) : (front \o o2)[j] = front[j]
        /\ \A j \in 1..Len(o2) : (front \o o2)[Len(front) + j] = o2[j]
    BY <1>2, <2>1, Joined
  <2> QED
    BY <1>6, <2>2
<1>8. \A j \in 1..Len(head) : head[j] # Separator
  BY <1>2, <1>3, <1>5, <1>6, JoinedWithout DEF IsOption
<1>9. Len(front) \in {1, 3} /\ Len(o2) \in {0, 2}
  BY <1>3 DEF IsOption
<1>10. head[1] = r /\ Len(head) >= 1
  BY <1>3, <1>7, <1>9
<1>11. /\ Len(o1) = 2 => o1[1] = Word("--armor") /\ o1[2] \in Values
       /\ Len(o2) = 2 => o2[1] = Word("--profile") /\ o2[2] \in Values
       /\ Len(o1) \in {0, 2}
  BY DEF IsOption
<1>12. ASSUME Len(o1) = 2
       PROVE  Len(head) >= 3 /\ head[2] = o1[1] /\ head[3] = o1[2]
  <2>1. Len(front) = 3 /\ front[1 + 1] = o1[1] /\ front[1 + 2] = o1[2]
    BY <1>3, <1>12
  <2> QED
    BY <1>7, <1>9, <2>1
<1>13. FromWrap(head)
  <2>1. PICK n, m : n = Len(o1) /\ m = Len(o2)
    OBVIOUS
  <2>2. n \in {0, 2} /\ m \in {0, 2} /\ Len(head) = 1 + n + m
    BY <1>3, <1>7, <1>9, <1>11, <2>1
  <2>3. m = 2 => head[1 + n + 1] \in {Word("--profile")} /\ head[1 + n + 2] \in Values
    <3>1. Len(front) = 1 + n /\ (m = 2 => 1 \in 1..m /\ 2 \in 1..m)
      BY <1>3, <2>1
    <3>2. m = 2 => head[Len(front) + 1] = o2[1] /\ head[Len(front) + 2] = o2[2]
      BY <1>7, <2>1, <3>1
    <3> QED
      BY <1>11, <2>1, <3>1, <3>2
  <2>4. n = 2 => head[2] = Word("--armor") /\ head[3] \in Values
    BY <1>11, <1>12, <2>1
  <2> QED
    BY <2>2, <2>3, <2>4 DEF FromWrap
<1> QED
  BY <1>7, <1>8, <1>10, <1>12, <1>13

(* The options that wrap writes.                                           *)
WrapOptionWords(armor, profile) ==
  WithOptions(Word("run"), Option("--armor", armor),
              Option("--profile", {Word(p) : p \in profile}))

LEMMA OptionsOfWrap ==
  ASSUME NEW armor, armor \subseteq Values,
         NEW profile, profile \subseteq Name \ Dashed,
         NEW head, head = WrapOptionWords(armor, profile)
  PROVE  /\ head \in Seq(Text) /\ Len(head) >= 1 /\ head[1] = Word("run")
         /\ \A j \in 1..Len(head) : head[j] # Separator
         /\ FromWrap(head)
         /\ armor # {} => Len(head) >= 3 /\ head[2] = Word("--armor") /\ head[3] \in armor
<1> DEFINE words == {Word(p) : p \in profile}
<1>1. words \subseteq Values /\ Values \subseteq Text \ {Separator, Word("--armor")}
  <2>1. ASSUME NEW p \in profile
        PROVE  Word(p) \in Values
    <3>1. Lead(Word(p)) = p /\ Word(p) \in PlainText
      BY DEF Lead, Word, PlainText
    <3> QED
      BY <3>1 DEF Values, Leads
  <2> QED
    BY <2>1, ValuesAreWords
<1>2. "run" \in Name /\ "--armor" \in Name /\ "--profile" \in Name
  BY WordsAssumption, ArmorWord, ProfileWord
<1>3. {Word("run"), Word("--armor"), Word("--profile")} \subseteq Text
  BY <1>2, Words
<1>4. head = WithOptions(Word("run"), Option("--armor", armor), Option("--profile", words))
  BY DEF WrapOptionWords
<1> HIDE DEF words
<1> DEFINE r == Word("run")  a == Word("--armor")  p == Word("--profile")
           v == CHOOSE x \in armor : TRUE
           w == CHOOSE x \in words : TRUE
<1>5. /\ Option("--armor", armor) = IF armor = {} THEN <<>> ELSE <<a, v>>
      /\ Option("--profile", words) = IF words = {} THEN <<>> ELSE <<p, w>>
  BY DEF Option
<1>6. /\ armor # {} => v \in armor /\ v \in Text /\ v # Separator /\ v # a
      /\ words # {} => w \in words /\ w \in Text /\ w # Separator /\ w # a
  BY <1>1
<1>7. /\ r \in Text /\ a \in Text /\ p \in Text
      /\ r # Separator /\ a # Separator /\ p # Separator /\ r # a
  BY <1>3, Words
<1> HIDE DEF r, a, p, v, w
<1>8. head = WithOptions(r, Option("--armor", armor), Option("--profile", words))
  BY <1>4 DEF r
<1> DEFINE o1 == Option("--armor", armor)  o2 == Option("--profile", words)
<1> HIDE DEF o1, o2
<1>9. /\ o1 \in Seq(Text) /\ \A j \in 1..Len(o1) : o1[j] # Separator
      /\ armor = {} => Len(o1) = 0
      /\ armor # {} => Len(o1) = 2 /\ o1[1] = a /\ o1[2] = v
  <2>1. CASE armor = {}
    <3>1. o1 = <<>>
      BY <1>5, <2>1 DEF o1
    <3> QED
      BY <2>1, <3>1
  <2>2. CASE armor # {}
    <3>1. o1 = <<a, v>>
      BY <1>5, <2>2 DEF o1
    <3>2. a \in Text /\ v \in Text /\ a # Separator /\ v # Separator
      BY <1>6, <1>7, <2>2
    <3> QED
      BY <2>2, <3>1, <3>2
  <2> QED
    BY <2>1, <2>2
<1>10. /\ o2 \in Seq(Text) /\ \A j \in 1..Len(o2) : o2[j] # Separator
       /\ words = {} => Len(o2) = 0
       /\ words # {} => Len(o2) = 2 /\ o2[1] = p /\ o2[2] = w
  <2>1. CASE words = {}
    <3>1. o2 = <<>>
      BY <1>5, <2>1 DEF o2
    <3> QED
      BY <2>1, <3>1
  <2>2. CASE words # {}
    <3>1. o2 = <<p, w>>
      BY <1>5, <2>2 DEF o2
    <3>2. p \in Text /\ w \in Text /\ p # Separator /\ w # Separator
      BY <1>6, <1>7, <2>2
    <3> QED
      BY <2>2, <3>1, <3>2
  <2> QED
    BY <2>1, <2>2
<1>11. head = WithOptions(r, o1, o2)
  BY <1>8 DEF o1, o2
<1>12. IsOption(o1, Word("--armor")) /\ IsOption(o2, Word("--profile"))
  BY <1>1, <1>6, <1>9, <1>10 DEF IsOption, a, p
<1>13. /\ head \in Seq(Text) /\ Len(head) >= 1 /\ head[1] = r
       /\ \A j \in 1..Len(head) : head[j] # Separator
       /\ FromWrap(head)
       /\ Len(o1) = 2 => Len(head) >= 3 /\ head[2] = o1[1] /\ head[3] = o1[2]
  BY <1>7, <1>11, <1>12, JoinedOptions DEF a
<1> QED
  BY <1>6, <1>9, <1>13 DEF r, a


(* A command line of `run` that clap takes, with the tool behind the first *)
(* "--".                                                                   *)
Runs(all, command, args) ==
  /\ all \in Seq(Text) /\ all[1] = Word("run")
  /\ First(all, Separator) \in 2..Len(all) - 1
  /\ ClapAccepts(SubSeq(all, 2, First(all, Separator) - 1))
  /\ ExtractOriginal(all) = {[command |-> command, args |-> args]}

LEMMA BuiltArgs ==
  ASSUME NEW armor, armor \subseteq Values,
         NEW profile, profile \subseteq Name \ Dashed,
         NEW command \in Text, NEW args \in Seq(Text),
         NEW all, all = BuildWrappedArgs(armor, profile, command, args)
  PROVE  Runs(all, command, args)
<1>1. PICK head : head = WrapOptionWords(armor, profile)
  OBVIOUS
<1>2. /\ head \in Seq(Text) /\ Len(head) >= 1 /\ head[1] = Word("run")
      /\ \A j \in 1..Len(head) : head[j] # Separator
      /\ FromWrap(head)
  BY <1>1, OptionsOfWrap
<1>3. all = Behind(head, command, args)
  BY <1>1 DEF BuildWrappedArgs, WrapOptionWords, WithOptions, Behind
<1>4. /\ all \in Seq(Text) /\ Len(all) = Len(head) + 2 + Len(args)
      /\ \A j \in 1..Len(head) : all[j] = head[j]
      /\ First(all, Separator) = Len(head) + 1
      /\ all[Len(head) + 2] = command
      /\ Rest(all, Len(head) + 3) = args
  <2>1. Splits(all, head, command, args)
    BY <1>2, <1>3, BehindOptions
  <2> QED
    BY <2>1 DEF Splits
<1> DEFINE i == First(all, Separator)
<1>5. Len(head) \in Nat /\ Len(args) \in Nat /\ Len(head) >= 1
  BY <1>2
<1>6. i \in 2..Len(all) - 1 /\ i - 1 = Len(head) /\ i + 1 = Len(head) + 2
        /\ i + 2 = Len(head) + 3
  BY <1>4, <1>5
<1>7. all[1] = head[1]
  BY <1>4, <1>5
<1>9. ClapAccepts(SubSeq(all, 2, i - 1))
  <2>1. PICK o : o = SubSeq(all, 2, i - 1)
    OBVIOUS
  <2>2. /\ Len(o) = Len(head) - 1
        /\ \A j \in 1..Len(head) - 1 : o[j] = all[j + 1]
    <3>1. i \in 1..Len(all) /\ i # 1 /\ i - 2 = Len(head) - 1
      BY <1>4, <1>5, <1>6
    <3> HIDE DEF i
    <3> QED
      BY <1>4, <2>1, <3>1, OptionPart
  <2>3. \A j \in 1..Len(head) - 1 : all[j + 1] = head[j + 1]
    <3> TAKE j \in 1..Len(head) - 1
    <3>1. j + 1 \in 1..Len(head)
      BY <1>5
    <3> QED
      BY <1>4, <3>1
  <2>4. \A j \in 1..Len(head) - 1 : o[j] = head[j + 1]
    BY <2>2, <2>3
  <2>5. ClapAccepts(o)
    BY <1>2, <1>5, <2>2, <2>4, WrapIsAccepted
  <2> QED
    BY <2>1, <2>5
<1>8. ExtractOriginal(all) = {[command |-> all[i + 1], args |-> Rest(all, i + 2)]}
  <2>1. i \in 1..Len(all) - 1
    BY <1>6
  <2> QED
    BY <2>1 DEF ExtractOriginal
<1> QED
  BY <1>2, <1>4, <1>6, <1>7, <1>8, <1>9 DEF Runs

LEMMA LeastIsIn ==
  ASSUME NEW I, I \subseteq Nat, I # {}
  PROVE  Min(I) \in I
<1>1. PICK k \in I : \A j \in I : k <= j
  BY LeastOfSet
<1>2. \A x \in I : (\A j \in I : x <= j) => x = k
  BY <1>1
<1>3. Min(I) = k
  BY <1>1, <1>2 DEF Min
<1> QED
  BY <1>3

(* No manifest that wrap finds has a name that could be taken for a word   *)
(* of the command line.                                                    *)
LEMMA ArmorIsNoWord ==
  ASSUME NEW fs, NEW name \in Name, NEW command \in PlainText, NEW opts
  PROVE  ResolveArmorSource(fs, name, command, Cwd, opts) \subseteq Values
<1> DEFINE F == Values
<1>1. /\ Cwd \in Dir /\ Community \in Dir /\ "armor.json" \in Name
  BY DeploymentAssumption, WordsAssumption
<1>2. \A d \in Dir, n \in Name : <<d, n>> \in F
  <2> TAKE d \in Dir, n \in Name
  <2>1. d # "" /\ d \notin Dashed
    BY StartupAssumption, WordsAssumption
  <2>2. <<d, n>> \in PlainText /\ Lead(<<d, n>>) = d
    BY <2>1 DEF PlainText, Lead
  <2> QED
    BY <2>1, <2>2 DEF Values, Leads
<1>3. Word("armor.json") \in F
  <2>1. Word("armor.json") \in PlainText /\ Lead(Word("armor.json")) = "armor.json"
    BY <1>1 DEF PlainText, Lead, Word
  <2>2. "armor.json" \notin Dashed
    BY WordsAssumption
  <2> QED
    BY <2>1, <2>2 DEF Values, Leads
<1> DEFINE dir == command[1]
           near == IF dir = "" THEN <<Word("armor.json")>>
                   ELSE <<ArmorJson(dir)>> \o
                        (IF Parent[dir] = "" THEN <<>> ELSE <<ArmorJson(Parent[dir])>>)
           far == <<ArmorJson(Cwd), CommunityProfile(name)>>
           chain == near \o far
<1>4. far \in Seq(F)
  <2>1. ArmorJson(Cwd) \in F /\ CommunityProfile(name) \in F
    BY <1>1, <1>2 DEF ArmorJson, CommunityProfile
  <2> HIDE DEF F
  <2> QED
    BY <2>1
<1>5. near \in Seq(F)
  <2>1. CASE dir = ""
    <3>1. near = <<Word("armor.json")>>
      BY <2>1
    <3> HIDE DEF F, near
    <3> QED
      BY <1>3, <3>1
  <2>2. CASE dir # ""
    <3>1. dir \in Dir
      BY <2>2 DEF PlainText
    <3>2. ArmorJson(dir) \in F
      BY <1>1, <1>2, <3>1 DEF ArmorJson
    <3>3. Parent[dir] # "" => ArmorJson(Parent[dir]) \in F
      BY <1>1, <1>2, <3>1, StartupAssumption DEF ArmorJson
    <3> DEFINE above == IF Parent[dir] = "" THEN <<>> ELSE <<ArmorJson(Parent[dir])>>
    <3>4. near = <<ArmorJson(dir)>> \o above
      BY <2>2
    <3> HIDE DEF F, near
    <3>5. above \in Seq(F)
      <4>1. CASE Parent[dir] = ""
        <5>1. above = <<>>
          BY <4>1
        <5> HIDE DEF above
        <5> QED
          BY <5>1
      <4>2. CASE Parent[dir] # ""
        <5>1. above = <<ArmorJson(Parent[dir])>>
          BY <4>2
        <5>2. ArmorJson(Parent[dir]) \in F
          BY <3>3, <4>2
        <5>3. <<ArmorJson(Parent[dir])>> \in Seq(F)
          BY <5>2
        <5> HIDE DEF above
        <5> QED
          BY <5>1, <5>3
      <4> QED
        BY <4>1, <4>2
    <3> HIDE DEF above
    <3>6. <<ArmorJson(dir)>> \in Seq(F)
      BY <3>2
    <3>7. <<ArmorJson(dir)>> \o above \in Seq(F)
      BY <3>5, <3>6
    <3> QED
      BY <3>4, <3>7
  <2> QED
    BY <2>1, <2>2
<1>6. chain \in Seq(F)
  <2> HIDE DEF near, far, F
  <2> QED
    BY <1>4, <1>5
<1> DEFINE I == {k \in 1..Len(chain) : Exists(fs, InDir(chain[k], Cwd))}
           found1 == DiscoverArmor(fs, name, command, Cwd)
<1>7. found1 = IF (IF I # {} THEN Min(I) ELSE 0) = 0 THEN {}
               ELSE {chain[IF I # {} THEN Min(I) ELSE 0]}
  BY DEF DiscoverArmor, SelectInSeq
<1> HIDE DEF near, far, found1, F
<1>8. I # {} => Min(I) \in I
  <2>1. I \subseteq Nat
    BY <1>6
  <2> HIDE DEF I
  <2> QED
    BY <2>1, LeastIsIn
<1>9. \A k \in I : chain[k] \in F
  BY <1>6
<1>10. found1 \subseteq F
  <2> HIDE DEF I, chain
  <2> QED
    BY <1>7, <1>8, <1>9
<1> QED
  BY <1>10 DEF ResolveArmorSource, found1, F


-----------------------------------------------------------------------------
(* Entries: wrap and unwrap                                                *)

LEMMA RestIsText ==
  ASSUME NEW s \in Seq(Text), NEW i \in 1..Len(s) + 1
  PROVE  Rest(s, i) \in Seq(Text)
  BY DEF Rest

LEMMA ExtractedTool ==
  ASSUME NEW args \in Seq(Text), First(args, Separator) \in 1..Len(args) - 1
  PROVE  LET i == First(args, Separator)
             tool == [command |-> args[i + 1], args |-> Rest(args, i + 2)]
         IN  /\ ExtractOriginal(args) = {tool}
             /\ tool.command \in Text /\ tool.args \in Seq(Text)
<1> DEFINE i == First(args, Separator)
<1>1. ExtractOriginal(args) = {[command |-> args[i + 1], args |-> Rest(args, i + 2)]}
  BY DEF ExtractOriginal
<1>2. i \in 1..Len(args) - 1 /\ Len(args) \in Nat
  OBVIOUS
<1> HIDE DEF i
<1>3. i + 1 \in 1..Len(args) /\ i + 2 \in 1..Len(args) + 1
  BY <1>2
<1>4. args[i + 1] \in Text /\ Rest(args, i + 2) \in Seq(Text)
  BY <1>3, RestIsText
<1> QED
  BY <1>1, <1>4 DEF i

LEMMA ExtractedNone ==
  ASSUME NEW args, First(args, Separator) \notin 1..Len(args) - 1
  PROVE  ExtractOriginal(args) = {}
  BY DEF ExtractOriginal

(* unwrap leaves alone what starts no tool through the broker.             *)
LEMMA UnwrapKeeps ==
  ASSUME NEW e, ~IsBroker(e) \/ ExtractOriginal(e.args) = {}
  PROVE  UnwrapServer(e) = e
  BY DEF UnwrapServer, IsWrappedEntry

(* And otherwise brings back the tool behind the "--".                     *)
LEMMA UnwrapTool ==
  ASSUME NEW e, IsEntry(e), IsBroker(e), NEW tool, ExtractOriginal(e.args) = {tool}
  PROVE  UnwrapServer(e) = [command |-> {tool.command}, args |-> tool.args, url |-> e.url]
<1>1. e \in [command : SUBSET Text, args : Seq(Text), url : BOOLEAN]
  BY DEF IsEntry
<1>2. e.args[1] = Word("run") /\ First(e.args, Separator) \in 1..Len(e.args) - 1
  BY ExtractedNone DEF IsEntry
<1>3. 1 \in 1..Len(e.args)
  BY <1>1, <1>2
<1>4. IsWrappedEntry(e)
  BY <1>2, <1>3 DEF IsWrappedEntry, Contains
<1>5. UnwrapServer(e) = [e EXCEPT !.command = {tool.command}, !.args = tool.args]
  <2>1. (CHOOSE t \in {tool} : TRUE) = tool
    OBVIOUS
  <2> QED
    BY <1>4, <2>1 DEF UnwrapServer
<1> QED
  BY <1>1, <1>5

(* An entry of a plain tool.                                               *)
LEMMA PlainEntry ==
  ASSUME NEW command \in Text, Plain(command), NEW args \in Seq(Text), NEW url \in BOOLEAN
  PROVE  LET e == [command |-> {command}, args |-> args, url |-> url]
         IN  IsEntry(e) /\ ~IsBroker(e)
<1> DEFINE e == [command |-> {command}, args |-> args, url |-> url]
<1>1. ~IsBroker(e)
  BY DEF IsBroker, Plain
<1>2. Wrappable(e, [rewrap |-> TRUE]) = {[command |-> command, args |-> args]}
  BY <1>1 DEF Wrappable
<1>3. e \in [command : SUBSET Text, args : Seq(Text), url : BOOLEAN]
  OBVIOUS
<1>4. \A c, d \in e.command : c = d
  OBVIOUS
<1>5. \A tool \in Wrappable(e, [rewrap |-> TRUE]) : Plain(tool.command)
  BY <1>2
<1> HIDE DEF e
<1> QED
  BY <1>1, <1>3, <1>4, <1>5 DEF IsEntry, e

LEMMA UnwrapIsEntry ==
  ASSUME NEW e, IsEntry(e)
  PROVE  /\ IsEntry(UnwrapServer(e)) /\ UnwrapServer(UnwrapServer(e)) = UnwrapServer(e)
         /\ UnwrapServer(e) = e \/ ~IsBroker(UnwrapServer(e))
<1>1. CASE ~IsBroker(e) \/ ExtractOriginal(e.args) = {}
  BY <1>1, UnwrapKeeps
<1>2. CASE IsBroker(e) /\ ExtractOriginal(e.args) # {}
  <2>1. e \in [command : SUBSET Text, args : Seq(Text), url : BOOLEAN]
    BY DEF IsEntry
  <2>2. First(e.args, Separator) \in 1..Len(e.args) - 1
    BY <1>2, ExtractedNone
  <2>3. PICK tool : ExtractOriginal(e.args) = {tool}
                    /\ tool.command \in Text /\ tool.args \in Seq(Text)
    BY <2>1, <2>2, ExtractedTool
  <2>4. Plain(tool.command)
    <3>1. Wrappable(e, [rewrap |-> TRUE]) = {tool}
      BY <1>2, <2>3 DEF Wrappable
    <3> QED
      BY <3>1 DEF IsEntry
  <2> DEFINE u == [command |-> {tool.command}, args |-> tool.args, url |-> e.url]
  <2>5. UnwrapServer(e) = u
    BY <1>2, <2>3, UnwrapTool
  <2>6. IsEntry(u) /\ ~IsBroker(u)
    BY <2>1, <2>3, <2>4, PlainEntry
  <2> HIDE DEF u
  <2>7. UnwrapServer(u) = u
    BY <2>6, UnwrapKeeps
  <2> QED
    BY <2>5, <2>6, <2>7
<1> QED
  BY <1>1, <1>2


(* What wrap takes an entry to start.                                      *)
LEMMA WrappableTool ==
  ASSUME NEW e, IsEntry(e), NEW opts, Wrappable(e, opts) # {}
  PROVE  \E tool :
           /\ Wrappable(e, opts) = {tool} /\ Plain(tool.command)
           /\ tool.command \in Text /\ tool.args \in Seq(Text)
           /\ UnwrapServer(e) = [command |-> {tool.command}, args |-> tool.args, url |-> e.url]
<1>1. e \in [command : SUBSET Text, args : Seq(Text), url : BOOLEAN]
  BY DEF IsEntry
<1>2. CASE IsBroker(e)
  <2>1. Wrappable(e, opts) = ExtractOriginal(e.args)
    BY <1>2 DEF Wrappable
  <2>2. First(e.args, Separator) \in 1..Len(e.args) - 1
    BY <2>1, ExtractedNone
  <2>3. PICK tool : ExtractOriginal(e.args) = {tool}
                    /\ tool.command \in Text /\ tool.args \in Seq(Text)
    BY <1>1, <2>2, ExtractedTool
  <2>4. Plain(tool.command)
    <3>1. Wrappable(e, [rewrap |-> TRUE]) = {tool}
      BY <1>2, <2>3 DEF Wrappable
    <3> QED
      BY <3>1 DEF IsEntry
  <2> QED
    BY <1>2, <2>1, <2>3, <2>4, UnwrapTool
<1>3. CASE ~IsBroker(e)
  <2>1. \A o : Wrappable(e, o) = {[command |-> c, args |-> e.args] : c \in e.command}
    BY <1>3 DEF Wrappable
  <2>2. PICK c \in e.command : TRUE
    BY <2>1
  <2>3. e.command = {c} /\ c \in Text
    BY <1>1, <2>2 DEF IsEntry
  <2>4. PICK tool : tool = [command |-> c, args |-> e.args]
    OBVIOUS
  <2>5. Wrappable(e, opts) = {tool} /\ Wrappable(e, [rewrap |-> TRUE]) = {tool}
    BY <2>1, <2>3, <2>4
  <2>6. tool.command = c /\ tool.args = e.args
    BY <2>4
  <2>7. Plain(c)
    BY <2>5, <2>6 DEF IsEntry
  <2>8. e = [command |-> {c}, args |-> e.args, url |-> e.url]
    BY <1>1, <2>3
  <2>9. UnwrapServer(e) = e
    BY <1>3, UnwrapKeeps
  <2>10. UnwrapServer(e) = [command |-> {tool.command}, args |-> tool.args, url |-> e.url]
    BY <2>6, <2>8, <2>9
  <2> QED
    BY <1>1, <2>3, <2>5, <2>6, <2>7, <2>10
<1> QED
  BY <1>2, <1>3

(* A wrapped entry can be wrapped and unwrapped again, and starts the same *)
(* tool behind the broker.                                                 *)
LEMMA WrapIsEntry ==
  ASSUME NEW fs, NEW name \in Name, NEW e, IsEntry(e), NEW opts \in WrapOptions,
         NEW new, new = WrapSingleServer(fs, name, e, Cwd, opts)
  PROVE  /\ IsEntry(new) /\ UnwrapServer(new) = UnwrapServer(e)
         /\ new # e => IsBroker(new) /\ ParseRunArgs(new.args) # {}
<1>1. CASE Wrappable(e, opts) = {}
  BY <1>1 DEF WrapSingleServer
<1>2. CASE Wrappable(e, opts) # {}
  <2>1. PICK tool :
          /\ Wrappable(e, opts) = {tool} /\ Plain(tool.command)
          /\ tool.command \in Text /\ tool.args \in Seq(Text)
          /\ UnwrapServer(e) = [command |-> {tool.command}, args |-> tool.args, url |-> e.url]
    BY <1>2, WrappableTool
  <2>2. PICK armor : armor = ResolveArmorSource(fs, name, tool.command, Cwd, opts)
    OBVIOUS
  <2>3. armor \subseteq Values
    BY <2>1, <2>2, ArmorIsNoWord DEF Plain
  <2>4. opts.profile \subseteq Name \ Dashed
    BY DeploymentAssumption, EntriesAssumption DEF WrapArgs
  <2>5. PICK all : all = BuildWrappedArgs(armor, opts.profile, tool.command, tool.args)
    OBVIOUS
  <2>6. /\ all \in Seq(Text) /\ all[1] = Word("run")
        /\ First(all, Separator) \in 2..Len(all) - 1
        /\ ClapAccepts(SubSeq(all, 2, First(all, Separator) - 1))
        /\ ExtractOriginal(all) = {[command |-> tool.command, args |-> tool.args]}
    <3>1. Runs(all, tool.command, tool.args)
      BY <2>1, <2>3, <2>4, <2>5, BuiltArgs
    <3> QED
      BY <3>1 DEF Runs
  <2>7. e \in [command : SUBSET Text, args : Seq(Text), url : BOOLEAN]
    BY DEF IsEntry
  <2>8. new = [command |-> {Broker}, args |-> all, url |-> e.url]
    <3>1. (CHOOSE t \in {tool} : TRUE) = tool
      OBVIOUS
    <3>2. new = [e EXCEPT !.command = {Broker}, !.args = all]
      BY <1>2, <2>1, <2>2, <2>5, <3>1 DEF WrapSingleServer
    <3> QED
      BY <2>7, <3>2
  <2>9. new.command = {Broker} /\ new.args = all /\ new.url \in BOOLEAN
    BY <2>7, <2>8
  <2>10. IsBroker(new)
    BY <2>9 DEF IsBroker
  <2>11. IsEntry(new)
    <3>1. new \in [command : SUBSET Text, args : Seq(Text), url : BOOLEAN]
      BY <2>6, <2>7, <2>8, Words
    <3>2. Wrappable(new, [rewrap |-> TRUE])
            = {[command |-> tool.command, args |-> tool.args]}
      BY <2>6, <2>9, <2>10 DEF Wrappable
    <3>3. \A t \in Wrappable(new, [rewrap |-> TRUE]) : Plain(t.command)
      BY <2>1, <3>2
    <3> QED
      BY <2>6, <2>9, <3>1, <3>3 DEF IsEntry
  <2>12. UnwrapServer(new) = [command |-> {tool.command}, args |-> tool.args, url |-> new.url]
    <3>1. PICK t : t = [command |-> tool.command, args |-> tool.args]
      OBVIOUS
    <3>2. t.command = tool.command /\ t.args = tool.args /\ ExtractOriginal(new.args) = {t}
      BY <2>6, <2>9, <3>1
    <3> QED
      BY <2>10, <2>11, <3>2, UnwrapTool
  <2>13. ParseRunArgs(new.args) # {}
    <3>1. First(all, Separator) \in 1..Len(all) - 1 /\ all # <<>>
      BY <2>6
    <3> QED
      BY <2>6, <2>9, <3>1 DEF ParseRunArgs
  <2> QED
    BY <2>1, <2>8, <2>10, <2>11, <2>12, <2>13
<1> QED
  BY <1>1, <1>2


-----------------------------------------------------------------------------
(* What the host starts                                                    *)

(* The command line of `run`: what stands before and behind the "--".      *)
LEMMA ParsedArgs ==
  ASSUME NEW words, NEW args \in ParseRunArgs(words)
  PROVE  LET i == First(words, Separator)
             options == SubSeq(words, 2, i - 1)
         IN  /\ ParseRunArgs(words) = {args}
             /\ i \in 1..Len(words) - 1 /\ words[1] = Word("run") /\ ClapAccepts(options)
             /\ args.armor = ValueOf(options, ArmorOption)
             /\ args.command = Rest(words, i + 1)
<1> DEFINE i == First(words, Separator)
           options == SubSeq(words, 2, i - 1)
           parsed == [armor |-> ValueOf(options, ArmorOption),
                      profile |-> {w[2] : w \in ValueOf(options, ProfileOption)},
                      noOsSandbox |-> Contains(options, Word("--no-os-sandbox")),
                      noAudit |-> Contains(options, Word("--no-audit")),
                      auditLog |-> ValueOf(options, AuditLogOption),
                      command |-> Rest(words, i + 1)]
<1>1. /\ ParseRunArgs(words) = {parsed}
      /\ i \in 1..Len(words) - 1 /\ words[1] = Word("run") /\ ClapAccepts(options)
  BY DEF ParseRunArgs
<1>2. parsed.armor = ValueOf(options, ArmorOption) /\ parsed.command = Rest(words, i + 1)
  OBVIOUS
<1> HIDE DEF parsed
<1>3. args = parsed
  BY <1>1
<1> QED
  BY <1>1, <1>2, <1>3

(* The sandbox's own words are no part of what it executes.                *)
LEMMA ExecutedCommand ==
  ASSUME NEW command \in Seq(Text), Len(command) >= 1, command[1] # SandboxExec,
         NEW sandbox, NEW manifest, NEW process, process.argv = Apply(sandbox, manifest, command)
  PROVE  Executed(process) = command
<1>1. CASE sandbox = "macos"
  <2> DEFINE front == <<SandboxExec, <<"", "-p">>, Sbpl(manifest)>>
             T == Text \cup {SandboxExec, <<"", "-p">>, Sbpl(manifest)}
  <2>1. process.argv = front \o command
    BY <1>1 DEF Apply
  <2>2. front \in Seq(T) /\ Len(front) = 3 /\ front[1] = SandboxExec
    OBVIOUS
  <2>3. command \in Seq(T)
    <3>1. Text \subseteq T
      OBVIOUS
    <3> HIDE DEF T
    <3> QED
      BY <3>1
  <2> HIDE DEF front, T
  <2>4. Len(front \o command) = 3 + Len(command) /\ (front \o command)[1] = SandboxExec
    <3>1. /\ Len(front \o command) = Len(front) + Len(command)
          /\ \A i \in 1..Len(front) + Len(command) :
               (front \o command)[i] = IF i <= Len(front) THEN front[i]
                                       ELSE command[i - Len(front)]
      BY <2>2, <2>3, ConcatProperties
    <3>2. 1 \in 1..3 + Len(command) /\ Len(command) \in Nat
      BY <2>3
    <3> QED
      BY <2>2, <3>1, <3>2
  <2>5. SubSeq(front \o command, 4, 3 + Len(command)) = command
    <3>1. SubSeq(front \o command, Len(front) + 1, Len(front) + Len(command)) = command
      BY <2>2, <2>3, BackOfJoined
    <3>2. Len(front) + 1 = 4 /\ Len(front) + Len(command) = 3 + Len(command)
      BY <2>2
    <3> QED
      BY Zenon, <3>1, <3>2
  <2> QED
    BY <2>1, <2>4, <2>5 DEF Executed
<1>2. CASE sandbox # "macos"
  BY <1>2 DEF Apply, Executed
<1> QED
  BY <1>1, <1>2

(* A run that is not refused.                                              *)
LEMMA RunStarts ==
  ASSUME NEW fs, NEW args, NEW cwd, NEW platform, NEW ran,
         ran = Run(fs, args, cwd, platform), ran.ok
  PROVE  LET found1 == ResolveManifest(fs, args.armor, cwd)
         IN  /\ found1.ok /\ CheckMinSpec(found1.manifest)
             /\ ran.from = found1.from /\ ran.file = found1.manifest
             /\ ran.manifest = Effective(found1.manifest, args.profile)
             /\ ran.process = SpawnToolProcess(ran.manifest, args.command,
                                               args.noOsSandbox, platform)
  BY DEF Run, Refused

(* What is launched runs the tool of the entry o, if it runs.              *)
RunsAs(launch, o) ==
  \A ran \in launch.ran : ran.ok =>
    \E c \in o.command : Executed(ran.process) = <<c>> \o o.args

LEMMA LaunchesTool ==
  ASSUME NEW fs, NEW e, IsEntry(e), NEW platform,
         NEW launch, launch = Launch(fs, e, HostCwd, platform)
  PROVE  RunsAs(launch, UnwrapServer(e))
<1> USE DEF RunsAs
<1>1. e \in [command : SUBSET Text, args : Seq(Text), url : BOOLEAN]
  BY DEF IsEntry
<1>2. CASE ~IsBroker(e)
  <2>1. UnwrapServer(e) = e
    BY <1>2, UnwrapKeeps
  <2>2. launch.ran = {[ok |-> TRUE, process |-> [argv |-> <<c>> \o e.args, landlock |-> FALSE]]
                        : c \in e.command}
    BY <1>2 DEF Launch
  <2>3. ASSUME NEW ran \in launch.ran
        PROVE  \E c \in e.command : Executed(ran.process) = <<c>> \o e.args
    <3> DEFINE argv(c) == <<c>> \o e.args
               started(c) == [ok |-> TRUE, process |-> [argv |-> argv(c), landlock |-> FALSE]]
    <3>0. \A r \in launch.ran : \E c \in e.command : r = started(c)
      BY <2>2
    <3> HIDE DEF argv
    <3>1. PICK c \in e.command : ran.process.argv = argv(c)
      BY <3>0
    <3> USE DEF argv
    <3>2. Plain(c)
      <4>1. [command |-> c, args |-> e.args] \in Wrappable(e, [rewrap |-> TRUE])
        BY <1>2 DEF Wrappable
      <4> QED
        BY <4>1 DEF IsEntry
    <3>3. <<c>> \in Seq(Text) /\ Len(<<c>>) = 1 /\ <<c>>[1] = c /\ e.args \in Seq(Text)
      BY <1>1
    <3>4. (<<c>> \o e.args)[1] = c
      BY <3>3, Joined
    <3>5. ran.process.argv[1] # SandboxExec
      BY <3>1, <3>2, <3>4 DEF Plain
    <3> QED
      BY <3>1, <3>5 DEF Executed
  <2> QED
    BY <2>1, <2>3
<1>3. CASE IsBroker(e) /\ ParseRunArgs(e.args) = {}
  <2>1. launch.ran = {}
    BY <1>3 DEF Launch
  <2> QED
    BY <2>1
<1>4. ASSUME IsBroker(e), NEW args \in ParseRunArgs(e.args)
      PROVE  RunsAs(launch, UnwrapServer(e))
  <2> DEFINE i == First(e.args, Separator)
  <2>1. PICK tool : /\ ExtractOriginal(e.args) = {tool}
                    /\ tool.command = e.args[i + 1] /\ tool.args = Rest(e.args, i + 2)
                    /\ tool.command \in Text /\ tool.args \in Seq(Text)
    BY <1>1, <1>4, ParsedArgs, ExtractedTool
  <2>2. UnwrapServer(e) = [command |-> {tool.command}, args |-> tool.args, url |-> e.url]
    BY <1>4, <2>1, UnwrapTool
  <2>3. ParseRunArgs(e.args) = {args} /\ args.command = Rest(e.args, i + 1)
    BY <1>4, ParsedArgs
  <2>4. launch.ran = {Run(fs, args, HostCwd, platform)}
    BY <1>4, <2>3 DEF Launch
  <2>5. i \in 1..Len(e.args) - 1 /\ Len(e.args) \in Nat /\ e.args \in Seq(Text)
    BY <1>1, <1>4, ParsedArgs
  <2> HIDE DEF i
  <2>6. args.command = <<tool.command>> \o tool.args
    <3>1. i + 1 \in 1..Len(e.args) /\ Len(e.args) \in i + 1..Len(e.args)
            /\ (i + 1) + 1 = i + 2
      BY <2>5
    <3>2. SubSeq(e.args, i + 1, Len(e.args))
            = <<e.args[i + 1]>> \o SubSeq(e.args, i + 2, Len(e.args))
      BY <2>5, <3>1, SubSeqRecursiveFirst
    <3> QED
      BY <2>1, <2>3, <3>2 DEF Rest
  <2>7. Plain(tool.command)
    <3>1. Wrappable(e, [rewrap |-> TRUE]) = {tool}
      BY <1>4, <2>1 DEF Wrappable
    <3> QED
      BY <3>1 DEF IsEntry
  <2>8. /\ args.command \in Seq(Text) /\ Len(args.command) >= 1
        /\ args.command[1] # SandboxExec
    <3>1. <<tool.command>> \in Seq(Text) /\ Len(<<tool.command>>) = 1
            /\ <<tool.command>>[1] = tool.command
      BY <2>1
    <3>2. /\ <<tool.command>> \o tool.args \in Seq(Text)
          /\ Len(<<tool.command>> \o tool.args) = 1 + Len(tool.args) /\ Len(tool.args) \in Nat
          /\ (<<tool.command>> \o tool.args)[1] = tool.command
      BY <2>1, <3>1, Joined
    <3> QED
      BY <2>6, <2>7, <3>2 DEF Plain
  <2>9. ASSUME NEW ran \in launch.ran, ran.ok
        PROVE  Executed(ran.process) = <<tool.command>> \o tool.args
    <3>1. ran.process = SpawnToolProcess(ran.manifest, args.command, args.noOsSandbox, platform)
      BY <2>4, <2>9, RunStarts
    <3>2. ran.process.argv
            = Apply(SelectSandbox(args.noOsSandbox, platform), ran.manifest, args.command)
      BY <3>1 DEF SpawnToolProcess
    <3>3. Executed(ran.process) = args.command
      BY <2>8, <3>2, ExecutedCommand
    <3> QED
      BY <2>6, <3>3
  <2>10. UnwrapServer(e).command = {tool.command} /\ UnwrapServer(e).args = tool.args
    BY <2>2
  <2> QED
    BY <2>9, <2>10
<1> QED
  BY <1>2, <1>3, <1>4


-----------------------------------------------------------------------------
(* The configuration and its backup                                        *)

(* clap takes what starts the broker.                                      *)
Starts(e) == IsBroker(e) => ParseRunArgs(e.args) # {}

(* A configuration from which every tool can be had back as noted in o,    *)
(* that can be wrapped and unwrapped again, and from which the broker      *)
(* starts but where a user had it otherwise.                               *)
Keeps(c, o) ==
  /\ Recovered(c) = o /\ DOMAIN c \subseteq Name
  /\ \A s \in DOMAIN c : IsEntry(c[s]) /\ (c[s] \in Written(s) \/ Starts(c[s]))
Kept(c) == Keeps(c, original)

Rewrites == job.cmd \in {"wrap", "unwrap"}
Copies == job.cmd = "wrap" /\ job.step \in {"backup", "copy"}
Writes == Rewrites /\ job.step = "write"
Fills == Rewrites /\ job.step = "fill"

ConfigKept == Whole(config) => Kept(config) /\ torn = ""

(* What was torn by wrap is in the backup.                                 *)
BackupKept == torn = "wrap" => Whole(backup) /\ Kept(backup)

(* What is about to be written, and what is in the configuration meanwhile.*)
JobKept ==
  Rewrites =>
    /\ job = [cmd |-> job.cmd, step |-> job.step, new |-> job.new] /\ Kept(job.new)
    /\ Copies \/ Writes \/ Fills
    /\ Copies \/ Writes => Whole(config)
    /\ Writes /\ job.cmd = "wrap" => Whole(backup) /\ Kept(backup)
    /\ Fills => config = Torn /\ torn = job.cmd

ConfigInv == "cmd" \in DOMAIN job /\ ConfigKept /\ BackupKept /\ JobKept

LEMMA KeepsWrapped ==
  ASSUME NEW fs, NEW c, NEW o, Keeps(c, o), NEW opts \in WrapOptions
  PROVE  Keeps(WrapAllServers(fs, c, Cwd, opts), o)
<1> DEFINE w == WrapAllServers(fs, c, Cwd, opts)
<1>1. DOMAIN w = DOMAIN c /\ \A s \in DOMAIN c : w[s] = WrapSingleServer(fs, s, c[s], Cwd, opts)
  BY DEF WrapAllServers
<1> HIDE DEF w
<1>2. \A s \in DOMAIN c : /\ IsEntry(w[s]) /\ UnwrapServer(w[s]) = UnwrapServer(c[s])
                          /\ w[s] \in Written(s) \/ Starts(w[s])
  <2> TAKE s \in DOMAIN c
  <2>1. s \in Name /\ IsEntry(c[s]) /\ (c[s] \in Written(s) \/ Starts(c[s]))
    BY DEF Keeps
  <2>2. /\ IsEntry(w[s]) /\ UnwrapServer(w[s]) = UnwrapServer(c[s])
        /\ w[s] # c[s] => IsBroker(w[s]) /\ ParseRunArgs(w[s].args) # {}
    BY <1>1, <2>1, WrapIsEntry
  <2> QED
    BY <2>1, <2>2 DEF Starts
<1>3. Recovered(w) = Recovered(c)
  BY <1>1, <1>2 DEF Recovered
<1>4. Keeps(w, o)
  BY <1>1, <1>2, <1>3 DEF Keeps
<1> QED
  BY <1>4 DEF w

LEMMA KeepsUnwrapped ==
  ASSUME NEW c, NEW o, Keeps(c, o)
  PROVE  Keeps(UnwrapAll(c), o)
<1> DEFINE u == UnwrapAll(c)
<1>1. DOMAIN u = DOMAIN c /\ \A s \in DOMAIN c : u[s] = UnwrapServer(c[s])
  BY DEF UnwrapAll
<1> HIDE DEF u
<1>2. \A s \in DOMAIN c : /\ IsEntry(u[s]) /\ UnwrapServer(u[s]) = UnwrapServer(c[s])
                          /\ u[s] \in Written(s) \/ Starts(u[s])
  <2> TAKE s \in DOMAIN c
  <2>1. IsEntry(c[s]) /\ (c[s] \in Written(s) \/ Starts(c[s]))
    BY DEF Keeps
  <2>2. /\ IsEntry(u[s]) /\ UnwrapServer(u[s]) = UnwrapServer(c[s])
        /\ u[s] = c[s] \/ ~IsBroker(u[s])
    BY <1>1, <2>1, UnwrapIsEntry
  <2> QED
    BY <2>1, <2>2 DEF Starts
<1>3. Recovered(u) = Recovered(c)
  BY <1>1, <1>2 DEF Recovered
<1>4. Keeps(u, o)
  BY <1>1, <1>2, <1>3 DEF Keeps
<1> QED
  BY <1>4 DEF u

LEMMA KeepsAdded ==
  ASSUME NEW c, NEW o, Keeps(c, o), NEW s \in Name, NEW e, IsEntry(e), e \in Written(s)
  PROVE  Keeps(With(c, s, e), With(o, s, UnwrapServer(e)))
<1> DEFINE a == With(c, s, e)
<1>1. DOMAIN a = DOMAIN c \cup {s} /\ \A x \in DOMAIN a : a[x] = IF x = s THEN e ELSE c[x]
  BY DEF With
<1>2. DOMAIN o = DOMAIN c /\ \A x \in DOMAIN c : o[x] = UnwrapServer(c[x])
  BY DEF Keeps, Recovered
<1> HIDE DEF a
<1>3. \A x \in DOMAIN a : IsEntry(a[x]) /\ (a[x] \in Written(x) \/ Starts(a[x]))
  BY <1>1 DEF Keeps
<1>4. Recovered(a) = With(o, s, UnwrapServer(e))
  <2>1. \A x \in DOMAIN a :
          UnwrapServer(a[x]) = IF x = s THEN UnwrapServer(e) ELSE o[x]
    BY <1>1, <1>2
  <2>2. DOMAIN a = DOMAIN o \cup {s}
    BY <1>1, <1>2
  <2> QED
    BY <2>1, <2>2 DEF Recovered, With
<1>5. DOMAIN a \subseteq Name
  BY <1>1 DEF Keeps
<1>6. Keeps(a, With(o, s, UnwrapServer(e)))
  BY <1>3, <1>4, <1>5 DEF Keeps
<1> QED
  BY <1>6 DEF a

LEMMA ConfigInit ==
  ASSUME Init
  PROVE  ConfigInv
<1>1. config = Servers /\ original = Recovered(Servers) /\ torn = "" /\ job = Idle
  BY DEF Init
<1>2. \A s \in DOMAIN Servers : Servers[s] \in Written(s)
  BY DEF Written
<1>3. Kept(config)
  BY <1>1, <1>2, EntriesAssumption DEF Kept, Keeps
<1> QED
  BY <1>1, <1>3 DEF ConfigInv, ConfigKept, BackupKept, JobKept, Rewrites, Idle

(* The steps of the commands that leave the configuration alone.           *)
LEMMA ConfigUntouched ==
  ASSUME ConfigInv, UNCHANGED <<config, backup, torn, original>>,
         job' = job \/ ("cmd" \in DOMAIN job' /\ job'.cmd \notin {"wrap", "unwrap"})
  PROVE  ConfigInv'
<1>1. \A c : Kept(c)' <=> Kept(c)
  BY DEF Kept
<1>2. (ConfigKept /\ BackupKept)'
  BY DEF ConfigInv, ConfigKept, BackupKept, Kept
<1>3. CASE job' = job
  BY <1>2, <1>3 DEF ConfigInv, JobKept, Kept, Rewrites, Copies, Writes, Fills
<1>4. CASE "cmd" \in DOMAIN job' /\ job'.cmd \notin {"wrap", "unwrap"}
  BY <1>2, <1>4 DEF ConfigInv, JobKept, Rewrites
<1> QED
  BY <1>3, <1>4


LEMMA ConfigStep ==
  ASSUME ConfigInv, [Next]_vars
  PROVE  ConfigInv'
<1> USE DEF Kept
<1>1. CASE WrapStart
  <2>1. PICK opts \in WrapOptions :
          /\ Whole(config)
          /\ job' = [cmd |-> "wrap", step |-> "backup",
                     new |-> WrapAllServers(files, config, Cwd, opts)]
          /\ UNCHANGED userVars
    BY <1>1 DEF WrapStart, Begins
  <2>2. Kept(config) /\ torn = ""
    BY <2>1 DEF ConfigInv, ConfigKept
  <2>3. Keeps(WrapAllServers(files, config, Cwd, opts), original)
    BY <2>2, KeepsWrapped
  <2>4. UNCHANGED <<config, backup, torn, original>>
    BY <2>1 DEF userVars
  <2>5. job'.cmd = "wrap" /\ job'.step = "backup" /\ "cmd" \in DOMAIN job'
          /\ job'.new = WrapAllServers(files, config, Cwd, opts)
    BY <2>1
  <2>6. JobKept'
    BY <2>1, <2>3, <2>4, <2>5 DEF JobKept, Rewrites, Copies, Writes, Fills
  <2> QED
    BY <2>2, <2>4, <2>5, <2>6 DEF ConfigInv, ConfigKept, BackupKept
<1>2. CASE BackupTruncate
  <2>1. job.cmd = "wrap" /\ job.step = "backup" /\ backup' = Torn
          /\ job' = [job EXCEPT !.step = "copy"] /\ UNCHANGED <<config, torn, original>>
    BY <1>2 DEF BackupTruncate, Step
  <2>2. /\ job = [cmd |-> job.cmd, step |-> job.step, new |-> job.new] /\ Kept(job.new)
        /\ Whole(config) /\ torn = "" /\ Kept(config)
    BY <2>1 DEF ConfigInv, JobKept, Rewrites, Copies, ConfigKept
  <2>3. job' = [cmd |-> "wrap", step |-> "copy", new |-> job.new]
    BY <2>1, <2>2
  <2>4. job'.cmd = "wrap" /\ job'.step = "copy" /\ "cmd" \in DOMAIN job' /\ job'.new = job.new
    BY <2>3
  <2>5. JobKept'
    BY <2>1, <2>2, <2>3, <2>4 DEF JobKept, Rewrites, Copies, Writes, Fills
  <2> QED
    BY <2>1, <2>2, <2>4, <2>5 DEF ConfigInv, ConfigKept, BackupKept
<1>3. CASE BackupCopy
  <2>1. job.cmd = "wrap" /\ job.step = "copy" /\ backup' = config
          /\ job' = [job EXCEPT !.step = "write"] /\ UNCHANGED <<config, torn, original>>
    BY <1>3 DEF BackupCopy, Step
  <2>2. /\ job = [cmd |-> job.cmd, step |-> job.step, new |-> job.new] /\ Kept(job.new)
        /\ Whole(config) /\ torn = "" /\ Kept(config)
    BY <2>1 DEF ConfigInv, JobKept, Rewrites, Copies, ConfigKept
  <2>3. job' = [cmd |-> "wrap", step |-> "write", new |-> job.new]
    BY <2>1, <2>2
  <2>4. job'.cmd = "wrap" /\ job'.step = "write" /\ "cmd" \in DOMAIN job' /\ job'.new = job.new
    BY <2>3
  <2>5. JobKept'
    BY <2>1, <2>2, <2>3, <2>4 DEF JobKept, Rewrites, Copies, Writes, Fills, Whole
  <2> QED
    BY <2>1, <2>2, <2>4, <2>5 DEF ConfigInv, ConfigKept, BackupKept
<1>4. CASE Truncate
  <2>1. Rewrites /\ job.step = "write" /\ config' = Torn /\ torn' = job.cmd
          /\ job' = [job EXCEPT !.step = "fill"] /\ UNCHANGED <<backup, original>>
    BY <1>4 DEF Truncate, Rewrites
  <2>2. /\ job = [cmd |-> job.cmd, step |-> job.step, new |-> job.new] /\ Kept(job.new)
        /\ job.cmd = "wrap" => Whole(backup) /\ Kept(backup)
    BY <2>1 DEF ConfigInv, JobKept, Writes
  <2>3. job' = [cmd |-> job.cmd, step |-> "fill", new |-> job.new]
    BY <2>1, <2>2
  <2>4. job'.cmd = job.cmd /\ job'.step = "fill" /\ "cmd" \in DOMAIN job' /\ job'.new = job.new
    BY <2>3
  <2>5. JobKept'
    BY <2>1, <2>2, <2>3, <2>4 DEF JobKept, Rewrites, Copies, Writes, Fills
  <2>6. ~Whole(config')
    BY <2>1 DEF Whole
  <2> QED
    BY <2>1, <2>2, <2>4, <2>5, <2>6 DEF ConfigInv, ConfigKept, BackupKept, Whole
<1>5. CASE Fill
  <2>1. Fills /\ config' = job.new /\ torn' = "" /\ job' = Idle /\ UNCHANGED <<backup, original>>
    BY <1>5 DEF Fill, Fills, Rewrites
  <2>2. Kept(job.new)
    BY <2>1 DEF ConfigInv, JobKept, Fills
  <2>3. "cmd" \in DOMAIN job' /\ job'.cmd = "idle"
    BY <2>1 DEF Idle
  <2> QED
    BY <2>1, <2>2, <2>3 DEF ConfigInv, ConfigKept, BackupKept, JobKept, Rewrites
<1>6. CASE UnwrapStart
  <2>1. /\ Whole(config)
        /\ job' = [cmd |-> "unwrap", step |-> "write", new |-> UnwrapAll(config)]
        /\ UNCHANGED <<config, backup, torn, original>>
    BY <1>6 DEF UnwrapStart, Begins, userVars
  <2>2. Kept(config) /\ torn = ""
    BY <2>1 DEF ConfigInv, ConfigKept
  <2>3. Keeps(UnwrapAll(config), original)
    BY <2>2, KeepsUnwrapped
  <2>4. job'.cmd = "unwrap" /\ job'.step = "write" /\ "cmd" \in DOMAIN job'
          /\ job'.new = UnwrapAll(config)
    BY <2>1
  <2>5. JobKept'
    BY <2>1, <2>3, <2>4 DEF JobKept, Rewrites, Copies, Writes, Fills
  <2> QED
    BY <2>1, <2>2, <2>4, <2>5 DEF ConfigInv, ConfigKept, BackupKept
<1>7. CASE Restore
  <2>1. job = Idle /\ torn = "wrap" /\ config' = backup /\ torn' = ""
          /\ UNCHANGED <<backup, original, job>>
    BY <1>7 DEF Restore
  <2>2. Kept(backup)
    BY <2>1 DEF ConfigInv, BackupKept
  <2> QED
    BY <2>1, <2>2 DEF ConfigInv, ConfigKept, BackupKept, JobKept, Rewrites, Idle
<1>8. CASE AddServer
  <2>1. PICK s \in DOMAIN NewServers \ DOMAIN config :
          /\ config' = With(config, s, NewServers[s])
          /\ original' = With(original, s, UnwrapServer(NewServers[s]))
    BY <1>8 DEF AddServer
  <2>2. job = Idle /\ Whole(config) /\ UNCHANGED <<backup, job, torn>>
    BY <1>8 DEF AddServer
  <2>3. Kept(config) /\ torn = ""
    BY <2>2 DEF ConfigInv, ConfigKept
  <2>4. Keeps(config', original')
    <3>1. s \in Name /\ IsEntry(NewServers[s])
      BY <2>1, EntriesAssumption
    <3>2. NewServers[s] \in Written(s)
      BY <2>1 DEF Written
    <3> QED
      BY <2>1, <2>3, <3>1, <3>2, KeepsAdded DEF Kept
  <2> QED
    BY <2>2, <2>3, <2>4 DEF ConfigInv, ConfigKept, BackupKept, JobKept, Rewrites, Idle
<1>9. CASE EditFile
  BY <1>9, ConfigUntouched DEF EditFile, userVars
<1>10. CASE InitStart \/ AddStart \/ UpdateStart
  <2>1. "cmd" \in DOMAIN job' /\ job'.cmd \in {"init", "add", "update"}
    BY <1>10 DEF InitStart, AddStart, UpdateStart, Begins, Fetch
  <2>2. UNCHANGED <<config, backup, torn, original>>
    BY <1>10 DEF InitStart, AddStart, UpdateStart, userVars
  <2> QED
    BY <2>1, <2>2, ConfigUntouched
<1>11. CASE FileTruncate
  <2>1. "cmd" \in DOMAIN job' /\ job'.cmd = job.cmd
    BY <1>11 DEF FileTruncate, ConfigInv
  <2>2. job.cmd \in {"init", "add", "update"} /\ UNCHANGED <<config, backup, torn, original>>
    BY <1>11 DEF FileTruncate, userVars
  <2> QED
    BY <2>1, <2>2, ConfigUntouched
<1>12. CASE FetchArrives \/ UpdateFill
  <2>1. "cmd" \in DOMAIN job' /\ job'.cmd = "update"
    BY <1>12 DEF FetchArrives, UpdateFill, Fetch
  <2>2. UNCHANGED <<config, backup, torn, original>>
    BY <1>12 DEF FetchArrives, UpdateFill, userVars
  <2> QED
    BY <2>1, <2>2, ConfigUntouched
<1>13. CASE InitFill \/ AddFill \/ FetchFails \/ UpdateDone \/ Crash
  <2>1. job' = Idle /\ UNCHANGED <<config, backup, torn, original>>
    BY <1>13 DEF InitFill, AddFill, FetchFails, UpdateDone, Crash, userVars
  <2> QED
    BY <2>1, ConfigUntouched DEF Idle
<1>14. CASE UNCHANGED vars
  BY <1>14, ConfigUntouched DEF vars, userVars
<1> QED
  BY <1>1, <1>2, <1>3, <1>4, <1>5, <1>6, <1>7, <1>8, <1>9, <1>10, <1>11, <1>12, <1>13, <1>14
     DEF Next

LEMMA ConfigInvariant == Spec => []ConfigInv
<1>1. Init => ConfigInv
  BY ConfigInit
<1>2. ConfigInv /\ [Next]_vars => ConfigInv'
  BY ConfigStep
<1> QED
  BY <1>1, <1>2, PTL DEF Spec

(* Every tool can be had back as its user wrote it, after any sequence of  *)
(* wrap, re-wrap, unwrap, kills and restores.                              *)
THEOREM ToolsAreRecoverable == Spec => []OriginalRecoverable
<1>1. ConfigInv => OriginalRecoverable
  BY DEF ConfigInv, ConfigKept, BackupKept, Kept, Keeps, OriginalRecoverable
<1> QED
  BY <1>1, ConfigInvariant, PTL

(* What the host starts is the user's tool with the user's arguments.      *)
THEOREM LaunchIsFaithful == Spec => []LaunchRunsOriginal
<1>1. ASSUME ConfigInv
      PROVE  LaunchRunsOriginal
  <2> SUFFICES ASSUME Whole(config), NEW s \in DOMAIN config, NEW platform \in Platforms
               PROVE  LET launch == Launched(s, platform)
                      IN  /\ config[s] \notin Written(s) \cup {original[s]} => launch.ran # {}
                          /\ \A ran \in launch.ran : ran.ok =>
                               \E c \in original[s].command :
                                 Executed(ran.process) = <<c>> \o original[s].args
    BY DEF LaunchRunsOriginal
  <2>1. Keeps(config, original)
    BY <1>1 DEF ConfigInv, ConfigKept, Kept
  <2>2. /\ original[s] = UnwrapServer(config[s]) /\ IsEntry(config[s])
        /\ config[s] \in Written(s) \/ Starts(config[s])
    BY <2>1 DEF Keeps, Recovered
  <2>3. RunsAs(Launched(s, platform), original[s])
    BY <2>2, LaunchesTool DEF Launched
  <2>4. ASSUME config[s] \notin Written(s) \cup {original[s]}
        PROVE  Launched(s, platform).ran # {}
    <3>1. IsBroker(config[s])
      BY <2>2, <2>4, UnwrapKeeps
    <3>2. ParseRunArgs(config[s].args) # {}
      BY <2>2, <2>4, <3>1 DEF Starts
    <3> QED
      BY <3>1, <3>2 DEF Launched, Launch
  <2> QED
    BY <2>3, <2>4 DEF RunsAs
<1> QED
  BY <1>1, ConfigInvariant, PTL


-----------------------------------------------------------------------------
(* The contents of the files                                               *)

JobNew ==
  /\ job.cmd = "init" =>
       /\ job = [cmd |-> "init", step |-> job.step, dest |-> job.dest, new |-> job.new]
       /\ IsContent(job.new)
  /\ job.cmd = "update" /\ job.step # "fetch" =>
       /\ job = [cmd |-> "update", step |-> job.step, i |-> job.i, new |-> job.new,
                 dest |-> job.dest]
       /\ IsContent(job.new)
  /\ job.cmd = "update" => job.i \in Nat \ {0}

FilesInv == "cmd" \in DOMAIN job /\ JobNew /\ \A f \in DOMAIN files : IsContent(files[f])

LEMMA TornIsContent == IsContent(Torn) /\ IsContent(Absent)
  BY DEF IsContent

LEMMA ContentsKept ==
  ASSUME NEW fs, \A f \in DOMAIN fs : IsContent(fs[f]), NEW file, NEW c, IsContent(c)
  PROVE  LET new == With(fs, file, c) IN \A f \in DOMAIN new : IsContent(new[f])
  BY DEF With

LEMMA FilesInit ==
  ASSUME Init
  PROVE  FilesInv
<1>1. files \in [DOMAIN UserFiles -> {Absent}] /\ job = Idle
  BY DEF Init
<1>2. \A f \in DOMAIN files : IsContent(files[f])
  BY <1>1, TornIsContent
<1> QED
  BY <1>1, <1>2 DEF FilesInv, JobNew, Idle

LEMMA FilesStep ==
  ASSUME FilesInv, [Next]_vars
  PROVE  FilesInv'
<1>1. \A f \in DOMAIN files : IsContent(files[f])
  BY DEF FilesInv
<1>2. CASE WrapStart \/ BackupTruncate \/ BackupCopy \/ UnwrapStart \/ Truncate
  <2>1. "cmd" \in DOMAIN job' /\ job'.cmd \in {"wrap", "unwrap"}
    BY <1>2 DEF WrapStart, BackupTruncate, BackupCopy, UnwrapStart, Truncate, Begins, Step, FilesInv
  <2>2. files' = files
    BY <1>2 DEF WrapStart, BackupTruncate, BackupCopy, UnwrapStart, Truncate
  <2> QED
    BY <1>1, <2>1, <2>2 DEF FilesInv, JobNew
<1>3. CASE Fill \/ FetchFails \/ UpdateDone \/ Crash
  <2>1. job' = Idle /\ files' = files
    BY <1>3 DEF Fill, FetchFails, UpdateDone, Crash
  <2> QED
    BY <1>1, <2>1 DEF FilesInv, JobNew, Idle
<1>4. CASE Restore \/ AddServer \/ UNCHANGED vars
  <2>1. job' = job /\ files' = files
    BY <1>4 DEF Restore, AddServer, vars
  <2> QED
    BY <2>1 DEF FilesInv, JobNew
<1>5. CASE EditFile
  <2>1. PICK f \in DOMAIN UserFiles : \E c \in UserFiles[f] : files' = With(files, f, c)
    BY <1>5 DEF EditFile, Put
  <2>2. PICK c \in UserFiles[f] : files' = With(files, f, c)
    BY <2>1
  <2>3. IsContent(c)
    BY ContentsAssumption
  <2>4. \A x \in DOMAIN files' : IsContent(files'[x])
    BY <1>1, <2>2, <2>3, ContentsKept
  <2>5. job' = job
    BY <1>5 DEF EditFile
  <2> QED
    BY <2>4, <2>5 DEF FilesInv, JobNew
<1>6. CASE InitStart
  <2>1. PICK new \in Templates :
          job' = [cmd |-> "init", step |-> "truncate", dest |-> Target, new |-> new]
    BY <1>6 DEF InitStart, Begins
  <2>2. IsContent(new) /\ files' = files
    BY <1>6, <2>1, ContentsAssumption DEF InitStart
  <2>3. /\ job'.cmd = "init" /\ job'.step = "truncate" /\ job'.dest = Target /\ job'.new = new
        /\ "cmd" \in DOMAIN job'
    BY <2>1
  <2> QED
    BY <1>1, <2>1, <2>2, <2>3 DEF FilesInv, JobNew
<1>7. CASE AddStart
  <2>1. "cmd" \in DOMAIN job' /\ job'.cmd = "add" /\ files' = files
    BY <1>7 DEF AddStart, Begins
  <2> QED
    BY <1>1, <2>1 DEF FilesInv, JobNew
<1>8. CASE UpdateStart
  <2>1. /\ "cmd" \in DOMAIN job' /\ job'.cmd = "update" /\ job'.step = "fetch"
        /\ job'.i = 1 /\ files' = files
    BY <1>8 DEF UpdateStart, Begins, Fetch
  <2> QED
    BY <1>1, <2>1 DEF FilesInv, JobNew
<1>9. CASE FileTruncate
  <2>1. files' = With(files, job.dest, Torn)
    BY <1>9 DEF FileTruncate, Put
  <2>2. \A x \in DOMAIN files' : IsContent(files'[x])
    BY <1>1, <2>1, TornIsContent, ContentsKept
  <2>3. job' = [job EXCEPT !.step = "fill"] /\ job.step = "truncate"
    BY <1>9 DEF FileTruncate
  <2>4. "cmd" \in DOMAIN job' /\ job'.cmd = job.cmd
    BY <2>3 DEF FilesInv
  <2>5. CASE job.cmd = "init"
    <3>1. /\ job = [cmd |-> "init", step |-> job.step, dest |-> job.dest, new |-> job.new]
          /\ IsContent(job.new)
      BY <2>5 DEF FilesInv, JobNew
    <3>2. job' = [cmd |-> "init", step |-> "fill", dest |-> job.dest, new |-> job.new]
      BY <2>3, <3>1
    <3>3. job'.cmd = "init" /\ job'.step = "fill" /\ job'.dest = job.dest /\ job'.new = job.new
      BY <3>2
    <3> QED
      BY <2>2, <2>4, <3>1, <3>2, <3>3 DEF FilesInv, JobNew
  <2>6. CASE job.cmd = "update"
    <3>1. /\ job = [cmd |-> "update", step |-> job.step, i |-> job.i, new |-> job.new,
                    dest |-> job.dest]
          /\ IsContent(job.new) /\ job.i \in Nat \ {0}
      BY <2>3, <2>6 DEF FilesInv, JobNew
    <3>2. job' = [cmd |-> "update", step |-> "fill", i |-> job.i, new |-> job.new,
                  dest |-> job.dest]
      BY <2>3, <3>1
    <3>3. job'.cmd = "update" /\ job'.step = "fill" /\ job'.i = job.i /\ job'.dest = job.dest
            /\ job'.new = job.new
      BY <3>2
    <3> QED
      BY <2>2, <2>4, <3>1, <3>2, <3>3 DEF FilesInv, JobNew
  <2>7. CASE job.cmd \notin {"init", "update"}
    BY <2>2, <2>4, <2>7 DEF FilesInv, JobNew
  <2> QED
    BY <2>5, <2>6, <2>7
<1>10. CASE InitFill
  <2>1. files' = With(files, job.dest, job.new) /\ job' = Idle /\ job.cmd = "init"
    BY <1>10 DEF InitFill, Put, Step
  <2>2. IsContent(job.new)
    BY <2>1 DEF FilesInv, JobNew
  <2>3. \A x \in DOMAIN files' : IsContent(files'[x])
    BY <1>1, <2>1, <2>2, ContentsKept
  <2> QED
    BY <2>1, <2>3 DEF FilesInv, JobNew, Idle
<1>11. CASE AddFill
  <2>1. PICK c : c = IF Exists(files, Draft) THEN files[Draft] ELSE Torn
    OBVIOUS
  <2>2. files' = With(files, job.dest, c) /\ job' = Idle
    BY <1>11, <2>1 DEF AddFill, Put
  <2>3. IsContent(c)
    BY <1>1, <2>1, TornIsContent DEF Exists, Content, Absent
  <2>4. \A x \in DOMAIN files' : IsContent(files'[x])
    BY <1>1, <2>2, <2>3, ContentsKept
  <2> QED
    BY <2>2, <2>4 DEF FilesInv, JobNew, Idle
<1>12. CASE FetchArrives
  <2>1. PICK c \in {Published[Index[job.i].name]} \cup Garbled :
          job' = [cmd |-> "update", step |-> "truncate", i |-> job.i, new |-> c,
                  dest |-> CommunityProfile(Index[job.i].name)]
    BY <1>12 DEF FetchArrives
  <2>2. files' = files /\ job.i \in DOMAIN Index
    <3>1. job.i \in Nat \ {0} /\ job.i <= Len(Index) /\ files' = files
      BY <1>12 DEF FetchArrives, Step, FilesInv, JobNew
    <3>2. Len(Index) \in Nat /\ DOMAIN Index = 1..Len(Index)
      BY UpdateAssumption
    <3> QED
      BY <3>1, <3>2
  <2>3. IsContent(c)
    BY <2>1, <2>2, ContentsAssumption, DeploymentAssumption
  <2>4. /\ job'.cmd = "update" /\ job'.step = "truncate" /\ job'.i = job.i /\ job'.new = c
        /\ job'.dest = CommunityProfile(Index[job.i].name) /\ "cmd" \in DOMAIN job'
    BY <2>1
  <2>5. job'.i \in Nat \ {0}
    BY <2>2, <2>4, UpdateAssumption
  <2>6. job' = [cmd |-> "update", step |-> job'.step, i |-> job'.i, new |-> job'.new,
                dest |-> job'.dest]
    BY <2>1
  <2>7. JobNew'
    BY <2>3, <2>4, <2>5, <2>6 DEF JobNew
  <2> QED
    BY <1>1, <2>2, <2>4, <2>7 DEF FilesInv
<1>13. CASE UpdateFill
  <2>1. files' = With(files, job.dest, job.new) /\ job' = Fetch(job.i + 1)
          /\ job.cmd = "update" /\ job.step = "fill"
    BY <1>13 DEF UpdateFill, Put, Step
  <2>2. IsContent(job.new) /\ job.i \in Nat \ {0}
    BY <2>1 DEF FilesInv, JobNew
  <2>3. \A x \in DOMAIN files' : IsContent(files'[x])
    BY <1>1, <2>1, <2>2, ContentsKept
  <2>4. /\ job'.cmd = "update" /\ job'.step = "fetch" /\ job'.i = job.i + 1
        /\ "cmd" \in DOMAIN job' /\ job.i + 1 \in Nat \ {0}
    BY <2>1, <2>2 DEF Fetch
  <2> QED
    BY <2>3, <2>4 DEF FilesInv, JobNew
<1> QED
  BY <1>2, <1>3, <1>4, <1>5, <1>6, <1>7, <1>8, <1>9, <1>10, <1>11, <1>12, <1>13 DEF Next


LEMMA FilesInvariant == Spec => []FilesInv
<1>1. Init => FilesInv
  BY FilesInit
<1>2. FilesInv /\ [Next]_vars => FilesInv'
  BY FilesStep
<1> QED
  BY <1>1, <1>2, PTL DEF Spec

-----------------------------------------------------------------------------
(* What a tool runs under                                                  *)

(* A manifest as it comes from a file or from the fallback.                *)
Fields(kind, id, schema, struct, profile, locked, denyLocal, minSpec) ==
  [kind |-> kind, id |-> id, schema |-> schema, struct |-> struct, profile |-> profile,
   locked |-> locked, denyLocal |-> denyLocal, minSpec |-> minSpec]

IsManifest(m) ==
  /\ m = Fields(m.kind, m.id, m.schema, m.struct, m.profile, m.locked, m.denyLocal, m.minSpec)
  /\ m.denyLocal \in BOOLEAN /\ m.locked \in BOOLEAN
  /\ m.minSpec \subseteq Version

LEMMA ResolvedManifest ==
  ASSUME FilesInv, NEW hint, NEW found1, found1 = ResolveManifest(files, hint, HostCwd), found1.ok
  PROVE  IsManifest(found1.manifest)
<1> USE DEF IsManifest, Fields
<1> DEFINE fs == IF hint # {} THEN {InDir(h, HostCwd) : h \in hint}
                 ELSE SearchArmorUpward(files, HostCwd)
<1>1. CASE fs = {}
  <2>1. found1 = Fallback
    BY <1>1 DEF ResolveManifest
  <2>2. found1.manifest = Json("fallback", "strict", FALSE, TRUE, {})
    BY <2>1 DEF Fallback, StrictFallbackManifest
  <2> QED
    BY <2>2 DEF Json
<1>2. CASE fs # {}
  <2>1. PICK file : found1 = Found(file, Content(files, file))
    BY <1>2 DEF ResolveManifest
  <2>2. found1.manifest = Content(files, file) /\ Loads(Content(files, file))
    BY <2>1 DEF Found, Refused
  <2>3. Content(files, file) # Absent /\ Content(files, file) # Torn
    BY <2>2 DEF Loads, Absent, Torn
  <2>4. IsContent(Content(files, file))
    BY <2>3 DEF FilesInv, Content
  <2> QED
    BY <2>2, <2>3, <2>4 DEF IsContent
<1> QED
  BY <1>1, <1>2

(* What the override and the defaults make of a manifest.                  *)
LEMMA ReplacedFields ==
  ASSUME NEW m, IsManifest(m), NEW p, NEW d
  PROVE  [m EXCEPT !.profile = p, !.denyLocal = d]
           = Fields(m.kind, m.id, m.schema, m.struct, p, m.locked, d, m.minSpec)
<1>1. PICK k, id, sch, str, pr, lo, dl, ms :
        /\ k = m.kind /\ id = m.id /\ sch = m.schema /\ str = m.struct
        /\ pr = m.profile /\ lo = m.locked /\ dl = m.denyLocal /\ ms = m.minSpec
  OBVIOUS
<1>2. m = Fields(k, id, sch, str, pr, lo, dl, ms)
  BY <1>1 DEF IsManifest
<1>3. [m EXCEPT !.profile = p, !.denyLocal = d] = Fields(k, id, sch, str, p, lo, d, ms)
  <2> DEFINE M == Fields(k, id, sch, str, p, lo, dl, ms)
  <2>1. [m EXCEPT !.profile = p] = M
    BY <1>2 DEF Fields
  <2>2. [M EXCEPT !.denyLocal = d] = Fields(k, id, sch, str, p, lo, d, ms)
    BY DEF Fields
  <2> HIDE DEF M
  <2> QED
    BY <2>1, <2>2
<1> QED
  BY <1>1, <1>3

IsEffective(e, m, asked) ==
  /\ e.profile \in IF m.locked \/ asked \cap Profiles = {} THEN {m.profile} ELSE asked
  /\ e.denyLocal = (e.profile # "browser" /\ m.denyLocal)
  /\ e = [m EXCEPT !.profile = e.profile, !.denyLocal = e.denyLocal]

LEMMA EffectiveProfile ==
  ASSUME NEW m, IsManifest(m),
         NEW asked, NEW e, e = Effective(m, asked)
  PROVE  IsEffective(e, m, asked)
<1> DEFINE p == IF m.locked \/ asked \cap Profiles = {} THEN m.profile
                ELSE CHOOSE q \in asked : TRUE
<1>1. PICK o : o = ApplyProfileOverride(m, asked)
  OBVIOUS
<1>0. /\ m = [kind |-> m.kind, id |-> m.id, schema |-> m.schema, struct |-> m.struct,
              profile |-> m.profile, locked |-> m.locked, denyLocal |-> m.denyLocal,
              minSpec |-> m.minSpec]
      /\ m.denyLocal \in BOOLEAN /\ m.locked \in BOOLEAN
  BY DEF IsManifest, Fields
<1>2. o = [kind |-> m.kind, id |-> m.id, schema |-> m.schema, struct |-> m.struct,
           profile |-> p, locked |-> m.locked, denyLocal |-> m.denyLocal,
           minSpec |-> m.minSpec]
  <2>1. CASE m.locked \/ asked \cap Profiles = {}
    BY <1>0, <1>1, <2>1 DEF ApplyProfileOverride
  <2>2. CASE ~(m.locked \/ asked \cap Profiles = {})
    BY <1>0, <1>1, <2>2 DEF ApplyProfileOverride
  <2> QED
    BY <2>1, <2>2
<1>3. p \in IF m.locked \/ asked \cap Profiles = {} THEN {m.profile} ELSE asked
  OBVIOUS
<1> HIDE DEF p
<1> DEFINE d == p # "browser" /\ m.denyLocal
<1>4. e = [kind |-> m.kind, id |-> m.id, schema |-> m.schema, struct |-> m.struct,
           profile |-> p, locked |-> m.locked, denyLocal |-> d, minSpec |-> m.minSpec]
  <2>1. e = ApplyBrowserDefaults(o) /\ o.profile = p
    BY <1>1, <1>2 DEF Effective
  <2>2. CASE p = "browser"
    <3>1. e = [o EXCEPT !.denyLocal = FALSE] /\ d = FALSE
      BY <2>1, <2>2 DEF ApplyBrowserDefaults
    <3> HIDE DEF d
    <3> QED
      BY <1>2, <3>1
  <2>3. CASE p # "browser"
    <3>1. e = o /\ d = m.denyLocal
      BY <1>0, <2>1, <2>3 DEF ApplyBrowserDefaults
    <3> HIDE DEF d
    <3> QED
      BY <1>2, <3>1
  <2> QED
    BY <2>2, <2>3
<1>5. d \in BOOLEAN
  BY <1>0
<1> HIDE DEF d
<1>6. e.profile = p /\ e.denyLocal = d
  BY <1>4
<1>7. [m EXCEPT !.profile = p, !.denyLocal = d]
        = [kind |-> m.kind, id |-> m.id, schema |-> m.schema, struct |-> m.struct,
           profile |-> p, locked |-> m.locked, denyLocal |-> d, minSpec |-> m.minSpec]
  <2>2. [m EXCEPT !.profile = p, !.denyLocal = d]
          = Fields(m.kind, m.id, m.schema, m.struct, p, m.locked, d, m.minSpec)
    BY ReplacedFields
  <2> QED
    BY Zenon, <2>2 DEF Fields
<1>8. e = [m EXCEPT !.profile = e.profile, !.denyLocal = e.denyLocal]
  BY <1>4, <1>6, <1>7
<1> QED
  BY <1>3, <1>6, <1>8 DEF d, IsEffective


LEMMA SpecSupported ==
  ASSUME NEW m, m.minSpec \subseteq Version, CheckMinSpec(m), NEW v \in m.minSpec
  PROVE  v # <<>> /\ (v[1] < 1 \/ v = <<1, 0>>)
<1>1. SpecVersionLe(v, <<1, 0>>)
  BY DEF CheckMinSpec, BrokerSpec
<1>2. v # <<>> /\ (v[1] < 1 \/ (v[1] = 1 /\ v[2] <= 0))
  BY <1>1 DEF SpecVersionLe
<1>3. v \in Nat \X Nat
  BY <1>2 DEF Version
<1> QED
  BY <1>2, <1>3

(* A tool runs under the file as it is, but for the profile that wrap      *)
(* embedded and deny_local, and never under one that asks for a newer spec.*)
THEOREM ManifestIsEffective == Spec => []EffectiveManifest
<1>1. ASSUME FilesInv
      PROVE  EffectiveManifest
  <2> SUFFICES ASSUME Whole(config), NEW s \in DOMAIN config, NEW platform \in Platforms,
                      IsBroker(config[s]), NEW ran \in Launched(s, platform).ran, ran.ok
               PROVE  LET asked == UNION {args.profile : args \in ParseRunArgs(config[s].args)}
                          m == ran.manifest
                      IN  /\ m.profile \in IF ran.file.locked \/ asked \cap Profiles = {}
                                            THEN {ran.file.profile} ELSE asked
                          /\ m.denyLocal = (m.profile # "browser" /\ ran.file.denyLocal)
                          /\ m = [ran.file EXCEPT !.profile = m.profile,
                                                  !.denyLocal = m.denyLocal]
                          /\ \A v \in ran.file.minSpec :
                               v # <<>> /\ (v[1] < 1 \/ v = <<1, 0>>)
    BY DEF EffectiveManifest
  <2>1. PICK args \in ParseRunArgs(config[s].args) : ran = Run(files, args, HostCwd, platform)
    BY DEF Launched, Launch
  <2>2. ParseRunArgs(config[s].args) = {args}
    BY <2>1 DEF ParseRunArgs
  <2> DEFINE asked == UNION {a.profile : a \in ParseRunArgs(config[s].args)}
  <2>3. asked = args.profile
    BY <2>2
  <2>4. PICK found1 : found1 = ResolveManifest(files, args.armor, HostCwd)
    OBVIOUS
  <2>5. /\ found1.ok /\ CheckMinSpec(found1.manifest) /\ ran.file = found1.manifest
        /\ ran.manifest = Effective(found1.manifest, args.profile)
    BY <2>1, <2>4, RunStarts
  <2> HIDE DEF asked
  <2>6. PICK m : m = found1.manifest
    OBVIOUS
  <2>7. IsManifest(m)
    BY <1>1, <2>4, <2>5, <2>6, ResolvedManifest
  <2>8. /\ ran.file = m /\ CheckMinSpec(m) /\ ran.manifest = Effective(m, asked)
    BY <2>3, <2>5, <2>6
  <2>9. PICK e : e = Effective(m, asked)
    OBVIOUS
  <2>10. IsEffective(e, m, asked)
    BY <2>7, <2>9, EffectiveProfile
  <2>11. \A v \in m.minSpec : v # <<>> /\ (v[1] < 1 \/ v = <<1, 0>>)
    BY <2>7, <2>8, SpecSupported DEF IsManifest
  <2>12. ran.manifest = e /\ ran.file = m
    BY <2>8, <2>9
  <2> QED
    BY <2>10, <2>11, <2>12 DEF asked, IsEffective
<1> QED
  BY <1>1, FilesInvariant, PTL

-----------------------------------------------------------------------------
(* The manifest that wrap embeds                                           *)

Options(args) == SubSeq(args, 1, First(args, Separator))

(* What is noted of a configuration is in the options of its entries.      *)
Noted(e, noted) ==
  \A f \in noted :
    IsBroker(e) /\ ExtractArmorPath(Options(e.args)) = {f} /\ f[1] # ""
Notes(c, noted) == DOMAIN noted = DOMAIN c /\ \A s \in DOMAIN c : Noted(c[s], noted[s])

Wraps ==
  job.cmd = "wrap" /\ job.step # "fill" =>
    \A s \in DOMAIN config : job.new[s] = config[s] \/ IsBroker(job.new[s])
FoundInv ==
  Wraps /\ (Whole(config) => Notes(config, found)) /\ (Fills => Notes(job.new, found))

LEMMA FoundInit ==
  ASSUME Init
  PROVE  FoundInv
<1>1. config = Servers /\ found = Nowhere(Servers) /\ job = Idle
  BY DEF Init
<1>2. Notes(config, found)
  BY <1>1 DEF Notes, Noted, Nowhere
<1> QED
  BY <1>1, <1>2 DEF FoundInv, Wraps, Fills, Rewrites, Idle

LEMMA FoundUntouched ==
  ASSUME FoundInv, UNCHANGED <<config, found>>,
         job' = job \/ job'.cmd \notin {"wrap", "unwrap"}
  PROVE  FoundInv'
<1>1. CASE job' = job
  BY <1>1 DEF FoundInv, Wraps, Fills, Rewrites
<1>2. CASE job'.cmd \notin {"wrap", "unwrap"}
  BY <1>2 DEF FoundInv, Wraps, Fills, Rewrites
<1> QED
  BY <1>1, <1>2

LEMMA OneValue ==
  ASSUME NEW s, NEW w, NEW f \in After(s, w)
  PROVE  After(s, w) = {f}
  BY DEF After

LEMMA FoundStep ==
  ASSUME ConfigInv, FoundInv, [Next]_vars
  PROVE  FoundInv'
<1>1. CASE WrapStart
  <2>1. PICK opts \in WrapOptions :
          /\ Whole(config)
          /\ job' = [cmd |-> "wrap", step |-> "backup",
                     new |-> WrapAllServers(files, config, Cwd, opts)]
          /\ UNCHANGED <<config, found>>
    BY <1>1 DEF WrapStart, Begins, userVars
  <2>2. Keeps(config, original)
    BY <2>1 DEF ConfigInv, ConfigKept, Kept
  <2>3. ASSUME NEW s \in DOMAIN config
        PROVE  job'.new[s] = config[s] \/ IsBroker(job'.new[s])
    <3>1. job'.new[s] = WrapSingleServer(files, s, config[s], Cwd, opts)
      BY <2>1 DEF WrapAllServers
    <3>2. s \in Name /\ IsEntry(config[s])
      BY <2>2 DEF Keeps
    <3> QED
      BY <3>1, <3>2, WrapIsEntry
  <2>4. Wraps'
    BY <2>1, <2>3 DEF Wraps
  <2>5. ~Fills'
    BY <2>1 DEF Fills
  <2> QED
    BY <2>1, <2>4, <2>5 DEF FoundInv
<1>2. CASE BackupTruncate \/ BackupCopy
  <2>1. /\ job.cmd = "wrap" /\ job.step \in {"backup", "copy"} /\ UNCHANGED <<config, found>>
        /\ \E step \in {"copy", "write"} : job' = [job EXCEPT !.step = step]
    BY <1>2 DEF BackupTruncate, BackupCopy, Step
  <2>2. PICK step \in {"copy", "write"} : job' = [job EXCEPT !.step = step]
    BY <2>1
  <2>3. job = [cmd |-> job.cmd, step |-> job.step, new |-> job.new]
    BY <2>1 DEF ConfigInv, JobKept, Rewrites
  <2>4. job' = [cmd |-> "wrap", step |-> step, new |-> job.new]
    BY <2>1, <2>2, <2>3
  <2>5. job'.new = job.new /\ job'.step = step /\ step # "fill"
    BY <2>4
  <2> QED
    BY <2>1, <2>5 DEF FoundInv, Wraps, Fills
<1>3. CASE Truncate
  <2>1. Rewrites /\ job.step = "write" /\ config' = Torn
          /\ found' = (IF job.cmd = "wrap" THEN Embedded(config, job.new) ELSE Nowhere(config))
          /\ job' = [job EXCEPT !.step = "fill"]
    BY <1>3 DEF Truncate, Rewrites
  <2>2. /\ job = [cmd |-> job.cmd, step |-> job.step, new |-> job.new]
        /\ Keeps(job.new, original) /\ Whole(config) /\ Keeps(config, original)
    BY <2>1 DEF ConfigInv, ConfigKept, JobKept, Kept, Writes
  <2>3. job' = [cmd |-> job.cmd, step |-> "fill", new |-> job.new]
    BY <2>1, <2>2
  <2>4. job'.step = "fill" /\ job'.new = job.new
    BY <2>3
  <2>5. DOMAIN job.new = DOMAIN config
    BY <2>2 DEF Keeps, Recovered
  <2>6. Notes(config, found)
    BY <2>2 DEF FoundInv
  <2>7. ASSUME job.cmd # "wrap"
        PROVE  Notes(job.new, found')
    BY <2>1, <2>5, <2>7 DEF Notes, Noted, Nowhere
  <2>8. ASSUME job.cmd = "wrap"
        PROVE  Notes(job.new, found')
    <3>1. found' = Embedded(config, job.new)
      BY <2>1, <2>8
    <3>2. ASSUME NEW s \in DOMAIN config, NEW f \in found'[s]
          PROVE  /\ IsBroker(job.new[s]) /\ f[1] # ""
                 /\ ExtractArmorPath(Options(job.new[s].args)) = {f}
      <4>1. CASE ~IsBroker(job.new[s]) \/ job.new[s] = config[s]
        <5>1. found'[s] = found[s]
          BY <2>5, <3>1, <4>1 DEF Embedded
        <5>2. job.new[s] = config[s]
          BY <2>1, <2>8, <4>1 DEF FoundInv, Wraps
        <5> QED
          BY <2>6, <3>2, <5>1, <5>2 DEF Notes, Noted
      <4>2. CASE ~(~IsBroker(job.new[s]) \/ job.new[s] = config[s])
        <5>1. found'[s] = {g \in ExtractArmorPath(Options(job.new[s].args)) : g[1] # ""}
          BY <2>5, <3>1, <4>2 DEF Embedded, Options
        <5> QED
          BY <3>2, <4>2, <5>1, OneValue DEF ExtractArmorPath
      <4> QED
        BY <4>1, <4>2
    <3>3. DOMAIN found' = DOMAIN job.new
      BY <3>1 DEF Embedded
    <3> QED
      BY <2>5, <3>2, <3>3 DEF Notes, Noted
  <2>9. Notes(job.new, found')
    BY <2>7, <2>8
  <2>10. ~Whole(config')
    BY <2>1 DEF Whole
  <2> QED
    BY <2>4, <2>9, <2>10 DEF FoundInv, Wraps, Fills, Whole
<1>4. CASE Fill
  <2>1. Fills /\ config' = job.new /\ found' = found /\ job' = Idle
    BY <1>4 DEF Fill, Fills, Rewrites
  <2> QED
    BY <2>1 DEF FoundInv, Wraps, Fills, Rewrites, Idle
<1>5. CASE UnwrapStart
  <2>1. job'.cmd = "unwrap" /\ job'.step = "write" /\ UNCHANGED <<config, found>>
    BY <1>5 DEF UnwrapStart, Begins, userVars
  <2> QED
    BY <2>1 DEF FoundInv, Wraps, Fills
<1>6. CASE Restore
  <2>1. config' = backup /\ found' = Nowhere(backup) /\ job' = job /\ job = Idle
    BY <1>6 DEF Restore
  <2>2. Notes(config', found')
    BY <2>1 DEF Notes, Noted, Nowhere
  <2> QED
    BY <2>1, <2>2 DEF FoundInv, Wraps, Fills, Rewrites, Idle
<1>7. CASE AddServer
  <2>1. PICK s \in DOMAIN NewServers \ DOMAIN config :
          config' = With(config, s, NewServers[s]) /\ found' = With(found, s, {})
    BY <1>7 DEF AddServer
  <2>2. job = Idle /\ job' = job /\ Notes(config, found)
    BY <1>7 DEF AddServer, FoundInv
  <2>3. Notes(config', found')
    BY <2>1, <2>2 DEF Notes, Noted, With
  <2> QED
    BY <2>2, <2>3 DEF FoundInv, Wraps, Fills, Rewrites, Idle
<1>8. CASE EditFile
  BY <1>8, FoundUntouched DEF EditFile, userVars
<1>9. CASE InitStart \/ AddStart \/ UpdateStart \/ FetchArrives \/ UpdateFill
  <2>1. job'.cmd \in {"init", "add", "update"}
    BY <1>9 DEF InitStart, AddStart, UpdateStart, FetchArrives, UpdateFill, Begins, Fetch
  <2>2. UNCHANGED <<config, found>>
    BY <1>9 DEF InitStart, AddStart, UpdateStart, FetchArrives, UpdateFill, userVars
  <2> QED
    BY <2>1, <2>2, FoundUntouched
<1>10. CASE FileTruncate
  <2>1. job'.cmd = job.cmd
    BY <1>10 DEF FileTruncate, ConfigInv
  <2>2. job.cmd \in {"init", "add", "update"} /\ UNCHANGED <<config, found>>
    BY <1>10 DEF FileTruncate, userVars
  <2> QED
    BY <2>1, <2>2, FoundUntouched
<1>11. CASE InitFill \/ AddFill \/ FetchFails \/ UpdateDone \/ Crash
  <2>1. job' = Idle /\ UNCHANGED <<config, found>>
    BY <1>11 DEF InitFill, AddFill, FetchFails, UpdateDone, Crash, userVars
  <2> QED
    BY <2>1, FoundUntouched DEF Idle
<1>12. CASE UNCHANGED vars
  BY <1>12, FoundUntouched DEF vars, userVars
<1> QED
  BY <1>1, <1>2, <1>3, <1>4, <1>5, <1>6, <1>7, <1>8, <1>9, <1>10, <1>11, <1>12 DEF Next

LEMMA FoundInvariant == Spec => []FoundInv
<1>1. Init => FoundInv
  BY FoundInit
<1>2. ConfigInv /\ FoundInv /\ [Next]_vars => FoundInv'
  BY FoundStep
<1> QED
  BY <1>1, <1>2, ConfigInvariant, PTL DEF Spec

(* clap takes --armor once, and not as the last word.                      *)
LEMMA AcceptedArmor ==
  ASSUME NEW o, Len(o) \in Nat, ClapAccepts(o), NEW k \in 1..Len(o), o[k] = Word("--armor")
  PROVE  k < Len(o) /\ \A j \in 1..Len(o) : Leads(o[j], ArmorOption) => j = k
<1>1. k < Len(o)
  BY ArmorWord DEF ClapAccepts
<1>2. ArmorOption \in ValueOptions \cup Flags
  BY DEF ValueOptions
<1>3. \A i \in 1..Len(o) : \A j \in 1..i - 1 :
        ~(Leads(o[i], ArmorOption) /\ Leads(o[j], ArmorOption))
  BY <1>2 DEF ClapAccepts
<1>4. ASSUME NEW j \in 1..Len(o), Leads(o[j], ArmorOption)
      PROVE  j = k
  <2>1. Leads(o[k], ArmorOption)
    BY ArmorWord
  <2>2. ~(j \in 1..k - 1) /\ ~(k \in 1..j - 1)
    BY <1>3, <1>4, <2>1
  <2> QED
    BY <2>2
<1> QED
  BY <1>1, <1>4

(* Where every --armor is spelled so, its value is what stands behind it.  *)
LEMMA ValueIsAfter ==
  ASSUME NEW o \in Seq(Text), ClapAccepts(o),
         \A j \in 1..Len(o) : Leads(o[j], ArmorOption) => o[j] = Word("--armor")
  PROVE  ValueOf(o, ArmorOption) = After(o, Word("--armor"))
<1> DEFINE a == Word("--armor")
<1>1. Len(o) \in Nat
  OBVIOUS
<1>2. \A j \in 1..Len(o) : o[j][1] \notin ArmorOption
  <2> SUFFICES ASSUME NEW j \in 1..Len(o), o[j][1] \in ArmorOption
               PROVE  FALSE
    OBVIOUS
  <2>1. Lead(o[j]) = o[j][1]
    BY ArmorWord DEF Lead
  <2>2. o[j] = a
    BY <2>1 DEF Leads
  <2>3. a[1] = ""
    BY DEF Word
  <2> QED
    BY <2>2, <2>3, ArmorWord
<1>3. \A j \in 1..Len(o) : o[j][1] = "" /\ o[j][2] \in ArmorOption <=> o[j] = a
  <2> TAKE j \in 1..Len(o)
  <2>1. o[j][1] = "" /\ o[j][2] \in ArmorOption => o[j] = a
    BY DEF Leads, Lead
  <2>2. a[1] = "" /\ a[2] = "--armor" /\ "--armor" \in ArmorOption
    BY DEF Word, ArmorOption
  <2> QED
    BY <2>1, <2>2
<1> DEFINE K == {k \in 1..Len(o) - 1 : o[k] = a}
<1>4. ValueOf(o, ArmorOption) = {o[k + 1] : k \in K}
  <2> DEFINE A == {k \in 1..Len(o) : o[k][1] \in ArmorOption}
             B == {k \in 1..Len(o) - 1 : o[k][1] = "" /\ o[k][2] \in ArmorOption}
  <2>1. A = {}
    BY <1>2
  <2>2. B = K
    <3>1. \A k \in 1..Len(o) - 1 : k \in 1..Len(o)
      BY <1>1
    <3>2. \A k \in 1..Len(o) - 1 :
            o[k][1] = "" /\ o[k][2] \in ArmorOption <=> o[k] = a
      BY <1>3, <3>1
    <3> HIDE DEF a
    <3> QED
      BY Zenon, <3>2
  <2>3. ValueOf(o, ArmorOption) = {o[k][2] : k \in A} \cup {o[k + 1] : k \in B}
    BY Zenon DEF ValueOf
  <2> HIDE DEF A, B, K
  <2>4. {o[k][2] : k \in A} = {}
    BY <2>1
  <2> QED
    BY <2>2, <2>3, <2>4
<1>5. PICK p : p = First(o, a)
  OBVIOUS
<1>6. /\ p \in 0..Len(o)
      /\ p # 0 => o[p] = a
      /\ p = 0 => \A j \in 1..Len(o) : o[j] # a
  BY <1>5, PlaceIsFirst
<1>7. CASE p = 0
  <2>1. K = {} /\ After(o, a) = {}
    BY <1>1, <1>5, <1>6, <1>7 DEF After
  <2> QED
    BY <1>4, <2>1
<1>8. CASE p # 0
  <2>1. p \in 1..Len(o) /\ o[p] = a
    BY <1>1, <1>6, <1>8
  <2>2. p < Len(o) /\ \A j \in 1..Len(o) : Leads(o[j], ArmorOption) => j = p
    BY <1>1, <2>1, AcceptedArmor
  <2>3. \A j \in 1..Len(o) : o[j] = a => j = p
    BY <2>2, ArmorWord
  <2>4. p \in 1..Len(o) - 1
    BY <1>1, <2>1, <2>2
  <2>5. K = {p}
    BY <1>1, <2>1, <2>3, <2>4
  <2>6. After(o, a) = {o[p + 1]}
    BY <1>5, <2>4 DEF After
  <2> HIDE DEF K
  <2> QED
    BY <1>4, <2>5, <2>6
<1> QED
  BY <1>7, <1>8

(* The manifest among the options is the one clap sees and `status` shows. *)
LEMMA ArmorInOptions ==
  ASSUME NEW args \in Seq(Text), First(args, Separator) \in 1..Len(args) - 1,
         args[1] = Word("run"), NEW f, ExtractArmorPath(Options(args)) = {f}, f # Separator
  PROVE  /\ After(SubSeq(args, 2, First(args, Separator) - 1), Word("--armor")) = {f}
         /\ ExtractArmorPath(args) = {f}
<1> DEFINE a == Word("--armor")
<1>1. PICK i \in 1..Len(args) - 1 : i = First(args, Separator)
  OBVIOUS
<1>2. Len(args) \in Nat /\ i \in Nat /\ 1 <= i /\ i + 1 <= Len(args)
  OBVIOUS
<1>3. PICK o : o = SubSeq(args, 1, i)
  OBVIOUS
<1>4. o \in Seq(Text) /\ Len(o) = i /\ \A j \in 1..i : o[j] = args[j]
  BY <1>2, <1>3
<1>5. PICK k : k = First(o, a)
  OBVIOUS
<1>6. After(o, a) = {f} /\ After(o, a) = IF k \in 1..Len(o) - 1 THEN {o[k + 1]} ELSE {}
  BY <1>1, <1>3, <1>5 DEF Options, ExtractArmorPath, After
<1>7. k \in 1..i - 1 /\ f = o[k + 1]
  BY <1>4, <1>6
<1>8. o[k] = a /\ \A j \in 1..k - 1 : o[j] # a
  BY <1>4, <1>5, <1>7, PlaceIsFirst
<1>9. k \in Nat /\ 1 <= k /\ k + 1 <= i
  BY <1>2, <1>7
<1>10. args[k] = a /\ args[k + 1] = f /\ \A j \in 1..k - 1 : args[j] # a
  BY <1>4, <1>7, <1>8, <1>9
<1>11. k # 1
  BY <1>10, Words
<1>12. k + 1 # i
  <2>1. args[i] = Separator
    BY <1>1, <1>2, PlaceIsFirst
  <2> QED
    BY <1>10, <2>1
<1>13. PICK options : options = SubSeq(args, 2, i - 1)
  OBVIOUS
<1>14. /\ options \in Seq(Text) /\ Len(options) = i - 2
       /\ \A j \in 1..i - 2 : options[j] = args[j + 1]
  <2>1. i \in 1..Len(args) /\ i # 1
    BY <1>2, <1>9
  <2> QED
    BY <1>13, <2>1, OptionPart
<1>15. After(options, a) = {f}
  <2>1. k - 1 \in 1..i - 2 /\ (k - 1) + 1 = k /\ k \in 1..i - 2
    BY <1>2, <1>9, <1>11, <1>12
  <2>2. options[k - 1] = a /\ options[k] = f
    BY <1>10, <1>14, <2>1
  <2>3. \A j \in 1..(k - 1) - 1 : options[j] # a
    <3> TAKE j \in 1..(k - 1) - 1
    <3>1. j + 1 \in 1..k - 1 /\ j \in 1..i - 2
      BY <1>9, <2>1
    <3> QED
      BY <1>10, <1>14, <3>1
  <2>4. First(options, a) = k - 1
    BY <1>14, <2>1, <2>2, <2>3, PlaceIs
  <2>5. k - 1 \in 1..Len(options) - 1
    BY <1>2, <1>9, <1>11, <1>12, <1>14
  <2> QED
    BY <2>1, <2>2, <2>4, <2>5 DEF After
<1>16. After(args, a) = {f}
  <2>1. k \in 1..Len(args) /\ k \in 1..Len(args) - 1
    BY <1>2, <1>9
  <2>2. First(args, a) = k
    BY <1>10, <2>1, PlaceIs
  <2> QED
    BY <1>10, <2>1, <2>2 DEF After
<1> QED
  BY <1>1, <1>13, <1>15, <1>16 DEF ExtractArmorPath

LEMMA OptionsAreText ==
  ASSUME NEW args \in Seq(Text), First(args, Separator) \in 1..Len(args) - 1
  PROVE  SubSeq(args, 2, First(args, Separator) - 1) \in Seq(Text)
<1>1. PICK i \in 1..Len(args) : i = First(args, Separator)
  OBVIOUS
<1> QED
  BY <1>1, OptionPart

(* So is what stands there, if no argument of the tool's has that name.    *)
LEMMA ArmorShown ==
  ASSUME NEW e, IsEntry(e), IsBroker(e), First(e.args, Separator) \in 1..Len(e.args) - 1,
         ClapAccepts(SubSeq(e.args, 2, First(e.args, Separator) - 1)),
         ~Contains(UnwrapServer(e).args, Word("--armor"))
  PROVE  ExtractArmorPath(e.args)
           = After(SubSeq(e.args, 2, First(e.args, Separator) - 1), Word("--armor"))
<1> DEFINE a == Word("--armor")
<1>1. PICK args : args = e.args
  OBVIOUS
<1>2. args \in Seq(Text) /\ Len(args) \in Nat
  BY <1>1 DEF IsEntry
<1>3. PICK i \in 1..Len(args) - 1 : i = First(args, Separator)
  BY <1>1
<1>4. i \in Nat /\ 1 <= i /\ i + 1 <= Len(args)
  BY <1>2
<1>5. PICK tool : /\ ExtractOriginal(args) = {tool}
                  /\ tool.command = args[i + 1] /\ tool.args = Rest(args, i + 2)
  <2>1. ExtractOriginal(args) = {[command |-> args[i + 1], args |-> Rest(args, i + 2)]}
    BY <1>3 DEF ExtractOriginal
  <2>2. PICK t : t = [command |-> args[i + 1], args |-> Rest(args, i + 2)]
    OBVIOUS
  <2>3. t.command = args[i + 1] /\ t.args = Rest(args, i + 2)
    BY <2>2
  <2> QED
    BY <2>1, <2>2, <2>3
<1>6. Plain(args[i + 1]) /\ args[1] = Word("run")
  <2>1. Wrappable(e, [rewrap |-> TRUE]) = {tool}
    BY <1>1, <1>5 DEF Wrappable
  <2> QED
    BY <1>1, <1>3, <1>5, <2>1 DEF IsEntry
<1>7. args[i] = Separator /\ \A j \in 1..i - 1 : args[j] # Separator
  BY <1>2, <1>3, <1>4, PlaceIsFirst
<1>8. i # 1
  BY <1>6, <1>7, Words
<1>9. \A j \in i + 2..Len(args) : args[j] # a
  <2>1. UnwrapServer(e) = [command |-> {tool.command}, args |-> tool.args, url |-> e.url]
    BY <1>1, <1>5, UnwrapTool
  <2>2. ~Contains(Rest(args, i + 2), a)
    BY <1>5, <2>1
  <2>3. /\ Len(Rest(args, i + 2)) = Len(args) - (i + 1)
        /\ \A j \in 1..Len(args) - (i + 1) : Rest(args, i + 2)[j] = args[j + (i + 1)]
    BY <1>2, <1>4 DEF Rest
  <2> TAKE j \in i + 2..Len(args)
  <2>4. j - (i + 1) \in 1..Len(args) - (i + 1) /\ (j - (i + 1)) + (i + 1) = j
    BY <1>2, <1>4
  <2> QED
    BY <2>2, <2>3, <2>4 DEF Contains
<1>10. PICK options : options = SubSeq(args, 2, i - 1)
  OBVIOUS
<1>11. /\ options \in Seq(Text) /\ Len(options) = i - 2
       /\ \A j \in 1..i - 2 : options[j] = args[j + 1]
  <2>1. i \in 1..Len(args)
    BY <1>4
  <2> QED
    BY <1>2, <1>8, <1>10, <2>1, OptionPart
<1>12. PICK k : k = First(options, a)
  OBVIOUS
<1>13. /\ k \in 0..i - 2
       /\ k # 0 => options[k] = a /\ \A j \in 1..k - 1 : options[j] # a
       /\ k = 0 => \A j \in 1..i - 2 : options[j] # a
  BY <1>11, <1>12, PlaceIsFirst
<1>14. CASE k = 0
  <2>1. \A j \in 1..Len(args) : args[j] # a
    <3> TAKE j \in 1..Len(args)
    <3>1. CASE j = 1 \/ j = i \/ j = i + 1
      BY <1>6, <1>7, <3>1, Words DEF Plain
    <3>2. CASE j \in 2..i - 1
      <4>1. j - 1 \in 1..i - 2 /\ (j - 1) + 1 = j
        BY <1>4, <3>2
      <4> QED
        BY <1>11, <1>13, <1>14, <4>1
    <3>3. CASE j \in i + 2..Len(args)
      BY <1>9, <3>3
    <3>4. j = 1 \/ j = i \/ j = i + 1 \/ j \in 2..i - 1 \/ j \in i + 2..Len(args)
      BY <1>2, <1>4
    <3> QED
      BY <3>1, <3>2, <3>3, <3>4
  <2>2. First(args, a) = 0
    BY <1>2, <2>1, NoPlace
  <2>3. After(args, a) = {} /\ After(options, a) = {}
    BY <1>12, <1>14, <2>2 DEF After
  <2> QED
    BY <1>1, <1>3, <1>10, <2>3 DEF ExtractArmorPath
<1>15. CASE k # 0
  <2>1. k \in Nat /\ 1 <= k /\ k <= i - 2
    BY <1>4, <1>13, <1>15
  <2>2. options[k] = a /\ args[k + 1] = a
    BY <1>11, <1>13, <1>15, <2>1
  <2>3. k # i - 2
    <3>1. k \in 1..Len(options) /\ Len(options) \in Nat /\ ClapAccepts(options)
      BY <1>1, <1>3, <1>4, <1>10, <1>11, <2>1
    <3>2. k < Len(options)
      BY <2>2, <3>1, AcceptedArmor
    <3> QED
      BY <1>11, <3>2
  <2>4. k \in 1..Len(options) - 1 /\ k + 1 \in 1..i - 2
    BY <1>4, <1>11, <2>1, <2>3
  <2>5. After(options, a) = {args[(k + 1) + 1]}
    BY <1>11, <1>12, <2>4 DEF After
  <2>6. \A j \in 1..(k + 1) - 1 : args[j] # a
    <3> TAKE j \in 1..(k + 1) - 1
    <3>1. CASE j = 1
      BY <1>6, <3>1, Words
    <3>2. CASE j # 1
      <4>1. j - 1 \in 1..k - 1 /\ (j - 1) + 1 = j /\ j - 1 \in 1..i - 2
        BY <1>4, <2>1, <3>2
      <4> QED
        BY <1>11, <1>13, <1>15, <4>1
    <3> QED
      BY <3>1, <3>2
  <2>7. k + 1 \in 1..Len(args) /\ k + 1 \in 1..Len(args) - 1
    BY <1>2, <1>4, <2>1
  <2>8. First(args, a) = k + 1
    BY <1>2, <2>2, <2>6, <2>7, PlaceIs
  <2>9. After(args, a) = {args[(k + 1) + 1]}
    BY <2>7, <2>8 DEF After
  <2> QED
    BY <1>1, <1>3, <1>10, <2>5, <2>9 DEF ExtractArmorPath
<1> QED
  BY <1>14, <1>15

LEMMA NoSeparator ==
  ASSUME NEW f, f[1] # ""
  PROVE  f # Separator
<1>1. Separator[1] = ""
  BY DEF Separator, Word
<1> QED
  BY <1>1

(* What a host runs from an entry, whose manifest is noted, is given it.   *)
LEMMA NotedIsGiven ==
  ASSUME NEW e, IsEntry(e), NEW noted, Noted(e, noted), NEW f \in noted,
         NEW args \in ParseRunArgs(e.args)
  PROVE  args.armor = {f} /\ ExtractArmorPath(e.args) = {f}
<1>1. IsBroker(e) /\ ExtractArmorPath(Options(e.args)) = {f} /\ f # Separator
  BY NoSeparator DEF Noted
<1>2. PICK words : words = e.args
  OBVIOUS
<1>3. PICK o : o = SubSeq(words, 2, First(words, Separator) - 1)
  OBVIOUS
<1>4. /\ First(words, Separator) \in 1..Len(words) - 1 /\ words[1] = Word("run")
      /\ ClapAccepts(o) /\ args.armor = ValueOf(o, ArmorOption)
  BY <1>2, <1>3, ParsedArgs
<1>5. words \in Seq(Text)
  BY <1>2 DEF IsEntry
<1>6. After(o, Word("--armor")) = {f} /\ ExtractArmorPath(words) = {f}
  BY <1>1, <1>2, <1>3, <1>4, <1>5, ArmorInOptions
<1>7. o \in Seq(Text)
  BY <1>3, <1>4, <1>5, OptionsAreText
<1>8. \A j \in 1..Len(o) : Leads(o[j], ArmorOption) => o[j] = Word("--armor")
  <2>1. PICK k : k = First(o, Word("--armor"))
    OBVIOUS
  <2>2. k \in 1..Len(o) - 1
    BY <1>6, <2>1 DEF After
  <2>3. o[k] = Word("--armor") /\ k \in 1..Len(o) /\ Len(o) \in Nat
    BY <1>7, <2>1, <2>2, PlaceIsFirst
  <2> QED
    BY <1>4, <2>3, AcceptedArmor
<1> QED
  BY <1>2, <1>4, <1>6, <1>7, <1>8, ValueIsAfter

LEMMA GivenIsResolved ==
  ASSUME NEW fs, NEW f, f[1] # "", NEW cwd
  PROVE  ResolveManifest(fs, {f}, cwd) = Found(f, Content(fs, f))
<1>1. {InDir(h, cwd) : h \in {f}} = {f}
  BY DEF InDir
<1>2. (CHOOSE file \in {f} : TRUE) = f
  OBVIOUS
<1> QED
  BY <1>1, <1>2 DEF ResolveManifest

(* The manifest wrap found for a tool is the only one it ever runs under;  *)
(* if the tool does not start, `validate` has something to say of it.      *)
THEOREM WrapIsDecisive == Spec => []WrapDecides
<1>1. ASSUME ConfigInv, FoundInv
      PROVE  WrapDecides
  <2> SUFFICES ASSUME Whole(config), NEW s \in DOMAIN config, NEW platform \in Platforms,
                      NEW f \in found[s], NEW ran \in Launched(s, platform).ran
               PROVE  IF ran.ok THEN ran.from = {f}
                      ELSE ~Valid(Content(files, f)) \/ WarnsOfSpec(files[f])
    BY DEF WrapDecides
  <2>1. IsEntry(config[s]) /\ Noted(config[s], found[s])
    BY <1>1 DEF ConfigInv, ConfigKept, Kept, Keeps, FoundInv, Notes
  <2>2. IsBroker(config[s]) /\ f[1] # ""
    BY <2>1 DEF Noted
  <2>3. PICK args \in ParseRunArgs(config[s].args) : ran = Run(files, args, HostCwd, platform)
    BY <2>2 DEF Launched, Launch
  <2>4. args.armor = {f}
    BY <2>1, <2>3, NotedIsGiven
  <2>5. PICK c : c = Content(files, f)
    OBVIOUS
  <2>6. ResolveManifest(files, args.armor, HostCwd) = Found(f, c)
    BY <2>2, <2>4, <2>5, GivenIsResolved
  <2>7. CASE Loads(c) /\ CheckMinSpec(c)
    <3>1. Found(f, c) = [ok |-> TRUE, from |-> {f}, manifest |-> c]
      BY <2>7 DEF Found
    <3>2. Found(f, c).ok /\ Found(f, c).from = {f} /\ Found(f, c).manifest = c
      BY <3>1
    <3>3. ran.ok /\ ran.from = {f}
      BY <2>3, <2>6, <2>7, <3>2 DEF Run
    <3> QED
      BY <3>3
  <2>8. CASE Loads(c) /\ ~CheckMinSpec(c)
    <3>1. Found(f, c) = [ok |-> TRUE, from |-> {f}, manifest |-> c]
      BY <2>8 DEF Found
    <3>2. Found(f, c).ok /\ Found(f, c).manifest = c
      BY <3>1
    <3>3. ran = Refused
      BY <2>3, <2>6, <2>8, <3>2 DEF Run
    <3>4. c # Absent
      BY <2>8 DEF Loads, Absent
    <3>5. c = files[f]
      BY <2>5, <3>4 DEF Content
    <3> QED
      BY <2>8, <3>3, <3>5 DEF Refused, WarnsOfSpec
  <2>9. CASE ~Loads(c)
    <3>1. Found(f, c) = Refused
      BY <2>9 DEF Found
    <3>2. ran = Refused
      BY <2>3, <2>6, <3>1 DEF Run, Refused
    <3> QED
      BY <2>5, <2>9, <3>2 DEF Refused, Loads, Valid, PassesSchema
  <2> QED
    BY <2>7, <2>8, <2>9
<1> QED
  BY <1>1, ConfigInvariant, FoundInvariant, PTL

-----------------------------------------------------------------------------
(* What status tells                                                       *)

(* What a run is given, as the one command line there is.                  *)
LEMMA RunOfEntry ==
  ASSUME NEW e, IsEntry(e), IsBroker(e), NEW fs, NEW platform,
         NEW args \in ParseRunArgs(e.args)
  PROVE  /\ Launch(fs, e, HostCwd, platform).ran = {Run(fs, args, HostCwd, platform)}
         /\ args.command \in Seq(Text)
<1>1. PICK i : i = First(e.args, Separator)
  OBVIOUS
<1>2. /\ ParseRunArgs(e.args) = {args}
      /\ i \in 1..Len(e.args) - 1 /\ args.command = Rest(e.args, i + 1)
  BY <1>1, ParsedArgs
<1>3. Launch(fs, e, HostCwd, platform).ran = {Run(fs, args, HostCwd, platform)}
  BY <1>2 DEF Launch
<1>4. Rest(e.args, i + 1) \in Seq(Text)
  <2>1. e.args \in Seq(Text) /\ i + 1 \in 1..Len(e.args) + 1
    BY <1>2 DEF IsEntry
  <2> QED
    BY <2>1, RestIsText
<1> QED
  BY <1>2, <1>3, <1>4

(* What status shows of an entry is what the run is given, if --armor is   *)
(* spelled as wrap spells it and no argument of the tool's has that name.  *)
LEMMA GivenIsShown ==
  ASSUME NEW e, IsEntry(e), IsBroker(e), NEW args \in ParseRunArgs(e.args),
         AsWrapSpells(e.args), ~Contains(UnwrapServer(e).args, Word("--armor"))
  PROVE  ExtractArmorPath(e.args) = args.armor
<1>1. PICK words : words = e.args
  OBVIOUS
<1>2. PICK i : i = First(words, Separator)
  OBVIOUS
<1>3. PICK o : o = SubSeq(words, 2, i - 1)
  OBVIOUS
<1>4. /\ i \in 1..Len(words) - 1 /\ words[1] = Word("run")
      /\ ClapAccepts(o) /\ args.armor = ValueOf(o, ArmorOption)
  BY <1>1, <1>2, <1>3, ParsedArgs
<1>5. words \in Seq(Text)
  BY <1>1 DEF IsEntry
<1>6. ExtractArmorPath(words) = After(o, Word("--armor"))
  BY <1>1, <1>2, <1>3, <1>4, ArmorShown
<1>7. o \in Seq(Text)
  BY <1>2, <1>3, <1>4, <1>5, OptionsAreText
<1>8. \A j \in 1..Len(o) : Leads(o[j], ArmorOption) => o[j] = Word("--armor")
  <2>1. /\ Len(o) = IF i = 1 THEN 0 ELSE i - 2
        /\ \A j \in 1..i - 2 : o[j] = words[j + 1]
    <3>1. i \in 1..Len(words)
      BY <1>4, <1>5
    <3> QED
      BY <1>3, <1>5, <3>1, OptionPart
  <2>2. \A j \in 1..i - 1 : Leads(words[j], ArmorOption) => words[j] = Word("--armor")
    BY <1>1, <1>2 DEF AsWrapSpells
  <2>3. ASSUME NEW j \in 1..Len(o)
        PROVE  j \in 1..i - 2 /\ j + 1 \in 1..i - 1
    BY <1>4, <2>1
  <2> QED
    BY <2>1, <2>2, <2>3
<1> QED
  BY <1>1, <1>4, <1>6, <1>7, <1>8, ValueIsAfter

(* Where the second layer is said to be there, a tool that does not opt    *)
(* out is started under it.                                                *)
LEMMA SecondLayer ==
  ASSUME NEW manifest, NEW command \in Seq(Text), NEW platform, Layer2Available(platform),
         NEW noOsSandbox, ~noOsSandbox,
         NEW process, process = SpawnToolProcess(manifest, command, noOsSandbox, platform)
  PROVE  Hooked(process) /\ "system" \in process.banner
<1>1. PICK sandbox : sandbox = SelectSandbox(FALSE, platform)
  OBVIOUS
<1>2. SelectSandbox(noOsSandbox, platform) = sandbox
  BY <1>1 DEF SelectSandbox
<1>3. PICK summary : summary = EnforcementSummary(sandbox, platform)
  OBVIOUS
<1>4. summary # {}
  BY <1>1, <1>3 DEF Layer2Available
<1>5. /\ process.argv = Apply(sandbox, manifest, command)
      /\ process.landlock = ConfigurePreExec(noOsSandbox, platform)
      /\ process.banner = Layers(summary)
  BY <1>2, <1>3 DEF SpawnToolProcess
<1>6. "system" \in process.banner
  BY <1>4, <1>5 DEF Layers
<1>7. sandbox # "noop"
  BY <1>3, <1>4 DEF EnforcementSummary, NoopSummary
<1>8. CASE sandbox = "linux"
  <2>1. platform.os = "linux"
    BY <1>1, <1>8 DEF SelectSandbox
  <2> QED
    BY <1>5, <1>6, <2>1 DEF ConfigurePreExec, Hooked
<1>9. CASE sandbox = "macos"
  <2> DEFINE front == <<SandboxExec, <<"", "-p">>, Sbpl(manifest)>>
             T == Text \cup {SandboxExec, <<"", "-p">>, Sbpl(manifest)}
  <2>1. process.argv = front \o command
    BY <1>5, <1>9 DEF Apply
  <2>2. front \in Seq(T) /\ Len(front) = 3 /\ front[1] = SandboxExec
    OBVIOUS
  <2>3. command \in Seq(T)
    <3>1. Text \subseteq T
      OBVIOUS
    <3> HIDE DEF T
    <3> QED
      BY <3>1
  <2> HIDE DEF front, T
  <2>4. (front \o command)[1] = SandboxExec
    <3>1. \A i \in 1..Len(front) + Len(command) :
            (front \o command)[i] = IF i <= Len(front) THEN front[i]
                                    ELSE command[i - Len(front)]
      BY <2>2, <2>3, ConcatProperties
    <3>2. 1 \in 1..3 + Len(command) /\ Len(command) \in Nat
      BY <2>3
    <3> QED
      BY <2>2, <3>1, <3>2
  <2> QED
    BY <1>6, <2>1, <2>4 DEF Hooked
<1> QED
  BY <1>1, <1>7, <1>8, <1>9 DEF SelectSandbox

(* A tool runs under the manifest that was found, with a profile asked for. *)
LEMMA RunsEffective ==
  ASSUME NEW fs, NEW args, NEW cwd, NEW platform,
         NEW ran, ran = Run(fs, args, cwd, platform), ran.ok,
         NEW found1, found1 = ResolveManifest(fs, args.armor, cwd)
  PROVE  found1.ok /\ ran.manifest = Effective(found1.manifest, args.profile)
  BY RunStarts

Absolute(f) == f[1] # ""

(* The profile that status shows of a manifest that wrap has noted is the  *)
(* one a tool without a --profile runs in.                                 *)
LEMMA ProfileShown ==
  ASSUME FilesInv, NEW f, Absolute(f), NEW found1, found1 = ResolveManifest(files, {f}, HostCwd),
         found1.ok, NEW asked, asked \cap Profiles = {},
         NEW ran, ran.manifest = Effective(found1.manifest, asked)
  PROVE  ExtractProfile(files, {f}, Cwd) = {ran.manifest.profile}
<1>1. PICK c : c = Content(files, f)
  OBVIOUS
<1>2. found1 = Found(f, c)
  BY <1>1, GivenIsResolved DEF Absolute
<1>3. Loads(c) /\ found1.manifest = c
  BY <1>2 DEF Found, Refused
<1>4. IsManifest(c)
  BY <1>3, ResolvedManifest
<1>5. PICK e : e = Effective(c, asked)
  OBVIOUS
<1>6. IsEffective(e, c, asked)
  BY <1>4, <1>5, EffectiveProfile
<1>7. ran.manifest.profile = c.profile
  BY <1>3, <1>5, <1>6 DEF IsEffective
<1>8. ExtractProfile(files, {f}, Cwd) = {c.profile}
  <2>1. InDir(f, Cwd) = f
    BY DEF InDir, Absolute
  <2> QED
    BY <1>1, <1>3, <2>1 DEF ExtractProfile
<1> QED
  BY <1>7, <1>8

(* `status` calls armored exactly what starts through the broker, and what *)
(* it says of manifest, profile and second layer is so.                    *)
THEOREM StatusIsHonest == Spec => []StatusHonest
<1>1. ASSUME ConfigInv, FoundInv, FilesInv
      PROVE  StatusHonest
  <2> SUFFICES ASSUME Whole(config), NEW s \in DOMAIN config, NEW platform \in Platforms
               PROVE  LET row == StatusRow(files, config[s], Cwd)
                          launch == Launched(s, platform)
                          Given(args) ==
                            /\ row.armor = args.armor
                            /\ args.profile = {} /\ found[s] # {} =>
                                 \A ran \in launch.ran : ran.ok =>
                                   row.profile = {ran.manifest.profile}
                      IN  /\ row.armored <=> launch.by = "broker" /\ ~config[s].url
                          /\ row.armored => \A args \in ParseRunArgs(config[s].args) :
                               /\ \/ found[s] # {}
                                  \/ /\ AsWrapSpells(config[s].args)
                                     /\ ~Contains(original[s].args, Word("--armor"))
                                  => Given(args)
                               /\ Layer2Available(platform) /\ ~args.noOsSandbox =>
                                    \A ran \in launch.ran : ran.ok =>
                                      Hooked(ran.process) /\ "system" \in ran.process.banner
    BY DEF StatusHonest
  <2>1. /\ IsEntry(config[s]) /\ Noted(config[s], found[s])
        /\ original[s] = UnwrapServer(config[s])
    BY <1>1 DEF ConfigInv, ConfigKept, Kept, Keeps, Recovered, FoundInv, Notes
  <2>2. PICK e : e = config[s]
    OBVIOUS
  <2>3. PICK row : row = StatusRow(files, e, Cwd)
    OBVIOUS
  <2>4. PICK launch : launch = Launched(s, platform)
    OBVIOUS
  <2>5. e.url \in BOOLEAN
    BY <2>1, <2>2 DEF IsEntry
  <2>6. row.armored <=> launch.by = "broker" /\ ~e.url
    <3>1. launch.by = "broker" <=> IsBroker(e)
      BY <2>2, <2>4 DEF Launched, Launch
    <3>2. row.armored <=> IsBroker(e) /\ ~e.url
      BY <2>3, <2>5 DEF StatusRow, ToolStatus
    <3> QED
      BY <3>1, <3>2
  <2>7. ASSUME row.armored, NEW args \in ParseRunArgs(e.args)
        PROVE  /\ \/ found[s] # {}
                  \/ AsWrapSpells(e.args) /\ ~Contains(original[s].args, Word("--armor"))
                  =>
                    /\ row.armor = args.armor
                    /\ args.profile = {} /\ found[s] # {} =>
                         \A ran \in launch.ran : ran.ok => row.profile = {ran.manifest.profile}
               /\ Layer2Available(platform) /\ ~args.noOsSandbox =>
                    \A ran \in launch.ran : ran.ok =>
                      Hooked(ran.process) /\ "system" \in ran.process.banner
    <3>1. /\ IsBroker(e) /\ row.armor = ExtractArmorPath(e.args)
          /\ row.profile = ExtractProfile(files, ExtractArmorPath(e.args), Cwd)
      BY <2>3, <2>7 DEF StatusRow, ToolStatus
    <3>2. /\ launch.ran = {Run(files, args, HostCwd, platform)}
          /\ args.command \in Seq(Text)
      BY <2>1, <2>2, <2>4, <2>7, <3>1, RunOfEntry DEF Launched
    <3>3. ASSUME NEW f \in found[s]
          PROVE  /\ row.armor = args.armor /\ args.armor = {f} /\ f[1] # ""
                 /\ row.profile = ExtractProfile(files, {f}, Cwd)
      <4>1. args.armor = {f} /\ ExtractArmorPath(e.args) = {f}
        BY <2>1, <2>2, <2>7, <3>3, NotedIsGiven
      <4>2. f[1] # ""
        BY <2>1, <3>3 DEF Noted
      <4> QED
        BY <3>1, <4>1, <4>2
    <3>4. ASSUME AsWrapSpells(e.args), ~Contains(original[s].args, Word("--armor"))
          PROVE  row.armor = args.armor
      <4>1. ~Contains(UnwrapServer(e).args, Word("--armor"))
        BY <2>1, <2>2, <3>4
      <4> QED
        BY <2>1, <2>2, <2>7, <3>1, <3>4, <4>1, GivenIsShown
    <3>5. ASSUME args.profile = {}, found[s] # {}, NEW ran \in launch.ran, ran.ok
          PROVE  row.profile = {ran.manifest.profile}
      <4>1. PICK f \in found[s] : TRUE
        BY <3>5
      <4>2. args.armor = {f} /\ f[1] # "" /\ row.profile = ExtractProfile(files, {f}, Cwd)
        BY <3>3
      <4>3. ran = Run(files, args, HostCwd, platform) /\ ran.ok
        BY <3>2, <3>5
      <4>4. Absolute(f)
        BY <4>2 DEF Absolute
      <4>5. PICK found1 : found1 = ResolveManifest(files, args.armor, HostCwd)
        OBVIOUS
      <4>6. found1.ok /\ ran.manifest = Effective(found1.manifest, args.profile)
        BY <4>3, <4>5, RunsEffective
      <4>7. found1 = ResolveManifest(files, {f}, HostCwd)
        BY <4>2, <4>5
      <4>8. PICK asked : asked = args.profile
        OBVIOUS
      <4>9. asked \cap Profiles = {} /\ ran.manifest = Effective(found1.manifest, asked)
        BY <3>5, <4>6, <4>8
      <4>10. ExtractProfile(files, {f}, Cwd) = {ran.manifest.profile}
        BY <1>1, <4>4, <4>6, <4>7, <4>9, ProfileShown
      <4> QED
        BY <4>2, <4>10
    <3>6. ASSUME Layer2Available(platform), ~args.noOsSandbox, NEW ran \in launch.ran, ran.ok
          PROVE  Hooked(ran.process) /\ "system" \in ran.process.banner
      <4>1. ran = Run(files, args, HostCwd, platform)
        BY <3>2, <3>6
      <4>2. ran.process
              = SpawnToolProcess(ran.manifest, args.command, args.noOsSandbox, platform)
        BY <3>6, <4>1, RunStarts
      <4> QED
        BY <3>2, <3>6, <4>2, SecondLayer
    <3> QED
      BY <3>3, <3>4, <3>5, <3>6
  <2> QED
    BY <2>2, <2>3, <2>4, <2>6, <2>7
<1> QED
  BY <1>1, ConfigInvariant, FoundInvariant, FilesInvariant, PTL

-----------------------------------------------------------------------------
(* The community profiles                                                  *)

(* The profile i of the index, and what may be in its file.                *)
Profile(i) == CommunityProfile(Index[i].name)
Right(i, content) ==
  IF Index[i].sha THEN content = Published[Index[i].name] ELSE content.kind = "json"
Installed(i) == Right(i, Content(files, Profile(i)))

(* What a download that went wrong has left is in no file but that of a    *)
(* profile without a checksum.                                             *)
WithoutSum(f) == \E i \in DOMAIN Index : ~Index[i].sha /\ f = Profile(i)
GarbledKnown == \A f \in DOMAIN files : files[f] \in Garbled => WithoutSum(f)

(* An update has installed what it is past, and writes what it may.        *)
UpdateKnown ==
  job.cmd = "update" =>
    /\ \A i \in DOMAIN Index : i < job.i => Installed(i)
    /\ job.step # "fetch" =>
         job.i \in DOMAIN Index /\ job.dest = Profile(job.i) /\ Right(job.i, job.new)
InitKnown == job.cmd = "init" => job.dest = Target /\ job.new \in Templates
AddKnown ==
  job.cmd = "add" =>
    /\ job = [cmd |-> "add", step |-> job.step, dest |-> job.dest]
    /\ job.dest = CommunityProfile(Draft[2])
    /\ job.step = "fill" => ~updated
UpdatedKnown == updated => \A i \in DOMAIN Index : Installed(i)

UpdateInv == GarbledKnown /\ UpdateKnown /\ InitKnown /\ AddKnown /\ UpdatedKnown

LEMMA ContentWith ==
  ASSUME NEW fs, NEW x, NEW v, NEW y
  PROVE  Content(With(fs, x, v), y) = IF y = x THEN v ELSE Content(fs, y)
  BY DEF Content, With

LEMMA NoProfile ==
  ASSUME NEW f, f[1] # Community, NEW name
  PROVE  f # CommunityProfile(name)
<1>1. CommunityProfile(name)[1] = Community
  BY DEF CommunityProfile
<1> QED
  BY <1>1

LEMMA ProfilesDiffer ==
  ASSUME NEW i \in DOMAIN Index, NEW j \in DOMAIN Index, Profile(i) = Profile(j)
  PROVE  i = j
<1>1. Index[i].name = Index[j].name
  BY DEF Profile, CommunityProfile
<1> QED
  BY <1>1, UpdateAssumption

LEMMA InstalledKept ==
  ASSUME NEW x, NEW v, files' = With(files, x, v),
         NEW i, Installed(i), Profile(i) = x => Right(i, v)
  PROVE  Installed(i)'
<1>1. Content(files', Profile(i)) = IF Profile(i) = x THEN v ELSE Content(files, Profile(i))
  BY ContentWith
<1> QED
  BY <1>1 DEF Installed

LEMMA GarbledKept ==
  ASSUME GarbledKnown, NEW x, NEW v, files' = With(files, x, v),
         v \in Garbled => WithoutSum(x)
  PROVE  GarbledKnown'
  BY DEF GarbledKnown, With

LEMMA UpdateInit ==
  ASSUME Init
  PROVE  UpdateInv
<1>1. files \in [DOMAIN UserFiles -> {Absent}] /\ job = Idle /\ ~updated
  BY DEF Init
<1>2. job.cmd = "idle"
  BY <1>1 DEF Idle
<1>3. GarbledKnown
  BY <1>1, UpdateAssumption DEF GarbledKnown
<1> QED
  BY <1>1, <1>2, <1>3 DEF UpdateInv, UpdateKnown, InitKnown, AddKnown, UpdatedKnown

(* A step that leaves the files alone, and begins or ends no update.       *)
LEMMA UpdateUntouched ==
  ASSUME UpdateInv, files' = files, updated' = updated,
         job' = job \/ job'.cmd \in {"idle", "wrap", "unwrap"}
  PROVE  UpdateInv'
<1>1. GarbledKnown' /\ UpdatedKnown'
  BY DEF UpdateInv, GarbledKnown, UpdatedKnown, Installed
<1>2. UpdateKnown' /\ InitKnown' /\ AddKnown'
  <2>1. CASE job' = job
    BY <2>1 DEF UpdateInv, UpdateKnown, Installed, InitKnown, AddKnown
  <2>2. CASE job'.cmd \in {"idle", "wrap", "unwrap"}
    BY <2>2 DEF UpdateKnown, InitKnown, AddKnown
  <2> QED
    BY <2>1, <2>2
<1> QED
  BY <1>1, <1>2 DEF UpdateInv

LEMMA EditKeepsProfiles ==
  ASSUME UpdateInv, EditFile
  PROVE  UpdateInv'
<1>1. PICK f \in DOMAIN UserFiles : \E c \in UserFiles[f] :
        files' = With(files, f, c) /\ updated' = (updated /\ f[1] # Community)
  BY DEF EditFile, Put
<1>2. PICK c \in UserFiles[f] :
        files' = With(files, f, c) /\ updated' = (updated /\ f[1] # Community)
  BY <1>1
<1>3. \A name : f # CommunityProfile(name)
  BY NoProfile, UpdateAssumption
<1>4. c \notin Garbled
  BY UpdateAssumption
<1>5. \A i : Installed(i) => Installed(i)'
  BY <1>2, <1>3, InstalledKept DEF Profile
<1>6. GarbledKnown'
  BY <1>2, <1>4, GarbledKept DEF UpdateInv
<1>7. job' = job /\ (updated' => updated)
  BY <1>2 DEF EditFile
<1>8. UpdateKnown' /\ InitKnown' /\ AddKnown' /\ UpdatedKnown'
  BY <1>5, <1>7 DEF UpdateInv, UpdateKnown, InitKnown, AddKnown, UpdatedKnown
<1> QED
  BY <1>6, <1>8 DEF UpdateInv

LEMMA StartKeepsProfiles ==
  ASSUME UpdateInv, InitStart \/ AddStart \/ UpdateStart
  PROVE  UpdateInv'
<1>1. files' = files /\ updated' = updated
  BY DEF InitStart, AddStart, UpdateStart
<1>2. GarbledKnown' /\ UpdatedKnown'
  BY <1>1 DEF UpdateInv, GarbledKnown, UpdatedKnown, Installed
<1>3. CASE InitStart
  <2>1. PICK new \in Templates :
          job' = [cmd |-> "init", step |-> "truncate", dest |-> Target, new |-> new]
    BY <1>3 DEF InitStart, Begins
  <2>2. job'.cmd = "init" /\ job'.dest = Target /\ job'.new = new
    BY <2>1
  <2> QED
    BY <1>2, <2>2 DEF UpdateInv, UpdateKnown, InitKnown, AddKnown
<1>4. CASE AddStart
  <2>1. job' = [cmd |-> "add", step |-> "truncate", dest |-> CommunityProfile(Draft[2])]
    BY <1>4 DEF AddStart, Begins
  <2>2. /\ job'.cmd = "add" /\ job'.step = "truncate"
        /\ job'.dest = CommunityProfile(Draft[2])
    BY <2>1
  <2>3. job' = [cmd |-> "add", step |-> job'.step, dest |-> job'.dest]
    BY <2>1
  <2> QED
    BY <1>2, <2>2, <2>3 DEF UpdateInv, UpdateKnown, InitKnown, AddKnown
<1>5. CASE UpdateStart
  <2>1. job'.cmd = "update" /\ job'.step = "fetch" /\ job'.i = 1
    BY <1>5 DEF UpdateStart, Begins, Fetch
  <2>2. \A i \in DOMAIN Index : ~(i < 1)
    BY UpdateAssumption
  <2> QED
    BY <1>2, <2>1, <2>2 DEF UpdateInv, UpdateKnown, InitKnown, AddKnown
<1> QED
  BY <1>3, <1>4, <1>5

LEMMA TruncateKeepsProfiles ==
  ASSUME FilesInv, UpdateInv, FileTruncate
  PROVE  UpdateInv'
<1>1. /\ files' = With(files, job.dest, Torn)
      /\ job' = [job EXCEPT !.step = "fill"]
      /\ updated' = (updated /\ job.cmd = "init")
      /\ job.step = "truncate" /\ job.cmd \in {"init", "add", "update"}
  BY DEF FileTruncate, Put
<1>2. job'.cmd = job.cmd
  BY <1>1 DEF FilesInv
<1>3. GarbledKnown'
  BY <1>1, GarbledKept, UpdateAssumption DEF UpdateInv
<1>4. CASE job.cmd = "init"
  <2>1. job = [cmd |-> "init", step |-> job.step, dest |-> job.dest, new |-> job.new]
    BY <1>4 DEF FilesInv, JobNew
  <2>2. job' = [cmd |-> "init", step |-> "fill", dest |-> job.dest, new |-> job.new]
    BY <1>1, <2>1
  <2>3. job'.dest = job.dest /\ job'.new = job.new
    BY <2>2
  <2>4. job.dest = Target /\ job.new \in Templates
    BY <1>4 DEF UpdateInv, InitKnown
  <2>5. \A name : job.dest # CommunityProfile(name)
    BY <2>4, NoProfile, UpdateAssumption
  <2>6. \A i : Installed(i) => Installed(i)'
    BY <1>1, <2>5, InstalledKept DEF Profile
  <2>7. UpdatedKnown'
    BY <1>1, <2>6 DEF UpdateInv, UpdatedKnown
  <2> QED
    BY <1>2, <1>3, <1>4, <2>3, <2>4, <2>7 DEF UpdateInv, UpdateKnown, InitKnown, AddKnown
<1>5. CASE job.cmd = "add"
  <2>1. /\ job = [cmd |-> "add", step |-> job.step, dest |-> job.dest]
        /\ job.dest = CommunityProfile(Draft[2])
    BY <1>5 DEF UpdateInv, AddKnown
  <2>2. job' = [cmd |-> "add", step |-> "fill", dest |-> job.dest]
    BY <1>1, <2>1
  <2>3. job'.dest = job.dest /\ job'.step = "fill"
    BY <2>2
  <2>4. ~updated'
    BY <1>1, <1>5
  <2>5. AddKnown'
    BY <2>1, <2>2, <2>3, <2>4 DEF AddKnown
  <2> QED
    BY <1>2, <1>3, <1>5, <2>4, <2>5 DEF UpdateInv, UpdateKnown, InitKnown, UpdatedKnown
<1>6. CASE job.cmd = "update"
  <2>1. job = [cmd |-> "update", step |-> job.step, i |-> job.i, new |-> job.new,
               dest |-> job.dest]
    BY <1>1, <1>6 DEF FilesInv, JobNew
  <2>2. job' = [cmd |-> "update", step |-> "fill", i |-> job.i, new |-> job.new,
                dest |-> job.dest]
    BY <1>1, <2>1
  <2>3. job'.dest = job.dest /\ job'.new = job.new /\ job'.i = job.i
    BY <2>2
  <2>4. /\ job.i \in DOMAIN Index /\ job.dest = Profile(job.i) /\ Right(job.i, job.new)
        /\ \A i \in DOMAIN Index : i < job.i => Installed(i)
    BY <1>1, <1>6 DEF UpdateInv, UpdateKnown
  <2>5. ASSUME NEW i \in DOMAIN Index, i < job.i
        PROVE  Installed(i)'
    <3>1. i # job.i
      <4>1. DOMAIN Index \subseteq Nat
        BY UpdateAssumption
      <4> QED
        BY <2>4, <2>5, <4>1
    <3>2. Profile(i) # job.dest
      BY <2>4, <3>1, ProfilesDiffer
    <3> QED
      BY <1>1, <2>4, <2>5, <3>2, InstalledKept
  <2>6. ~updated'
    BY <1>1, <1>6
  <2>7. UpdateKnown'
    BY <1>2, <2>3, <2>4, <2>5 DEF UpdateKnown, Profile, Right
  <2> QED
    BY <1>2, <1>3, <1>6, <2>6, <2>7 DEF UpdateInv, InitKnown, AddKnown, UpdatedKnown
<1> QED
  BY <1>1, <1>4, <1>5, <1>6

LEMMA InitFillKeepsProfiles ==
  ASSUME UpdateInv, InitFill
  PROVE  UpdateInv'
<1>1. /\ files' = With(files, job.dest, job.new) /\ job' = Idle /\ updated' = updated
      /\ job.cmd = "init"
  BY DEF InitFill, Put, Step
<1>2. job.dest = Target /\ job.new \in Templates
  BY <1>1 DEF UpdateInv, InitKnown
<1>3. \A name : job.dest # CommunityProfile(name)
  BY <1>2, NoProfile, UpdateAssumption
<1>4. \A i : Installed(i) => Installed(i)'
  BY <1>1, <1>3, InstalledKept DEF Profile
<1>5. job.new \notin Garbled
  BY <1>2, UpdateAssumption
<1>6. GarbledKnown'
  BY <1>1, <1>5, GarbledKept DEF UpdateInv
<1>7. job'.cmd = "idle"
  BY <1>1 DEF Idle
<1> QED
  BY <1>1, <1>4, <1>6, <1>7
  DEF UpdateInv, UpdateKnown, InitKnown, AddKnown, UpdatedKnown

(* A profile without a checksum may be added as the draft of itself.       *)
LEMMA AddFillKeepsProfiles ==
  ASSUME UpdateInv, AddFill
  PROVE  UpdateInv'
<1>1. PICK c : c = IF Exists(files, Draft) THEN files[Draft] ELSE Torn
  OBVIOUS
<1>2. /\ files' = With(files, job.dest, c) /\ job' = Idle /\ updated' = updated
      /\ job.cmd = "add" /\ job.step = "fill"
  BY <1>1 DEF AddFill, Put, Step
<1>3. job.dest = CommunityProfile(Draft[2]) /\ ~updated
  BY <1>2 DEF UpdateInv, AddKnown
<1>4. ASSUME c \in Garbled
      PROVE  WithoutSum(job.dest)
  <2>1. Exists(files, Draft) /\ c = files[Draft]
    BY <1>1, <1>4, UpdateAssumption
  <2>2. Draft \in DOMAIN files
    BY <2>1 DEF Exists, Content, Absent
  <2>3. WithoutSum(Draft)
    BY <1>4, <2>1, <2>2 DEF UpdateInv, GarbledKnown
  <2>4. PICK i \in DOMAIN Index : ~Index[i].sha /\ Draft = Profile(i)
    BY <2>3 DEF WithoutSum
  <2>5. CommunityProfile(Draft[2]) = Draft
    BY <2>4 DEF Profile, CommunityProfile
  <2> QED
    BY <1>3, <2>3, <2>5
<1>5. GarbledKnown'
  BY <1>2, <1>4, GarbledKept DEF UpdateInv
<1>6. job'.cmd = "idle"
  BY <1>2 DEF Idle
<1> QED
  BY <1>2, <1>3, <1>5, <1>6
  DEF UpdateInv, UpdateKnown, InitKnown, AddKnown, UpdatedKnown

LEMMA FetchKeepsProfiles ==
  ASSUME FilesInv, UpdateInv, FetchArrives
  PROVE  UpdateInv'
<1>1. /\ job.cmd = "update" /\ job.step = "fetch" /\ job.i <= Len(Index)
      /\ files' = files /\ updated' = updated
  BY DEF FetchArrives, Step
<1>2. job.i \in DOMAIN Index
  <2>1. job.i \in Nat \ {0}
    BY <1>1 DEF FilesInv, JobNew
  <2>2. Len(Index) \in Nat /\ DOMAIN Index = 1..Len(Index)
    BY UpdateAssumption
  <2> QED
    BY <1>1, <2>1, <2>2
<1>3. PICK c \in {Published[Index[job.i].name]} \cup Garbled :
        /\ ~Index[job.i].sha \/ c = Published[Index[job.i].name]
        /\ job' = [cmd |-> "update", step |-> "truncate", i |-> job.i, new |-> c,
                   dest |-> CommunityProfile(Index[job.i].name)]
  BY DEF FetchArrives
<1>4. /\ job'.cmd = "update" /\ job'.step = "truncate" /\ job'.i = job.i /\ job'.new = c
      /\ job'.dest = Profile(job.i)
  BY <1>3 DEF Profile
<1>5. Right(job.i, c)
  <2>1. c = Published[Index[job.i].name] \/ c \in Garbled
    BY <1>3
  <2>2. Index[job.i].name \in DOMAIN Published
    BY <1>2, DeploymentAssumption
  <2>3. IsContent(c) /\ c \notin {Torn, Absent}
    BY <2>1, <2>2, ContentsAssumption, UpdateAssumption
  <2>4. c.kind = "json"
    BY <2>3 DEF IsContent
  <2> QED
    BY <1>3, <2>4 DEF Right
<1>6. \A i \in DOMAIN Index : i < job.i => Installed(i)'
  BY <1>1 DEF UpdateInv, UpdateKnown, Installed
<1>7. GarbledKnown' /\ UpdatedKnown'
  BY <1>1 DEF UpdateInv, GarbledKnown, UpdatedKnown, Installed
<1>8. UpdateKnown'
  BY <1>2, <1>4, <1>5, <1>6 DEF UpdateKnown, Profile, Right
<1> QED
  BY <1>4, <1>7, <1>8 DEF UpdateInv, InitKnown, AddKnown

LEMMA UpdateFillKeepsProfiles ==
  ASSUME FilesInv, UpdateInv, UpdateFill
  PROVE  UpdateInv'
<1>1. /\ files' = With(files, job.dest, job.new) /\ job' = Fetch(job.i + 1)
      /\ updated' = updated /\ job.cmd = "update" /\ job.step = "fill"
  BY DEF UpdateFill, Put, Step
<1>2. /\ job.i \in DOMAIN Index /\ job.dest = Profile(job.i) /\ Right(job.i, job.new)
      /\ \A i \in DOMAIN Index : i < job.i => Installed(i)
  BY <1>1 DEF UpdateInv, UpdateKnown
<1>3. ASSUME NEW i \in DOMAIN Index, Installed(i)
      PROVE  Installed(i)'
  <2>1. Profile(i) = job.dest => Right(i, job.new)
    BY <1>2, ProfilesDiffer
  <2> QED
    BY <1>1, <1>3, <2>1, InstalledKept
<1>4. ASSUME NEW i, i = job.i
      PROVE  Installed(i)'
  <2>1. Content(files', Profile(i)) = job.new /\ Right(i, job.new)
    BY <1>1, <1>2, <1>4, ContentWith
  <2> QED
    BY <2>1 DEF Installed
<1>5. job.new \in Garbled => WithoutSum(job.dest)
  <2>1. ASSUME Index[job.i].sha
        PROVE  job.new \notin Garbled
    <3>1. job.new = Published[Index[job.i].name]
      BY <1>2, <2>1 DEF Right
    <3>2. Index[job.i].name \in DOMAIN Published
      BY <1>2, DeploymentAssumption
    <3> QED
      BY <3>1, <3>2, UpdateAssumption
  <2> QED
    BY <1>2, <2>1 DEF WithoutSum
<1>6. GarbledKnown'
  BY <1>1, <1>5, GarbledKept DEF UpdateInv
<1>7. job'.cmd = "update" /\ job'.step = "fetch" /\ job'.i = job.i + 1
  BY <1>1 DEF Fetch
<1>8. ASSUME NEW i \in DOMAIN Index, i < job.i + 1
      PROVE  Installed(i)'
  <2>1. i < job.i \/ i = job.i
    <3>1. DOMAIN Index \subseteq Nat
      BY UpdateAssumption
    <3> QED
      BY <1>2, <1>8, <3>1
  <2> QED
    BY <1>2, <1>3, <1>4, <2>1
<1>9. UpdateKnown'
  BY <1>7, <1>8 DEF UpdateKnown
<1>10. UpdatedKnown'
  BY <1>1, <1>3 DEF UpdateInv, UpdatedKnown
<1> QED
  BY <1>6, <1>7, <1>9, <1>10 DEF UpdateInv, InitKnown, AddKnown

LEMMA DoneKeepsProfiles ==
  ASSUME UpdateInv, UpdateDone
  PROVE  UpdateInv'
<1>1. /\ files' = files /\ job' = Idle /\ job.cmd = "update" /\ job.i = Len(Index) + 1
  BY DEF UpdateDone, Step
<1>2. \A i \in DOMAIN Index : i < job.i
  <2>1. Len(Index) \in Nat /\ DOMAIN Index = 1..Len(Index)
    BY UpdateAssumption
  <2> QED
    BY <1>1, <2>1
<1>3. \A i \in DOMAIN Index : Installed(i)
  BY <1>1, <1>2 DEF UpdateInv, UpdateKnown
<1>4. job'.cmd = "idle"
  BY <1>1 DEF Idle
<1>5. GarbledKnown' /\ UpdatedKnown'
  BY <1>1, <1>3 DEF UpdateInv, GarbledKnown, UpdatedKnown, Installed
<1> QED
  BY <1>4, <1>5 DEF UpdateInv, UpdateKnown, InitKnown, AddKnown

LEMMA UpdateStep ==
  ASSUME FilesInv, UpdateInv, [Next]_vars
  PROVE  UpdateInv'
<1>1. CASE \/ WrapStart \/ BackupTruncate \/ BackupCopy \/ UnwrapStart \/ Truncate
           \/ Fill \/ FetchFails \/ Crash
  <2>1. files' = files /\ updated' = updated
    BY <1>1 DEF WrapStart, BackupTruncate, BackupCopy, UnwrapStart, Truncate, Fill,
                FetchFails, Crash
  <2>2. job'.cmd \in {"idle", "wrap", "unwrap"}
    <3>1. CASE WrapStart \/ BackupTruncate \/ BackupCopy \/ UnwrapStart \/ Truncate
      BY <3>1 DEF WrapStart, BackupTruncate, BackupCopy, UnwrapStart, Truncate, Begins,
                  Step, FilesInv
    <3>2. CASE Fill \/ FetchFails \/ Crash
      <4>1. job' = Idle
        BY <3>2 DEF Fill, FetchFails, Crash
      <4> QED
        BY <4>1 DEF Idle
    <3> QED
      BY <1>1, <3>1, <3>2
  <2> QED
    BY <2>1, <2>2, UpdateUntouched
<1>2. CASE Restore \/ AddServer \/ UNCHANGED vars
  <2>1. files' = files /\ updated' = updated /\ job' = job
    BY <1>2 DEF Restore, AddServer, vars
  <2> QED
    BY <2>1, UpdateUntouched
<1>3. CASE EditFile
  BY <1>3, EditKeepsProfiles
<1>4. CASE InitStart \/ AddStart \/ UpdateStart
  BY <1>4, StartKeepsProfiles
<1>5. CASE FileTruncate
  BY <1>5, TruncateKeepsProfiles
<1>6. CASE InitFill
  BY <1>6, InitFillKeepsProfiles
<1>7. CASE AddFill
  BY <1>7, AddFillKeepsProfiles
<1>8. CASE FetchArrives
  BY <1>8, FetchKeepsProfiles
<1>9. CASE UpdateFill
  BY <1>9, UpdateFillKeepsProfiles
<1>10. CASE UpdateDone
  BY <1>10, DoneKeepsProfiles
<1> QED
  BY <1>1, <1>2, <1>3, <1>4, <1>5, <1>6, <1>7, <1>8, <1>9, <1>10 DEF Next

LEMMA UpdateInvariant == Spec => []UpdateInv
<1>1. Init => UpdateInv
  BY UpdateInit
<1>2. FilesInv /\ UpdateInv /\ [Next]_vars => UpdateInv'
  BY UpdateStep
<1> QED
  BY <1>1, <1>2, FilesInvariant, PTL DEF Spec

(* While an update was the last to touch the profiles they are all there,  *)
(* and those with a checksum are the release's; nothing with another       *)
(* checksum is ever installed.                                             *)
THEOREM UpdateIsComplete == Spec => []UpdateComplete
<1>1. ASSUME UpdateInv
      PROVE  UpdateComplete
  <2> SUFFICES ASSUME NEW i \in DOMAIN Index, NEW content, content = Content(files, Profile(i))
               PROVE  /\ updated => content.kind = "json"
                      /\ Index[i].sha => content \notin Garbled
                           /\ (updated => content = Published[Index[i].name])
    BY DEF UpdateComplete, Profile
  <2>1. Index[i].name \in DOMAIN Published
    BY DeploymentAssumption
  <2>2. ASSUME updated
        PROVE  Right(i, content)
    BY <1>1, <2>2 DEF UpdateInv, UpdatedKnown, Installed
  <2>3. ASSUME updated
        PROVE  content.kind = "json"
    <3>1. CASE Index[i].sha
      <4>1. content = Published[Index[i].name]
        BY <2>2, <2>3, <3>1 DEF Right
      <4>2. IsContent(content) /\ content \notin {Torn, Absent}
        BY <2>1, <4>1, ContentsAssumption, UpdateAssumption
      <4> QED
        BY <4>2 DEF IsContent
    <3>2. CASE ~Index[i].sha
      BY <2>2, <2>3, <3>2 DEF Right
    <3> QED
      BY <3>1, <3>2
  <2>4. ASSUME Index[i].sha
        PROVE  content \notin Garbled
    <3> SUFFICES ASSUME content \in Garbled
                 PROVE  FALSE
      OBVIOUS
    <3>1. Profile(i) \in DOMAIN files /\ content = files[Profile(i)]
      BY UpdateAssumption DEF Content
    <3>2. WithoutSum(Profile(i))
      BY <1>1, <3>1 DEF UpdateInv, GarbledKnown
    <3>3. PICK j \in DOMAIN Index : ~Index[j].sha /\ Profile(i) = Profile(j)
      BY <3>2 DEF WithoutSum
    <3> QED
      BY <2>4, <3>3, ProfilesDiffer
  <2>5. Index[i].sha /\ updated => content = Published[Index[i].name]
    BY <2>2 DEF Right
  <2> QED
    BY <2>3, <2>4, <2>5
<1> QED
  BY <1>1, UpdateInvariant, PTL

=============================================================================
