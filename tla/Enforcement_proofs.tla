------------------------- MODULE Enforcement_proofs -------------------------
(***************************************************************************)
(* Proofs about module Enforcement: the second layer never takes back what *)
(* the first has let through, for every manifest, path and URL; a URL is   *)
(* judged by the host and port its author wrote; a string is taken for a   *)
(* traversal exactly if it spells one; and a reply is the line it answers, *)
(* cut and redacted, byte by byte.                                         *)
(***************************************************************************)
EXTENDS Enforcement, SequenceTheorems, WellFoundedInduction, TLAPS

-----------------------------------------------------------------------------
(* Induction on the indexes of a sequence, upwards and downwards.          *)

LEMMA LeastOf ==
  ASSUME NEW S \in SUBSET Nat, S # {}
  PROVE  \E x \in S : \A y \in S : x =< y
<1>1. PICK x \in S : \A y \in S : ~(<<y, x>> \in OpToRel(<, Nat))
  BY WFMin, NatLessThanWellFounded
<1>2. \A y \in S : ~(y < x)
  BY <1>1 DEF OpToRel
<1> QED BY <1>2

LEMMA Upwards ==
  ASSUME NEW n \in Nat, NEW S, 0 \in S, \A k \in 0..n - 1 : k \in S => k + 1 \in S
  PROVE  \A k \in 0..n : k \in S
<1> SUFFICES ASSUME NEW k \in 0..n, k \notin S PROVE FALSE
  OBVIOUS
<1>0. (0..n) \ S \in SUBSET Nat /\ (0..n) \ S # {}
  OBVIOUS
<1>1. PICK x \in (0..n) \ S : \A y \in (0..n) \ S : x =< y
  BY <1>0, LeastOf
<1>2. x # 0 /\ x \in 1..n
  BY <1>1
<1>3. x - 1 \in 0..n - 1 /\ x - 1 \in S /\ x - 1 + 1 = x
  BY <1>1, <1>2
<1> QED BY <1>1, <1>3

LEMMA Downwards ==
  ASSUME NEW n \in Nat, NEW S, n \in S, \A k \in 1..n : k \in S => k - 1 \in S
  PROVE  0 \in S
<1> DEFINE T == {k \in 0..n : n - k \in S}
<1>1. 0 \in T
  OBVIOUS
<1>2. \A k \in 0..n - 1 : k \in T => k + 1 \in T
  <2> SUFFICES ASSUME NEW k \in 0..n - 1, n - k \in S PROVE n - (k + 1) \in S
    OBVIOUS
  <2>1. n - k \in 1..n /\ n - (k + 1) = n - k - 1
    OBVIOUS
  <2> QED BY <2>1
<1> HIDE DEF T
<1>3. n \in T
  BY <1>1, <1>2, Upwards
<1> QED BY <1>3 DEF T

-----------------------------------------------------------------------------
(* The glob: its recursion as an equation that has a solution.             *)

FitStep(f, pattern, path, i, j) ==
  IF i > Len(pattern) THEN j = Len(path) + 1
  ELSE IF pattern[i] = "**" THEN
    \/ i >= Len(pattern)
    \/ \E k \in j..Len(path) + 1 : (k = 1 \/ path[k - 1] = "/") /\ f[<<i + 2, k>>]
  ELSE IF pattern[i] = "*" THEN
    \E k \in j..Len(path) + 1 : (\A l \in j..k - 1 : path[l] # "/") /\ f[<<i + 1, k>>]
  ELSE j <= Len(path) /\ pattern[i] = path[j] /\ f[<<i + 1, j + 1>>]

At(pattern, path) == (1..Len(pattern) + 2) \X (1..Len(path) + 1)
IsFits(f, pattern, path) ==
  f = [at \in At(pattern, path) |-> FitStep(f, pattern, path, at[1], at[2])]

(* A function that solves it from the i-th token of the pattern on.        *)
FitsFrom(f, pattern, path, i) ==
  /\ f = [at \in At(pattern, path) |-> f[at]]
  /\ \A at \in At(pattern, path) : at[1] >= i => f[at] = FitStep(f, pattern, path, at[1], at[2])

LEMMA FitsOneMore ==
  ASSUME NEW pattern, NEW path, Len(pattern) \in Nat, Len(path) \in Nat,
         NEW i \in 1..Len(pattern) + 2, NEW f, FitsFrom(f, pattern, path, i + 1)
  PROVE  \E g : FitsFrom(g, pattern, path, i)
<1> DEFINE g == [at \in At(pattern, path) |->
                   IF at[1] = i THEN FitStep(f, pattern, path, at[1], at[2]) ELSE f[at]]
<1>1. ASSUME NEW a \in i + 1..Len(pattern) + 2, NEW b \in 1..Len(path) + 1
      PROVE  g[<<a, b>>] = f[<<a, b>>]
  BY DEF At
<1>2. ASSUME NEW at \in At(pattern, path), at[1] >= i
      PROVE  FitStep(g, pattern, path, at[1], at[2]) = FitStep(f, pattern, path, at[1], at[2])
  <2> DEFINE a == at[1]
             b == at[2]
  <2>1. a \in i..Len(pattern) + 2 /\ b \in 1..Len(path) + 1
    BY <1>2 DEF At
  <2> HIDE DEF a, b, g
  <2>2. ASSUME a <= Len(pattern)
        PROVE  /\ a + 1 \in i + 1..Len(pattern) + 2
               /\ a < Len(pattern) => a + 2 \in i + 1..Len(pattern) + 2
    BY <2>1, <2>2
  <2>3. \A k \in b..Len(path) + 1 : k \in 1..Len(path) + 1
    BY <2>1
  <2>4. b <= Len(path) => b + 1 \in 1..Len(path) + 1
    BY <2>1
  <2>5. CASE a > Len(pattern)
    BY <2>5 DEF FitStep, a, b
  <2>6. CASE a <= Len(pattern) /\ pattern[a] = "**"
    <3>1. CASE a >= Len(pattern)
      BY <2>1, <2>6, <3>1 DEF FitStep, a, b
    <3>2. CASE a < Len(pattern)
      <4>1. \A k \in b..Len(path) + 1 : g[<<a + 2, k>>] = f[<<a + 2, k>>]
        BY <1>1, <2>2, <2>3, <2>6, <3>2
      <4> QED BY <2>1, <2>6, <3>2, <4>1 DEF FitStep, a, b
    <3> QED BY <2>1, <3>1, <3>2
  <2>7. CASE a <= Len(pattern) /\ pattern[a] = "*"
    <3>1. \A k \in b..Len(path) + 1 : g[<<a + 1, k>>] = f[<<a + 1, k>>]
      BY <1>1, <2>2, <2>3, <2>7
    <3> QED BY <2>1, <2>7, <3>1 DEF FitStep, a, b
  <2>8. CASE a <= Len(pattern) /\ pattern[a] # "**" /\ pattern[a] # "*"
    <3>1. b <= Len(path) => g[<<a + 1, b + 1>>] = f[<<a + 1, b + 1>>]
      BY <1>1, <2>2, <2>4, <2>8
    <3> QED BY <2>1, <2>8, <3>1 DEF FitStep, a, b
  <2> QED BY <2>1, <2>5, <2>6, <2>7, <2>8
<1>3. ASSUME NEW at \in At(pattern, path), at[1] >= i
      PROVE  g[at] = FitStep(f, pattern, path, at[1], at[2])
  <2>1. CASE at[1] = i
    BY <2>1
  <2>2. CASE at[1] # i
    <3>1. at[1] >= i + 1
      BY <1>3, <2>2 DEF At
    <3> QED BY <2>2, <3>1 DEF FitsFrom
  <2> QED BY <2>1, <2>2
<1>4. g = [at \in At(pattern, path) |-> g[at]]
  OBVIOUS
<1>5. FitsFrom(g, pattern, path, i)
  <2> HIDE DEF g
  <2> QED BY <1>2, <1>3, <1>4 DEF FitsFrom
<1> QED BY <1>5

LEMMA FitsExist ==
  ASSUME NEW pattern, NEW path, Len(pattern) \in Nat, Len(path) \in Nat
  PROVE  \E f : IsFits(f, pattern, path)
<1> DEFINE n == Len(pattern) + 2
           S == {k \in 0..n : \E f : FitsFrom(f, pattern, path, k + 1)}
<1>1. n \in S
  <2> DEFINE none == [at \in At(pattern, path) |-> FALSE]
  <2>1. none = [at \in At(pattern, path) |-> none[at]]
    OBVIOUS
  <2>2. \A at \in At(pattern, path) : ~(at[1] >= n + 1)
    BY DEF At
  <2> HIDE DEF none, n
  <2>3. FitsFrom(none, pattern, path, n + 1)
    BY <2>1, <2>2 DEF FitsFrom
  <2>4. n \in 0..n
    BY DEF n
  <2> QED BY <2>3, <2>4
<1>2. \A k \in 1..n : k \in S => k - 1 \in S
  <2> SUFFICES ASSUME NEW k \in 1..n, NEW f, FitsFrom(f, pattern, path, k + 1)
               PROVE  \E g : FitsFrom(g, pattern, path, k - 1 + 1)
    OBVIOUS
  <2>1. \E g : FitsFrom(g, pattern, path, k)
    BY FitsOneMore
  <2>2. k - 1 + 1 = k
    OBVIOUS
  <2> QED BY <2>1, <2>2
<1>3. 0 \in S
  <2>1. n \in Nat
    OBVIOUS
  <2> HIDE DEF S, n
  <2> QED BY <1>1, <1>2, <2>1, Downwards
<1>4. PICK f : FitsFrom(f, pattern, path, 1)
  BY <1>3
<1>5. \A at \in At(pattern, path) : f[at] = FitStep(f, pattern, path, at[1], at[2])
  <2>1. \A at \in At(pattern, path) : at[1] >= 1
    BY DEF At
  <2> QED BY <1>4, <2>1 DEF FitsFrom
<1>6. f = [at \in At(pattern, path) |-> f[at]]
  BY <1>4 DEF FitsFrom
<1>7. f = [at \in At(pattern, path) |-> FitStep(f, pattern, path, at[1], at[2])]
  BY <1>5, <1>6
<1> QED BY <1>7 DEF IsFits

(* What a pattern that matches has before its first star, the path has.    *)
LEMMA GlobLiteral ==
  ASSUME NEW Token, NEW pattern \in Seq(Token), NEW path \in Seq(Token),
         GlobMatches(pattern, path), NEW e \in 0..Len(pattern),
         \A i \in 1..e : pattern[i] \notin {"*", "**"}
  PROVE  /\ e <= Len(path) /\ \A i \in 1..e : path[i] = pattern[i]
         /\ e = Len(pattern) => Len(path) = Len(pattern)
<1>0. Len(pattern) \in Nat /\ Len(path) \in Nat
  OBVIOUS
<1>1. PICK f : IsFits(f, pattern, path) /\ f[<<1, 1>>]
  <2> DEFINE fits == CHOOSE f : IsFits(f, pattern, path)
  <2>1. IsFits(fits, pattern, path)
    BY <1>0, FitsExist
  <2>2. fits[<<1, 1>>]
    BY DEF GlobMatches, IsFits, FitStep, At
  <2> QED BY <2>1, <2>2
<1>2. \A a \in 1..Len(pattern) + 2, b \in 1..Len(path) + 1 :
         f[<<a, b>>] = FitStep(f, pattern, path, a, b)
  BY <1>1 DEF IsFits, At
<1> DEFINE S == {k \in 0..e : /\ k <= Len(path) /\ f[<<k + 1, k + 1>>]
                              /\ \A i \in 1..k : path[i] = pattern[i]}
<1>3. 0 \in S
  BY <1>0, <1>1
<1>4. ASSUME NEW k \in 0..e - 1, k \in S
      PROVE  k + 1 \in S
  <2>1. k + 1 \in 1..Len(pattern) /\ k + 1 \in 1..Len(path) + 1
    BY <1>0, <1>4
  <2>2. FitStep(f, pattern, path, k + 1, k + 1)
    BY <1>0, <1>2, <1>4, <2>1
  <2>3. pattern[k + 1] # "*" /\ pattern[k + 1] # "**"
    BY <1>4
  <2>4. ~(k + 1 > Len(pattern))
    BY <1>0, <2>1
  <2>5. k + 1 <= Len(path) /\ pattern[k + 1] = path[k + 1] /\ f[<<k + 1 + 1, k + 1 + 1>>]
    BY <2>2, <2>3, <2>4 DEF FitStep
  <2>6. \A i \in 1..k + 1 : i \in 1..k \/ i = k + 1
    BY <1>4
  <2> QED BY <1>4, <2>5, <2>6
<1>5. e \in S
  <2>1. e \in Nat /\ e \in 0..e
    OBVIOUS
  <2> HIDE DEF S
  <2> QED BY <1>3, <1>4, <2>1, Upwards
<1>6. e = Len(pattern) => Len(path) = Len(pattern)
  <2> SUFFICES ASSUME e = Len(pattern) PROVE Len(path) = Len(pattern)
    OBVIOUS
  <2>1. e + 1 \in 1..Len(pattern) + 2 /\ e + 1 \in 1..Len(path) + 1 /\ e + 1 > Len(pattern)
    BY <1>0, <1>5
  <2>2. FitStep(f, pattern, path, e + 1, e + 1)
    BY <1>2, <1>5, <2>1
  <2>3. e + 1 = Len(path) + 1
    BY <2>1, <2>2 DEF FitStep
  <2> QED BY <1>0, <2>3
<1> QED BY <1>5, <1>6

-----------------------------------------------------------------------------
(* The subpath of a pattern.                                               *)

LEMMA GreatestOf ==
  ASSUME NEW n \in Nat, NEW S \in SUBSET (1..n), S # {}
  PROVE  \E x \in S : \A y \in S : x >= y
<1> DEFINE T == {j \in 0..n : n - j \in S}
<1>1. \A i \in 1..n : n - i \in 0..n /\ n - (n - i) = i
  OBVIOUS
<1>2. \A i \in S : n - i \in T
  <2> SUFFICES ASSUME NEW i \in S PROVE n - i \in 0..n /\ n - (n - i) \in S
    OBVIOUS
  <2> QED BY <1>1
<1>3. T \in SUBSET Nat /\ T # {} /\ \A j \in T : j \in 0..n /\ n - j \in S
  <2>1. \A j \in 0..n : j \in Nat
    OBVIOUS
  <2> QED BY <1>2, <2>1
<1> HIDE DEF T
<1>4. PICK x \in T : \A y \in T : x =< y
  BY <1>3, LeastOf
<1>5. \A i \in S : n - x >= i
  <2> SUFFICES ASSUME NEW i \in S PROVE n - x >= i
    OBVIOUS
  <2>1. x =< n - i /\ i \in 1..n /\ x \in 0..n
    BY <1>2, <1>3, <1>4
  <2> QED BY <2>1
<1> QED BY <1>3, <1>4, <1>5

Globs(s) == {i \in 1..Len(s) : s[i] \in GlobTokens}

LEMMA FirstGlob ==
  ASSUME NEW Token, NEW s \in Seq(Token), NEW first,
         first = IF Globs(s) # {} THEN Min(Globs(s)) ELSE 0
  PROVE  /\ first \in 0..Len(s) /\ (first # 0 => s[first] \in GlobTokens)
         /\ \A i \in 1..Len(s) : s[i] \in GlobTokens => first # 0 /\ first <= i
<1>1. /\ Len(s) \in Nat /\ Globs(s) \in SUBSET (1..Len(s))
      /\ \A i \in 1..Len(s) : s[i] \in GlobTokens <=> i \in Globs(s)
  BY DEF Globs
<1>2. CASE Globs(s) = {}
  BY <1>1, <1>2
<1>3. CASE Globs(s) # {}
  <2>1. \E x \in Globs(s) : \A y \in Globs(s) : x =< y
    BY <1>1, <1>3, LeastOf
  <2>2. Min(Globs(s)) \in Globs(s) /\ \A y \in Globs(s) : Min(Globs(s)) =< y
    BY <2>1 DEF Min
  <2>3. first \in Globs(s) /\ \A y \in Globs(s) : first =< y
    BY <1>3, <2>2
  <2> QED BY <1>1, <2>3
<1> QED BY <1>2, <1>3

LEMMA LastIs ==
  ASSUME NEW Token, NEW s \in Seq(Token), NEW token, NEW l, l = LastOf(s, token)
  PROVE  l \in 0..Len(s) /\ (l # 0 => s[l] = token)
<1> DEFINE I == {i \in 1..Len(s) : s[i] = token}
<1>1. l = IF I # {} THEN Max(I) ELSE 0
  BY DEF LastOf, SelectLastInSeq
<1>2. /\ Len(s) \in Nat /\ I \in SUBSET (1..Len(s))
      /\ \A i \in I : s[i] = token
  OBVIOUS
<1> HIDE DEF I
<1>3. CASE I = {}
  BY <1>1, <1>2, <1>3
<1>4. CASE I # {}
  <2>1. \E x \in I : \A y \in I : x >= y
    BY <1>2, <1>4, GreatestOf
  <2>2. Max(I) \in I
    BY <2>1 DEF Max
  <2>3. l \in I
    BY <1>1, <1>4, <2>2
  <2> QED BY <1>2, <2>3
<1> QED BY <1>3, <1>4

(* A prefix that ends before a slash at which the two texts agree.         *)
LEMMA BelowPrefix ==
  ASSUME NEW Token, NEW p \in Seq(Token), NEW t \in Seq(Token), NEW l \in 1..Len(p), l <= Len(t),
         \A i \in 1..l : p[i] = t[i], p[l] = "/"
  PROVE  Below(IF SubSeq(p, 1, l - 1) = <<>> THEN <<"/">> ELSE SubSeq(p, 1, l - 1), t)
<1> DEFINE q == SubSeq(p, 1, l - 1)
<1>1. Len(p) \in Nat /\ Len(t) \in Nat /\ l \in Nat /\ "/" \in Token
  OBVIOUS
<1>2. q \in Seq(Token) /\ Len(q) = l - 1 /\ \A i \in 1..l - 1 : q[i] = p[i]
  BY <1>1
<1> HIDE DEF q
<1>3. q \o <<"/">> \in Seq(Token) /\ Len(q \o <<"/">>) = l
      /\ \A i \in 1..l : (q \o <<"/">>)[i] = t[i]
  BY <1>1, <1>2
<1>4. IsPrefix(q \o <<"/">>, t)
  <2> DEFINE r == q \o <<"/">>
  <2>1. r \in Seq(Token) /\ Len(r) = l /\ \A i \in 1..l : r[i] = t[i]
    BY <1>3
  <2> HIDE DEF r
  <2>2. /\ SubSeq(r, 1, l) \in Seq(Token) /\ Len(SubSeq(r, 1, l)) = l
        /\ \A i \in 1..l : SubSeq(r, 1, l)[i] = r[i]
    BY <1>1, <2>1
  <2>3. /\ SubSeq(t, 1, l) \in Seq(Token) /\ Len(SubSeq(t, 1, l)) = l
        /\ \A i \in 1..l : SubSeq(t, 1, l)[i] = t[i]
    BY <1>1
  <2>4. SubSeq(r, 1, l) = SubSeq(t, 1, l)
    BY <2>1, <2>2, <2>3
  <2>5. IsPrefix(r, t)
    BY <2>1, <2>4, <1>1 DEF IsPrefix
  <2> QED BY <2>5 DEF r
<1> QED BY <1>4 DEF Below, q

(* p and t agree on what p has before its first star, and if it has none,  *)
(* they are the same.                                                      *)
Agree(p, t, a) ==
  /\ a \in 0..Len(p) /\ a <= Len(t) /\ \A i \in 1..a : p[i] = t[i]
  /\ a < Len(p) => p[a + 1] \in {"*", "**"}
  /\ a = Len(p) => Len(t) = Len(p)

(* If p has a star behind its first a tokens, or is a tokens long, its     *)
(* subpath ends with a slash among those tokens or is all of p.            *)
EndsWithin(prefix, p, a) ==
  \/ a = Len(p) /\ prefix \in {<<"/">>, p}
  \/ prefix = <<"/">>
  \/ \E l \in 1..a : /\ p[l] = "/"
                    /\ prefix = IF SubSeq(p, 1, l - 1) = <<>> THEN <<"/">> ELSE SubSeq(p, 1, l - 1)

LEMMA SubpathIs ==
  ASSUME NEW Token, NEW pattern, NEW p \in Seq(Token), NEW a \in 0..Len(p), NEW prefix,
         p = ExpandHome(pattern), prefix = GlobToSubpathPrefix(pattern),
         a < Len(p) => p[a + 1] \in {"*", "**"}
  PROVE  EndsWithin(prefix, p, a)
<1>1. PICK first : first = SelectInSeq(p, LAMBDA x : x \in GlobTokens)
  OBVIOUS
<1>s. first = IF Globs(p) # {} THEN Min(Globs(p)) ELSE 0
  BY <1>1 DEF SelectInSeq, Globs
<1>2. /\ first \in 0..Len(p) /\ (first # 0 => p[first] \in GlobTokens)
      /\ \A i \in 1..Len(p) : p[i] \in GlobTokens => first # 0 /\ first <= i
  BY <1>s, FirstGlob
<1>l. PICK l : l = LastOf(SubSeq(p, 1, first), "/")
  OBVIOUS
<1> DEFINE cut == IF first = 0 THEN p ELSE SubSeq(p, 1, l - 1)
<1>3. prefix = IF cut = <<>> THEN <<"/">> ELSE cut
  BY <1>1, <1>l DEF GlobToSubpathPrefix
<1>4. Len(p) \in Nat
  OBVIOUS
<1>5. a < Len(p) => first # 0 /\ first <= a + 1
  <2>1. a < Len(p) => a + 1 \in 1..Len(p) /\ p[a + 1] \in {"*", "**"}
    BY <1>4
  <2>2. {"*", "**"} \subseteq GlobTokens
    BY DEF GlobTokens
  <2> QED BY <1>2, <2>1, <2>2
<1>6. CASE first = 0
  <2>1. a = Len(p)
    BY <1>4, <1>5, <1>6
  <2> QED BY <1>3, <1>6, <2>1 DEF EndsWithin
<1>7. CASE first # 0
  <2>1. l \in 0..first /\ (l # 0 => p[l] = "/")
    <3> DEFINE part == SubSeq(p, 1, first)
    <3>1. part \in Seq(Token) /\ Len(part) = first /\ l = LastOf(part, "/")
          /\ \A i \in 1..first : part[i] = p[i]
      BY <1>l, <1>2, <1>4, <1>7
    <3> HIDE DEF part
    <3>2. l \in 0..Len(part) /\ (l # 0 => part[l] = "/")
      BY <3>1, LastIs
    <3> QED BY <1>2, <3>1, <3>2
  <2>2. CASE l = 0
    <3>1. SubSeq(p, 1, l - 1) = <<>>
      BY <2>2
    <3> QED BY <1>3, <1>7, <3>1 DEF EndsWithin
  <2>3. CASE l # 0
    <3>1. l # first
      BY <1>2, <1>7, <2>1, <2>3 DEF GlobTokens
    <3>2. l \in 1..a
      BY <1>2, <1>4, <1>5, <2>1, <2>3, <3>1
    <3> QED BY <1>3, <1>7, <2>1, <2>3, <3>2 DEF EndsWithin
  <2> QED BY <2>2, <2>3
<1> QED BY <1>6, <1>7

LEMMA SubpathCovers ==
  ASSUME NEW Token, NEW pattern, NEW p \in Seq(Token), NEW t \in Seq(Token), NEW a,
         p = ExpandHome(pattern), Agree(p, t, a)
  PROVE  Below(GlobToSubpathPrefix(pattern), t)
<1>1. PICK prefix : prefix = GlobToSubpathPrefix(pattern)
  OBVIOUS
<1>2. Len(p) \in Nat /\ Len(t) \in Nat
  OBVIOUS
<1>3. a \in 0..Len(p) /\ (a < Len(p) => p[a + 1] \in {"*", "**"})
  BY DEF Agree
<1>4. EndsWithin(prefix, p, a)
  BY <1>1, <1>3, SubpathIs
<1>5. CASE a = Len(p) /\ prefix \in {<<"/">>, p}
  <2>1. p = t
    BY <1>2, <1>5 DEF Agree
  <2> QED BY <1>1, <1>5, <2>1 DEF Below
<1>6. CASE prefix = <<"/">>
  BY <1>1, <1>6 DEF Below
<1>7. ASSUME NEW l \in 1..a, p[l] = "/",
             prefix = IF SubSeq(p, 1, l - 1) = <<>> THEN <<"/">> ELSE SubSeq(p, 1, l - 1)
      PROVE  Below(prefix, t)
  <2>1. l \in 1..Len(p) /\ l <= Len(t) /\ \A i \in 1..l : p[i] = t[i]
    BY <1>2 DEF Agree
  <2> QED BY <1>7, <2>1, BelowPrefix
<1> QED BY <1>1, <1>4, <1>5, <1>6, <1>7 DEF EndsWithin

-----------------------------------------------------------------------------
(* The two layers on a path.                                               *)

(* A path in the home directory whose rest is not an absolute path: Path:: *)
(* join would replace the home directory by it.                            *)
InHome(s) == IsPrefix(<<"~", "/">>, s)
JoinsHome(s) == InHome(s) => Len(s) = 2 \/ s[3] # "/"

LEMMA PrefixMeans ==
  ASSUME NEW Token, NEW r \in Seq(Token), NEW s \in Seq(Token)
  PROVE  IsPrefix(r, s) <=> Len(r) <= Len(s) /\ \A i \in 1..Len(r) : r[i] = s[i]
<1>1. Len(r) \in Nat /\ Len(s) \in Nat
  OBVIOUS
<1>2. ASSUME Len(r) <= Len(s)
      PROVE  SubSeq(r, 1, Len(r)) = SubSeq(s, 1, Len(r)) <=> \A i \in 1..Len(r) : r[i] = s[i]
  <2> DEFINE q == SubSeq(s, 1, Len(r))
             v == SubSeq(r, 1, Len(r))
  <2>1. q \in Seq(Token) /\ Len(q) = Len(r) /\ \A i \in 1..Len(r) : q[i] = s[i]
    BY <1>1, <1>2
  <2>2. v \in Seq(Token) /\ Len(v) = Len(r) /\ \A i \in 1..Len(r) : v[i] = r[i]
    BY <1>1
  <2> HIDE DEF q, v
  <2>3. q = v <=> \A i \in 1..Len(r) : r[i] = s[i]
    BY <2>1, <2>2
  <2> QED BY <2>3 DEF q, v
<1> QED BY <1>1, <1>2 DEF IsPrefix

LEMMA Slash ==
  ASSUME NEW Token, "/" \in Token, NEW s \in Seq(Token)
  PROVE  IsPrefix(<<"/">>, s) <=> Len(s) >= 1 /\ s[1] = "/"
<1> DEFINE r == <<"/">>
<1>1. r \in Seq(Token) /\ Len(r) = 1 /\ r[1] = "/" /\ Len(s) \in Nat
  OBVIOUS
<1> HIDE DEF r
<1>2. IsPrefix(r, s) <=> Len(s) >= 1 /\ s[1] = "/"
  BY <1>1, PrefixMeans
<1> QED BY <1>2 DEF r

LEMMA HomeSlash ==
  ASSUME NEW Token, {"~", "/"} \subseteq Token, NEW s \in Seq(Token)
  PROVE  InHome(s) <=> Len(s) >= 2 /\ s[1] = "~" /\ s[2] = "/"
<1> DEFINE r == <<"~", "/">>
<1>1. r \in Seq(Token) /\ Len(r) = 2 /\ r[1] = "~" /\ r[2] = "/" /\ Len(s) \in Nat
  OBVIOUS
<1> HIDE DEF r
<1>2. (\A i \in 1..2 : r[i] = s[i]) <=> r[1] = s[1] /\ r[2] = s[2]
  <2>1. 1..2 = {1, 2}
    OBVIOUS
  <2> QED BY <2>1
<1>a. r \in Seq(Token)
  BY <1>1
<1>3. IsPrefix(r, s) <=> Len(r) <= Len(s) /\ \A i \in 1..Len(r) : r[i] = s[i]
  BY <1>a, PrefixMeans
<1>4. Len(r) <= Len(s) <=> Len(s) >= 2
  BY <1>1
<1>5. IsPrefix(r, s) <=> Len(s) >= 2 /\ s[1] = "~" /\ s[2] = "/"
  BY <1>1, <1>2, <1>3, <1>4
<1> QED BY <1>5 DEF r, InHome

(* The first e tokens are those before the first star.                     *)
Literal(s, e) ==
  /\ e \in 0..Len(s) /\ \A i \in 1..e : s[i] \notin {"*", "**"}
  /\ e < Len(s) => s[e + 1] \in {"*", "**"}

LEMMA LiteralPart ==
  ASSUME NEW Token, NEW s \in Seq(Token)
  PROVE  \E e \in 0..Len(s) : Literal(s, e)
<1> DEFINE I == {i \in 1..Len(s) : s[i] \in {"*", "**"}}
<1>1. /\ Len(s) \in Nat /\ I \in SUBSET (1..Len(s)) /\ I \in SUBSET Nat
      /\ \A i \in 1..Len(s) : s[i] \in {"*", "**"} <=> i \in I
  OBVIOUS
<1> HIDE DEF I
<1>2. CASE I = {}
  BY <1>1, <1>2 DEF Literal
<1>3. CASE I # {}
  <2>1. PICK x \in I : \A y \in I : x =< y
    BY <1>1, <1>3, LeastOf
  <2>2. x \in 1..Len(s) /\ x - 1 \in 0..Len(s) /\ x - 1 + 1 = x
    BY <1>1, <2>1
  <2>3. \A i \in 1..x - 1 : i \in 1..Len(s) /\ ~(x =< i)
    BY <1>1, <2>2
  <2>4. \A i \in 1..x - 1 : s[i] \notin {"*", "**"}
    BY <1>1, <2>1, <2>3
  <2>5. s[x - 1 + 1] \in {"*", "**"}
    BY <1>1, <2>1, <2>2
  <2> QED BY <2>2, <2>4, <2>5 DEF Literal
<1> QED BY <1>2, <1>3

LEMMA AgreePlain ==
  ASSUME NEW Token, NEW pattern \in Seq(Token), NEW path \in Seq(Token), GlobMatches(pattern, path),
         NEW e, Literal(pattern, e)
  PROVE  Agree(pattern, path, e)
<1>0. e \in 0..Len(pattern) /\ \A i \in 1..e : pattern[i] \notin {"*", "**"}
  BY DEF Literal
<1>1. /\ e <= Len(path) /\ \A i \in 1..e : path[i] = pattern[i]
      /\ e = Len(pattern) => Len(path) = Len(pattern)
  BY <1>0, GlobLiteral
<1> QED BY <1>0, <1>1 DEF Agree, Literal

Joined(q, r, Token) ==
  /\ q \o r \in Seq(Token) /\ Len(q \o r) = Len(q) + Len(r)
  /\ \A i \in 1..Len(q) + Len(r) : (q \o r)[i] = IF i <= Len(q) THEN q[i] ELSE r[i - Len(q)]

LEMMA JoinedIs ==
  ASSUME NEW Token, NEW q \in Seq(Token), NEW r \in Seq(Token)
  PROVE  Joined(q, r, Token)
BY DEF Joined

(* The same behind the home directory.                                     *)
LEMMA AgreeAtHome ==
  ASSUME NEW Token, NEW p \in Seq(Token), NEW t \in Seq(Token), NEW a, Agree(p, t, a),
         NEW home \in Seq(Token), NEW skip \in 0..a
  PROVE  Agree(home \o From(p, skip + 1), home \o From(t, skip + 1), Len(home) + (a - skip))
<1> DEFINE h == Len(home)
           P == From(p, skip + 1)
           T == From(t, skip + 1)
<1>1. h \in Nat /\ Len(p) \in Nat /\ Len(t) \in Nat /\ a \in Nat /\ a <= Len(p) /\ a <= Len(t) /\ skip <= a
      /\ skip \in Nat
  BY DEF Agree
<1>2. P \in Seq(Token) /\ Len(P) = Len(p) - skip /\ \A i \in 1..Len(p) - skip : P[i] = p[i + skip]
  BY <1>1 DEF From
<1>3. T \in Seq(Token) /\ Len(T) = Len(t) - skip /\ \A i \in 1..Len(t) - skip : T[i] = t[i + skip]
  BY <1>1 DEF From
<1> HIDE DEF P, T, h
<1>4. Joined(home, P, Token) /\ Joined(home, T, Token)
  BY <1>2, <1>3, JoinedIs
<1> DEFINE X == home \o P
           Y == home \o T
<1>5. /\ X \in Seq(Token) /\ Len(X) = h + (Len(p) - skip)
      /\ Y \in Seq(Token) /\ Len(Y) = h + (Len(t) - skip)
  BY <1>2, <1>3, <1>4 DEF Joined, h
<1>x. \A i \in 1..h + (Len(p) - skip) : X[i] = IF i <= h THEN home[i] ELSE P[i - h]
  BY <1>2, <1>4 DEF Joined, h
<1>y. \A i \in 1..h + (Len(t) - skip) : Y[i] = IF i <= h THEN home[i] ELSE T[i - h]
  BY <1>3, <1>4 DEF Joined, h
<1> HIDE DEF X, Y
<1> DEFINE b == h + (a - skip)
<1>6. b \in 0..Len(X) /\ b <= Len(Y)
  BY <1>1, <1>5
<1>7. ASSUME NEW i \in 1..b
      PROVE  X[i] = Y[i]
  <2>0. i \in 1..h + (Len(p) - skip) /\ i \in 1..h + (Len(t) - skip)
    BY <1>1
  <2>1. CASE i <= h
    BY <1>x, <1>y, <2>0, <2>1
  <2>2. CASE ~(i <= h)
    <3>1. i - h \in 1..Len(p) - skip /\ i - h \in 1..Len(t) - skip /\ i - h + skip \in 1..a
      BY <1>1, <2>2
    <3>2. p[i - h + skip] = t[i - h + skip]
      BY <3>1 DEF Agree
    <3>3. P[i - h] = p[i - h + skip] /\ T[i - h] = t[i - h + skip]
      BY <1>2, <1>3, <3>1
    <3>4. X[i] = P[i - h] /\ Y[i] = T[i - h]
      BY <1>x, <1>y, <2>0, <2>2
    <3> QED BY <3>2, <3>3, <3>4
  <2> QED BY <2>1, <2>2
<1>8. b < Len(X) => X[b + 1] \in {"*", "**"}
  <2> SUFFICES ASSUME b < Len(X) PROVE X[b + 1] \in {"*", "**"}
    OBVIOUS
  <2>0. PICK j : j = b + 1
    OBVIOUS
  <2>1. /\ a < Len(p) /\ j \in 1..h + (Len(p) - skip) /\ j - h \in 1..Len(p) - skip
        /\ j - h + skip = a + 1 /\ ~(j <= h)
    BY <1>1, <1>5, <2>0
  <2>2. p[a + 1] \in {"*", "**"}
    BY <2>1 DEF Agree
  <2>3. X[j] = P[j - h]
    BY <1>x, <2>1
  <2>4. P[j - h] = p[j - h + skip]
    BY <1>2, <2>1
  <2> QED BY <2>0, <2>1, <2>2, <2>3, <2>4
<1>9. b = Len(X) => Len(Y) = Len(X)
  <2> SUFFICES ASSUME b = Len(X) PROVE Len(Y) = Len(X)
    OBVIOUS
  <2>1. a = Len(p)
    BY <1>1, <1>5
  <2>2. Len(t) = Len(p)
    BY <2>1 DEF Agree
  <2> QED BY <1>5, <2>2
<1>10. Agree(X, Y, b)
  <2> HIDE DEF b
  <2> QED BY <1>6, <1>7, <1>8, <1>9 DEF Agree
<1> QED BY <1>10 DEF P, T, h, X, Y

LEMMA Expansions ==
  ASSUME NEW Token, {"~", "/"} \subseteq Token, NEW s \in Seq(Token), Home \in Seq(Token)
  PROVE  /\ InHome(s) /\ (Len(s) = 2 \/ s[3] # "/") =>
              ExpandHome(s) = (Home \o <<"/">>) \o From(s, 3)
         /\ ~InHome(s) /\ s # <<"~">> => ExpandHome(s) = s
<1>1. InHome(s) => Len(s) >= 2
  BY HomeSlash
<1>2. InHome(s) => s # <<"~">>
  <2> SUFFICES ASSUME s = <<"~">>, InHome(s) PROVE FALSE
    OBVIOUS
  <2>1. Len(s) = 1
    OBVIOUS
  <2> QED BY <1>1, <2>1
<1>3. ASSUME InHome(s), Len(s) = 2 \/ s[3] # "/"
      PROVE  ExpandHome(s) = (Home \o <<"/">>) \o From(s, 3)
  <2>1. ~(Len(s) > 2 /\ s[3] = "/")
    BY <1>3
  <2> QED BY <1>2, <1>3, <2>1 DEF ExpandHome, InHome
<1>4. ASSUME ~InHome(s), s # <<"~">> PROVE ExpandHome(s) = s
  BY <1>4 DEF ExpandHome, InHome
<1> QED BY <1>3, <1>4

LEMMA PathsAgree ==
  ASSUME NEW Token, {"~", "/"} \subseteq Token, Home \in Seq(Token),
         NEW pattern \in Seq(Token), NEW path \in Seq(Token),
         GlobMatches(pattern, path), LooksLikePath(path), JoinsHome(path)
  PROVE  Below(GlobToSubpathPrefix(pattern), ExpandHome(path))
<1>0. Len(pattern) \in Nat /\ Len(path) \in Nat
  OBVIOUS
<1>l. PICK e \in 0..Len(pattern) : Literal(pattern, e)
  BY LiteralPart
<1>1. /\ e \in 0..Len(pattern) /\ \A i \in 1..e : pattern[i] \notin {"*", "**"}
      /\ e < Len(pattern) => pattern[e + 1] \in {"*", "**"}
  BY <1>l DEF Literal
<1>2. Agree(pattern, path, e)
  BY <1>l, AgreePlain
<1>3. InHome(path) <=> Len(path) >= 2 /\ path[1] = "~" /\ path[2] = "/"
  BY HomeSlash
<1>4. InHome(pattern) <=> Len(pattern) >= 2 /\ pattern[1] = "~" /\ pattern[2] = "/"
  BY HomeSlash
<1>5. InHome(path) \/ (Len(path) >= 1 /\ path[1] = "/")
  <2>1. IsPrefix(<<"/">>, path) <=> Len(path) >= 1 /\ path[1] = "/"
    BY Slash
  <2> QED BY <2>1 DEF LooksLikePath, InHome
<1>6. CASE InHome(pattern)
  <2>1. e >= 2 /\ (e = 2 /\ Len(pattern) > 2 => pattern[3] # "/")
    <3>1. e # 0 /\ e # 1
      <4>1. e = 0 => pattern[1] \in {"*", "**"}
        BY <1>0, <1>1, <1>4, <1>6
      <4>2. e = 1 => pattern[2] \in {"*", "**"}
        BY <1>0, <1>1, <1>4, <1>6
      <4> QED BY <1>4, <1>6, <4>1, <4>2
    <3>2. e = 2 /\ Len(pattern) > 2 => pattern[3] \in {"*", "**"}
      BY <1>0, <1>1
    <3> QED BY <1>0, <1>1, <3>1, <3>2
  <2>2. InHome(path)
    BY <1>0, <1>2, <1>3, <1>4, <1>6, <2>1 DEF Agree
  <2>3. Len(path) = 2 \/ path[3] # "/"
    BY <2>2 DEF JoinsHome
  <2>4. Len(pattern) = 2 \/ pattern[3] # "/"
    <3>1. e >= 3 => Len(path) >= 3 /\ path[3] = pattern[3]
      BY <1>0, <1>2 DEF Agree
    <3>2. CASE e >= 3
      BY <1>0, <2>3, <3>1, <3>2
    <3>3. CASE e = 2
      <4>1. Len(pattern) >= 2
        BY <1>4, <1>6
      <4>2. Len(pattern) > 2 => pattern[3] # "/"
        BY <2>1, <3>3
      <4>3. Len(pattern) = 2 \/ Len(pattern) > 2
        <5>1. \A n \in Nat : n >= 2 => n = 2 \/ n > 2
          OBVIOUS
        <5> QED BY <1>0, <4>1, <5>1
      <4> QED BY <4>2, <4>3
    <3> QED BY <1>0, <1>1, <2>1, <3>2, <3>3
  <2> DEFINE home == Home \o <<"/">>
  <2>5. home \in Seq(Token)
    OBVIOUS
  <2>6. ExpandHome(pattern) = home \o From(pattern, 3)
    BY <1>6, <2>4, Expansions
  <2>7. ExpandHome(path) = home \o From(path, 3)
    BY <2>2, <2>3, Expansions
  <2> HIDE DEF home
  <2>8. /\ home \o From(pattern, 3) \in Seq(Token)
        /\ home \o From(path, 3) \in Seq(Token)
    <3>1. From(pattern, 3) \in Seq(Token) /\ From(path, 3) \in Seq(Token)
      BY <1>0 DEF From
    <3> QED BY <2>5, <3>1
  <2>9. Agree(home \o From(pattern, 3), home \o From(path, 3), Len(home) + (e - 2))
    <3>1. 2 \in 0..e
      BY <1>0, <1>1, <2>1
    <3>2. Agree(home \o From(pattern, 2 + 1), home \o From(path, 2 + 1), Len(home) + (e - 2))
      BY <1>2, <2>5, <3>1, AgreeAtHome
    <3>3. 2 + 1 = 3
      OBVIOUS
    <3> QED BY <3>2, <3>3
  <2>10. Below(GlobToSubpathPrefix(pattern), home \o From(path, 3))
    <3>1. PICK p : p = home \o From(pattern, 3)
      OBVIOUS
    <3>2. PICK t : t = home \o From(path, 3)
      OBVIOUS
    <3>3. PICK a : a = Len(home) + (e - 2)
      OBVIOUS
    <3>4. p \in Seq(Token) /\ t \in Seq(Token) /\ p = ExpandHome(pattern) /\ Agree(p, t, a)
      BY <2>6, <2>8, <2>9, <3>1, <3>2, <3>3
    <3>5. Below(GlobToSubpathPrefix(pattern), t)
      BY <3>4, SubpathCovers
    <3> QED BY <3>2, <3>5
  <2> QED BY <2>7, <2>10
<1>7. CASE ~InHome(pattern)
  <2>1. pattern # <<"~">>
    <3> SUFFICES ASSUME pattern = <<"~">> PROVE FALSE
      OBVIOUS
    <3>1. Len(pattern) = 1 /\ pattern[1] = "~"
      OBVIOUS
    <3>2. e = 1
      BY <1>1, <3>1
    <3>3. Len(path) = 1 /\ path[1] = "~"
      BY <1>2, <3>1, <3>2 DEF Agree
    <3> QED BY <1>3, <1>5, <3>3
  <2>2. pattern = ExpandHome(pattern)
    BY <1>7, <2>1, Expansions
  <2>3. CASE Len(path) >= 1 /\ path[1] = "/"
    <3>1. ~InHome(path)
      BY <1>3, <2>3
    <3>2. path # <<"~">>
      BY <2>3
    <3>3. ExpandHome(path) = path
      BY <3>1, <3>2, Expansions
    <3>4. Below(GlobToSubpathPrefix(pattern), path)
      BY <1>2, <2>2, SubpathCovers
    <3> QED BY <3>3, <3>4
  <2>4. CASE InHome(path)
    <3>1. e < 2 /\ e < Len(pattern)
      <4>1. ~(e >= 2)
        BY <1>0, <1>1, <1>2, <1>3, <1>4, <1>7, <2>4 DEF Agree
      <4>2. e # Len(pattern)
        BY <1>0, <1>2, <1>3, <2>4, <4>1 DEF Agree
      <4> QED BY <1>0, <1>1, <4>1, <4>2
    <3>2. ~\E l \in 1..e : pattern[l] = "/"
      <4>1. \A l \in 1..e : l = 1 /\ pattern[l] = path[l]
        BY <1>1, <1>2, <3>1 DEF Agree
      <4> QED BY <1>3, <2>4, <4>1
    <3>3. GlobToSubpathPrefix(pattern) = <<"/">>
      <4>1. PICK prefix : prefix = GlobToSubpathPrefix(pattern)
        OBVIOUS
      <4>2. EndsWithin(prefix, pattern, e)
        <5>1. e \in 0..Len(pattern) /\ (e < Len(pattern) => pattern[e + 1] \in {"*", "**"})
          BY <1>1
        <5> QED BY <2>2, <4>1, <5>1, SubpathIs
      <4> QED BY <3>1, <3>2, <4>1, <4>2 DEF EndsWithin
    <3> QED BY <3>3 DEF Below
  <2> QED BY <1>5, <2>3, <2>4
<1> QED BY <1>6, <1>7

-----------------------------------------------------------------------------
(* The two layers on a URL: its text, put together and taken apart.        *)

(* Where the parts of a text that was put together are found again.        *)

LEMMA Assoc ==
  ASSUME NEW Token, NEW q \in Seq(Token), NEW r \in Seq(Token), NEW s \in Seq(Token)
  PROVE  (q \o r) \o s = q \o (r \o s)
<1> DEFINE x == (q \o r) \o s
           y == q \o (r \o s)
           qr == q \o r
           rs == r \o s
<1>1. Joined(q, r, Token) /\ Joined(r, s, Token)
  BY JoinedIs
<1>2. qr \in Seq(Token) /\ rs \in Seq(Token)
  BY <1>1 DEF Joined
<1>3. Joined(qr, s, Token) /\ Joined(q, rs, Token)
  BY <1>2, JoinedIs
<1>4. Len(q) \in Nat /\ Len(r) \in Nat /\ Len(s) \in Nat
  OBVIOUS
<1> DEFINE a == Len(q)
           b == Len(r)
           c == Len(s)
<1>5. /\ x \in Seq(Token) /\ Len(x) = a + b + c
      /\ \A i \in 1..a + b + c : x[i] = IF i <= a + b THEN qr[i] ELSE s[i - (a + b)]
  BY <1>1, <1>3 DEF Joined
<1>6. /\ y \in Seq(Token) /\ Len(y) = a + (b + c)
      /\ \A i \in 1..a + (b + c) : y[i] = IF i <= a THEN q[i] ELSE rs[i - a]
  BY <1>1, <1>3 DEF Joined
<1>7. \A i \in 1..a + b : qr[i] = IF i <= a THEN q[i] ELSE r[i - a]
  BY <1>1 DEF Joined
<1>8. \A i \in 1..b + c : rs[i] = IF i <= b THEN r[i] ELSE s[i - b]
  BY <1>1 DEF Joined
<1> HIDE DEF x, y, qr, rs, a, b, c
<1>9. a \in Nat /\ b \in Nat /\ c \in Nat
  BY <1>4 DEF a, b, c
<1>10. ASSUME NEW i \in 1..a + b + c PROVE x[i] = y[i]
  <2>0. i \in 1..a + (b + c)
    BY <1>9
  <2>1. CASE i <= a
    <3>1. i \in 1..a + b /\ i <= a + b
      BY <1>9, <2>1
    <3> QED BY <1>5, <1>6, <1>7, <2>0, <2>1, <3>1
  <2>2. CASE ~(i <= a) /\ i <= a + b
    <3>1. i \in 1..a + b /\ i - a \in 1..b + c /\ i - a <= b
      BY <1>9, <2>2
    <3> QED BY <1>5, <1>6, <1>7, <1>8, <2>0, <2>2, <3>1
  <2>3. CASE ~(i <= a) /\ ~(i <= a + b)
    <3>1. i - a \in 1..b + c /\ ~(i - a <= b) /\ i - a - b = i - (a + b)
      BY <1>9, <2>3
    <3> QED BY <1>5, <1>6, <1>8, <2>0, <2>3, <3>1
  <2> QED BY <2>1, <2>2, <2>3
<1>11. Len(x) = Len(y) /\ Len(x) = a + b + c
  BY <1>5, <1>6, <1>9
<1>12. x = y
  BY <1>5, <1>6, <1>10, <1>11
<1> QED BY <1>12 DEF x, y, qr, rs

LEMMA Halves ==
  ASSUME NEW Token, NEW q \in Seq(Token), NEW r \in Seq(Token)
  PROVE  SubSeq(q \o r, 1, Len(q)) = q /\ From(q \o r, Len(q) + 1) = r
<1> DEFINE t == q \o r
<1>1. Joined(q, r, Token)
  BY JoinedIs
<1>2. Len(q) \in Nat /\ Len(r) \in Nat
  OBVIOUS
<1>3. /\ t \in Seq(Token) /\ Len(t) = Len(q) + Len(r)
      /\ \A i \in 1..Len(q) + Len(r) : t[i] = IF i <= Len(q) THEN q[i] ELSE r[i - Len(q)]
  BY <1>1 DEF Joined
<1> HIDE DEF t
<1>4. SubSeq(t, 1, Len(q)) = q
  <2> DEFINE p == SubSeq(t, 1, Len(q))
  <2>1. p \in Seq(Token) /\ Len(p) = Len(q) /\ \A i \in 1..Len(q) : p[i] = t[i]
    BY <1>2, <1>3
  <2> HIDE DEF p
  <2>2. \A i \in 1..Len(q) : i \in 1..Len(q) + Len(r) /\ i <= Len(q)
    BY <1>2
  <2>3. \A i \in 1..Len(q) : p[i] = q[i]
    BY <1>3, <2>1, <2>2
  <2>4. p = q
    BY <2>1, <2>3
  <2> QED BY <2>4 DEF p
<1>5. From(t, Len(q) + 1) = r
  <2> DEFINE p == SubSeq(t, Len(q) + 1, Len(t))
  <2>1. p \in Seq(Token) /\ Len(p) = Len(r) /\ \A i \in 1..Len(r) : p[i] = t[Len(q) + i]
    BY <1>2, <1>3
  <2> HIDE DEF p
  <2>2. ASSUME NEW i \in 1..Len(r) PROVE p[i] = r[i]
    <3>0. PICK j : j = Len(q) + i
      OBVIOUS
    <3>1. j \in 1..Len(q) + Len(r) /\ ~(j <= Len(q)) /\ j - Len(q) = i
      BY <1>2, <3>0
    <3> QED BY <1>3, <2>1, <3>0, <3>1
  <2>3. p \in Seq(Token) /\ Len(p) = Len(r)
    BY <2>1
  <2>4. p = r
    BY <2>2, <2>3
  <2> QED BY <2>4 DEF p, From
<1> QED BY <1>4, <1>5 DEF t

LEMMA LastInFront ==
  ASSUME NEW Token, NEW q \in Seq(Token), NEW r \in Seq(Token), NEW token,
         q = <<>> \/ q[Len(q)] = token, \A i \in 1..Len(r) : r[i] # token
  PROVE  LastOf(q \o r, token) = Len(q)
<1>0. PICK t : t = q \o r
  OBVIOUS
<1>1. PICK I : I = {i \in 1..Len(t) : t[i] = token}
  OBVIOUS
<1>2. LastOf(t, token) = IF I # {} THEN Max(I) ELSE 0
  BY <1>1 DEF LastOf, SelectLastInSeq
<1>3. Joined(q, r, Token)
  BY JoinedIs
<1>4. Len(q) \in Nat /\ Len(r) \in Nat
  OBVIOUS
<1>5. /\ Len(t) = Len(q) + Len(r)
      /\ \A i \in 1..Len(q) + Len(r) : t[i] = IF i <= Len(q) THEN q[i] ELSE r[i - Len(q)]
  BY <1>0, <1>3 DEF Joined
<1>6. \A i \in I : i \in 1..Len(q)
  <2> SUFFICES ASSUME NEW i \in I, ~(i <= Len(q)) PROVE FALSE
    BY <1>1, <1>4
  <2>1. i \in 1..Len(q) + Len(r) /\ i - Len(q) \in 1..Len(r) /\ t[i] = token
    BY <1>1, <1>4, <1>5
  <2> QED BY <1>5, <2>1
<1>7. CASE q = <<>>
  <2>1. Len(q) = 0
    BY <1>7
  <2>2. I = {}
    BY <1>6, <2>1
  <2> QED BY <1>0, <1>2, <2>1, <2>2
<1>8. CASE q # <<>>
  <2>1. Len(q) \in 1..Len(q) + Len(r) /\ Len(q) <= Len(q)
    BY <1>4, <1>8
  <2>2. Len(q) \in I
    BY <1>1, <1>5, <1>8, <2>1
  <2>3. \A x \in I : (\A y \in I : x >= y) => x = Len(q)
    BY <1>4, <1>6, <2>2
  <2>4. \A y \in I : Len(q) >= y
    BY <1>4, <1>6
  <2>5. Max(I) = Len(q)
    BY <2>2, <2>3, <2>4 DEF Max
  <2> QED BY <1>0, <1>2, <2>2, <2>5
<1> QED BY <1>7, <1>8

(* Min of a set whose least member is known.                               *)
LEMMA MinIs ==
  ASSUME NEW S \in SUBSET Nat, NEW x \in S, \A y \in S : x =< y
  PROVE  Min(S) = x
<1>1. \A z \in S : (\A y \in S : z =< y) => z = x
  <2> SUFFICES ASSUME NEW z \in S, \A y \in S : z =< y PROVE z = x
    OBVIOUS
  <2>1. z \in Nat /\ x \in Nat /\ z =< x /\ x =< z
    OBVIOUS
  <2> QED BY <2>1
<1> QED BY <1>1 DEF Min

LEMMA Wider ==
  ASSUME NEW S, NEW T, S \subseteq T, NEW s \in Seq(S)
  PROVE  s \in Seq(T)
  OBVIOUS

(* The text of a URL: its scheme, "://", its authority and its path.       *)
IsText(s, scheme, a, path) == s = (scheme \o Scheme) \o (a \o path)

TextIs(s, scheme, a, path, Token, n, m) ==
  /\ s \in Seq(Token) /\ n \in Nat /\ m \in Nat /\ Len(s) = n + 3 + m + Len(path)
  /\ \A i \in 1..n : s[i] = scheme[i]
  /\ s[n + 1] = ":" /\ s[n + 2] = "/" /\ s[n + 3] = "/"
  /\ \A i \in 1..m : s[n + 3 + i] = a[i]
  /\ \A i \in 1..Len(path) : s[n + 3 + m + i] = path[i]

LEMMA Pieces ==
  ASSUME NEW Token, {"~", "/", "@", ":"} \subseteq Token,
         NEW scheme \in Seq(Token), NEW a \in Seq(Token), NEW path \in Seq(Token),
         NEW s, IsText(s, scheme, a, path), NEW n, n = Len(scheme), NEW m, m = Len(a)
  PROVE  TextIs(s, scheme, a, path, Token, n, m)
<1>1. PICK mark : mark = Scheme
  OBVIOUS
<1>2. mark \in Seq(Token) /\ Len(mark) = 3 /\ mark[1] = ":" /\ mark[2] = "/" /\ mark[3] = "/"
  BY <1>1 DEF Scheme
<1>3. PICK front, rest : front = scheme \o mark /\ rest = a \o path
  OBVIOUS
<1>4. Joined(scheme, mark, Token) /\ Joined(a, path, Token)
  BY <1>2, JoinedIs
<1>5. n \in Nat /\ m \in Nat /\ Len(path) \in Nat
  OBVIOUS
<1>6. PICK l : l = Len(path)
  OBVIOUS
<1>7. /\ front \in Seq(Token) /\ Len(front) = n + 3
      /\ \A i \in 1..n + 3 : front[i] = IF i <= n THEN scheme[i] ELSE mark[i - n]
  BY <1>2, <1>3, <1>4 DEF Joined
<1>8. /\ rest \in Seq(Token) /\ Len(rest) = m + l
      /\ \A i \in 1..m + l : rest[i] = IF i <= m THEN a[i] ELSE path[i - m]
  BY <1>3, <1>4, <1>6 DEF Joined
<1>9. /\ s \in Seq(Token) /\ Len(s) = (n + 3) + (m + l)
      /\ \A i \in 1..(n + 3) + (m + l) : s[i] = IF i <= n + 3 THEN front[i] ELSE rest[i - (n + 3)]
  <2>1. Joined(front, rest, Token)
    BY <1>7, <1>8, JoinedIs
  <2>2. s = front \o rest
    BY <1>1, <1>3 DEF IsText
  <2> QED BY <1>7, <1>8, <2>1, <2>2 DEF Joined
<1>10. Len(s) = n + 3 + m + Len(path)
  BY <1>5, <1>6, <1>9
<1>11. \A i \in 1..n : s[i] = scheme[i]
  <2> SUFFICES ASSUME NEW i \in 1..n PROVE s[i] = scheme[i]
    OBVIOUS
  <2>1. i \in 1..(n + 3) + (m + l) /\ i \in 1..n + 3 /\ i <= n + 3 /\ i <= n
    BY <1>5, <1>6
  <2> QED BY <1>7, <1>9, <2>1
<1>12. ASSUME NEW k \in 1..3 PROVE s[n + k] = mark[k]
  <2>0. PICK i : i = n + k
    OBVIOUS
  <2>1. i \in 1..(n + 3) + (m + l) /\ i \in 1..n + 3 /\ i <= n + 3 /\ ~(i <= n) /\ i - n = k
    BY <1>5, <1>6, <2>0
  <2> QED BY <1>7, <1>9, <2>0, <2>1
<1>13. s[n + 1] = ":" /\ s[n + 2] = "/" /\ s[n + 3] = "/"
  <2>1. s[n + 1] = mark[1] /\ s[n + 2] = mark[2] /\ s[n + 3] = mark[3]
    BY <1>12
  <2> QED BY <1>2, <2>1
<1>14. \A i \in 1..m : s[n + 3 + i] = a[i]
  <2> SUFFICES ASSUME NEW i \in 1..m PROVE s[n + 3 + i] = a[i]
    OBVIOUS
  <2>0. PICK k : k = n + 3 + i
    OBVIOUS
  <2>1. k \in 1..(n + 3) + (m + l) /\ ~(k <= n + 3) /\ k - (n + 3) = i /\ i \in 1..m + l /\ i <= m
    BY <1>5, <1>6, <2>0
  <2>2. s[k] = rest[i]
    BY <1>9, <2>1
  <2> QED BY <1>8, <2>0, <2>1, <2>2
<1>15. \A i \in 1..l : s[n + 3 + m + i] = path[i]
  <2> SUFFICES ASSUME NEW i \in 1..l PROVE s[n + 3 + m + i] = path[i]
    OBVIOUS
  <2>0. PICK k : k = n + 3 + m + i
    OBVIOUS
  <2>1. PICK h : h = m + i
    OBVIOUS
  <2>2. /\ k \in 1..(n + 3) + (m + l) /\ ~(k <= n + 3) /\ k - (n + 3) = h
        /\ h \in 1..m + l /\ ~(h <= m) /\ h - m = i
    BY <1>5, <1>6, <2>0, <2>1
  <2>3. s[k] = rest[h] /\ rest[h] = path[i]
    BY <1>8, <1>9, <2>2
  <2> QED BY <2>0, <2>3
<1> QED BY <1>5, <1>6, <1>9, <1>10, <1>11, <1>13, <1>14, <1>15 DEF TextIs

(* A URL as its author means it: no part contains what ends it, and a host *)
(* without a port no colon.  What is behind them is anything.              *)
IsUrl(url, Token) ==
  /\ url.scheme \in Seq(Token \ {"/"}) /\ url.scheme # <<>>
  /\ url.user \in Seq(Token \ {"/"})
  /\ url.host \in Seq(Token \ {"/", "@"})
  /\ url.port \in Seq(Token \ {"/", "@", ":"})
  /\ url.port = <<>> => url.host \in Seq(Token \ {"/", "@", ":"})
  /\ url.path \in Seq(Token)

HasParts(url, Token) ==
  /\ url.scheme \in Seq(Token) /\ url.user \in Seq(Token) /\ url.host \in Seq(Token)
  /\ url.port \in Seq(Token) /\ url.path \in Seq(Token)

LEMMA UrlHasParts ==
  ASSUME NEW Token, NEW url, IsUrl(url, Token)
  PROVE  HasParts(url, Token)
<1>1. /\ Token \ {"/"} \subseteq Token /\ Token \ {"/", "@"} \subseteq Token
      /\ Token \ {"/", "@", ":"} \subseteq Token
  OBVIOUS
<1>2. url.scheme \in Seq(Token) /\ url.user \in Seq(Token)
  BY <1>1, Wider DEF IsUrl
<1>3. url.host \in Seq(Token) /\ url.port \in Seq(Token)
  BY <1>1, Wider DEF IsUrl
<1> QED BY <1>2, <1>3 DEF IsUrl, HasParts

UserPart(url) == IF url.user = <<>> THEN <<>> ELSE url.user \o <<"@">>
PortPart(url) == IF url.port = <<>> THEN <<>> ELSE <<":">> \o url.port
HostPort(url) == url.host \o PortPart(url)

LEMMA RenderIs ==
  ASSUME NEW Token, {"~", "/", "@", ":"} \subseteq Token, NEW url, HasParts(url, Token),
         NEW a, a = UserPart(url) \o HostPort(url)
  PROVE  a \in Seq(Token) /\ IsText(Render(url), url.scheme, a, url.path)
<1>0. PICK front, user, host, port, path :
        /\ front = url.scheme \o Scheme /\ host = url.host /\ path = url.path
        /\ user = UserPart(url) /\ port = PortPart(url)
  OBVIOUS
<1>1. front \in Seq(Token)
  <2>1. Scheme \in Seq(Token)
    BY DEF Scheme
  <2> QED BY <1>0, <2>1 DEF HasParts
<1>2. user \in Seq(Token)
  <2>1. <<"@">> \in Seq(Token)
    OBVIOUS
  <2> QED BY <1>0, <2>1, EmptySeq DEF UserPart, HasParts
<1>3. host \in Seq(Token) /\ path \in Seq(Token)
  BY <1>0 DEF HasParts
<1>4. port \in Seq(Token)
  <2>1. <<":">> \in Seq(Token)
    OBVIOUS
  <2> QED BY <1>0, <2>1, EmptySeq DEF PortPart, HasParts
<1>5. Render(url) = (((front \o user) \o host) \o port) \o path
  BY <1>0 DEF Render, UserPart, PortPart
<1>6. a = user \o (host \o port)
  BY <1>0 DEF HostPort
<1>7. ((front \o user) \o host) \o port = front \o a
  <2>1. PICK fu : fu = front \o user
    OBVIOUS
  <2>2. PICK b : b = host \o port
    OBVIOUS
  <2>3. fu \in Seq(Token) /\ b \in Seq(Token)
    BY <1>1, <1>2, <1>3, <1>4, <2>1, <2>2
  <2>4. (fu \o host) \o port = fu \o b
    BY <1>3, <1>4, <2>2, <2>3, Assoc
  <2>5. fu \o b = front \o (user \o b)
    BY <1>1, <1>2, <2>1, <2>3, Assoc
  <2> QED BY <1>6, <2>1, <2>2, <2>4, <2>5
<1>8. a \in Seq(Token)
  BY <1>2, <1>3, <1>4, <1>6
<1>9. (front \o a) \o path = front \o (a \o path)
  <2>1. \A q, r \in Seq(Token) : (q \o r) \o path = q \o (r \o path)
    BY <1>3, Assoc
  <2> QED BY <1>1, <1>8, <2>1
<1> QED BY <1>0, <1>5, <1>7, <1>8, <1>9 DEF IsText

LEMMA SchemeAt ==
  ASSUME NEW Token, NEW s \in Seq(Token), NEW i \in 1..Len(s) - 2
  PROVE  SubSeq(s, i, i + 2) = Scheme <=> s[i] = ":" /\ s[i + 1] = "/" /\ s[i + 2] = "/"
<1>1. PICK part : part = SubSeq(s, i, i + 2)
  OBVIOUS
<1>2. part \in Seq(Token) /\ Len(part) = 3 /\ \A k \in 1..3 : part[k] = s[i + k - 1]
  <2>1. Len(s) \in Nat /\ i \in 1..Len(s) /\ i + 2 \in 1..Len(s) /\ i + 2 - i + 1 = 3
    OBVIOUS
  <2> QED BY <1>1, <2>1
<1>3. part[1] = s[i] /\ part[2] = s[i + 1] /\ part[3] = s[i + 2]
  <2>1. i + 1 - 1 = i /\ i + 2 - 1 = i + 1 /\ i + 3 - 1 = i + 2
    OBVIOUS
  <2>2. part[1] = s[i + 1 - 1] /\ part[2] = s[i + 2 - 1] /\ part[3] = s[i + 3 - 1]
    BY <1>2
  <2> QED BY <2>1, <2>2
<1>4. part = <<":", "/", "/">> <=> part[1] = ":" /\ part[2] = "/" /\ part[3] = "/"
  BY <1>2
<1> QED BY <1>1, <1>3, <1>4 DEF Scheme

(* What was put together as a URL is inspected as one.                     *)
LEMMA RenderHasScheme ==
  ASSUME NEW Token, {"~", "/", "@", ":"} \subseteq Token, NEW url, HasParts(url, Token),
         url.scheme # <<>>, \A i \in 1..Len(url.scheme) : url.scheme[i] # "/"
  PROVE  LooksLikeUrl(Render(url)) /\ ~LooksLikePath(Render(url))
<1>1. PICK s, scheme, a, path : /\ s = Render(url) /\ a = UserPart(url) \o HostPort(url)
                                /\ scheme = url.scheme /\ path = url.path
  OBVIOUS
<1>2. /\ scheme \in Seq(Token) /\ scheme # <<>> /\ \A i \in 1..Len(scheme) : scheme[i] # "/"
      /\ path \in Seq(Token)
  BY <1>1 DEF HasParts
<1>3. a \in Seq(Token) /\ IsText(s, scheme, a, path)
  BY <1>1, RenderIs
<1>4. PICK n, m : n = Len(scheme) /\ m = Len(a)
  OBVIOUS
<1>5. TextIs(s, scheme, a, path, Token, n, m)
  BY <1>2, <1>3, <1>4, Pieces
<1>6. n \in Nat \ {0} /\ m \in Nat /\ Len(path) \in Nat
  BY <1>2, <1>3, <1>4
<1>7. /\ s \in Seq(Token) /\ Len(s) \in Nat /\ n + 3 <= Len(s)
      /\ \A i \in 1..n : s[i] # "/"
      /\ s[n + 1] = ":" /\ s[n + 2] = "/" /\ s[n + 3] = "/"
  BY <1>2, <1>4, <1>5, <1>6 DEF TextIs
<1>8. s[1] # "/" /\ s[2] # "/"
  <2>1. 1 \in 1..n /\ (2 \in 1..n \/ 2 = n + 1)
    BY <1>6
  <2>2. 2 = n + 1 => s[2] = ":"
    BY <1>7
  <2> QED BY <1>7, <2>1, <2>2
<1>9. ~LooksLikePath(s)
  <2>1. ~IsPrefix(<<"/">>, s)
    BY <1>7, <1>8, Slash
  <2>2. ~InHome(s)
    BY <1>7, <1>8, HomeSlash
  <2> QED BY <2>1, <2>2 DEF LooksLikePath, InHome
<1>10. LooksLikeUrl(s)
  <2>1. PICK k : k = n + 1
    OBVIOUS
  <2>2. k \in 1..Len(s) - 2 /\ k + 1 = n + 2 /\ k + 2 = n + 3
    BY <1>6, <1>7, <2>1
  <2>3. SubSeq(s, k, k + 2) = Scheme
    BY <1>7, <2>1, <2>2, SchemeAt
  <2> QED BY <2>2, <2>3 DEF LooksLikeUrl, SchemeEnds
<1> QED BY <1>1, <1>9, <1>10

(* Without a slash, and with a colon only in front of something.           *)
LEMMA AuthorityIs ==
  ASSUME NEW Token, {"/", "@", ":"} \subseteq Token, NEW url, IsUrl(url, Token),
         NEW a, a = UserPart(url) \o HostPort(url)
  PROVE  /\ a \in Seq(Token \ {"/"}) /\ (a # <<>> => a[Len(a)] # ":")
         /\ From(a, LastOf(a, "@") + 1) = HostPort(url)
<1> DEFINE T == Token \ {"/"}
           N == Token \ {"/", "@"}
<1>0. PICK user, host, port : user = UserPart(url) /\ host = url.host /\ port = PortPart(url)
  OBVIOUS
<1>1. user \in Seq(T) /\ (user = <<>> \/ user[Len(user)] = "@")
  <2>1. CASE url.user = <<>>
    <3>1. user = <<>>
      BY <1>0, <2>1 DEF UserPart
    <3> QED BY <3>1
  <2>2. CASE url.user # <<>>
    <3>1. PICK u : u = url.user
      OBVIOUS
    <3>2. u \in Seq(T) /\ user = u \o <<"@">>
      BY <1>0, <2>2, <3>1 DEF UserPart, IsUrl
    <3>3. user = Append(u, "@")
      BY <3>2
    <3>4. "@" \in T
      OBVIOUS
    <3>5. user \in Seq(T) /\ Len(user) = Len(u) + 1 /\ user[Len(u) + 1] = "@"
      BY <3>2, <3>3, <3>4
    <3> QED BY <3>5
  <2> QED BY <2>1, <2>2
<1>2. host \in Seq(N)
  BY <1>0 DEF IsUrl
<1>3. port \in Seq(N) /\ (port # <<>> => port[Len(port)] # ":")
      /\ (port = <<>> <=> url.port = <<>>)
  <2>1. CASE url.port = <<>>
    <3>1. port = <<>>
      BY <1>0, <2>1 DEF PortPart
    <3> QED BY <2>1, <3>1
  <2>2. CASE url.port # <<>>
    <3>1. PICK p : p = url.port
      OBVIOUS
    <3>2. p \in Seq(Token \ {"/", "@", ":"}) /\ port = <<":">> \o p /\ p # <<>>
      BY <1>0, <2>2, <3>1 DEF PortPart, IsUrl
    <3>3. p \in Seq(N) /\ <<":">> \in Seq(N)
      BY <3>2
    <3>4. Joined(<<":">>, p, N)
      BY <3>3, JoinedIs
    <3>5. Len(p) \in Nat \ {0} /\ p[Len(p)] # ":"
      BY <3>2
    <3>6. PICK m : m = Len(p)
      OBVIOUS
    <3>7. m \in Nat \ {0} /\ p[m] # ":"
      BY <3>5, <3>6
    <3>8. /\ port \in Seq(N) /\ Len(port) = 1 + m
          /\ \A i \in 1..1 + m : port[i] = IF i <= 1 THEN (<<":">>)[i] ELSE p[i - 1]
      BY <3>2, <3>4, <3>6 DEF Joined
    <3>0. PICK k : k = 1 + m
      OBVIOUS
    <3>9. k \in 1..1 + m /\ ~(k <= 1) /\ k - 1 = m
      BY <3>0, <3>7
    <3>10. port[1 + m] = p[m]
      BY <3>0, <3>8, <3>9
    <3>11. port # <<>>
      BY <3>8, <3>9
    <3> QED BY <2>2, <3>7, <3>8, <3>10, <3>11
  <2> QED BY <2>1, <2>2
<1>4. PICK b : b = HostPort(url)
  OBVIOUS
<1>5. b = host \o port /\ a = user \o b
  BY <1>0, <1>4 DEF HostPort
<1>6. b \in Seq(N) /\ Joined(host, port, N)
  BY <1>2, <1>3, <1>5, JoinedIs DEF Joined
<1>7. b # <<>> => b[Len(b)] # ":"
  <2>0. Len(host) \in Nat /\ Len(port) \in Nat /\ (Len(port) = 0 <=> port = <<>>)
    BY <1>2, <1>3
  <2>1. CASE port = <<>>
    <3>1. b = host
      BY <1>2, <1>5, <2>1
    <3>2. host \in Seq(Token \ {"/", "@", ":"})
      BY <1>0, <1>3, <2>1 DEF IsUrl
    <3>3. host # <<>> => Len(host) \in 1..Len(host) /\ host[Len(host)] # ":"
      BY <3>2
    <3> QED BY <3>1, <3>3
  <2>2. CASE port # <<>>
    <3>1. PICK l : l = Len(b)
      OBVIOUS
    <3>2. /\ l = Len(host) + Len(port)
          /\ \A i \in 1..Len(host) + Len(port) : b[i] = IF i <= Len(host) THEN host[i]
                                                       ELSE port[i - Len(host)]
      BY <1>5, <1>6, <3>1 DEF Joined
    <3>3. l \in 1..Len(host) + Len(port) /\ ~(l <= Len(host)) /\ l - Len(host) = Len(port)
      BY <2>0, <2>2, <3>2
    <3>4. b[l] = port[Len(port)]
      BY <3>2, <3>3
    <3> QED BY <1>3, <2>2, <3>1, <3>4
  <2> QED BY <2>1, <2>2
<1>8. b \in Seq(T)
  <2>1. N \subseteq T
    OBVIOUS
  <2> QED BY <1>6, <2>1, Wider
<1>9. a \in Seq(T) /\ Joined(user, b, T)
  BY <1>1, <1>5, <1>8, JoinedIs DEF Joined
<1>10. a # <<>> => a[Len(a)] # ":"
  <2>0. Len(user) \in Nat /\ Len(b) \in Nat /\ (Len(b) = 0 <=> b = <<>>)
    BY <1>1, <1>6
  <2>1. CASE b = <<>>
    <3>1. a = user
      BY <1>1, <1>5, <2>1
    <3> QED BY <1>1, <3>1
  <2>2. CASE b # <<>>
    <3>1. PICK l : l = Len(a)
      OBVIOUS
    <3>2. /\ l = Len(user) + Len(b)
          /\ \A i \in 1..Len(user) + Len(b) : a[i] = IF i <= Len(user) THEN user[i]
                                                    ELSE b[i - Len(user)]
      BY <1>5, <1>9, <3>1 DEF Joined
    <3>3. l \in 1..Len(user) + Len(b) /\ ~(l <= Len(user)) /\ l - Len(user) = Len(b)
      BY <2>0, <2>2, <3>2
    <3>4. a[l] = b[Len(b)]
      BY <3>2, <3>3
    <3> QED BY <1>7, <2>2, <3>1, <3>4
  <2> QED BY <2>1, <2>2
<1>11. LastOf(a, "@") = Len(user)
  <2>1. \A i \in 1..Len(b) : b[i] # "@"
    BY <1>6
  <2> QED BY <1>1, <1>5, <1>8, <2>1, LastInFront
<1>12. From(a, Len(user) + 1) = b
  BY <1>1, <1>5, <1>8, Halves
<1> QED BY <1>4, <1>9, <1>10, <1>11, <1>12

LEMMA HostAndPort ==
  ASSUME NEW Token, {"/", "@", ":"} \subseteq Token, NEW url, IsUrl(url, Token),
         NEW b, b = HostPort(url), NEW colon, colon = LastOf(b, ":")
  PROVE  IF url.port = <<>> THEN colon = 0 /\ b = url.host
         ELSE /\ colon # 0 /\ SubSeq(b, 1, colon - 1) = url.host
              /\ From(b, colon + 1) = url.port
<1>0. PICK host, port : host = url.host /\ port = url.port
  OBVIOUS
<1>1. host \in Seq(Token) /\ port \in Seq(Token \ {"/", "@", ":"})
  <2>1. host \in Seq(Token \ {"/", "@"}) /\ port \in Seq(Token \ {"/", "@", ":"})
    BY <1>0 DEF IsUrl
  <2> QED BY <2>1
<1>2. port \in Seq(Token) /\ \A i \in 1..Len(port) : port[i] # ":"
  BY <1>1
<1>3. CASE port = <<>>
  <2>1. host \in Seq(Token \ {"/", "@", ":"})
    BY <1>0, <1>3 DEF IsUrl
  <2>2. b = host
    BY <1>0, <1>1, <1>3 DEF HostPort, PortPart
  <2>3. \A i \in 1..Len(host) : host[i] # ":"
    BY <2>1
  <2>4. LastOf(<<>> \o host, ":") = Len(<<>>)
    BY <1>1, <2>3, LastInFront, EmptySeq
  <2>5. <<>> \o host = host /\ Len(<<>>) = 0
    BY <1>1
  <2> QED BY <1>0, <1>3, <2>2, <2>4, <2>5
<1>4. CASE port # <<>>
  <2>1. PICK q : q = host \o <<":">>
    OBVIOUS
  <2>2. q \in Seq(Token) /\ Len(q) = Len(host) + 1 /\ q[Len(q)] = ":" /\ Len(host) \in Nat
    <3>1. q = Append(host, ":")
      BY <1>1, <2>1
    <3> QED BY <1>1, <3>1
  <2>3. b = host \o (<<":">> \o port)
    BY <1>0, <1>4 DEF HostPort, PortPart
  <2>4. b = q \o port
    <3>1. <<":">> \in Seq(Token)
      OBVIOUS
    <3> QED BY <1>1, <1>2, <2>1, <2>3, <3>1, Assoc
  <2>5. colon = Len(q)
    BY <1>2, <2>2, <2>4, LastInFront
  <2>6. From(b, colon + 1) = port
    BY <1>2, <2>2, <2>4, <2>5, Halves
  <2>7. SubSeq(b, 1, colon - 1) = host
    <3>1. <<":">> \o port \in Seq(Token)
      BY <1>2
    <3>2. SubSeq(b, 1, Len(host)) = host
      BY <1>1, <2>3, <3>1, Halves
    <3>3. colon - 1 = Len(host)
      BY <2>2, <2>5
    <3> QED BY <3>2, <3>3
  <2> QED BY <1>0, <1>4, <2>2, <2>5, <2>6, <2>7
<1> QED BY <1>0, <1>3, <1>4

(* The first slash of a text whose first m tokens are none.                *)
LEMMA FirstSlash ==
  ASSUME NEW Token, NEW s \in Seq(Token), NEW m \in 0..Len(s),
         \A j \in 1..m : s[j] # "/", m < Len(s) => s[m + 1] = "/",
         NEW slash, slash = SelectInSeq(s, LAMBDA t : t = "/")
  PROVE  slash = IF m = Len(s) THEN 0 ELSE m + 1
<1>1. PICK I : I = {j \in 1..Len(s) : s[j] = "/"}
  OBVIOUS
<1>2. slash = IF I # {} THEN Min(I) ELSE 0
  BY <1>1 DEF SelectInSeq
<1>3. Len(s) \in Nat /\ I \in SUBSET Nat /\ \A j \in I : j \in 1..Len(s) /\ s[j] = "/"
  BY <1>1
<1>4. \A j \in I : m + 1 <= j
  BY <1>3
<1>5. CASE m = Len(s)
  <2>1. I = {}
    BY <1>3, <1>4, <1>5
  <2> QED BY <1>2, <1>5, <2>1
<1>6. CASE m # Len(s)
  <2>1. m + 1 \in 1..Len(s) /\ s[m + 1] = "/"
    BY <1>3, <1>6
  <2>2. m + 1 \in I
    BY <1>1, <2>1
  <2>3. Min(I) = m + 1
    BY <1>3, <1>4, <2>2, MinIs
  <2> QED BY <1>2, <1>6, <2>2, <2>3
<1> QED BY <1>5, <1>6

LEMMA ParseRendered ==
  ASSUME NEW Token, {"~", "/", "@", ":"} \subseteq Token, NEW url, IsUrl(url, Token),
         EndsAtSlash(url)
  PROVE  ParseHostPort(Render(url)) =
           [host |-> url.host,
            port |-> IF url.port = <<>> THEN DefaultPort(url.scheme) ELSE U16(url.port)]
<1>1. PICK a, scheme, path : /\ a = UserPart(url) \o HostPort(url)
                             /\ scheme = url.scheme /\ path = url.path
  OBVIOUS
<1>2. /\ a \in Seq(Token \ {"/"}) /\ (a # <<>> => a[Len(a)] # ":")
      /\ From(a, LastOf(a, "@") + 1) = HostPort(url)
  BY <1>1, AuthorityIs
<1>3. /\ scheme \in Seq(Token \ {"/"}) /\ path \in Seq(Token)
      /\ path # <<>> => path[1] = "/"
  <2>1. scheme \in Seq(Token \ {"/"}) /\ path \in Seq(Token)
    BY <1>1 DEF IsUrl
  <2>2. path = <<>> \/ Head(path) = "/"
    BY <1>1 DEF EndsAtSlash
  <2> QED BY <2>1, <2>2
<1>4. PICK s : s = Render(url)
  OBVIOUS
<1>5. IsText(s, scheme, a, path)
  BY <1>1, <1>4, UrlHasParts, RenderIs
<1>6. PICK n, m, l : n = Len(scheme) /\ m = Len(a) /\ l = Len(path)
  OBVIOUS
<1>7. scheme \in Seq(Token) /\ a \in Seq(Token)
  BY <1>2, <1>3
<1>8. /\ s \in Seq(Token) /\ n \in Nat /\ m \in Nat /\ l \in Nat /\ Len(s) = n + 3 + m + l
      /\ \A i \in 1..n : s[i] = scheme[i]
      /\ s[n + 1] = ":" /\ s[n + 2] = "/" /\ s[n + 3] = "/"
      /\ \A i \in 1..m : s[n + 3 + i] = a[i]
      /\ \A i \in 1..l : s[n + 3 + m + i] = path[i]
  <2>1. TextIs(s, scheme, a, path, Token, n, m)
    BY <1>3, <1>5, <1>6, <1>7, Pieces
  <2>2. l \in Nat
    BY <1>3, <1>6
  <2> QED BY <1>6, <2>1, <2>2 DEF TextIs
<1>9. /\ \A i \in 1..n : s[i] # "/"
      /\ \A i \in 1..m : s[n + 3 + i] # "/"
      /\ m # 0 => s[n + 3 + m] # ":"
      /\ l # 0 => s[n + 4 + m] = "/"
  <2>1. \A i \in 1..n : scheme[i] # "/"
    BY <1>3, <1>6
  <2>2. \A i \in 1..m : a[i] # "/"
    BY <1>2, <1>6
  <2>3. m # 0 => m \in 1..m /\ a[m] # ":"
    BY <1>2, <1>6, <1>8
  <2>4. l # 0 => 1 \in 1..l /\ path[1] = "/" /\ n + 3 + m + 1 = n + 4 + m
    BY <1>3, <1>6, <1>8
  <2>5. l # 0 => s[n + 3 + m + 1] = "/"
    BY <1>8, <2>4
  <2>6. m # 0 => s[n + 3 + m] # ":"
    BY <1>8, <2>3
  <2> QED BY <1>8, <2>1, <2>2, <2>4, <2>5, <2>6
<1>10. \A i, from \in Nat \ {0} :
         i \in SchemeEnds(s, from) <=>
           i >= from /\ i + 2 <= Len(s) /\ s[i] = ":" /\ s[i + 1] = "/" /\ s[i + 2] = "/"
  <2> SUFFICES ASSUME NEW i \in Nat \ {0}, NEW from \in Nat \ {0}
               PROVE  i \in SchemeEnds(s, from) <=>
                        i >= from /\ i + 2 <= Len(s) /\ s[i] = ":" /\ s[i + 1] = "/" /\ s[i + 2] = "/"
    OBVIOUS
  <2>0. Len(s) \in Nat
    BY <1>8
  <2>1. i \in SchemeEnds(s, from) <=> i \in from..Len(s) - 2 /\ SubSeq(s, i, i + 2) = Scheme
    BY DEF SchemeEnds
  <2>2. i \in from..Len(s) - 2 <=> i >= from /\ i + 2 <= Len(s)
    BY <2>0
  <2>3. i \in from..Len(s) - 2 => i \in 1..Len(s) - 2
    BY <2>0
  <2>4. i \in 1..Len(s) - 2 =>
          (SubSeq(s, i, i + 2) = Scheme <=> s[i] = ":" /\ s[i + 1] = "/" /\ s[i + 2] = "/")
    BY <1>8, SchemeAt
  <2> QED BY <2>1, <2>2, <2>3, <2>4
<1>11. \A from \in Nat \ {0} : SchemeEnds(s, from) \in SUBSET (Nat \ {0})
  <2>1. Len(s) \in Nat
    BY <1>8
  <2> QED BY <2>1 DEF SchemeEnds
<1>12. Min(SchemeEnds(s, 1)) = n + 1
  <2>1. n + 1 \in SchemeEnds(s, 1)
    <3>1. n + 1 \in Nat \ {0} /\ n + 1 >= 1 /\ n + 1 + 2 <= Len(s) /\ n + 1 + 1 = n + 2
          /\ n + 1 + 2 = n + 3
      BY <1>8
    <3> QED BY <1>8, <1>10, <3>1
  <2>2. ASSUME NEW i \in SchemeEnds(s, 1) PROVE n + 1 =< i
    <3> SUFFICES ASSUME ~(n + 1 =< i) PROVE FALSE
      OBVIOUS
    <3>1. i \in Nat \ {0} /\ s[i + 1] = "/"
      BY <1>10, <1>11
    <3>2. PICK k : k = i + 1
      OBVIOUS
    <3>3. k \in 1..n \/ k = n + 1
      BY <1>8, <3>1, <3>2
    <3>4. s[k] # "/"
      BY <1>8, <1>9, <3>3
    <3> QED BY <3>1, <3>2, <3>4
  <2>3. SchemeEnds(s, 1) \in SUBSET Nat
    BY <1>11
  <2> QED BY <2>1, <2>2, <2>3, MinIs
<1>13. PICK next : next = SchemeEnds(s, n + 1 + 3)
  OBVIOUS
<1>14. PICK e : e = IF next = {} THEN Len(s) ELSE Min(next) - 1
  OBVIOUS
<1>15. /\ e \in Nat /\ n + 3 + m <= e /\ e <= Len(s)
       /\ l # 0 => n + 4 + m <= e
  <2>0. n + 1 + 3 \in Nat \ {0} /\ next \in SUBSET (Nat \ {0})
    <3>1. n + 1 + 3 \in Nat \ {0}
      BY <1>8
    <3> QED BY <1>11, <1>13, <3>1
  <2>1. ASSUME NEW k \in next
        PROVE  k \in Nat \ {0} /\ n + 3 + m + 2 <= k /\ k <= Len(s)
    <3>1. /\ k \in Nat \ {0} /\ k >= n + 1 + 3 /\ k + 2 <= Len(s)
          /\ s[k] = ":" /\ s[k + 1] = "/"
      BY <1>10, <1>13, <2>0
    <3>2. PICK j : j = k - (n + 3)
      OBVIOUS
    <3>3. j \in Nat \ {0} /\ k = n + 3 + j /\ k + 1 = n + 3 + (j + 1)
      BY <1>8, <3>1, <3>2
    <3>4. ~(j + 1 <= m)
      <4> SUFFICES ASSUME j + 1 <= m PROVE FALSE
        OBVIOUS
      <4>1. j + 1 \in 1..m
        BY <1>8, <3>3
      <4> QED BY <1>9, <3>1, <3>3, <4>1
    <3>5. j # m
      BY <1>9, <3>1, <3>3
    <3>6. j # m + 1
      <4> SUFFICES ASSUME j = m + 1 PROVE FALSE
        OBVIOUS
      <4>1. k = n + 4 + m /\ l # 0
        BY <1>8, <3>1, <3>3
      <4> QED BY <1>9, <3>1, <4>1
    <3> QED BY <1>8, <3>1, <3>3, <3>4, <3>5, <3>6
  <2>2. CASE next = {}
    BY <1>8, <1>14, <2>2
  <2>3. CASE next # {}
    <3>1. next \in SUBSET Nat
      BY <2>0
    <3>2. PICK k \in next : \A y \in next : k =< y
      BY <2>3, <3>1, LeastOf
    <3>3. Min(next) = k
      BY <3>1, <3>2, MinIs
    <3>4. e = k - 1
      BY <1>14, <2>3, <3>3
    <3> QED BY <1>8, <2>1, <3>4
  <2> QED BY <2>2, <2>3
<1>16. PICK after : after = SubSeq(s, n + 1 + 3, e)
  OBVIOUS
<1>17. PICK h : h = e - (n + 3)
  OBVIOUS
<1>18. h \in Nat /\ m <= h /\ h <= m + l /\ (l # 0 => m < h) /\ (l = 0 => h = m)
  BY <1>8, <1>15, <1>17
<1>19. /\ after \in Seq(Token) /\ Len(after) = h /\ \A j \in 1..h : after[j] = s[n + 3 + j]
  <2>1. PICK i : i = n + 1 + 3
    OBVIOUS
  <2>2. i \in Nat \ {0} /\ e \in Nat /\ e <= Len(s) /\ e - i + 1 = h /\ i <= e + 1
    BY <1>8, <1>15, <1>17, <2>1
  <2>3. /\ after \in Seq(Token) /\ Len(after) = h /\ \A j \in 1..h : after[j] = s[i + j - 1]
    BY <1>8, <1>16, <1>18, <2>1, <2>2
  <2>4. \A j \in 1..h : i + j - 1 = n + 3 + j
    BY <1>8, <2>1
  <2> QED BY <2>3, <2>4
<1>20. PICK slash : slash = SelectInSeq(after, LAMBDA t : t = "/")
  OBVIOUS
<1>21. slash = IF m = h THEN 0 ELSE m + 1
  <2>1. m \in 0..Len(after) /\ (\A j \in 1..m : after[j] # "/")
    <3>1. m \in 0..Len(after)
      BY <1>8, <1>18, <1>19
    <3>2. \A j \in 1..m : j \in 1..h
      BY <1>8, <1>18
    <3> QED BY <1>9, <1>19, <3>1, <3>2
  <2>2. m < Len(after) => after[m + 1] = "/"
    <3> SUFFICES ASSUME m < h PROVE after[m + 1] = "/"
      BY <1>19
    <3>1. m + 1 \in 1..h /\ l # 0 /\ n + 3 + (m + 1) = n + 4 + m
      BY <1>8, <1>18
    <3> QED BY <1>9, <1>19, <3>1
  <2>3. slash = IF m = Len(after) THEN 0 ELSE m + 1
    BY <1>19, <1>20, <2>1, <2>2, FirstSlash
  <2> QED BY <1>19, <2>3
<1>22. a = IF slash = 0 THEN after ELSE SubSeq(after, 1, slash - 1)
  <2>1. \A j \in 1..m : after[j] = a[j]
    <3>1. \A j \in 1..m : j \in 1..h
      BY <1>8, <1>18
    <3> QED BY <1>8, <1>19, <3>1
  <2>2. CASE m = h
    <3>1. slash = 0
      BY <1>21, <2>2
    <3>2. a = after
      <4>1. after \in Seq(Token) /\ a \in Seq(Token) /\ Len(a) = m /\ Len(after) = m
        BY <1>6, <1>7, <1>19, <2>2
      <4> QED BY <2>1, <4>1
    <3> QED BY <3>1, <3>2
  <2>3. CASE m # h
    <3>1. slash = m + 1 /\ slash # 0 /\ slash - 1 = m
      BY <1>8, <1>21, <2>3
    <3>2. PICK part : part = SubSeq(after, 1, m)
      OBVIOUS
    <3>3. part \in Seq(Token) /\ Len(part) = m /\ \A j \in 1..m : part[j] = after[j]
      BY <1>8, <1>18, <1>19, <3>2
    <3>4. part = a
      BY <1>6, <1>7, <2>1, <3>3
    <3> QED BY <3>1, <3>2, <3>4
  <2> QED BY <2>2, <2>3
<1>23. PICK b, colon : b = HostPort(url) /\ colon = LastOf(b, ":")
  OBVIOUS
<1>24. ParseHostPort(s) =
         IF colon = 0 THEN [host |-> b, port |-> DefaultPort(SubSeq(s, 1, n + 1 - 1))]
         ELSE [host |-> SubSeq(b, 1, colon - 1), port |-> U16(From(b, colon + 1))]
  <2>1. PICK i : i = Min(SchemeEnds(s, 1))
    OBVIOUS
  <2>2. PICK later : later = SchemeEnds(s, i + 3)
    OBVIOUS
  <2>3. PICK rest : rest = SubSeq(s, i + 3, IF later = {} THEN Len(s) ELSE Min(later) - 1)
    OBVIOUS
  <2>4. PICK first : first = SelectInSeq(rest, LAMBDA t : t = "/")
    OBVIOUS
  <2>5. PICK authority : authority = IF first = 0 THEN rest ELSE SubSeq(rest, 1, first - 1)
    OBVIOUS
  <2>6. PICK hostPort : hostPort = From(authority, LastOf(authority, "@") + 1)
    OBVIOUS
  <2>7. ParseHostPort(s) =
          IF LastOf(hostPort, ":") = 0
          THEN [host |-> hostPort, port |-> DefaultPort(SubSeq(s, 1, i - 1))]
          ELSE [host |-> SubSeq(hostPort, 1, LastOf(hostPort, ":") - 1),
                port |-> U16(From(hostPort, LastOf(hostPort, ":") + 1))]
    BY <2>1, <2>2, <2>3, <2>4, <2>5, <2>6 DEF ParseHostPort
  <2>8. i = n + 1 /\ later = next /\ rest = after
    BY <1>12, <1>13, <1>14, <1>16, <2>1, <2>2, <2>3
  <2>9. first = slash
    BY <1>20, <2>4, <2>8
  <2>10. authority = a /\ hostPort = b
    BY <1>2, <1>22, <1>23, <2>5, <2>6, <2>8, <2>9
  <2>11. hostPort = b
    BY <2>10
  <2>12. LastOf(hostPort, ":") = colon
    BY <1>23, <2>11
  <2>13. i - 1 = n + 1 - 1
    BY <1>8, <2>8
  <2> QED BY <2>7, <2>11, <2>12, <2>13
<1>25. SubSeq(s, 1, n + 1 - 1) = url.scheme
  <2>1. n + 1 - 1 = n
    BY <1>8
  <2>2. PICK part : part = SubSeq(s, 1, n)
    OBVIOUS
  <2>3. part \in Seq(Token) /\ Len(part) = n /\ \A i \in 1..n : part[i] = s[i]
    BY <1>8, <2>2
  <2>4. part = scheme
    BY <1>6, <1>7, <1>8, <2>3
  <2> QED BY <1>1, <2>1, <2>2, <2>4
<1>26. IF url.port = <<>> THEN colon = 0 /\ b = url.host
       ELSE /\ colon # 0 /\ SubSeq(b, 1, colon - 1) = url.host
            /\ From(b, colon + 1) = url.port
  BY <1>23, HostAndPort
<1> QED BY <1>4, <1>24, <1>25, <1>26

(* A call with one string is judged by it.                                 *)
LEMMA Inspected ==
  ASSUME NEW s, NEW m
  PROVE  CheckMessage("tools/call", <<s>>, m) = CheckString(s, m)
<1>1. PICK denied : denied = {i \in DOMAIN <<s>> : CheckString((<<s>>)[i], m) # "allow"}
  OBVIOUS
<1>2. DOMAIN <<s>> = {1} /\ (<<s>>)[1] = s
  OBVIOUS
<1>3. CASE CheckString(s, m) = "allow"
  <2>1. denied = {}
    BY <1>1, <1>2, <1>3
  <2> QED BY <1>1, <1>3, <2>1 DEF CheckMessage
<1>4. CASE CheckString(s, m) # "allow"
  <2>1. denied = {1}
    BY <1>1, <1>2, <1>4
  <2>2. Min({1}) = 1
    BY DEF Min
  <2>3. CheckMessage("tools/call", <<s>>, m) = CheckString((<<s>>)[Min(denied)], m)
    BY <1>1, <2>1 DEF CheckMessage
  <2> QED BY <1>2, <2>1, <2>2, <2>3
<1> QED BY <1>3, <1>4

LEMMA PortsAgree ==
  ASSUME NEW m, NEW host, NEW port, AllowsNetworkConnection(m, host, port)
  PROVE  MayConnect(GenerateSbplProfile(m, ToolPath), port)
<1>1. PICK rule \in m.allow : NetworkRuleMatches(rule, host, port)
  BY DEF AllowsNetworkConnection
<1>2. PICK colon : colon = LastOf(rule, ":")
  OBVIOUS
<1>3. PICK p : p = From(rule, colon + 1)
  OBVIOUS
<1>4. colon > 0 /\ (p = <<"*">> \/ (U16(p) = port /\ port >= 0))
  BY <1>1, <1>2, <1>3 DEF NetworkRuleMatches, NetworkPortMatches
<1>5. NetworkRuleToSbpl(rule) = {Connect(p)}
  BY <1>2, <1>3, <1>4 DEF NetworkRuleToSbpl
<1>6. Connect(p) \in GenerateSbplProfile(m, ToolPath)
  BY <1>5 DEF GenerateSbplProfile, NetworkRules
<1>7. Connect(p).op = "connect" /\ Connect(p).port = p
  BY DEF Connect
<1> QED BY <1>4, <1>6, <1>7 DEF MayConnect

-----------------------------------------------------------------------------
(* Traversals: the decoding as an equation that has a solution.            *)

LEMMA FromTheEnd ==
  ASSUME NEW n \in Nat, NEW S,
         \A i \in 1..n : (\A k \in i + 1..n : k \in S) => i \in S
  PROVE  \A i \in 1..n : i \in S
<1> SUFFICES ASSUME (1..n) \ S # {} PROVE FALSE
  OBVIOUS
<1>1. (1..n) \ S \in SUBSET (1..n)
  OBVIOUS
<1>2. PICK x \in (1..n) \ S : \A y \in (1..n) \ S : x >= y
  BY <1>1, GreatestOf
<1>3. \A k \in x + 1..n : k \in S
  BY <1>2
<1> QED BY <1>2, <1>3

DecodeStep(f, s, i) ==
  IF i > Len(s) THEN <<>>
  ELSE IF s[i] # "%" THEN <<s[i]>> \o f[i + 1]
  ELSE IF i + 2 > Len(s) THEN From(s, i)
  ELSE Encoded(s[i + 1], s[i + 2]) \o f[i + 3]

IsDecode(f, s) == f = [i \in 1..Len(s) + 1 |-> DecodeStep(f, s, i)]

(* A function that solves it from the i-th token on.                       *)
DecodesFrom(f, s, i) ==
  /\ f = [k \in 1..Len(s) + 1 |-> f[k]]
  /\ \A k \in i..Len(s) + 1 : f[k] = DecodeStep(f, s, k)

LEMMA DecodeOneMore ==
  ASSUME NEW s, Len(s) \in Nat, NEW i \in 1..Len(s), NEW f, DecodesFrom(f, s, i + 1)
  PROVE  \E g : DecodesFrom(g, s, i)
<1> DEFINE g == [k \in 1..Len(s) + 1 |-> IF k = i THEN DecodeStep(f, s, i) ELSE f[k]]
<1>1. \A k \in i + 1..Len(s) + 1 : g[k] = f[k]
  OBVIOUS
<1>2. g[i] = DecodeStep(f, s, i)
  OBVIOUS
<1>3. g = [k \in 1..Len(s) + 1 |-> g[k]]
  OBVIOUS
<1> HIDE DEF g
<1>4. ASSUME NEW k \in i..Len(s) + 1
      PROVE  DecodeStep(g, s, k) = DecodeStep(f, s, k)
  <2>1. k <= Len(s) => k + 1 \in i + 1..Len(s) + 1
    BY <1>4
  <2>2. ~(k + 2 > Len(s)) => k + 3 \in i + 1..Len(s) + 1
    BY <1>4
  <2>3. k > Len(s) \/ k <= Len(s)
    BY <1>4
  <2> QED BY <1>1, <2>1, <2>2, <2>3 DEF DecodeStep
<1>5. ASSUME NEW k \in i..Len(s) + 1
      PROVE  g[k] = DecodeStep(f, s, k)
  <2>1. CASE k = i
    BY <1>2, <2>1
  <2>2. CASE k # i
    <3>1. k \in i + 1..Len(s) + 1
      BY <1>5, <2>2
    <3> QED BY <1>1, <3>1 DEF DecodesFrom
  <2> QED BY <2>1, <2>2
<1>6. DecodesFrom(g, s, i)
  BY <1>3, <1>4, <1>5 DEF DecodesFrom
<1> QED BY <1>6

LEMMA DecodeExists ==
  ASSUME NEW s, Len(s) \in Nat
  PROVE  \E f : IsDecode(f, s)
<1> DEFINE S == {k \in 0..Len(s) : \E f : DecodesFrom(f, s, k + 1)}
<1>1. Len(s) \in S
  <2> DEFINE none == [k \in 1..Len(s) + 1 |-> <<>>]
  <2>1. none = [k \in 1..Len(s) + 1 |-> none[k]] /\ \A k \in 1..Len(s) + 1 : none[k] = <<>>
    OBVIOUS
  <2> HIDE DEF none
  <2>2. DecodesFrom(none, s, Len(s) + 1)
    BY <2>1 DEF DecodesFrom, DecodeStep
  <2> QED BY <2>2
<1>2. \A k \in 1..Len(s) : k \in S => k - 1 \in S
  <2> SUFFICES ASSUME NEW k \in 1..Len(s), NEW f, DecodesFrom(f, s, k + 1)
               PROVE  \E g : DecodesFrom(g, s, k - 1 + 1)
    OBVIOUS
  <2>1. \E g : DecodesFrom(g, s, k)
    BY DecodeOneMore
  <2>2. k - 1 + 1 = k
    OBVIOUS
  <2> QED BY <2>1, <2>2
<1>3. 0 \in S
  <2> HIDE DEF S
  <2> QED BY <1>1, <1>2, Downwards
<1>4. PICK f : DecodesFrom(f, s, 1)
  BY <1>3
<1>5. f = [k \in 1..Len(s) + 1 |-> DecodeStep(f, s, k)]
  <2>1. f = [k \in 1..Len(s) + 1 |-> f[k]]
    BY <1>4 DEF DecodesFrom
  <2>2. \A k \in 1..Len(s) + 1 : f[k] = DecodeStep(f, s, k)
    BY <1>4 DEF DecodesFrom
  <2> QED BY <2>1, <2>2
<1> QED BY <1>5 DEF IsDecode

LEMMA DecodeIs ==
  ASSUME NEW s, Len(s) \in Nat
  PROVE  \E f : IsDecode(f, s) /\ DecodeTraversalChars(s) = f[1]
<1> DEFINE rest == CHOOSE f : IsDecode(f, s)
<1>1. IsDecode(rest, s)
  BY DecodeExists
<1>2. DecodeTraversalChars(s) = rest[1]
  BY DEF DecodeTraversalChars, IsDecode, DecodeStep
<1> QED BY <1>1, <1>2

-----------------------------------------------------------------------------
(* A unit is a token, or three that spell one; what it is decoded to.      *)

Code(s, i) ==
  /\ i \in 1..Len(s) - 2 /\ s[i] = "%"
  /\ \/ s[i + 1] = "2" /\ s[i + 2] \in {"e", "E", "f", "F"}
     \/ s[i + 1] = "5" /\ s[i + 2] \in {"c", "C"}
Width(s, i) == IF Code(s, i) THEN 3 ELSE 1
DecodedAt(s, i) == IF Code(s, i) THEN Encoded(s[i + 1], s[i + 2])[1] ELSE s[i]

LEMMA CodeMeans ==
  ASSUME NEW s, NEW i, Code(s, i)
  PROVE  /\ Encoded(s[i + 1], s[i + 2]) = <<DecodedAt(s, i)>>
         /\ DecodedAt(s, i) \in {".", "/", "\\"}
BY DEF Code, Encoded, DecodedAt

(* The signs that the decoding compares with or puts in, as tokens.        *)
HasSigns(Token) == {".", "/", "\\", "%"} \subseteq Token

LEMMA DecodedTokens ==
  ASSUME NEW Token, HasSigns(Token), NEW s \in Seq(Token),
         NEW f, IsDecode(f, s)
  PROVE  /\ \A i \in 1..Len(s) + 1 : f[i] \in Seq(Token)
         /\ \A i \in 1..Len(s) + 1 : f[i] = DecodeStep(f, s, i)
<1>0. Len(s) \in Nat
  OBVIOUS
<1>1. \A i \in 1..Len(s) + 1 : f[i] = DecodeStep(f, s, i)
  BY DEF IsDecode
<1> DEFINE S == {i \in 1..Len(s) + 1 : f[i] \in Seq(Token)}
<1>2. ASSUME NEW i \in 1..Len(s) + 1, \A k \in i + 1..Len(s) + 1 : f[k] \in Seq(Token)
      PROVE  f[i] \in Seq(Token)
  <2>0. f[i] = DecodeStep(f, s, i)
    BY <1>1
  <2>1. CASE i > Len(s)
    BY <2>0, <2>1 DEF DecodeStep
  <2>2. CASE i <= Len(s) /\ s[i] # "%"
    <3>1. s[i] \in Token /\ i + 1 \in i + 1..Len(s) + 1
      BY <1>0, <2>2
    <3>2. f[i] = <<s[i]>> \o f[i + 1]
      BY <1>0, <2>0, <2>2 DEF DecodeStep
    <3>3. <<s[i]>> \in Seq(Token) /\ f[i + 1] \in Seq(Token)
      BY <1>2, <3>1
    <3> QED BY <3>2, <3>3
  <2>3. CASE i <= Len(s) /\ s[i] = "%" /\ i + 2 > Len(s)
    <3>1. f[i] = SubSeq(s, i, Len(s))
      BY <1>0, <2>0, <2>3 DEF DecodeStep, From
    <3> QED BY <1>0, <2>3, <3>1
  <2>4. CASE i <= Len(s) /\ s[i] = "%" /\ i + 2 <= Len(s)
    <3>1. i + 3 \in i + 1..Len(s) + 1 /\ i + 1 \in 1..Len(s) /\ i + 2 \in 1..Len(s)
      BY <1>0, <2>4
    <3>2. f[i] = Encoded(s[i + 1], s[i + 2]) \o f[i + 3]
      <4>1. ~(i > Len(s)) /\ ~(i + 2 > Len(s)) /\ ~(s[i] # "%")
        BY <1>0, <2>4
      <4> QED BY <2>0, <4>1 DEF DecodeStep
    <3>3. Encoded(s[i + 1], s[i + 2]) \in Seq(Token)
      <4>1. PICK a \in Token, b \in Token : a = s[i + 1] /\ b = s[i + 2]
        BY <3>1
      <4>2. Encoded(a, b) \in {<<".">>, <<"/">>, <<"\\">>, <<"%", a, b>>}
        BY DEF Encoded
      <4>3. <<".">> \in Seq(Token) /\ <<"/">> \in Seq(Token) /\ <<"\\">> \in Seq(Token)
        BY DEF HasSigns
      <4>4. "%" \in Token
        BY DEF HasSigns
      <4>5. <<"%", a, b>> \in Seq(Token)
        BY <4>4
      <4> QED BY <4>1, <4>2, <4>3, <4>5
    <3> QED BY <1>2, <3>1, <3>2, <3>3
  <2> QED BY <1>0, <2>1, <2>2, <2>3, <2>4
<1>3. \A i \in 1..Len(s) + 1 : i \in S
  <2>1. Len(s) + 1 \in Nat
    BY <1>0
  <2>2. \A i \in 1..Len(s) + 1 : (\A k \in i + 1..Len(s) + 1 : k \in S) => i \in S
    BY <1>2
  <2> HIDE DEF S
  <2> QED BY <2>1, <2>2, FromTheEnd
<1> QED BY <1>1, <1>3

LEMMA TwoInFront ==
  ASSUME NEW Token, NEW r \in Seq(Token), NEW x \in Token, NEW y \in Token
  PROVE  /\ <<x>> \o (<<y>> \o r) = <<x, y>> \o r
         /\ <<x>> \o (<<y>> \o <<>>) = <<x, y>> /\ <<x>> \o <<>> = <<x>>
<1>1. <<x>> \in Seq(Token) /\ <<y>> \in Seq(Token)
  OBVIOUS
<1>2. <<x>> \o <<y>> = <<x, y>>
  <2>1. PICK c, d : c = <<x>> \o <<y>> /\ d = <<x, y>>
    OBVIOUS
  <2>2. c \in Seq(Token) /\ Len(c) = 2 /\ c[1] = x /\ c[2] = y
    BY <1>1, <2>1, ConcatProperties
  <2>3. d \in Seq(Token) /\ Len(d) = 2 /\ d[1] = x /\ d[2] = y
    BY <2>1
  <2>4. \A i \in 1..Len(c) : i = 1 \/ i = 2
    BY <2>2
  <2>5. c = d
    BY <2>2, <2>3, <2>4, SeqEqual
  <2> QED BY <2>1, <2>5
<1>3. <<x>> \o <<>> = <<x>> /\ <<y>> \o <<>> = <<y>>
  BY <1>1, ConcatEmptySeq
<1>4. (<<x>> \o <<y>>) \o r = <<x>> \o (<<y>> \o r)
  BY <1>1, Assoc
<1> QED BY <1>2, <1>3, <1>4

LEMMA ThreeAre ==
  ASSUME NEW Token, NEW x \in Token, NEW y \in Token, NEW z \in Token
  PROVE  <<x>> \o <<y, z>> = <<x, y, z>>
<1>1. <<x>> \in Seq(Token) /\ <<y, z>> \in Seq(Token)
  OBVIOUS
<1>2. PICK c, d : c = <<x>> \o <<y, z>> /\ d = <<x, y, z>>
  OBVIOUS
<1>3. c \in Seq(Token) /\ Len(c) = 3 /\ c[1] = x /\ c[2] = y /\ c[3] = z
  BY <1>1, <1>2, ConcatProperties
<1>4. d \in Seq(Token) /\ Len(d) = 3 /\ d[1] = x /\ d[2] = y /\ d[3] = z
  BY <1>2
<1>5. \A i \in 1..Len(c) : i = 1 \/ i = 2 \/ i = 3
  BY <1>3
<1>6. c = d
  BY <1>3, <1>4, <1>5, SeqEqual
<1> QED BY <1>2, <1>6

ThreeApart(x, y, z, r) == <<x, y, z>> \o r = <<x>> \o (<<y, z>> \o r)

LEMMA ThreeInFront ==
  ASSUME NEW Token, NEW r \in Seq(Token)
  PROVE  \A x, y, z \in Token : ThreeApart(x, y, z, r)
<1> SUFFICES ASSUME NEW x \in Token, NEW y \in Token, NEW z \in Token
             PROVE  ThreeApart(x, y, z, r)
  OBVIOUS
<1>1. <<x>> \in Seq(Token) /\ <<y, z>> \in Seq(Token)
  OBVIOUS
<1>2. (<<x>> \o <<y, z>>) \o r = <<x>> \o (<<y, z>> \o r)
  BY <1>1, Assoc
<1> QED BY <1>2, ThreeAre DEF ThreeApart

LEMMA Ends ==
  ASSUME NEW Token, NEW s \in Seq(Token)
  PROVE  /\ Len(s) >= 1 => SubSeq(s, Len(s), Len(s)) = <<s[Len(s)]>>
         /\ Len(s) >= 2 => SubSeq(s, Len(s) - 1, Len(s)) = <<s[Len(s) - 1], s[Len(s)]>>
<1>0. Len(s) \in Nat
  OBVIOUS
<1>1. ASSUME Len(s) >= 1 PROVE SubSeq(s, Len(s), Len(s)) = <<s[Len(s)]>>
  <2>1. PICK a \in Token : a = s[Len(s)]
    BY <1>0, <1>1
  <2>2. PICK c : c = SubSeq(s, Len(s), Len(s))
    OBVIOUS
  <2>3. c \in Seq(Token) /\ Len(c) = 1 /\ c[1] = a
    BY <1>0, <1>1, <2>1, <2>2
  <2>4. <<a>> \in Seq(Token) /\ Len(<<a>>) = 1 /\ <<a>>[1] = a
    OBVIOUS
  <2>5. \A i \in 1..Len(c) : i = 1
    BY <2>3
  <2>6. c = <<a>>
    BY <2>3, <2>4, <2>5, SeqEqual
  <2> QED BY <2>1, <2>2, <2>6
<1>2. ASSUME Len(s) >= 2
      PROVE  SubSeq(s, Len(s) - 1, Len(s)) = <<s[Len(s) - 1], s[Len(s)]>>
  <2>1. PICK a \in Token, b \in Token : a = s[Len(s) - 1] /\ b = s[Len(s)]
    BY <1>0, <1>2
  <2>2. PICK c : c = SubSeq(s, Len(s) - 1, Len(s))
    OBVIOUS
  <2>3. c \in Seq(Token) /\ Len(c) = 2 /\ c[1] = a /\ c[2] = b
    BY <1>0, <1>2, <2>1, <2>2
  <2>4. <<a, b>> \in Seq(Token) /\ Len(<<a, b>>) = 2 /\ <<a, b>>[1] = a /\ <<a, b>>[2] = b
    OBVIOUS
  <2>5. \A i \in 1..Len(c) : i = 1 \/ i = 2
    BY <2>3
  <2>6. c = <<a, b>>
    BY <2>3, <2>4, <2>5, SeqEqual
  <2> QED BY <2>1, <2>2, <2>6
<1> QED BY <1>1, <1>2

(* Where no "%" is near another, one step is one unit, whether the token   *)
(* at its front was decoded or not.                                        *)
LEMMA DecodeUnit ==
  ASSUME NEW Token, HasSigns(Token), NEW s \in Seq(Token),
         PercentsApart(s), NEW f, IsDecode(f, s), NEW i \in 1..Len(s)
  PROVE  f[i] = <<DecodedAt(s, i)>> \o f[i + Width(s, i)]
<1>0. Len(s) \in Nat
  OBVIOUS
<1>1. /\ \A k \in 1..Len(s) + 1 : f[k] \in Seq(Token)
      /\ \A k \in 1..Len(s) + 1 : f[k] = DecodeStep(f, s, k)
  BY DecodedTokens
<1>2. f[i] = DecodeStep(f, s, i) /\ ~(i > Len(s))
  BY <1>0, <1>1
<1>3. ASSUME NEW k \in 1..Len(s), s[k] # "%"
      PROVE  f[k] = <<s[k]>> \o f[k + 1]
  <2>1. f[k] = DecodeStep(f, s, k) /\ ~(k > Len(s))
    BY <1>0, <1>1
  <2> QED BY <1>3, <2>1 DEF DecodeStep
<1>4. \A k \in {i + 1, i + 2} : k <= Len(s) /\ s[i] = "%" => s[k] # "%"
  BY <1>0 DEF PercentsApart
<1>5. f[Len(s) + 1] = <<>>
  <2>1. f[Len(s) + 1] = DecodeStep(f, s, Len(s) + 1) /\ Len(s) + 1 > Len(s)
    BY <1>0, <1>1
  <2> QED BY <2>1 DEF DecodeStep
<1>6. CASE Code(s, i)
  <2>1. f[i] = Encoded(s[i + 1], s[i + 2]) \o f[i + 3]
    <3>1. ~(i + 2 > Len(s)) /\ ~(s[i] # "%")
      BY <1>0, <1>6 DEF Code
    <3> QED BY <1>2, <3>1 DEF DecodeStep
  <2>2. Width(s, i) = 3
    BY <1>6 DEF Width
  <2> QED BY <1>6, <2>1, <2>2, CodeMeans
<1>7. CASE ~Code(s, i)
  <2>0. Width(s, i) = 1 /\ DecodedAt(s, i) = s[i]
    BY <1>7 DEF Width, DecodedAt
  <2>1. CASE s[i] # "%"
    BY <1>3, <2>0, <2>1
  <2>2. CASE s[i] = "%" /\ i + 2 > Len(s)
    <3>1. f[i] = SubSeq(s, i, Len(s))
      BY <1>2, <2>2 DEF DecodeStep, From
    <3>2. CASE i = Len(s)
      <4>1. f[i] = <<s[i]>> /\ f[i + 1] = <<>>
        BY <1>0, <1>5, <3>1, <3>2, Ends
      <4>2. s[i] \in Token
        OBVIOUS
      <4> QED BY <2>0, <4>1, <4>2
    <3>3. CASE i + 1 = Len(s)
      <4>0. PICK a \in Token, b \in Token : a = s[i] /\ b = s[i + 1]
        BY <1>0, <3>3
      <4>1. f[i] = <<a, b>>
        <5>1. i = Len(s) - 1 /\ Len(s) >= 2
          BY <1>0, <3>3
        <5> QED BY <3>1, <3>3, <4>0, <5>1, Ends
      <4>2. f[i + 1] = <<b>> \o <<>>
        <5>1. i + 1 \in 1..Len(s) /\ s[i + 1] # "%"
          BY <1>0, <1>4, <2>2, <3>3
        <5>2. f[i + 1] = <<s[i + 1]>> \o f[i + 1 + 1]
          BY <1>3, <5>1
        <5> QED BY <1>5, <3>3, <4>0, <5>2
      <4>3. <<a, b>> = <<a>> \o (<<b>> \o <<>>)
        <5>1. <<>> \in Seq(Token)
          OBVIOUS
        <5> QED BY <4>0, <5>1, TwoInFront
      <4> QED BY <2>0, <4>0, <4>1, <4>2, <4>3
    <3> QED BY <1>0, <2>2, <3>2, <3>3
  <2>3. CASE s[i] = "%" /\ i + 2 <= Len(s)
    <3>0. PICK a \in Token, b \in Token, tail \in Seq(Token) :
            a = s[i + 1] /\ b = s[i + 2] /\ tail = f[i + 3]
      <4>1. i + 1 \in 1..Len(s) /\ i + 2 \in 1..Len(s) /\ i + 3 \in 1..Len(s) + 1
        BY <1>0, <2>3
      <4> QED BY <1>1, <4>1
    <3>1. f[i] = Encoded(a, b) \o tail
      <4>1. ~(i + 2 > Len(s)) /\ ~(s[i] # "%")
        BY <1>0, <2>3
      <4> QED BY <1>2, <3>0, <4>1 DEF DecodeStep
    <3>2. Encoded(a, b) = <<"%", a, b>>
      <4>1. i \in 1..Len(s) - 2
        BY <1>0, <2>3
      <4> QED BY <1>7, <2>3, <3>0, <4>1 DEF Code, Encoded
    <3>3. f[i + 1] = <<a>> \o f[i + 2] /\ f[i + 2] = <<b>> \o tail
      <4>1. i + 1 \in 1..Len(s) /\ i + 2 \in 1..Len(s) /\ i + 1 + 1 = i + 2 /\ i + 2 + 1 = i + 3
        BY <1>0, <2>3
      <4> QED BY <1>3, <1>4, <2>3, <3>0, <4>1
    <3>4. f[i + 1] = <<a, b>> \o tail
      <4>1. <<a>> \o (<<b>> \o tail) = <<a, b>> \o tail
        BY <3>0, TwoInFront
      <4> QED BY <3>3, <4>1
    <3>5. <<"%", a, b>> \o tail = <<"%">> \o (<<a, b>> \o tail)
      <4>1. PICK c \in Token : c = "%"
        BY DEF HasSigns
      <4>2. ThreeApart(c, a, b, tail)
        BY <3>0, ThreeInFront
      <4> QED BY <4>1, <4>2 DEF ThreeApart
    <3> QED BY <2>0, <2>3, <3>1, <3>2, <3>4, <3>5
  <2> QED BY <1>0, <2>1, <2>2, <2>3
<1> QED BY <1>6, <1>7

(* pos: where the units of what f[i] decodes begin.                        *)
Laid(f, s, i, pos) ==
  /\ pos \in [1..Len(f[i]) + 1 -> i..Len(s) + 1]
  /\ pos[1] = i /\ pos[Len(f[i]) + 1] = Len(s) + 1
  /\ \A k \in 1..Len(f[i]) :
       /\ pos[k] <= Len(s) /\ f[i][k] = DecodedAt(s, pos[k])
       /\ pos[k + 1] = pos[k] + Width(s, pos[k])
  /\ \A a, b \in 1..Len(f[i]) + 1 : a < b => pos[a] < pos[b]
  /\ \A j \in i..Len(s) :
       s[j] \in {".", "/", "\\", "%"} => \E k \in 1..Len(f[i]) : pos[k] = j

(* No unit begins inside a unit that is three tokens wide.                 *)
LEMMA NextUnit ==
  ASSUME NEW Token, NEW s \in Seq(Token), NEW i \in 1..Len(s)
  PROVE  /\ i + Width(s, i) \in i + 1..Len(s) + 1
         /\ \A j \in i + 1..Len(s) :
              s[j] \in {".", "/", "\\", "%"} => j >= i + Width(s, i)
<1>0. Len(s) \in Nat
  OBVIOUS
<1>1. CASE ~Code(s, i)
  <2>1. Width(s, i) = 1
    BY <1>1 DEF Width
  <2> QED BY <1>0, <2>1
<1>2. CASE Code(s, i)
  <2>1. Width(s, i) = 3 /\ i \in 1..Len(s) - 2
    BY <1>2 DEF Width, Code
  <2>2. s[i + 1] \notin {".", "/", "\\", "%"} /\ s[i + 2] \notin {".", "/", "\\", "%"}
    BY <1>2 DEF Code
  <2>3. ASSUME NEW j \in i + 1..Len(s), j < i + 3 PROVE j = i + 1 \/ j = i + 2
    BY <1>0, <2>3
  <2> QED BY <1>0, <2>1, <2>2, <2>3
<1> QED BY <1>1, <1>2

LEMMA LayOne ==
  ASSUME NEW Token, HasSigns(Token), NEW s \in Seq(Token),
         PercentsApart(s), NEW f, IsDecode(f, s), NEW i \in 1..Len(s),
         NEW pos, Laid(f, s, i + Width(s, i), pos)
  PROVE  \E p : Laid(f, s, i, p)
<1>0. Len(s) \in Nat
  OBVIOUS
<1>1. PICK next : next = i + Width(s, i)
  OBVIOUS
<1>2. /\ next \in i + 1..Len(s) + 1
      /\ \A j \in i + 1..Len(s) : s[j] \in {".", "/", "\\", "%"} => j >= next
  BY <1>1, NextUnit
<1>3. PICK d, e : d = f[i] /\ e = f[next]
  OBVIOUS
<1>4. d \in Seq(Token) /\ e \in Seq(Token) /\ d = <<DecodedAt(s, i)>> \o e
  <2>1. /\ \A k \in 1..Len(s) + 1 : f[k] \in Seq(Token)
        /\ f[i] = <<DecodedAt(s, i)>> \o f[i + Width(s, i)]
    BY DecodedTokens, DecodeUnit
  <2>2. next \in 1..Len(s) + 1 /\ i \in 1..Len(s) + 1
    BY <1>0, <1>2
  <2> QED BY <1>1, <1>3, <2>1, <2>2
<1>5. /\ Len(e) \in Nat /\ Len(d) = Len(e) + 1 /\ d[1] = DecodedAt(s, i)
      /\ \A k \in 2..Len(d) : d[k] = e[k - 1]
  <2>1. PICK t : t = DecodedAt(s, i)
    OBVIOUS
  <2>2. t \in Token
    BY <2>1, CodeMeans DEF DecodedAt, HasSigns
  <2> QED BY <1>4, <2>1, <2>2
<1> DEFINE p == [k \in 1..Len(d) + 1 |-> IF k = 1 THEN i ELSE pos[k - 1]]
<1>6. /\ pos \in [1..Len(e) + 1 -> next..Len(s) + 1]
      /\ pos[1] = next /\ pos[Len(e) + 1] = Len(s) + 1
      /\ \A k \in 1..Len(e) :
           /\ pos[k] <= Len(s) /\ e[k] = DecodedAt(s, pos[k])
           /\ pos[k + 1] = pos[k] + Width(s, pos[k])
      /\ \A a, b \in 1..Len(e) + 1 : a < b => pos[a] < pos[b]
      /\ \A j \in next..Len(s) :
           s[j] \in {".", "/", "\\", "%"} => \E k \in 1..Len(e) : pos[k] = j
  BY <1>1, <1>3 DEF Laid
<1>7. \A k \in 2..Len(d) + 1 : k - 1 \in 1..Len(e) + 1 /\ k \in 1..Len(d) + 1 /\ k # 1
  BY <1>5
<1>8. p[1] = i /\ \A k \in 2..Len(d) + 1 : p[k] = pos[k - 1]
  BY <1>5, <1>7
<1>9. \A k \in 1..Len(d) + 1 : k = 1 \/ k \in 2..Len(d) + 1
  BY <1>5
<1>10. p \in [1..Len(d) + 1 -> i..Len(s) + 1]
  <2>1. \A k \in 1..Len(d) + 1 : (IF k = 1 THEN i ELSE pos[k - 1]) \in i..Len(s) + 1
    <3>1. \A x \in next..Len(s) + 1 : x \in i..Len(s) + 1
      BY <1>0, <1>2
    <3>2. \A k \in 2..Len(d) + 1 : pos[k - 1] \in i..Len(s) + 1
      BY <1>6, <1>7, <3>1
    <3>3. i \in i..Len(s) + 1
      BY <1>0
    <3> QED BY <1>9, <3>2, <3>3
  <2> QED BY <2>1
<1> HIDE DEF p
<1>11. p[Len(d) + 1] = Len(s) + 1
  <2>1. Len(d) + 1 \in 2..Len(d) + 1 /\ Len(d) + 1 - 1 = Len(e) + 1
    BY <1>5
  <2> QED BY <1>6, <1>8, <2>1
<1>12. ASSUME NEW k \in 1..Len(d)
       PROVE  /\ p[k] <= Len(s) /\ d[k] = DecodedAt(s, p[k])
              /\ p[k + 1] = p[k] + Width(s, p[k])
  <2>1. CASE k = 1
    <3>1. p[2] = next /\ p[1] = i
      <4>1. 2 \in 2..Len(d) + 1 /\ 2 - 1 = 1
        BY <1>5
      <4> QED BY <1>6, <1>8, <4>1
    <3> QED BY <1>0, <1>1, <1>5, <2>1, <3>1
  <2>2. CASE k # 1
    <3>1. /\ k \in 2..Len(d) /\ k \in 2..Len(d) + 1 /\ k + 1 \in 2..Len(d) + 1
          /\ k - 1 \in 1..Len(e) /\ k + 1 - 1 = k - 1 + 1
      BY <1>5, <2>2
    <3>2. p[k] = pos[k - 1] /\ p[k + 1] = pos[k - 1 + 1] /\ d[k] = e[k - 1]
      BY <1>5, <1>8, <3>1
    <3> QED BY <1>6, <3>1, <3>2
  <2> QED BY <2>1, <2>2
<1>13. ASSUME NEW a \in 1..Len(d) + 1, NEW b \in 1..Len(d) + 1, a < b PROVE p[a] < p[b]
  <2>1. b \in 2..Len(d) + 1 /\ b - 1 \in 1..Len(e) + 1 /\ p[b] = pos[b - 1]
    <3>1. b \in 2..Len(d) + 1
      BY <1>5, <1>13
    <3> QED BY <1>7, <1>8, <3>1
  <2>2. CASE a = 1
    <3>1. pos[b - 1] \in next..Len(s) + 1
      BY <1>6, <2>1
    <3> QED BY <1>0, <1>2, <1>8, <2>1, <2>2, <3>1
  <2>3. CASE a # 1
    <3>1. a \in 2..Len(d) + 1 /\ a - 1 < b - 1
      BY <1>5, <1>13, <2>3
    <3>2. a - 1 \in 1..Len(e) + 1 /\ p[a] = pos[a - 1]
      BY <1>7, <1>8, <3>1
    <3> QED BY <1>6, <2>1, <3>1, <3>2
  <2> QED BY <2>2, <2>3
<1>14. ASSUME NEW j \in i..Len(s), s[j] \in {".", "/", "\\", "%"}
       PROVE  \E k \in 1..Len(d) : p[k] = j
  <2>1. CASE j = i
    <3>1. 1 \in 1..Len(d)
      BY <1>5
    <3> QED BY <1>8, <2>1, <3>1
  <2>2. CASE j # i
    <3>1. j \in i + 1..Len(s)
      BY <1>0, <1>14, <2>2
    <3>2. j \in next..Len(s)
      BY <1>0, <1>2, <1>14, <3>1
    <3>3. PICK k \in 1..Len(e) : pos[k] = j
      BY <1>6, <1>14, <3>2
    <3>4. k + 1 \in 1..Len(d) /\ k + 1 \in 2..Len(d) + 1 /\ k + 1 - 1 = k
      BY <1>5, <3>3
    <3> QED BY <1>8, <3>3, <3>4
  <2> QED BY <2>1, <2>2
<1>15. Laid(f, s, i, p)
  BY <1>3, <1>8, <1>10, <1>11, <1>12, <1>13, <1>14 DEF Laid
<1> QED BY <1>15

LEMMA LayAll ==
  ASSUME NEW Token, HasSigns(Token), NEW s \in Seq(Token),
         PercentsApart(s), NEW f, IsDecode(f, s)
  PROVE  \E pos : Laid(f, s, 1, pos)
<1>0. Len(s) \in Nat
  OBVIOUS
<1> DEFINE S == {i \in 1..Len(s) + 1 : \E pos : Laid(f, s, i, pos)}
<1>1. Len(s) + 1 \in S
  <2>1. f[Len(s) + 1] = <<>>
    <3>1. f[Len(s) + 1] = DecodeStep(f, s, Len(s) + 1) /\ Len(s) + 1 > Len(s)
      BY <1>0, DecodedTokens
    <3> QED BY <3>1 DEF DecodeStep
  <2> DEFINE pos == [k \in 1..1 |-> Len(s) + 1]
  <2>2. pos \in [1..1 -> Len(s) + 1..Len(s) + 1] /\ pos[1] = Len(s) + 1
    BY <1>0
  <2> HIDE DEF pos
  <2>3. Len(f[Len(s) + 1]) = 0
    BY <2>1
  <2>4. Laid(f, s, Len(s) + 1, pos)
    BY <1>0, <2>2, <2>3 DEF Laid
  <2> QED BY <1>0, <2>4
<1>2. ASSUME NEW i \in 1..Len(s) + 1, \A k \in i + 1..Len(s) + 1 : k \in S
      PROVE  i \in S
  <2>1. CASE i = Len(s) + 1
    BY <1>1, <2>1
  <2>2. CASE i # Len(s) + 1
    <3>1. i \in 1..Len(s)
      BY <1>0, <2>2
    <3>2. i + Width(s, i) \in i + 1..Len(s) + 1
      BY <3>1, NextUnit
    <3>3. \E pos : Laid(f, s, i + Width(s, i), pos)
      BY <1>2, <3>2
    <3>4. \E pos : Laid(f, s, i, pos)
      BY <3>1, <3>3, LayOne
    <3> QED BY <3>4
  <2> QED BY <2>1, <2>2
<1>3. 1 \in S
  <2>1. Len(s) + 1 \in Nat /\ 1 \in 1..Len(s) + 1
    BY <1>0
  <2> HIDE DEF S
  <2> QED BY <1>2, <2>1, FromTheEnd
<1> QED BY <1>3

-----------------------------------------------------------------------------
(* A spelling is a unit that is decoded to its character.                  *)

LEMMA Spelled ==
  ASSUME NEW Token, NEW s \in Seq(Token), NEW i \in 1..Len(s)
  PROVE  /\ DecodedAt(s, i) = "." <=> \E d \in Dots : Occurs(s, i, d)
         /\ DecodedAt(s, i) \in {"/", "\\"} <=> \E p \in Separators : Occurs(s, i, p)
         /\ \A p \in Dots \cup Separators : Occurs(s, i, p) =>
              Len(p) = Width(s, i) /\ s[i] \in {".", "/", "\\", "%"}
<1>0. Len(s) \in Nat /\ i \in Nat
  OBVIOUS
<1>1. ASSUME NEW p, p \in {<<".">>, <<"/">>, <<"\\">>}
      PROVE  Len(p) = 1 /\ (Occurs(s, i, p) <=> s[i] = p[1])
  <2>1. Len(p) = 1
    BY <1>1
  <2>2. SubSeq(s, i, i) = <<s[i]>>
    <3>1. PICK c : c = SubSeq(s, i, i)
      OBVIOUS
    <3>2. c \in Seq(Token) /\ Len(c) = 1 /\ c[1] = s[i]
      BY <1>0, <3>1
    <3>3. PICK a \in Token : a = s[i]
      OBVIOUS
    <3>4. <<a>> \in Seq(Token) /\ Len(<<a>>) = 1 /\ <<a>>[1] = a
      OBVIOUS
    <3>5. \A k \in 1..Len(c) : k = 1
      BY <3>2
    <3>6. c = <<a>>
      BY <3>2, <3>3, <3>4, <3>5, SeqEqual
    <3> QED BY <3>1, <3>3, <3>6
  <2>3. i + Len(p) - 1 = i /\ i >= 1 /\ i <= Len(s)
    BY <1>0, <2>1
  <2>4. <<s[i]>> = p <=> s[i] = p[1]
    BY <1>1
  <2> QED BY <2>1, <2>2, <2>3, <2>4 DEF Occurs
<1>2. ASSUME NEW a, NEW b
      PROVE  /\ Len(<<"%", a, b>>) = 3
             /\ Occurs(s, i, <<"%", a, b>>) <=>
                  i \in 1..Len(s) - 2 /\ s[i] = "%" /\ s[i + 1] = a /\ s[i + 2] = b
  <2>1. Len(<<"%", a, b>>) = 3
    OBVIOUS
  <2>2. ASSUME i \in 1..Len(s) - 2
        PROVE  SubSeq(s, i, i + 2) = <<s[i], s[i + 1], s[i + 2]>>
    <3>1. PICK c : c = SubSeq(s, i, i + 2)
      OBVIOUS
    <3>2. c \in Seq(Token) /\ Len(c) = 3 /\ c[1] = s[i] /\ c[2] = s[i + 1] /\ c[3] = s[i + 2]
      BY <1>0, <2>2, <3>1
    <3>3. PICK x \in Token, y \in Token, z \in Token : x = s[i] /\ y = s[i + 1] /\ z = s[i + 2]
      BY <1>0, <2>2
    <3>4. PICK d : d = <<x, y, z>>
      OBVIOUS
    <3>5. d \in Seq(Token) /\ Len(d) = 3 /\ d[1] = x /\ d[2] = y /\ d[3] = z
      BY <3>4
    <3>6. \A k \in 1..Len(c) : k = 1 \/ k = 2 \/ k = 3
      BY <3>2
    <3>7. c = d
      BY <3>2, <3>3, <3>5, <3>6, SeqEqual
    <3> QED BY <3>1, <3>3, <3>4, <3>7
  <2>3. i + 3 - 1 = i + 2 /\ i >= 1 /\ (i + 2 <= Len(s) <=> i \in 1..Len(s) - 2)
    BY <1>0
  <2>4. \A x, y, z : <<x, y, z>> = <<"%", a, b>> <=> x = "%" /\ y = a /\ z = b
    OBVIOUS
  <2> QED BY <2>1, <2>2, <2>3, <2>4 DEF Occurs
<1>3. /\ \A d \in Dots : d = <<".">> \/ d = <<"%", "2", "e">> \/ d = <<"%", "2", "E">>
      /\ {<<".">>, <<"%", "2", "e">>, <<"%", "2", "E">>} \subseteq Dots
  BY DEF Dots, Spelling
<1>4. /\ \A p \in Separators : \/ p \in {<<"/">>, <<"\\">>}
                               \/ p = <<"%", "2", "f">> \/ p = <<"%", "2", "F">>
                               \/ p = <<"%", "5", "c">> \/ p = <<"%", "5", "C">>
      /\ {<<"/">>, <<"\\">>, <<"%", "2", "f">>, <<"%", "2", "F">>,
          <<"%", "5", "c">>, <<"%", "5", "C">>} \subseteq Separators
  BY DEF Separators, Spelling
<1>5. CASE Code(s, i)
  <2>1. Width(s, i) = 3 /\ s[i] = "%" /\ i \in 1..Len(s) - 2
    BY <1>5 DEF Width, Code
  <2> DEFINE dot == s[i + 1] = "2" /\ s[i + 2] \in {"e", "E"}
             separator == \/ s[i + 1] = "2" /\ s[i + 2] \in {"f", "F"}
                          \/ s[i + 1] = "5" /\ s[i + 2] \in {"c", "C"}
  <2>2. (DecodedAt(s, i) = "." <=> dot) /\ (DecodedAt(s, i) \in {"/", "\\"} <=> separator)
    <3>1. dot \/ separator
      BY <1>5 DEF Code
    <3>2. dot => DecodedAt(s, i) = "." /\ ~separator
      BY <1>5 DEF DecodedAt, Encoded
    <3>3. separator => DecodedAt(s, i) \in {"/", "\\"} /\ ~dot
      BY <1>5 DEF DecodedAt, Encoded
    <3> HIDE DEF dot, separator
    <3> QED BY <3>1, <3>2, <3>3
  <2>3. \A p \in {<<".">>, <<"/">>, <<"\\">>} : ~Occurs(s, i, p)
    BY <1>1, <2>1
  <2>4. /\ Occurs(s, i, <<"%", "2", "e">>) <=> s[i + 1] = "2" /\ s[i + 2] = "e"
        /\ Occurs(s, i, <<"%", "2", "E">>) <=> s[i + 1] = "2" /\ s[i + 2] = "E"
        /\ Len(<<"%", "2", "e">>) = 3 /\ Len(<<"%", "2", "E">>) = 3
    BY <1>2, <2>1
  <2>5. /\ Occurs(s, i, <<"%", "2", "f">>) <=> s[i + 1] = "2" /\ s[i + 2] = "f"
        /\ Occurs(s, i, <<"%", "2", "F">>) <=> s[i + 1] = "2" /\ s[i + 2] = "F"
        /\ Occurs(s, i, <<"%", "5", "c">>) <=> s[i + 1] = "5" /\ s[i + 2] = "c"
        /\ Occurs(s, i, <<"%", "5", "C">>) <=> s[i + 1] = "5" /\ s[i + 2] = "C"
        /\ Len(<<"%", "2", "f">>) = 3 /\ Len(<<"%", "2", "F">>) = 3
        /\ Len(<<"%", "5", "c">>) = 3 /\ Len(<<"%", "5", "C">>) = 3
    BY <1>2, <2>1
  <2>6. /\ dot => \E d \in Dots : Occurs(s, i, d)
        /\ separator => \E p \in Separators : Occurs(s, i, p)
    BY <1>3, <1>4, <2>4, <2>5
  <2>7. ASSUME NEW d \in Dots, Occurs(s, i, d) PROVE dot /\ Len(d) = 3
    BY <1>3, <2>3, <2>4, <2>7
  <2>8. ASSUME NEW p \in Separators, Occurs(s, i, p) PROVE separator /\ Len(p) = 3
    BY <1>4, <2>3, <2>5, <2>8
  <2> HIDE DEF dot, separator
  <2> QED BY <2>1, <2>2, <2>6, <2>7, <2>8
<1>6. CASE ~Code(s, i)
  <2>1. Width(s, i) = 1 /\ DecodedAt(s, i) = s[i]
    BY <1>6 DEF Width, DecodedAt
  <2>2. /\ ~Occurs(s, i, <<"%", "2", "e">>) /\ ~Occurs(s, i, <<"%", "2", "E">>)
        /\ ~Occurs(s, i, <<"%", "2", "f">>) /\ ~Occurs(s, i, <<"%", "2", "F">>)
        /\ ~Occurs(s, i, <<"%", "5", "c">>) /\ ~Occurs(s, i, <<"%", "5", "C">>)
    BY <1>2, <1>6 DEF Code
  <2>3. /\ (\E d \in Dots : Occurs(s, i, d)) <=> s[i] = "."
        /\ \A d \in Dots : Occurs(s, i, d) => Len(d) = 1 /\ s[i] = "."
    BY <1>1, <1>3, <2>2
  <2>4. /\ (\E p \in Separators : Occurs(s, i, p)) <=> s[i] \in {"/", "\\"}
        /\ \A p \in Separators : Occurs(s, i, p) => Len(p) = 1 /\ s[i] \in {"/", "\\"}
    BY <1>1, <1>4, <2>2
  <2> QED BY <2>1, <2>3, <2>4
<1> QED BY <1>5, <1>6

LEMMA UnitOf ==
  ASSUME NEW Token, NEW s \in Seq(Token), NEW f, NEW pos, Laid(f, s, 1, pos),
         NEW i \in Int, NEW p \in Dots \cup Separators, Occurs(s, i, p)
  PROVE  \E k \in 1..Len(f[1]) :
           /\ pos[k] = i /\ pos[k + 1] = i + Len(p)
           /\ p \in Dots => f[1][k] = "."
           /\ p \in Separators => f[1][k] \in {"/", "\\"}
<1>0. Len(s) \in Nat
  OBVIOUS
<1>1. i \in 1..Len(s)
  <2>1. Len(p) \in {1, 3}
    BY DEF Dots, Separators, Spelling
  <2>2. PICK l : l = Len(p)
    OBVIOUS
  <2>3. i >= 1 /\ i + l - 1 <= Len(s)
    BY <2>2 DEF Occurs
  <2> QED BY <1>0, <2>1, <2>2, <2>3
<1>2. Len(p) = Width(s, i) /\ s[i] \in {".", "/", "\\", "%"}
  BY <1>1, Spelled
<1>3. PICK k \in 1..Len(f[1]) : pos[k] = i
  BY <1>1, <1>2 DEF Laid
<1>4. pos[k + 1] = i + Len(p) /\ f[1][k] = DecodedAt(s, i)
  BY <1>2, <1>3 DEF Laid
<1>5. p \in Dots => DecodedAt(s, i) = "."
  BY <1>1, Spelled
<1>6. p \in Separators => DecodedAt(s, i) \in {"/", "\\"}
  BY <1>1, Spelled
<1> QED BY <1>3, <1>4, <1>5, <1>6

LEMMA OfUnit ==
  ASSUME NEW Token, NEW s \in Seq(Token), NEW f, NEW pos, Laid(f, s, 1, pos),
         Len(f[1]) \in Nat, NEW k \in 1..Len(f[1])
  PROVE  /\ pos[k] \in 1..Len(s) /\ pos[k + 1] \in 1..Len(s) + 1
         /\ f[1][k] = "." => \E d \in Dots :
              Occurs(s, pos[k], d) /\ pos[k + 1] = pos[k] + Len(d)
         /\ f[1][k] \in {"/", "\\"} => \E p \in Separators :
              Occurs(s, pos[k], p) /\ pos[k + 1] = pos[k] + Len(p)
<1>1. k \in 1..Len(f[1]) + 1 /\ k + 1 \in 1..Len(f[1]) + 1 /\ Len(s) \in Nat
  OBVIOUS
<1>2. PICK i : i = pos[k]
  OBVIOUS
<1>3. i \in 1..Len(s) + 1 /\ i <= Len(s) /\ pos[k + 1] \in 1..Len(s) + 1
  BY <1>1, <1>2 DEF Laid
<1>4. i \in 1..Len(s)
  BY <1>1, <1>3
<1>5. f[1][k] = DecodedAt(s, i) /\ pos[k + 1] = i + Width(s, i)
  BY <1>2 DEF Laid
<1>6. \A p \in Dots \cup Separators : Occurs(s, i, p) => Len(p) = Width(s, i)
  BY <1>4, Spelled
<1>7. /\ DecodedAt(s, i) = "." => \E d \in Dots : Occurs(s, i, d)
      /\ DecodedAt(s, i) \in {"/", "\\"} => \E p \in Separators : Occurs(s, i, p)
  BY <1>4, Spelled
<1> QED BY <1>2, <1>3, <1>4, <1>5, <1>6, <1>7

Divides(d, k) == k \in {0, Len(d) + 1} \/ d[k] \in {"/", "\\"}

LEMMA TraversalMeans ==
  ASSUME NEW Token, NEW s, NEW d \in Seq(Token), d = DecodeTraversalChars(s)
  PROVE  ContainsPathTraversal(s) <=>
           \E i \in 1..Len(d) - 1 :
             d[i] = "." /\ d[i + 1] = "." /\ Divides(d, i - 1) /\ Divides(d, i + 2)
<1>1. ASSUME NEW i \in 1..Len(d) - 1
      PROVE  SubSeq(d, i, i + 1) = <<".", ".">> <=> d[i] = "." /\ d[i + 1] = "."
  <2>1. PICK c, e : c = SubSeq(d, i, i + 1) /\ e = <<".", ".">>
    OBVIOUS
  <2>2. c \in Seq(Token) /\ Len(c) = 2 /\ c[1] = d[i] /\ c[2] = d[i + 1]
    <3>1. Len(d) \in Nat /\ i \in 1..Len(d) /\ i + 1 \in 1..Len(d) /\ i + 1 - i + 1 = 2
      OBVIOUS
    <3>2. c \in Seq(Token) /\ Len(c) = 2 /\ \A k \in 1..2 : c[k] = d[i + k - 1]
      BY <2>1, <3>1
    <3>3. c[1] = d[i + 1 - 1] /\ c[2] = d[i + 2 - 1] /\ i + 1 - 1 = i /\ i + 2 - 1 = i + 1
      BY <3>2
    <3> QED BY <3>2, <3>3
  <2>3. e \in Seq({"."}) /\ Len(e) = 2 /\ e[1] = "." /\ e[2] = "."
    BY <2>1
  <2>4. c = e => d[i] = "." /\ d[i + 1] = "."
    BY <2>2, <2>3
  <2>5. ASSUME d[i] = "." /\ d[i + 1] = "." PROVE c = e
    <3>1. "." \in Token
      BY <2>5
    <3>2. e \in Seq(Token)
      BY <2>1, <3>1
    <3>3. \A k \in 1..Len(c) : k = 1 \/ k = 2
      BY <2>2
    <3> QED BY <2>2, <2>3, <2>5, <3>2, <3>3, SeqEqual
  <2> QED BY <2>1, <2>4, <2>5
<1> QED BY <1>1 DEF ContainsPathTraversal, Divides

LEMMA TraversalExact ==
  ASSUME NEW Token, HasSigns(Token), NEW s \in Seq(Token), PercentsApart(s)
  PROVE  ContainsPathTraversal(s) <=> SpellsTraversal(s)
<1>0. Len(s) \in Nat
  OBVIOUS
<1>1. PICK f : IsDecode(f, s) /\ DecodeTraversalChars(s) = f[1]
  BY <1>0, DecodeIs
<1>2. PICK pos : Laid(f, s, 1, pos)
  BY <1>1, LayAll
<1>3. PICK d : d = f[1]
  OBVIOUS
<1>4. d \in Seq(Token) /\ Len(d) \in Nat
  <2>1. 1 \in 1..Len(s) + 1
    BY <1>0
  <2>2. d \in Seq(Token)
    BY <1>1, <1>3, <2>1, DecodedTokens
  <2> QED BY <2>2
<1>5. /\ \A k \in 1..Len(d) + 1 : pos[k] \in 1..Len(s) + 1
      /\ \A a, b \in 1..Len(d) + 1 : pos[a] = pos[b] => a = b
      /\ pos[1] = 1 /\ pos[Len(d) + 1] = Len(s) + 1
  <2>1. \A a, b \in 1..Len(d) + 1 : a < b => pos[a] < pos[b]
    BY <1>2, <1>3 DEF Laid
  <2>2. \A k \in 1..Len(d) + 1 : pos[k] \in 1..Len(s) + 1
    BY <1>2, <1>3 DEF Laid
  <2>3. ASSUME NEW a \in 1..Len(d) + 1, NEW b \in 1..Len(d) + 1, pos[a] = pos[b]
        PROVE  a = b
    <3>1. a < b \/ b < a \/ a = b
      BY <1>4
    <3> QED BY <1>0, <2>1, <2>2, <2>3, <3>1
  <2> QED BY <1>2, <1>3, <2>2, <2>3 DEF Laid
<1>6. ContainsPathTraversal(s) <=>
        \E k \in 1..Len(d) - 1 :
          d[k] = "." /\ d[k + 1] = "." /\ Divides(d, k - 1) /\ Divides(d, k + 2)
  BY <1>1, <1>3, <1>4, TraversalMeans
<1>7. \A i \in Int, p \in Dots \cup Separators : Occurs(s, i, p) =>
        \E k \in 1..Len(d) : /\ pos[k] = i /\ pos[k + 1] = i + Len(p)
                             /\ p \in Dots => d[k] = "."
                             /\ p \in Separators => d[k] \in {"/", "\\"}
  BY <1>2, <1>3, UnitOf
<1>8. ASSUME NEW k \in 1..Len(d) - 1,
             d[k] = "." /\ d[k + 1] = "." /\ Divides(d, k - 1) /\ Divides(d, k + 2)
      PROVE  SpellsTraversal(s)
  <2>0. /\ k \in 1..Len(d) /\ k + 1 \in 1..Len(d) /\ k + 2 \in 1..Len(d) + 1
        /\ k + 1 + 1 = k + 2 /\ (k # 1 => k - 1 \in 1..Len(d) /\ k - 1 + 1 = k)
        /\ (k + 2 # Len(d) + 1 => k + 2 \in 1..Len(d))
    BY <1>4
  <2>1. PICK d1 \in Dots : Occurs(s, pos[k], d1) /\ pos[k + 1] = pos[k] + Len(d1)
    BY <1>2, <1>3, <1>4, <1>8, <2>0, OfUnit
  <2>2. PICK d2 \in Dots : Occurs(s, pos[k + 1], d2) /\ pos[k + 2] = pos[k + 1] + Len(d2)
    <3>1. PICK m \in 1..Len(d) : m = k + 1 /\ m + 1 = k + 2 /\ d[m] = "."
      BY <1>4, <1>8, <2>0
    <3> QED BY <1>2, <1>3, <1>4, <3>1, OfUnit
  <2>3. pos[k] \in 1..Len(s) /\ pos[k + 2] \in 1..Len(s) + 1
    BY <1>2, <1>3, <1>4, <1>5, <2>0, OfUnit
  <2>4. pos[k] = 1 \/ \E p \in Separators : Occurs(s, pos[k] - Len(p), p)
    <3>1. CASE k = 1
      BY <1>5, <3>1
    <3>2. CASE k # 1
      <4>1. d[k - 1] \in {"/", "\\"}
        <5>1. k - 1 \notin {0, Len(d) + 1}
          BY <1>4, <3>2
        <5> QED BY <1>8, <5>1 DEF Divides
      <4>2. PICK p \in Separators : Occurs(s, pos[k - 1], p) /\ pos[k] = pos[k - 1] + Len(p)
        <5>1. PICK l \in 1..Len(d) : l = k - 1 /\ l + 1 = k /\ d[l] \in {"/", "\\"}
          BY <2>0, <3>2, <4>1
        <5> QED BY <1>2, <1>3, <1>4, <5>1, OfUnit
      <4>3. pos[k - 1] = pos[k] - Len(p)
        <5>1. pos[k - 1] \in Nat /\ Len(p) \in {1, 3}
          BY <1>2, <1>3, <1>4, <2>0, <3>2, OfUnit DEF Separators, Spelling
        <5> QED BY <4>2, <5>1
      <4> QED BY <4>2, <4>3
    <3> QED BY <3>1, <3>2
  <2>5. pos[k + 2] = Len(s) + 1 \/ \E p \in Separators : Occurs(s, pos[k + 2], p)
    <3>1. CASE k + 2 = Len(d) + 1
      BY <1>5, <3>1
    <3>2. CASE k + 2 # Len(d) + 1
      <4>1. d[k + 2] \in {"/", "\\"}
        <5>1. k + 2 \notin {0, Len(d) + 1}
          BY <1>4, <3>2
        <5> QED BY <1>8, <5>1 DEF Divides
      <4> QED BY <1>2, <1>3, <1>4, <2>0, <3>2, <4>1, OfUnit
    <3> QED BY <3>1, <3>2
  <2>6. PICK i \in 1..Len(s), end \in 1..Len(s) + 1 : i = pos[k] /\ end = pos[k + 2]
    BY <2>3
  <2>7. i + Len(d1) = pos[k + 1] /\ end = i + Len(d1) + Len(d2) /\ end <= Len(s) + 1
    BY <1>0, <2>1, <2>2, <2>6
  <2> QED BY <2>1, <2>2, <2>4, <2>5, <2>6, <2>7 DEF SpellsTraversal
<1>9. ASSUME SpellsTraversal(s)
      PROVE  \E k \in 1..Len(d) - 1 :
               d[k] = "." /\ d[k + 1] = "." /\ Divides(d, k - 1) /\ Divides(d, k + 2)
  <2>0. \A p \in Dots \cup Separators : Len(p) \in Nat
    BY DEF Dots, Separators, Spelling
  <2>1. PICK i \in 1..Len(s), d1 \in Dots, d2 \in Dots, end \in Nat :
          /\ end = i + Len(d1) + Len(d2) /\ end <= Len(s) + 1
          /\ Occurs(s, i, d1) /\ Occurs(s, i + Len(d1), d2)
          /\ i = 1 \/ \E p \in Separators : Occurs(s, i - Len(p), p)
          /\ end = Len(s) + 1 \/ \E p \in Separators : Occurs(s, end, p)
    <3>1. \A i \in 1..Len(s), d1 \in Dots, d2 \in Dots : i + Len(d1) + Len(d2) \in Nat
      BY <1>0, <2>0
    <3> QED BY <1>9, <3>1 DEF SpellsTraversal
  <2>2. Len(d1) \in Nat /\ Len(d2) \in Nat /\ \A p \in Separators : Len(p) \in Nat
    BY <2>0
  <2>3. PICK k \in 1..Len(d) : pos[k] = i /\ pos[k + 1] = i + Len(d1) /\ d[k] = "."
    <3>1. i \in Int /\ d1 \in Dots \cup Separators
      BY <1>0
    <3> QED BY <1>7, <2>1, <3>1
  <2>4. PICK m \in 1..Len(d) :
          pos[m] = i + Len(d1) /\ pos[m + 1] = i + Len(d1) + Len(d2) /\ d[m] = "."
    <3>1. PICK j \in Int : j = i + Len(d1)
      BY <1>0, <2>2
    <3>2. Occurs(s, j, d2) /\ d2 \in Dots \cup Separators
      BY <2>1, <3>1
    <3>3. PICK m \in 1..Len(d) : pos[m] = j /\ pos[m + 1] = j + Len(d2) /\ d[m] = "."
      BY <1>7, <3>2
    <3> QED BY <3>1, <3>3
  <2>5. m = k + 1 /\ k \in 1..Len(d) - 1 /\ k + 2 \in 1..Len(d) + 1 /\ pos[k + 2] = end
    <3>1. k + 1 \in 1..Len(d) + 1 /\ m \in 1..Len(d) + 1
      BY <1>4
    <3>2. m = k + 1
      BY <1>5, <2>3, <2>4, <3>1
    <3>3. k + 1 + 1 = k + 2 /\ k \in 1..Len(d) - 1 /\ k + 2 \in 1..Len(d) + 1
      BY <1>4, <3>2
    <3> QED BY <2>1, <2>4, <3>2, <3>3
  <2>6. Divides(d, k - 1)
    <3>1. CASE i = 1
      <4>1. k = 1
        <5>1. 1 \in 1..Len(d) + 1 /\ k \in 1..Len(d) + 1
          BY <1>4
        <5> QED BY <1>5, <2>3, <3>1, <5>1
      <4> QED BY <4>1 DEF Divides
    <3>2. CASE i # 1
      <4>1. PICK p \in Separators : Occurs(s, i - Len(p), p)
        BY <2>1, <3>2
      <4>2. i - Len(p) \in Int /\ i - Len(p) + Len(p) = i
        BY <2>2
      <4>3. PICK l \in 1..Len(d) :
              pos[l] = i - Len(p) /\ pos[l + 1] = i - Len(p) + Len(p) /\ d[l] \in {"/", "\\"}
        BY <1>7, <4>1, <4>2
      <4>4. l + 1 = k
        <5>1. l + 1 \in 1..Len(d) + 1 /\ k \in 1..Len(d) + 1
          BY <1>4
        <5> QED BY <1>5, <2>3, <4>2, <4>3, <5>1
      <4>5. k - 1 = l
        BY <1>4, <4>4
      <4> QED BY <4>3, <4>5 DEF Divides
    <3> QED BY <3>1, <3>2
  <2>7. Divides(d, k + 2)
    <3>1. CASE end = Len(s) + 1
      <4>1. k + 2 = Len(d) + 1
        <5>1. Len(d) + 1 \in 1..Len(d) + 1
          BY <1>4
        <5> QED BY <1>5, <2>5, <3>1, <5>1
      <4> QED BY <4>1 DEF Divides
    <3>2. CASE end # Len(s) + 1
      <4>1. PICK p \in Separators : Occurs(s, end, p)
        BY <2>1, <3>2
      <4>2. end \in Int
        BY <2>1, <2>2
      <4>3. PICK l \in 1..Len(d) : pos[l] = end /\ d[l] \in {"/", "\\"}
        BY <1>7, <4>1, <4>2
      <4>4. l = k + 2
        <5>1. l \in 1..Len(d) + 1
          BY <1>4
        <5> QED BY <1>5, <2>5, <4>3, <5>1
      <4> QED BY <4>3, <4>4 DEF Divides
    <3> QED BY <3>1, <3>2
  <2>8. d[k + 1] = "."
    BY <2>4, <2>5
  <2> QED BY <2>3, <2>5, <2>6, <2>7, <2>8
<1> QED BY <1>6, <1>8, <1>9

-----------------------------------------------------------------------------
(* Both layers judge by the same manifest, and a call is judged by what    *)
(* check_message says of it.                                               *)

CallInv ==
  /\ case \in DOMAIN Cases /\ manifest \in Cases[case].manifests
  /\ profile = GenerateSbplProfile(manifest, ToolPath)
  /\ phase = "ready" => call = NoCall
  /\ phase # "ready" =>
       \/ call.text \in Cases[case].texts /\ call.parts = <<>>
       \/ call.parts \in Cases[case].urls /\ call.text = Render(call.parts)
  /\ phase \in {"running", "denied", "answered", "done"} =>
       verdict = CheckMessage("tools/call", <<call.text>>, manifest)
  /\ phase = "running" => verdict = "allow"

THEOREM CallInvariant == Spec => []CallInv
<1>1. Init => CallInv
  BY DEF Init, CallInv
<1>2. CallInv /\ [Next]_vars => CallInv'
  <2> SUFFICES ASSUME CallInv, [Next]_vars PROVE CallInv'
    OBVIOUS
  <2>1. CASE HostCalls
    BY <2>1 DEF HostCalls, CallInv
  <2>2. CASE Inspect
    BY <2>2 DEF Inspect, CallInv
  <2>3. CASE ToolAnswers
    BY <2>3 DEF ToolAnswers, CallInv
  <2>4. CASE Filter
    BY <2>4 DEF Filter, CallInv
  <2>5. CASE NextCall
    BY <2>5 DEF NextCall, CallInv
  <2>6. CASE UNCHANGED vars
    BY <2>6 DEF vars, CallInv
  <2> QED BY <2>1, <2>2, <2>3, <2>4, <2>5, <2>6 DEF Next
<1> QED BY <1>1, <1>2, PTL DEF Spec

(* The strings the theorem speaks of: patterns and paths are strings, a    *)
(* path in the home directory goes on with a name ("~//x" is what          *)
(* Path::join takes for "/x"), and a URL has a scheme without slashes.     *)
InputsAre(Token) ==
  \A c \in DOMAIN Cases :
    /\ \A m \in Cases[c].manifests : m.write \subseteq Seq(Token)
    /\ \A s \in Cases[c].texts : s \in Seq(Token) /\ JoinsHome(s)
    /\ \A url \in Cases[c].urls :
         /\ HasParts(url, Token) /\ url.scheme # <<>>
         /\ \A i \in 1..Len(url.scheme) : url.scheme[i] # "/"

LEMMA CallInvAgrees ==
  ASSUME NEW Token, {"~", "/", ":", "@"} \subseteq Token, Home \in Seq(Token),
         InputsAre(Token), CallInv
  PROVE  LayersAgree
<1> SUFFICES ASSUME phase = "running"
             PROVE  /\ LooksLikePath(call.text) /\ AllowsPathWrite(manifest, call.text) =>
                         MayWrite(profile, ExpandHome(call.text))
                    /\ call.parts # <<>> => MayConnect(profile, ParseHostPort(call.text).port)
  BY DEF LayersAgree
<1>1. /\ case \in DOMAIN Cases /\ manifest \in Cases[case].manifests
      /\ profile = GenerateSbplProfile(manifest, ToolPath)
      /\ CheckString(call.text, manifest) = "allow"
  BY Inspected DEF CallInv
<1>2. CASE call.text \in Cases[case].texts /\ call.parts = <<>>
  <2> SUFFICES ASSUME LooksLikePath(call.text), AllowsPathWrite(manifest, call.text)
               PROVE  MayWrite(profile, ExpandHome(call.text))
    BY <1>2
  <2>1. PICK pattern \in manifest.write : GlobMatches(pattern, call.text)
    BY DEF AllowsPathWrite
  <2>2. pattern \in Seq(Token) /\ call.text \in Seq(Token) /\ JoinsHome(call.text)
    BY <1>1, <1>2 DEF InputsAre
  <2>3. Below(GlobToSubpathPrefix(pattern), ExpandHome(call.text))
    BY <2>1, <2>2, PathsAgree
  <2>4. WriteBelow(GlobToSubpathPrefix(pattern)) \in profile
    BY <1>1 DEF GenerateSbplProfile, FilesystemRules
  <2> QED BY <2>3, <2>4 DEF MayWrite, WriteBelow
<1>3. CASE call.parts \in Cases[case].urls /\ call.text = Render(call.parts)
  <2>1. LooksLikeUrl(call.text) /\ ~LooksLikePath(call.text)
    BY <1>1, <1>3, RenderHasScheme DEF InputsAre
  <2>2. CheckUrl(call.text, manifest) = "allow"
    BY <1>1, <2>1 DEF CheckString
  <2>3. PICK to : to = ParseHostPort(call.text)
    OBVIOUS
  <2>4. AllowsNetworkConnection(manifest, to.host, to.port)
    BY <2>2, <2>3 DEF CheckUrl
  <2>5. MayConnect(profile, to.port)
    BY <1>1, <2>4, PortsAgree
  <2> QED BY <2>1, <2>3, <2>5
<1> QED BY <1>2, <1>3 DEF CallInv

(* Whatever the manifests, paths and URLs: a path that the broker lets the *)
(* tool write to can be written under the Seatbelt profile of the same     *)
(* manifest, and the port of a URL it lets through can be connected to.    *)
THEOREM SecondLayerAgrees ==
  ASSUME NEW Token, {"~", "/", ":", "@"} \subseteq Token, Home \in Seq(Token), InputsAre(Token)
  PROVE  Spec => []LayersAgree
<1>1. CallInv => LayersAgree
  BY CallInvAgrees
<1> QED BY <1>1, CallInvariant, PTL

(* A call put together as a URL is let through if the host and the port    *)
(* its author wrote are allowed, and only then, unless it is taken for a   *)
(* traversal: for every URL of IsUrl, whatever its user information and    *)
(* what is behind the host and port contain, if that begins with a "/".    *)
THEOREM UrlsMeanTheirParts ==
  ASSUME NEW Token, {"~", "/", "@", ":"} \subseteq Token,
         \A c \in DOMAIN Cases : \A url \in Cases[c].urls : IsUrl(url, Token)
  PROVE  Spec => []UrlMeansParts
<1>1. ASSUME CallInv PROVE UrlMeansParts
  <2> SUFFICES ASSUME phase \in {"running", "denied", "answered", "done"},
                      call.parts # <<>>, verdict # "path", EndsAtSlash(call.parts)
               PROVE  LET url == call.parts
                          port == IF url.port = <<>> THEN DefaultPort(url.scheme) ELSE U16(url.port)
                      IN  verdict = "allow" <=>
                            port >= 0 /\ AllowsNetworkConnection(manifest, url.host, port)
    BY DEF UrlMeansParts, Judged
  <2>1. PICK url : url = call.parts
    OBVIOUS
  <2>2. call.text = Render(url) /\ IsUrl(url, Token)
    BY <1>1, <2>1 DEF CallInv
  <2>3. verdict = CheckString(call.text, manifest)
    BY <1>1, Inspected DEF CallInv
  <2>4. LooksLikeUrl(call.text) /\ ~LooksLikePath(call.text)
    <3>1. url.scheme # <<>> /\ \A i \in 1..Len(url.scheme) : url.scheme[i] # "/"
      <4>1. url.scheme \in Seq(Token \ {"/"}) /\ url.scheme # <<>>
        BY <2>2 DEF IsUrl
      <4> QED BY <4>1
    <3>2. HasParts(url, Token)
      BY <2>2, UrlHasParts
    <3> QED BY <2>2, <3>1, <3>2, RenderHasScheme
  <2>5. verdict = CheckUrl(call.text, manifest)
    BY <2>3, <2>4 DEF CheckString
  <2>6. PICK port : port = IF url.port = <<>> THEN DefaultPort(url.scheme) ELSE U16(url.port)
    OBVIOUS
  <2>7. ParseHostPort(call.text) = [host |-> url.host, port |-> port]
    BY <2>1, <2>2, <2>6, ParseRendered
  <2>8. verdict = "allow" <=> port >= 0 /\ AllowsNetworkConnection(manifest, url.host, port)
    BY <2>5, <2>7 DEF CheckUrl
  <2> QED BY <2>1, <2>6, <2>8
<1> QED BY <1>1, CallInvariant, PTL

LEMMA RenderedTokens ==
  ASSUME NEW Token, {"~", "/", "@", ":"} \subseteq Token, NEW url, HasParts(url, Token)
  PROVE  Render(url) \in Seq(Token)
<1>1. PICK s, scheme, a, path : /\ s = Render(url) /\ a = UserPart(url) \o HostPort(url)
                                /\ scheme = url.scheme /\ path = url.path
  OBVIOUS
<1>2. scheme \in Seq(Token) /\ path \in Seq(Token)
  BY <1>1 DEF HasParts
<1>3. a \in Seq(Token) /\ IsText(s, scheme, a, path)
  BY <1>1, RenderIs
<1>4. PICK n, m : n = Len(scheme) /\ m = Len(a)
  OBVIOUS
<1>5. TextIs(s, scheme, a, path, Token, n, m)
  BY <1>2, <1>3, <1>4, Pieces
<1> QED BY <1>1, <1>5 DEF TextIs

(* The tools/call carries a traversal exactly if its string spells one,    *)
(* in whatever mixture of plain and encoded characters.                    *)
THEOREM TraversalsAreCaught ==
  ASSUME NEW Token, HasSigns(Token), {"~", "/", "@", ":"} \subseteq Token,
         \A c \in DOMAIN Cases :
           /\ \A s \in Cases[c].texts : s \in Seq(Token)
           /\ \A url \in Cases[c].urls : HasParts(url, Token)
  PROVE  Spec => []TraversalCaught
<1>1. ASSUME CallInv PROVE TraversalCaught
  <2>1. call.text \in Seq(Token)
    <3>1. CASE phase = "ready"
      <4>1. call.text = <<>>
        BY <1>1, <3>1 DEF CallInv, NoCall
      <4>2. <<>> \in Seq(Token)
        OBVIOUS
      <4> QED BY <4>1, <4>2
    <3>2. CASE phase # "ready" /\ call.text \in Cases[case].texts
      BY <1>1, <3>2 DEF CallInv
    <3>3. CASE call.parts \in Cases[case].urls /\ call.text = Render(call.parts)
      <4>1. PICK url, a : url = call.parts /\ a = UserPart(url) \o HostPort(url)
        OBVIOUS
      <4>2. HasParts(url, Token)
        BY <1>1, <3>3, <4>1 DEF CallInv
      <4> QED BY <3>3, <4>1, <4>2, RenderedTokens
    <3> QED BY <1>1, <3>1, <3>2, <3>3 DEF CallInv
  <2> QED BY <2>1, TraversalExact DEF TraversalCaught
<1> QED BY <1>1, CallInvariant, PTL

-----------------------------------------------------------------------------
(* A loop over 1..n: its recursion as an equation that has a solution.     *)

IsLoop(f, n, base, step) ==
  f = [i \in 0..n |-> IF i = 0 THEN base ELSE step[<<f[i - 1], i>>]]

LEMMA LoopExists ==
  ASSUME NEW V, NEW n \in Nat, NEW base \in V, NEW step \in [V \X (1..n) -> V]
  PROVE  \E f \in [0..n -> V] : IsLoop(f, n, base, step)
<1> DEFINE Up(f, k) == f[0] = base /\ \A i \in 1..k : f[i] = step[<<f[i - 1], i>>]
           S == {k \in 0..n : \E f \in [0..n -> V] : Up(f, k)}
<1>1. 0 \in S
  <2> DEFINE f == [i \in 0..n |-> base]
  <2>1. f \in [0..n -> V] /\ f[0] = base /\ 0 \in 0..n
    OBVIOUS
  <2>2. \A i \in 1..0 : FALSE
    OBVIOUS
  <2> HIDE DEF f
  <2>3. Up(f, 0)
    BY <2>1, <2>2
  <2> QED BY <2>1, <2>3
<1>2. ASSUME NEW k \in 0..n - 1, k \in S PROVE k + 1 \in S
  <2>1. PICK f \in [0..n -> V] : Up(f, k)
    BY <1>2
  <2> DEFINE g == [f EXCEPT ![k + 1] = step[<<f[k], k + 1>>]]
  <2>2. k + 1 \in 1..n /\ k \in 0..n /\ k + 1 # 0 /\ k # k + 1
    OBVIOUS
  <2>3. step[<<f[k], k + 1>>] \in V
    BY <2>2
  <2>4. g \in [0..n -> V]
    BY <2>3
  <2>5. \A i \in 0..n : g[i] = IF i = k + 1 THEN step[<<f[k], k + 1>>] ELSE f[i]
    OBVIOUS
  <2> HIDE DEF g
  <2>6. g[0] = base
    BY <2>1, <2>2, <2>5
  <2>7. ASSUME NEW i \in 1..k + 1 PROVE g[i] = step[<<g[i - 1], i>>]
    <3>1. i \in 0..n /\ i - 1 \in 0..n /\ i - 1 # k + 1
      OBVIOUS
    <3>2. CASE i = k + 1
      <4>1. i - 1 = k
        BY <3>2
      <4> QED BY <2>5, <3>1, <3>2, <4>1
    <3>3. CASE i # k + 1
      <4>1. i \in 1..k
        BY <3>3
      <4> QED BY <2>1, <2>5, <3>1, <3>3, <4>1
    <3> QED BY <3>2, <3>3
  <2> QED BY <2>2, <2>4, <2>6, <2>7
<1> HIDE DEF S
<1>3. n \in S
  BY <1>1, <1>2, Upwards
<1>4. PICK f \in [0..n -> V] : Up(f, n)
  BY <1>3 DEF S
<1>5. \A i \in 0..n : f[i] = IF i = 0 THEN base ELSE step[<<f[i - 1], i>>]
  BY <1>4
<1>6. f = [i \in 0..n |-> f[i]]
  OBVIOUS
<1> QED BY <1>5, <1>6 DEF IsLoop

-----------------------------------------------------------------------------
(* What FlattenSeq joins, one sequence at a time.                          *)

Joins(f, seqs) ==
  f[0] = <<>> /\ \A i \in 1..Len(seqs) : f[i] = f[i - 1] \o seqs[i]

LEMMA SameFrom1 ==
  ASSUME NEW n \in Nat, n # 0, NEW f, NEW g, f[1] = g[1],
         \A k \in 1..n - 1 : f[k] = g[k] => f[k + 1] = g[k + 1]
  PROVE  f[n] = g[n]
<1> DEFINE S == {k \in 0..n : k # 0 => f[k] = g[k]}
<1>1. 0 \in S
  OBVIOUS
<1>2. ASSUME NEW k \in 0..n - 1, k \in S PROVE k + 1 \in S
  <2>1. CASE k = 0
    BY <2>1
  <2>2. CASE k # 0
    BY <1>2, <2>2
  <2> QED BY <2>1, <2>2
<1> HIDE DEF S
<1>3. n \in S
  BY <1>1, <1>2, Upwards
<1> QED BY <1>3 DEF S

LEMMA FlattenIs ==
  ASSUME NEW T, NEW seqs \in Seq(Seq(T))
  PROVE  \E f \in [0..Len(seqs) -> Seq(T)] : Joins(f, seqs) /\ FlattenSeq(seqs) = f[Len(seqs)]
<1>n. PICK n \in Nat : n = Len(seqs)
  OBVIOUS
<1>0. \A i \in 1..n : seqs[i] \in Seq(T)
  BY <1>n
<1> DEFINE V == Seq(T)
           step == [vi \in V \X (1..n) |-> vi[1] \o seqs[vi[2]]]
<1>a. \A s, t \in Seq(T) : s \o t \in Seq(T)
  OBVIOUS
<1>1. \A v \in V, i \in 1..n : step[<<v, i>>] = v \o seqs[i] /\ v \o seqs[i] \in V
  <2>1. \A v \in V, i \in 1..n : v \o seqs[i] \in V
    BY <1>0, <1>a
  <2> HIDE DEF V
  <2>2. \A v \in V, i \in 1..n : step[<<v, i>>] = v \o seqs[i]
    OBVIOUS
  <2> QED BY <2>1, <2>2
<1>2. step \in [V \X (1..n) -> V]
  BY <1>1
<1>3. <<>> \in V
  OBVIOUS
<1> HIDE DEF V, step
<1>4. PICK f \in [0..n -> V] : IsLoop(f, n, <<>>, step)
  BY <1>2, <1>3, LoopExists
<1>5. f[0] = <<>> /\ \A i \in 1..n : f[i] = f[i - 1] \o seqs[i]
  <2>1. \A i \in 0..n : f[i] = IF i = 0 THEN <<>> ELSE step[<<f[i - 1], i>>]
    BY <1>4 DEF IsLoop
  <2>2. \A i \in 1..n : i \in 0..n /\ i - 1 \in 0..n /\ i # 0
    OBVIOUS
  <2>3. 0 \in 0..n
    OBVIOUS
  <2> QED BY <1>1, <2>1, <2>2, <2>3
<1>b. \A k \in 0..n - 1 : f[k + 1] = f[k] \o seqs[k + 1]
  <2>1. \A k \in 0..n - 1 : k + 1 \in 1..n /\ (k + 1) - 1 = k
    OBVIOUS
  <2> QED BY <1>5, <2>1
<1>6. Joins(f, seqs)
  BY <1>n, <1>5 DEF Joins
<1>7. FlattenSeq(seqs) = f[n]
  <2>1. CASE n = 0
    <3>1. seqs = <<>>
      BY <1>n, <2>1, EmptySeq
    <3> QED BY <1>n, <1>5, <2>1, <3>1 DEF FlattenSeq
  <2>2. CASE n # 0
    <3> DEFINE Is(g) == g = [i \in 1..n |-> IF i = 1 THEN seqs[i] ELSE g[i - 1] \o seqs[i]]
               g0 == [i \in 1..n |-> f[i]]
               flatten == CHOOSE g : Is(g)
    <3>1. Is(g0)
      <4>1. ASSUME NEW i \in 1..n
            PROVE  g0[i] = IF i = 1 THEN seqs[i] ELSE g0[i - 1] \o seqs[i]
        <5>1. g0[i] = f[i - 1] \o seqs[i]
          BY <1>5
        <5>2. CASE i = 1
          <6>1. f[i - 1] = <<>> /\ seqs[i] \in Seq(T)
            BY <1>0, <1>5, <5>2
          <6>2. \A s \in Seq(T) : <<>> \o s = s
            OBVIOUS
          <6> QED BY <5>1, <5>2, <6>1, <6>2
        <5>3. CASE i # 1
          <6>1. i - 1 \in 1..n
            BY <5>3
          <6> QED BY <5>1, <5>3, <6>1
        <5> QED BY <5>2, <5>3
      <4> QED BY <4>1
    <3>2. Is(flatten)
      <4> HIDE DEF Is
      <4> QED BY <3>1
    <3>3. FlattenSeq(seqs) = flatten[n]
      BY <1>n, <2>2 DEF FlattenSeq
    <3> HIDE DEF flatten, g0
    <3>4. \A i \in 1..n : flatten[i] = IF i = 1 THEN seqs[i] ELSE flatten[i - 1] \o seqs[i]
      BY <3>2
    <3>8. \A k \in 1..n - 1 : flatten[k + 1] = flatten[k] \o seqs[k + 1]
      <4>1. \A k \in 1..n - 1 : k + 1 \in 1..n /\ (k + 1) - 1 = k /\ k + 1 # 1
        OBVIOUS
      <4> QED BY <3>4, <4>1
    <3>5. 1 \in 1..n /\ flatten[1] = seqs[1] /\ f[1] = seqs[1]
      <4>1. 0 \in 0..n - 1 /\ 0 + 1 = 1 /\ 1 \in 1..n
        BY <2>2
      <4>2. f[1] = f[0] \o seqs[1] /\ seqs[1] \in Seq(T)
        BY <1>0, <1>b, <4>1
      <4>3. \A s \in Seq(T) : <<>> \o s = s
        OBVIOUS
      <4> QED BY <1>5, <3>4, <4>1, <4>2, <4>3
    <3>6. \A k \in 1..n - 1 : flatten[k] = f[k] => flatten[k + 1] = f[k + 1]
      <4>1. \A k \in 1..n - 1 : k \in 0..n - 1
        OBVIOUS
      <4> QED BY <1>b, <3>8, <4>1
    <3>7. flatten[n] = f[n]
      BY <2>2, <3>5, <3>6, SameFrom1
    <3> QED BY <3>3, <3>7
  <2> QED BY <2>1, <2>2
<1> QED BY <1>n, <1>6, <1>7 DEF V

-----------------------------------------------------------------------------
(* The order of the detections: an insertion at a time shows that there is *)
(* one.                                                                    *)

InOrder(order, detections, m) ==
  /\ order \in [1..m -> 1..m]
  /\ \A i \in 1..m : \E p \in 1..m : order[p] = i
  /\ \A p, q \in 1..m : p < q => Before(detections, order[p], order[q])

LEMMA InsertOne ==
  ASSUME NEW detections, NEW m \in Nat, \A i \in 1..m + 1 : detections[i].start \in Nat,
         NEW order, InOrder(order, detections, m)
  PROVE  \E longer : InOrder(longer, detections, m + 1)
<1> DEFINE at(i) == detections[i].start
           new == m + 1
           behind == {p \in 1..m + 1 : p = m + 1 \/ at(order[p]) > at(new)}
<1>1. order \in [1..m -> 1..m] /\ \A p \in 1..m : order[p] \in 1..m
  BY DEF InOrder
<1>2. at(new) \in Nat /\ \A p \in 1..m : at(order[p]) \in Nat
  BY <1>1
<1>3. \A p, q \in 1..m : p < q => at(order[p]) < at(order[q]) \/ (at(order[p]) = at(order[q]) /\ order[p] < order[q])
  <2>1. \A p, q \in 1..m : p < q => Before(detections, order[p], order[q])
    BY DEF InOrder
  <2>2. \A i, j : Before(detections, i, j) => at(i) < at(j) \/ (at(i) = at(j) /\ i < j)
    BY DEF Before
  <2> HIDE DEF at
  <2> QED BY <2>1, <2>2
<1>4. \A i \in 1..m : \E p \in 1..m : order[p] = i
  BY DEF InOrder
<1>5. PICK q \in behind : \A p \in behind : q =< p
  <2>1. behind \in SUBSET Nat /\ m + 1 \in behind
    OBVIOUS
  <2> HIDE DEF behind
  <2> QED BY <2>1, LeastOf
<1>6. q \in 1..m + 1 /\ (q = m + 1 \/ at(order[q]) > at(new))
  OBVIOUS
<1>7. \A p \in 1..m : p < q => at(order[p]) <= at(new)
  <2> SUFFICES ASSUME NEW p \in 1..m, p < q PROVE at(order[p]) <= at(new)
    OBVIOUS
  <2>1. p \notin behind
    BY <1>5
  <2> QED BY <1>2, <2>1
<1> DEFINE longer == [p \in 1..m + 1 |-> IF p < q THEN order[p] ELSE IF p = q THEN new ELSE order[p - 1]]
<1>8. \A p \in 1..m + 1 : p < q => p \in 1..m /\ longer[p] = order[p]
  BY <1>6
<1>9. longer[q] = new
  BY <1>6
<1>10. \A p \in 1..m + 1 : p > q => p - 1 \in 1..m /\ longer[p] = order[p - 1]
  BY <1>6
<1> HIDE DEF behind, longer
<1>11. longer = [p \in 1..m + 1 |-> longer[p]]
  BY DEF longer
<1>12. \A p \in 1..m + 1 : longer[p] \in 1..m + 1
  BY <1>1, <1>6, <1>8, <1>9, <1>10
<1>13. \A i \in 1..m + 1 : \E p \in 1..m + 1 : longer[p] = i
  <2> SUFFICES ASSUME NEW i \in 1..m + 1 PROVE \E p \in 1..m + 1 : longer[p] = i
    OBVIOUS
  <2>1. CASE i = m + 1
    BY <1>6, <1>9, <2>1
  <2>2. CASE i # m + 1
    <3>1. PICK p \in 1..m : order[p] = i
      BY <1>4, <2>2
    <3>2. CASE p < q
      BY <1>8, <3>1, <3>2
    <3>3. CASE p >= q
      <4>1. p + 1 \in 1..m + 1 /\ p + 1 > q /\ (p + 1) - 1 = p
        BY <1>6, <3>3
      <4> QED BY <1>10, <3>1, <4>1
    <3> QED BY <1>6, <3>2, <3>3
  <2> QED BY <2>1, <2>2
<1>14. \A p, r \in 1..m + 1 : p < r => Before(detections, longer[p], longer[r])
  <2> SUFFICES ASSUME NEW p \in 1..m + 1, NEW r \in 1..m + 1, p < r
               PROVE  at(longer[p]) < at(longer[r]) \/ (at(longer[p]) = at(longer[r]) /\ longer[p] < longer[r])
    BY DEF Before
  <2> HIDE DEF at, new
  <2>1. CASE r < q
    <3>1. p < q
      BY <1>6, <2>1
    <3> QED BY <1>3, <1>8, <2>1, <3>1
  <2>2. CASE r = q
    <3>1. longer[p] = order[p] /\ p \in 1..m /\ longer[r] = new
      BY <1>8, <1>9, <2>2
    <3>2. order[p] < new
      BY <1>1, <3>1 DEF new
    <3> QED BY <1>2, <1>7, <2>2, <3>1, <3>2
  <2>3. CASE r > q /\ p < q
    <3>1. p < r - 1
      BY <1>6, <2>3
    <3> QED BY <1>3, <1>8, <1>10, <2>3, <3>1
  <2>4. CASE r > q /\ p = q
    <3>1. r - 1 \in 1..m /\ longer[r] = order[r - 1] /\ longer[p] = new
      BY <1>9, <1>10, <2>4
    <3>2. q \in 1..m /\ at(order[q]) > at(new)
      BY <1>6, <2>4
    <3>3. r - 1 = q \/ r - 1 > q
      BY <1>6, <2>4
    <3>4. at(order[r - 1]) > at(new)
      <4>1. CASE r - 1 = q
        BY <3>2, <4>1
      <4>2. CASE r - 1 > q
        <5>1. at(order[q]) < at(order[r - 1]) \/ at(order[q]) = at(order[r - 1])
          BY <1>3, <3>1, <3>2, <4>2
        <5>2. at(order[q]) \in Nat /\ at(order[r - 1]) \in Nat
          BY <1>2, <3>1, <3>2
        <5> QED BY <1>2, <3>2, <5>1, <5>2
      <4> QED BY <3>3, <4>1, <4>2
    <3>5. at(new) \in Nat /\ at(order[r - 1]) \in Nat
      BY <1>2, <3>1
    <3>6. at(new) < at(order[r - 1])
      BY <3>4, <3>5
    <3> QED BY <3>1, <3>6
  <2>5. CASE r > q /\ p > q
    <3>1. p - 1 < r - 1
      BY <1>6, <2>5
    <3> QED BY <1>3, <1>10, <2>5, <3>1
  <2> QED BY <1>6, <2>1, <2>2, <2>3, <2>4, <2>5
<1>15. longer \in [1..m + 1 -> 1..m + 1]
  BY <1>11, <1>12
<1> QED BY <1>13, <1>14, <1>15 DEF InOrder

LEMMA OrderExists ==
  ASSUME NEW detections, NEW n \in Nat, \A i \in 1..n : detections[i].start \in Nat
  PROVE  \E order : InOrder(order, detections, n)
<1> DEFINE S == {k \in 0..n : \E order : InOrder(order, detections, k)}
<1>1. 0 \in S
  <2> DEFINE none == [i \in 1..0 |-> i]
  <2>1. none \in [1..0 -> 1..0] /\ \A i \in 1..0 : FALSE
    OBVIOUS
  <2> HIDE DEF none
  <2>2. InOrder(none, detections, 0)
    BY <2>1 DEF InOrder
  <2> QED BY <2>2
<1>2. ASSUME NEW k \in 0..n - 1, k \in S PROVE k + 1 \in S
  <2>1. \A i \in 1..k + 1 : detections[i].start \in Nat
    OBVIOUS
  <2>2. PICK order : InOrder(order, detections, k)
    BY <1>2
  <2> QED BY <2>1, <2>2, InsertOne
<1> HIDE DEF S
<1>3. n \in S
  BY <1>1, <1>2, Upwards
<1> QED BY <1>3 DEF S

LEMMA ByStartIs ==
  ASSUME NEW detections, NEW n \in Nat, DOMAIN detections = 1..n,
         \A i \in 1..n : detections[i].start \in Nat
  PROVE  InOrder(ByStart(detections), detections, n)
<1> DEFINE Is(order) ==
             /\ order \in Surjection(1..n, 1..n)
             /\ \A p, q \in 1..n : p < q => Before(detections, order[p], order[q])
<1>1. PICK order : InOrder(order, detections, n)
  BY OrderExists
<1>2. Is(order)
  BY <1>1 DEF InOrder, Surjection
<1>3. ByStart(detections) = CHOOSE o : Is(o)
  BY Zenon DEF ByStart
<1>4. Is(CHOOSE o : Is(o))
  <2> HIDE DEF Is
  <2> QED BY <1>2
<1>5. Is(ByStart(detections))
  BY <1>3, <1>4
<1> QED BY <1>5 DEF InOrder, Surjection

-----------------------------------------------------------------------------
(* The merge: what its loop has made of the first detections.              *)

Ranges(n) == {d \in [type : Int, start : Nat, end : Nat] : d.start < d.end /\ d.end <= n}
In(d, i) == d.start < i /\ i <= d.end

(* The detections in the order of their starts.                            *)
Sorted(found, size) == \A p, q \in 1..size : p < q => found[p].start <= found[q].start
Leading(found, p) == \A q \in 1..p - 1 : found[q].start < found[p].start

Merges(spans, found, j) ==
  /\ \A k, l \in 1..Len(spans) : k < l => spans[k].end < spans[l].start
  /\ \A i \in Nat : (\E k \in 1..Len(spans) : In(spans[k], i)) <=> \E p \in 1..j : In(found[p], i)
  /\ \A k \in 1..Len(spans) : \E p \in 1..j :
       /\ Leading(found, p)
       /\ spans[k].start = found[p].start /\ spans[k].type = found[p].type

LEMMA MaxOf ==
  ASSUME NEW a \in Nat, NEW b \in Nat
  PROVE  /\ Max({a, b}) \in Nat /\ Max({a, b}) >= a /\ Max({a, b}) >= b
         /\ Max({a, b}) = a \/ Max({a, b}) = b
<1> DEFINE Is(x) == x \in {a, b} /\ \A y \in {a, b} : x >= y
<1>1. Is(a) \/ Is(b)
  OBVIOUS
<1>2. Max({a, b}) = CHOOSE x : Is(x)
  BY Zenon DEF Max
<1>3. Is(CHOOSE x : Is(x))
  <2> HIDE DEF Is
  <2> QED BY <1>1
<1> QED BY <1>2, <1>3

LEMMA MergeFirst ==
  ASSUME NEW found
  PROVE  Merges(<<>>, found, 0)
BY DEF Merges

(* The detection opens a span.                                             *)
LEMMA MergeAppend ==
  ASSUME NEW n \in Nat, NEW size \in Nat, NEW found \in [1..size -> Ranges(n)], Sorted(found, size),
         NEW j \in 0..size - 1, NEW spans \in Seq(Ranges(n)), Merges(spans, found, j),
         spans # <<>> => spans[Len(spans)].end < found[j + 1].start
  PROVE  Merges(Append(spans, found[j + 1]), found, j + 1)
<1> DEFINE d == found[j + 1]
           longer == Append(spans, d)
<1>n. PICK last \in Nat : last = Len(spans)
  OBVIOUS
<1>1. j + 1 \in 1..size /\ d \in Ranges(n)
  OBVIOUS
<1>2. d.start \in Nat /\ d.end \in Nat /\ d.start < d.end
  BY <1>1 DEF Ranges
<1>3. \A k \in 1..last : spans[k].start \in Nat /\ spans[k].end \in Nat /\ spans[k].start < spans[k].end
  BY <1>n DEF Ranges
<1>4. Len(longer) = last + 1 /\ longer[last + 1] = d /\ \A k \in 1..last : longer[k] = spans[k]
  BY <1>n, <1>1
<1>6. \A k, l \in 1..last : k < l => spans[k].end < spans[l].start
  BY <1>n DEF Merges
<1>7. \A k \in 1..last : spans[k].end < d.start
  <2> SUFFICES ASSUME NEW k \in 1..last PROVE spans[k].end < d.start
    OBVIOUS
  <2>1. spans # <<>> /\ last \in 1..last
    BY <1>n
  <2>2. spans[last].end < d.start
    BY <1>n, <2>1
  <2>3. CASE k = last
    BY <2>2, <2>3
  <2>4. CASE k < last
    <3>1. spans[k].end < spans[last].start
      BY <1>6, <2>1, <2>4
    <3> QED BY <1>2, <1>3, <2>1, <2>2, <3>1
  <2> QED BY <2>3, <2>4
<1>8. \A k, l \in 1..last + 1 : k < l => longer[k].end < longer[l].start
  <2> SUFFICES ASSUME NEW k \in 1..last + 1, NEW l \in 1..last + 1, k < l
               PROVE  longer[k].end < longer[l].start
    OBVIOUS
  <2> HIDE DEF longer, d
  <2>1. k \in 1..last
    OBVIOUS
  <2>2. CASE l = last + 1
    BY <1>4, <1>7, <2>1, <2>2
  <2>3. CASE l # last + 1
    <3>1. l \in 1..last
      BY <2>3
    <3> QED BY <1>4, <1>6, <2>1, <3>1
  <2> QED BY <2>2, <2>3
<1>9. \A i \in Nat : (\E k \in 1..last : In(spans[k], i)) <=> \E p \in 1..j : In(found[p], i)
  BY <1>n DEF Merges
<1>10. \A i \in Nat : (\E k \in 1..last + 1 : In(longer[k], i)) <=> \E p \in 1..j + 1 : In(found[p], i)
  <2> HIDE DEF longer
  <2> SUFFICES ASSUME NEW i \in Nat
               PROVE  (\E k \in 1..last + 1 : In(longer[k], i)) <=> \E p \in 1..j + 1 : In(found[p], i)
    OBVIOUS
  <2>1. (\E k \in 1..last + 1 : In(longer[k], i)) <=> In(d, i) \/ \E k \in 1..last : In(spans[k], i)
    <3>1. \A k : k \in 1..last + 1 <=> k = last + 1 \/ k \in 1..last
      OBVIOUS
    <3> HIDE DEF d
    <3> QED BY <1>4, <3>1
  <2>2. (\E p \in 1..j + 1 : In(found[p], i)) <=> In(d, i) \/ \E p \in 1..j : In(found[p], i)
    <3>1. \A p : p \in 1..j + 1 <=> p = j + 1 \/ p \in 1..j
      OBVIOUS
    <3> QED BY <3>1
  <2> QED BY <1>9, <2>1, <2>2
<1>11. \A k \in 1..last : \E p \in 1..j :
         Leading(found, p) /\ spans[k].start = found[p].start /\ spans[k].type = found[p].type
  BY <1>n DEF Merges
<1>12. Leading(found, j + 1)
  <2> SUFFICES ASSUME NEW q \in 1..j PROVE found[q].start < d.start
    BY DEF Leading
  <2>1. q \in 1..size /\ found[q] \in Ranges(n)
    OBVIOUS
  <2>2. found[q].start \in Nat /\ found[q].end \in Nat /\ found[q].start < found[q].end
    BY <2>1 DEF Ranges
  <2>3. In(found[q], found[q].start + 1)
    BY <2>2 DEF In
  <2>4. PICK k \in 1..last : In(spans[k], found[q].start + 1)
    BY <1>9, <2>2, <2>3
  <2>5. found[q].start + 1 <= spans[k].end
    BY <2>4 DEF In
  <2>6. spans[k].end < d.start
    BY <1>7
  <2> QED BY <1>2, <1>3, <2>2, <2>5, <2>6
<1>13. \A k \in 1..last + 1 : \E p \in 1..j + 1 :
         Leading(found, p) /\ longer[k].start = found[p].start /\ longer[k].type = found[p].type
  <2> SUFFICES ASSUME NEW k \in 1..last + 1
               PROVE  \E p \in 1..j + 1 : Leading(found, p) /\ longer[k].start = found[p].start
                                            /\ longer[k].type = found[p].type
    OBVIOUS
  <2> HIDE DEF longer
  <2>1. CASE k = last + 1
    <3>1. j + 1 \in 1..j + 1
      OBVIOUS
    <3> QED BY <1>4, <1>12, <2>1, <3>1
  <2>2. CASE k # last + 1
    <3>1. k \in 1..last /\ \A p \in 1..j : p \in 1..j + 1
      BY <2>2
    <3> QED BY <1>4, <1>11, <3>1
  <2> QED BY <2>1, <2>2
<1> HIDE DEF longer
<1>14. Merges(longer, found, j + 1)
  BY <1>4, <1>8, <1>10, <1>13 DEF Merges
<1> QED BY <1>14 DEF longer

(* The detection extends the last span.                                    *)
LEMMA MergeExtend ==
  ASSUME NEW n \in Nat, NEW size \in Nat, NEW found \in [1..size -> Ranges(n)], Sorted(found, size),
         NEW j \in 0..size - 1, NEW spans \in Seq(Ranges(n)), Merges(spans, found, j),
         NEW last \in Nat, last = Len(spans), last # 0, found[j + 1].start <= spans[last].end,
         NEW wider \in Ranges(n), wider.type = spans[last].type, wider.start = spans[last].start,
         wider.end >= spans[last].end, wider.end >= found[j + 1].end,
         wider.end = spans[last].end \/ wider.end = found[j + 1].end,
         NEW longer, Len(longer) = last, longer[last] = wider,
         \A k \in 1..last - 1 : longer[k] = spans[k]
  PROVE  Merges(longer, found, j + 1)
<1> DEFINE d == found[j + 1]
<1>1. j + 1 \in 1..size /\ d \in Ranges(n) /\ last \in 1..last
  OBVIOUS
<1>2. d.start \in Nat /\ d.end \in Nat /\ d.start < d.end
  BY <1>1 DEF Ranges
<1>3. \A k \in 1..last : spans[k].start \in Nat /\ spans[k].end \in Nat /\ spans[k].start < spans[k].end
  BY DEF Ranges
<1>4. wider.start \in Nat /\ wider.end \in Nat
  BY DEF Ranges
<1>5. \A k, l \in 1..last : k < l => spans[k].end < spans[l].start
  BY DEF Merges
<1>6. \A k, l \in 1..last : k < l => longer[k].end < longer[l].start
  <2> SUFFICES ASSUME NEW k \in 1..last, NEW l \in 1..last, k < l
               PROVE  longer[k].end < longer[l].start
    OBVIOUS
  <2>1. k \in 1..last - 1 /\ longer[k] = spans[k]
    OBVIOUS
  <2>2. longer[l].start = spans[l].start
    <3>1. CASE l = last
      BY <3>1
    <3>2. CASE l # last
      <4>1. l \in 1..last - 1
        BY <3>2
      <4> QED BY <4>1
    <3> QED BY <3>1, <3>2
  <2> QED BY <1>5, <2>1, <2>2
<1>7. \A i \in Nat : (\E k \in 1..last : In(spans[k], i)) <=> \E p \in 1..j : In(found[p], i)
  BY DEF Merges
<1>8. \A k \in 1..last : \E p \in 1..j :
         Leading(found, p) /\ spans[k].start = found[p].start /\ spans[k].type = found[p].type
  BY DEF Merges
<1>9. spans[last].start <= d.start
  <2>1. PICK p \in 1..j : spans[last].start = found[p].start
    BY <1>1, <1>8
  <2>2. p \in 1..size /\ p < j + 1
    OBVIOUS
  <2> QED BY <1>1, <2>1, <2>2 DEF Sorted
<1>10. \A i \in Nat : In(wider, i) <=> In(spans[last], i) \/ In(d, i)
  BY <1>1, <1>2, <1>3, <1>4, <1>9 DEF In
<1>11. \A i \in Nat : (\E k \in 1..last : In(longer[k], i)) <=> \E p \in 1..j + 1 : In(found[p], i)
  <2> SUFFICES ASSUME NEW i \in Nat
               PROVE  (\E k \in 1..last : In(longer[k], i)) <=> \E p \in 1..j + 1 : In(found[p], i)
    OBVIOUS
  <2>1. (\E k \in 1..last : In(longer[k], i)) <=> In(d, i) \/ \E k \in 1..last : In(spans[k], i)
    <3>1. \A k : k \in 1..last <=> k = last \/ k \in 1..last - 1
      OBVIOUS
    <3> HIDE DEF d
    <3> QED BY <1>10, <3>1
  <2>2. (\E p \in 1..j + 1 : In(found[p], i)) <=> In(d, i) \/ \E p \in 1..j : In(found[p], i)
    <3>1. \A p : p \in 1..j + 1 <=> p = j + 1 \/ p \in 1..j
      OBVIOUS
    <3> QED BY <3>1
  <2> QED BY <1>7, <2>1, <2>2
<1>12. \A k \in 1..last : \E p \in 1..j + 1 :
         Leading(found, p) /\ longer[k].start = found[p].start /\ longer[k].type = found[p].type
  <2> SUFFICES ASSUME NEW k \in 1..last
               PROVE  \E p \in 1..j + 1 : Leading(found, p) /\ longer[k].start = found[p].start
                                            /\ longer[k].type = found[p].type
    OBVIOUS
  <2>1. longer[k].start = spans[k].start /\ longer[k].type = spans[k].type
    <3>1. CASE k = last
      BY <3>1
    <3>2. CASE k # last
      <4>1. k \in 1..last - 1
        BY <3>2
      <4> QED BY <4>1
    <3> QED BY <3>1, <3>2
  <2>2. \A p \in 1..j : p \in 1..j + 1
    OBVIOUS
  <2> QED BY <1>8, <2>1, <2>2
<1> QED BY <1>6, <1>11, <1>12 DEF Merges

(* The two ways of the loop body.                                          *)
Opens(longer, spans, d) ==
  /\ longer = Append(spans, d)
  /\ spans # <<>> => spans[Len(spans)].end < d.start
Widens(longer, spans, d, n) ==
  \E last \in Nat, wider \in Ranges(n) :
    /\ last = Len(spans) /\ last # 0 /\ d.start <= spans[last].end
    /\ wider.type = spans[last].type /\ wider.start = spans[last].start
    /\ wider.end >= spans[last].end /\ wider.end >= d.end
    /\ wider.end = spans[last].end \/ wider.end = d.end
    /\ Len(longer) = last /\ longer[last] = wider
    /\ \A k \in 1..last - 1 : longer[k] = spans[k]

LEMMA ExtendIs ==
  ASSUME NEW n \in Nat, NEW spans \in Seq(Ranges(n)), NEW d \in Ranges(n)
  PROVE  /\ Extend(spans, d) \in Seq(Ranges(n))
         /\ Opens(Extend(spans, d), spans, d) \/ Widens(Extend(spans, d), spans, d, n)
<1> PICK last \in Nat : last = Len(spans)
  OBVIOUS
<1>0. Last(spans) = spans[last]
  BY DEF Last
<1>1. CASE spans # <<>> /\ d.start <= spans[last].end
  <2>1. last # 0 /\ last \in 1..last
    BY <1>1, EmptySeq
  <2>2. PICK span \in Ranges(n) : span = spans[last]
    BY <2>1
  <2>3. span.end \in Nat /\ d.end \in Nat /\ span.end <= n /\ d.end <= n /\ span.start \in Nat /\ span.start < span.end
    BY DEF Ranges
  <2>4. PICK end \in Nat : end = Max({span.end, d.end})
    BY <2>3, MaxOf
  <2>5. end >= span.end /\ end >= d.end /\ (end = span.end \/ end = d.end)
    BY <2>3, <2>4, MaxOf
  <2> DEFINE wider == [span EXCEPT !.end = end]
  <2>6. wider \in Ranges(n) /\ wider.type = span.type /\ wider.start = span.start /\ wider.end = end
    <3>1. span \in [type : Int, start : Nat, end : Nat]
      BY DEF Ranges
    <3>2. wider \in [type : Int, start : Nat, end : Nat]
          /\ wider.type = span.type /\ wider.start = span.start /\ wider.end = end
      BY <3>1
    <3> HIDE DEF wider
    <3>3. wider.start < wider.end /\ wider.end <= n
      BY <2>3, <2>5, <3>2
    <3> QED BY <3>2, <3>3 DEF Ranges
  <2> DEFINE longer == [spans EXCEPT ![last] = wider]
  <2>7. Extend(spans, d) = longer
    BY <1>0, <1>1, <2>2, <2>4 DEF Extend
  <2> HIDE DEF wider
  <2>8. longer \in Seq(Ranges(n)) /\ Len(longer) = last /\ longer[last] = wider
        /\ \A k \in 1..last - 1 : longer[k] = spans[k]
    BY <2>1, <2>6
  <2> HIDE DEF longer
  <2>9. Widens(longer, spans, d, n)
    BY <1>1, <2>1, <2>2, <2>5, <2>6, <2>8 DEF Widens
  <2> QED BY <2>7, <2>8, <2>9
<1>2. CASE ~(spans # <<>> /\ d.start <= spans[last].end)
  <2>1. Extend(spans, d) = Append(spans, d)
    BY <1>0, <1>2 DEF Extend
  <2>2. Append(spans, d) \in Seq(Ranges(n))
    OBVIOUS
  <2>3. ASSUME spans # <<>> PROVE spans[last].end < d.start
    <3>1. spans[last] \in Ranges(n)
      BY <2>3, EmptySeq
    <3>2. spans[last].end \in Nat /\ d.start \in Nat
      BY <3>1 DEF Ranges
    <3> QED BY <1>2, <2>3, <3>2
  <2>4. Opens(Extend(spans, d), spans, d)
    BY <2>1, <2>3 DEF Opens
  <2> QED BY <2>1, <2>2, <2>4
<1> QED BY <1>1, <1>2

LEMMA MergeStep ==
  ASSUME NEW n \in Nat, NEW size \in Nat, NEW found \in [1..size -> Ranges(n)], Sorted(found, size),
         NEW j \in 0..size - 1, NEW spans \in Seq(Ranges(n)), Merges(spans, found, j)
  PROVE  Merges(Extend(spans, found[j + 1]), found, j + 1)
<1>d. PICK d \in Ranges(n) : d = found[j + 1]
  <2>1. j + 1 \in 1..size
    OBVIOUS
  <2> QED BY <2>1
<1>1. Opens(Extend(spans, d), spans, d) \/ Widens(Extend(spans, d), spans, d, n)
  BY ExtendIs
<1>2. CASE Opens(Extend(spans, d), spans, d)
  BY <1>d, <1>2, MergeAppend DEF Opens
<1>3. ASSUME NEW longer, Widens(longer, spans, d, n)
      PROVE  Merges(longer, found, j + 1)
  BY <1>d, <1>3, MergeExtend DEF Widens
<1> QED BY <1>d, <1>1, <1>2, <1>3

(* What the spans are to the detections they were merged from.             *)
First(detections, a) == \A b \in 1..a - 1 : detections[b].start # detections[a].start

MergeOf(spans, detections) ==
  /\ \A k, l \in 1..Len(spans) : k < l => spans[k].end < spans[l].start
  /\ \A i \in Nat : (\E k \in 1..Len(spans) : In(spans[k], i))
                      <=> \E a \in 1..Len(detections) : In(detections[a], i)
  /\ \A k \in 1..Len(spans) : \E a \in 1..Len(detections) :
       /\ First(detections, a)
       /\ spans[k].start = detections[a].start /\ spans[k].type = detections[a].type

LEMMA MergedAll ==
  ASSUME NEW n \in Nat, NEW size \in Nat, NEW found \in [1..size -> Ranges(n)], Sorted(found, size),
         NEW detections, NEW order, ByStart(detections) = order, Len(detections) = size,
         \A p \in 1..size : detections[order[p]] = found[p]
  PROVE  /\ MergeDetections(detections) \in Seq(Ranges(n))
         /\ Merges(MergeDetections(detections), found, size)
<1> DEFINE V == Seq(Ranges(n))
           step == [vi \in V \X (1..size) |-> Extend(vi[1], found[vi[2]])]
           Is(f) == f = [i \in 0..size |-> IF i = 0 THEN <<>> ELSE Extend(f[i - 1], detections[order[i]])]
           merged == CHOOSE f : Is(f)
<1>1. \A v \in V, d \in Ranges(n) : Extend(v, d) \in V
  BY ExtendIs
<1>2. step \in [V \X (1..size) -> V]
  <2> HIDE DEF V
  <2> QED BY <1>1
<1>3. \A v \in V, i \in 1..size : step[<<v, i>>] = Extend(v, found[i])
  <2> HIDE DEF V
  <2> QED OBVIOUS
<1>4. <<>> \in V
  OBVIOUS
<1> HIDE DEF V, step
<1>5. PICK g \in [0..size -> V] : IsLoop(g, size, <<>>, step)
  BY <1>2, <1>4, LoopExists
<1>6. Is(g)
  <2>1. \A i \in 0..size : g[i] = IF i = 0 THEN <<>> ELSE step[<<g[i - 1], i>>]
    BY <1>5 DEF IsLoop
  <2>2. \A i \in 0..size : g[i] = IF i = 0 THEN <<>> ELSE Extend(g[i - 1], detections[order[i]])
    <3> SUFFICES ASSUME NEW i \in 0..size
                 PROVE  g[i] = IF i = 0 THEN <<>> ELSE Extend(g[i - 1], detections[order[i]])
      OBVIOUS
    <3>1. CASE i = 0
      BY <2>1, <3>1
    <3>2. CASE i # 0
      <4>1. i \in 1..size /\ i - 1 \in 0..size
        BY <3>2
      <4>2. g[i - 1] \in V
        BY <4>1
      <4> QED BY <1>3, <2>1, <3>2, <4>1, <4>2
    <3> QED BY <3>1, <3>2
  <2> QED BY <2>2
<1>7. Is(merged)
  <2> HIDE DEF Is
  <2> QED BY <1>6
<1>8. MergeDetections(detections) = merged[size]
  BY DEF MergeDetections
<1> HIDE DEF merged
<1>9. merged[0] = <<>>
  <2>1. 0 \in 0..size
    OBVIOUS
  <2> QED BY <1>7, <2>1
<1>10. \A k \in 0..size - 1 : merged[k + 1] = Extend(merged[k], found[k + 1])
  <2>1. \A k \in 0..size - 1 : k + 1 \in 1..size /\ k + 1 \in 0..size /\ (k + 1) - 1 = k /\ k + 1 # 0
    OBVIOUS
  <2>2. \A i \in 0..size : merged[i] = IF i = 0 THEN <<>> ELSE Extend(merged[i - 1], detections[order[i]])
    BY <1>7
  <2> QED BY <2>1, <2>2
<1> HIDE DEF Is
<1> DEFINE S == {k \in 0..size : merged[k] \in V /\ Merges(merged[k], found, k)}
<1>11. 0 \in S
  BY <1>4, <1>9, MergeFirst
<1>12. ASSUME NEW k \in 0..size - 1, k \in S PROVE k + 1 \in S
  <2>1. k + 1 \in 1..size /\ k + 1 \in 0..size /\ found[k + 1] \in Ranges(n)
    OBVIOUS
  <2>2. merged[k + 1] \in V
    BY <1>1, <1>10, <1>12, <2>1
  <2>3. Merges(merged[k + 1], found, k + 1)
    BY <1>10, <1>12, MergeStep DEF V
  <2> QED BY <2>1, <2>2, <2>3
<1> HIDE DEF S
<1>14. \A k \in 0..size - 1 : k \in S => k + 1 \in S
  BY <1>12
<1>13. size \in S
  <2>1. \A k \in 0..size : k \in S
    BY <1>11, <1>14, Upwards, Zenon
  <2>2. size \in 0..size
    OBVIOUS
  <2> QED BY <2>1, <2>2
<1> QED BY <1>8, <1>13 DEF S, V

LEMMA MergeIs ==
  ASSUME NEW n \in Nat, NEW detections \in Seq(Ranges(n))
  PROVE  /\ MergeDetections(detections) \in Seq(Ranges(n))
         /\ MergeOf(MergeDetections(detections), detections)
<1>n. PICK size \in Nat : size = Len(detections)
  OBVIOUS
<1>1. DOMAIN detections = 1..size /\ \A i \in 1..size : detections[i] \in Ranges(n)
  BY <1>n
<1>2. \A i \in 1..size : detections[i].start \in Nat
  BY <1>1 DEF Ranges
<1>3. PICK order : order = ByStart(detections)
  OBVIOUS
<1>4. InOrder(order, detections, size)
  BY <1>1, <1>2, <1>3, ByStartIs
<1>5. /\ \A p \in 1..size : order[p] \in 1..size
      /\ \A i \in 1..size : \E p \in 1..size : order[p] = i
  BY <1>4 DEF InOrder
<1>6. \A p, q \in 1..size : p < q =>
        \/ detections[order[p]].start < detections[order[q]].start
        \/ detections[order[p]].start = detections[order[q]].start /\ order[p] < order[q]
  <2>1. \A p, q \in 1..size : p < q => Before(detections, order[p], order[q])
    BY <1>4 DEF InOrder
  <2> QED BY <2>1 DEF Before
<1> DEFINE found == [p \in 1..size |-> detections[order[p]]]
<1>7. found \in [1..size -> Ranges(n)] /\ \A p \in 1..size : found[p] = detections[order[p]]
  BY <1>1, <1>5
<1> HIDE DEF found
<1>8. \A p \in 1..size : found[p].start \in Nat
  BY <1>2, <1>5, <1>7
<1>9. Sorted(found, size)
  <2> SUFFICES ASSUME NEW p \in 1..size, NEW q \in 1..size, p < q
               PROVE  found[p].start <= found[q].start
    BY DEF Sorted
  <2>1. found[p].start < found[q].start \/ found[p].start = found[q].start
    BY <1>6, <1>7
  <2> QED BY <1>8, <2>1
<1> DEFINE spans == MergeDetections(detections)
<1>10. spans \in Seq(Ranges(n)) /\ Merges(spans, found, size)
  <2>1. \A p \in 1..size : detections[order[p]] = found[p]
    BY <1>7
  <2> HIDE DEF found
  <2>2. found \in [1..size -> Ranges(n)] /\ ByStart(detections) = order /\ Len(detections) = size
    BY <1>n, <1>3, <1>7
  <2> QED BY <1>9, <2>1, <2>2, MergedAll DEF spans
<1> HIDE DEF spans
<1>11. \A k, l \in 1..Len(spans) : k < l => spans[k].end < spans[l].start
  BY <1>10 DEF Merges
<1>12. \A i \in Nat : (\E k \in 1..Len(spans) : In(spans[k], i)) <=> \E a \in 1..size : In(detections[a], i)
  <2> SUFFICES ASSUME NEW i \in Nat
               PROVE  (\E k \in 1..Len(spans) : In(spans[k], i)) <=> \E a \in 1..size : In(detections[a], i)
    OBVIOUS
  <2>1. (\E k \in 1..Len(spans) : In(spans[k], i)) <=> \E p \in 1..size : In(found[p], i)
    BY <1>10 DEF Merges
  <2>2. ASSUME NEW p \in 1..size, In(found[p], i) PROVE \E a \in 1..size : In(detections[a], i)
    BY <1>5, <1>7, <2>2
  <2>3. ASSUME NEW a \in 1..size, In(detections[a], i) PROVE \E p \in 1..size : In(found[p], i)
    <3>1. PICK p \in 1..size : order[p] = a
      BY <1>5
    <3>2. found[p] = detections[a]
      BY <1>7, <3>1
    <3> QED BY <2>3, <3>2
  <2> QED BY <2>1, <2>2, <2>3
<1>13. ASSUME NEW k \in 1..Len(spans)
       PROVE  \E a \in 1..size :
                /\ First(detections, a)
                /\ spans[k].start = detections[a].start /\ spans[k].type = detections[a].type
  <2>1. PICK p \in 1..size : /\ Leading(found, p)
                             /\ spans[k].start = found[p].start /\ spans[k].type = found[p].type
    BY <1>10 DEF Merges
  <2>2. PICK a \in 1..size : a = order[p]
    BY <1>5
  <2>3. ASSUME NEW b \in 1..a - 1 PROVE detections[b].start # detections[a].start
    <3>1. b \in 1..size /\ b < a
      OBVIOUS
    <3>2. PICK q \in 1..size : order[q] = b
      BY <1>5, <3>1
    <3>3. found[q] = detections[b] /\ found[p] = detections[a]
      BY <1>7, <2>2, <3>2
    <3>4. CASE q < p
      <4>1. found[q].start < found[p].start
        BY <2>1, <3>4 DEF Leading
      <4> QED BY <1>8, <3>3, <4>1
    <3>5. CASE p < q
      <4>1. \/ detections[a].start < detections[b].start
            \/ a < b
        BY <1>6, <2>2, <3>2, <3>5
      <4> QED BY <1>2, <3>1, <4>1
    <3>6. CASE p = q
      BY <2>2, <3>1, <3>2, <3>6
    <3> QED BY <3>4, <3>5, <3>6
  <2>4. First(detections, a)
    BY <2>3 DEF First
  <2> QED BY <1>7, <2>1, <2>2, <2>4
<1>14. MergeOf(spans, detections)
  BY <1>n, <1>11, <1>12, <1>13 DEF MergeOf
<1> QED BY <1>10, <1>14 DEF spans

-----------------------------------------------------------------------------
(* The positions a + 1 .. b of a text.                                     *)

Run(a, b) == [i \in 1..b - a |-> a + i]

LEMMA RunIs ==
  ASSUME NEW a \in Nat, NEW b \in Nat, a <= b
  PROVE  Run(a, b) \in Seq(Int) /\ Len(Run(a, b)) = b - a
         /\ \A i \in 1..b - a : Run(a, b)[i] = a + i
BY DEF Run

LEMMA RunEmpty ==
  ASSUME NEW a \in Nat
  PROVE  Run(a, a) = <<>>
<1>1. Run(a, a) \in Seq(Int) /\ Len(Run(a, a)) = 0
  BY RunIs
<1> QED BY <1>1, EmptySeq

LEMMA RunOne ==
  ASSUME NEW a \in Nat
  PROVE  Run(a, a + 1) = <<a + 1>>
<1>0. PICK b \in Nat : b = a + 1
  OBVIOUS
<1>b. a <= b
  BY <1>0
<1>1. Run(a, b) \in Seq(Int) /\ Len(Run(a, b)) = b - a /\ \A i \in 1..b - a : Run(a, b)[i] = a + i
  BY <1>b, RunIs
<1>2. b - a = 1 /\ 1 \in 1..b - a
  BY <1>0
<1>3. <<b>> \in Seq(Int) /\ Len(<<b>>) = 1 /\ <<b>>[1] = b
  OBVIOUS
<1>4. PICK r \in Seq(Int) : r = Run(a, b)
  BY <1>1
<1>5. r = <<b>>
  BY <1>0, <1>1, <1>2, <1>3, <1>4, SeqEqual
<1> QED BY <1>0, <1>4, <1>5

LEMMA RunJoins ==
  ASSUME NEW a \in Nat, NEW b \in Nat, NEW c \in Nat, a <= b, b <= c
  PROVE  Run(a, b) \o Run(b, c) = Run(a, c)
<1>q. PICK q \in Seq(Int) : q = Run(a, b)
  BY RunIs
<1>r. PICK r \in Seq(Int) : r = Run(b, c)
  BY RunIs
<1>1. Len(q) = b - a /\ \A i \in 1..b - a : q[i] = a + i
  BY <1>q, RunIs
<1>2. Len(r) = c - b /\ \A i \in 1..c - b : r[i] = b + i
  BY <1>r, RunIs
<1>a. PICK k \in Nat, l \in Nat : k = b - a /\ l = c - b /\ k + l = c - a /\ Len(q) = k /\ Len(r) = l
  <2>1. b - a \in Nat /\ c - b \in Nat /\ (b - a) + (c - b) = c - a
    OBVIOUS
  <2> QED BY <1>1, <1>2, <2>1
<1>3. PICK s \in Seq(Int) : s = q \o r /\ Len(s) = c - a
        /\ \A i \in 1..c - a : s[i] = IF i <= b - a THEN q[i] ELSE r[i - (b - a)]
  <2>1. Joined(q, r, Int)
    BY JoinedIs
  <2>2. PICK s \in Seq(Int) : s = q \o r /\ Len(s) = Len(q) + Len(r)
          /\ \A i \in 1..Len(q) + Len(r) : s[i] = IF i <= Len(q) THEN q[i] ELSE r[i - Len(q)]
    BY <2>1 DEF Joined
  <2> QED BY <1>a, <2>2
<1>4. \A i \in 1..c - a : s[i] = a + i
  <2> SUFFICES ASSUME NEW i \in 1..c - a PROVE s[i] = a + i
    OBVIOUS
  <2>1. CASE i <= b - a
    BY <1>1, <1>3, <2>1
  <2>2. CASE ~(i <= b - a)
    <3>1. PICK j \in 1..c - b : j = i - (b - a) /\ b + j = a + i
      BY <2>2
    <3> QED BY <1>2, <1>3, <2>2, <3>1
  <2> QED BY <2>1, <2>2
<1>5. a <= c
  OBVIOUS
<1>6. PICK t \in Seq(Int) : t = Run(a, c) /\ Len(t) = c - a /\ \A i \in 1..c - a : t[i] = a + i
  BY <1>5, RunIs
<1>7. s = t
  <2>1. Len(s) = Len(t) /\ \A i \in 1..Len(s) : s[i] = t[i]
    BY <1>3, <1>4, <1>6
  <2> QED BY <2>1, SeqEqual
<1> QED BY <1>q, <1>r, <1>3, <1>6, <1>7

(* Both ends of a concatenation.                                           *)
LEMMA FrontOf ==
  ASSUME NEW T, NEW q \in Seq(T), NEW r \in Seq(T), NEW k \in Nat, k = Len(q)
  PROVE  SubSeq(q \o r, 1, k) = q
<1>1. q \o r \in Seq(T) /\ Len(q \o r) = k + Len(r) /\ \A i \in 1..k : (q \o r)[i] = q[i]
  BY ConcatProperties
<1>2. /\ SubSeq(q \o r, 1, k) \in Seq(T) /\ Len(SubSeq(q \o r, 1, k)) = k
      /\ \A i \in 1..k : SubSeq(q \o r, 1, k)[i] = (q \o r)[i]
  BY <1>1
<1> QED BY <1>1, <1>2, SeqEqual

LEMMA BackOf ==
  ASSUME NEW T, NEW q \in Seq(T), NEW r \in Seq(T), NEW k \in Nat, k = Len(q)
  PROVE  SubSeq(q \o r, k + 1, Len(q \o r)) = r
<1>1. PICK l \in Nat : l = Len(r)
  OBVIOUS
<1>2. q \o r \in Seq(T) /\ Len(q \o r) = k + l /\ \A i \in 1..l : (q \o r)[k + i] = r[i]
  BY <1>1, ConcatProperties
<1>3. PICK s \in Seq(T) : s = q \o r
  BY <1>2
<1>4. /\ SubSeq(s, k + 1, k + l) \in Seq(T) /\ Len(SubSeq(s, k + 1, k + l)) = l
      /\ \A i \in 1..l : SubSeq(s, k + 1, k + l)[i] = s[k + i]
  BY <1>2, <1>3
<1>5. PICK t \in Seq(T) : t = SubSeq(s, k + 1, k + l)
  BY <1>4
<1>6. t = r
  BY <1>1, <1>2, <1>3, <1>4, <1>5, SeqEqual
<1> QED BY <1>2, <1>3, <1>5, <1>6

-----------------------------------------------------------------------------
(* The redacted texts as a monoid: joining them, without looking inside.   *)

Texts == Seq(Int)
Glue(q, r) == q \o r

LEMMA GlueIs ==
  /\ <<>> \in Texts
  /\ \A q, r \in Texts : Glue(q, r) \in Texts
  /\ \A q \in Texts : Glue(q, <<>>) = q /\ Glue(<<>>, q) = q
  /\ \A type \in Int : Label(type) \in Texts
  /\ \A i \in Int : <<i>> \in Texts
<1>1. \A q, r \in Seq(Int) : q \o r \in Seq(Int)
  BY ConcatProperties
<1>2. \A q \in Seq(Int) : q \o <<>> = q /\ <<>> \o q = q
  BY ConcatEmptySeq
<1>3. \A type \in Int : Label(type) \in Seq(Int)
  BY DEF Label
<1> QED BY <1>1, <1>2, <1>3 DEF Texts, Glue

LEMMA GlueAssoc ==
  ASSUME NEW q \in Texts, NEW r \in Texts, NEW s \in Texts
  PROVE  Glue(Glue(q, r), s) = Glue(q, Glue(r, s))
BY ConcatAssociative DEF Texts, Glue

UpTo(q, k) == SubSeq(q, 1, k)
Beyond(q, k) == SubSeq(q, k + 1, Len(q))

LEMMA GlueEnds ==
  ASSUME NEW q \in Texts, NEW r \in Texts, NEW k \in Nat, k = Len(q)
  PROVE  UpTo(Glue(q, r), k) = q /\ Beyond(Glue(q, r), k) = r
BY FrontOf, BackOf DEF Texts, Glue, UpTo, Beyond

LEMMA RunText ==
  ASSUME NEW a \in Nat, NEW b \in Nat, a <= b
  PROVE  Run(a, b) \in Texts /\ Len(Run(a, b)) = b - a
BY RunIs DEF Texts

LEMMA GlueRuns ==
  ASSUME NEW a \in Nat, NEW b \in Nat, NEW c \in Nat, a <= b, b <= c
  PROVE  Glue(Run(a, b), Run(b, c)) = Run(a, c)
BY RunJoins DEF Glue

LEMMA ReplaceIs ==
  ASSUME NEW b \in Nat, NEW y \in Texts, NEW start \in Nat, NEW end \in 0..b, start <= end,
         NEW type \in Int, NEW span, span.start = start, span.end = end, span.type = type
  PROVE  Replace(Glue(Run(0, b), y), span)
           = Glue(Run(0, start), Glue(Label(type), Glue(Run(end, b), y)))
<1>0. /\ 0 \in Nat /\ end \in Nat /\ 0 <= start /\ start <= b /\ 0 <= end /\ end <= b /\ 0 <= b
      /\ start - 0 = start /\ end - 0 = end
  OBVIOUS
<1>1. PICK q \in Texts : q = Run(0, start) /\ Len(q) = start
  BY <1>0, RunText
<1>2. PICK p \in Texts : p = Run(0, end) /\ Len(p) = end
  BY <1>0, RunText
<1>3. PICK r \in Texts : r = Run(start, b)
  BY <1>0, RunText
<1>4. PICK z \in Texts : z = Run(end, b)
  BY <1>0, RunText
<1>5. Glue(q, r) = Run(0, b) /\ Glue(p, z) = Run(0, b)
  BY <1>0, <1>1, <1>2, <1>3, <1>4, GlueRuns
<1>6. PICK ry \in Texts, zy \in Texts : ry = Glue(r, y) /\ zy = Glue(z, y)
  BY GlueIs
<1>7. Label(type) \in Texts
  BY GlueIs
<1> DEFINE rest == Glue(Run(0, b), y)
<1>8. rest = Glue(q, ry) /\ rest = Glue(p, zy)
  BY <1>5, <1>6, GlueAssoc
<1> HIDE DEF rest
<1>9. UpTo(rest, start) = q
  BY <1>1, <1>8, GlueEnds
<1>10. Beyond(rest, end) = zy
  BY <1>0, <1>2, <1>8, GlueEnds
<1>11. Replace(rest, span) = Glue(Glue(q, Label(type)), zy)
  <2>1. Replace(rest, span) = (UpTo(rest, start) \o Label(type)) \o Beyond(rest, end)
    BY Zenon DEF Replace, UpTo, Beyond
  <2> QED BY <1>9, <1>10, <2>1, Zenon DEF Glue
<1>12. Replace(rest, span) = Glue(q, Glue(Label(type), zy))
  BY <1>7, <1>11, GlueAssoc
<1> QED BY <1>1, <1>4, <1>6, <1>12 DEF rest

-----------------------------------------------------------------------------
(* The replacements: their recursion has a solution.                       *)

Replaces(f, text, spans, last) ==
  f = [k \in 0..last |-> IF k = 0 THEN text ELSE Replace(f[k - 1], spans[last + 1 - k])]

LEMMA ReplacesExist ==
  ASSUME NEW text, NEW spans, NEW last \in Nat
  PROVE  \E f : Replaces(f, text, spans, last)
<1> DEFINE Step(f, k) == IF k = 0 THEN text ELSE Replace(f[k - 1], spans[last + 1 - k])
           Up(f, n) == f = [k \in 0..last |-> f[k]] /\ \A k \in 0..n : f[k] = Step(f, k)
           S == {n \in 0..last : \E f : Up(f, n)}
<1>1. 0 \in S
  <2> DEFINE f == [k \in 0..last |-> text]
  <2>1. f = [k \in 0..last |-> f[k]] /\ f[0] = text
    OBVIOUS
  <2>2. \A k \in 0..0 : k = 0
    OBVIOUS
  <2> HIDE DEF f
  <2>3. Up(f, 0)
    BY <2>1, <2>2
  <2> QED BY <2>3
<1>2. ASSUME NEW n \in 0..last - 1, n \in S PROVE n + 1 \in S
  <2>1. PICK f : Up(f, n)
    BY <1>2
  <2> DEFINE g == [k \in 0..last |-> IF k = n + 1 THEN Step(f, k) ELSE f[k]]
  <2>2. n + 1 \in 0..last
    OBVIOUS
  <2>3. g = [k \in 0..last |-> g[k]]
    OBVIOUS
  <2>4. \A k \in 0..last : g[k] = IF k = n + 1 THEN Step(f, k) ELSE f[k]
    OBVIOUS
  <2> HIDE DEF g
  <2>5. ASSUME NEW k \in 0..n + 1 PROVE g[k] = Step(g, k)
    <3>1. k \in 0..last
      OBVIOUS
    <3>2. k # 0 => k - 1 \in 0..last /\ k - 1 # n + 1
      OBVIOUS
    <3>3. Step(g, k) = Step(f, k)
      BY <2>4, <3>2
    <3>4. CASE k = n + 1
      BY <2>4, <3>1, <3>3, <3>4
    <3>5. CASE k # n + 1
      <4>1. k \in 0..n
        BY <3>5
      <4> QED BY <2>1, <2>4, <3>1, <3>3, <3>5, <4>1
    <3> QED BY <3>4, <3>5
  <2>6. Up(g, n + 1)
    BY <2>3, <2>5
  <2> QED BY <2>2, <2>6
<1> HIDE DEF S
<1>3. last \in S
  BY <1>1, <1>2, Upwards
<1>4. PICK f : Up(f, last)
  BY <1>3 DEF S
<1>5. f = [k \in 0..last |-> Step(f, k)]
  BY <1>4
<1> QED BY <1>5 DEF Replaces

-----------------------------------------------------------------------------
(* What is shown, position by position, and the spans.                     *)

Clear(spans, i) == \A k \in 1..Len(spans) : ~In(spans[k], i)
Apart(spans) == \A k, l \in 1..Len(spans) : k < l => spans[k].end < spans[l].start

Shows(f, spans, n) ==
  /\ f \in [0..n -> Texts] /\ f[0] = <<>>
  /\ \A i \in 1..n : Clear(spans, i) => f[i] = Glue(f[i - 1], <<i>>)
  /\ \A k \in 1..Len(spans) :
       /\ f[spans[k].start + 1] = Glue(f[spans[k].start], Label(spans[k].type))
       /\ \A i \in spans[k].start + 2..spans[k].end : f[i] = f[i - 1]

ClearRun(spans, a, b, n) ==
  a \in 0..n /\ b \in a..n /\ \A i \in a + 1..b : Clear(spans, i)
SpanIs(spans, k, start, end, type, n) ==
  /\ k \in 1..Len(spans)
  /\ start \in Nat /\ end \in 0..n /\ start < end /\ type \in Int
  /\ spans[k].start = start /\ spans[k].end = end /\ spans[k].type = type

(* Where no span is, the text is shown as it is.                           *)
LEMMA ShowsRun ==
  ASSUME NEW n \in Nat, NEW spans, NEW f, Shows(f, spans, n), NEW a, NEW b, ClearRun(spans, a, b, n)
  PROVE  f[b] = Glue(f[a], Run(a, b))
<1> a \in 0..n /\ b \in a..n /\ \A i \in a + 1..b : Clear(spans, i)
  BY DEF ClearRun
<1> DEFINE S == {k \in 0..b - a : f[a + k] = Glue(f[a], Run(a, a + k))}
<1>0. b - a \in Nat /\ a \in Nat /\ b \in Nat
  OBVIOUS
<1>1. \A i \in 0..n : f[i] \in Texts
  BY DEF Shows
<1>2. 0 \in S
  <2>1. Glue(f[a], <<>>) = f[a]
    BY <1>1, GlueIs
  <2>2. a + 0 = a /\ 0 \in 0..b - a
    BY <1>0
  <2>3. Run(a, a) = <<>>
    BY <1>0, RunEmpty
  <2> QED BY <2>1, <2>2, <2>3
<1>3. ASSUME NEW k \in 0..b - a - 1, k \in S PROVE k + 1 \in S
  <2>1. PICK c \in 0..n : c = a + k
    OBVIOUS
  <2>2. c + 1 \in a + 1..b /\ c + 1 \in 1..n /\ a + (k + 1) = c + 1 /\ (c + 1) - 1 = c /\ a <= c /\ c <= c + 1 /\ c \in Nat
    BY <2>1
  <2>3. f[c] = Glue(f[a], Run(a, c))
    BY <1>3, <2>1
  <2>4. f[c + 1] = Glue(f[c], <<c + 1>>)
    <3>1. \A i \in 1..n : Clear(spans, i) => f[i] = Glue(f[i - 1], <<i>>)
      BY DEF Shows
    <3> QED BY <2>2, <3>1
  <2>5. PICK r \in Texts, s \in Texts : r = Run(a, c) /\ s = Run(c, c + 1)
    <3>1. c + 1 \in Nat
      BY <2>2
    <3>2. Run(a, c) \in Texts
      BY <1>0, <2>2, RunText
    <3>3. Run(c, c + 1) \in Texts
      BY <2>2, <3>1, RunText
    <3> QED BY <3>2, <3>3
  <2>6. s = <<c + 1>> /\ Glue(r, s) = Run(a, c + 1)
    BY <1>0, <2>2, <2>5, RunOne, GlueRuns
  <2>7. f[c + 1] = Glue(Glue(f[a], r), s)
    BY <2>3, <2>4, <2>5, <2>6
  <2>8. f[c + 1] = Glue(f[a], Glue(r, s))
    BY <1>1, <2>7, GlueAssoc
  <2>9. k + 1 \in 0..b - a
    BY <1>0
  <2> QED BY <2>2, <2>6, <2>8, <2>9
<1> HIDE DEF S
<1>4. b - a \in S
  BY <1>0, <1>2, <1>3, Upwards
<1>5. a + (b - a) = b
  OBVIOUS
<1> QED BY <1>4, <1>5 DEF S

(* A span is shown as its label.                                           *)
LEMMA ShowsLabel ==
  ASSUME NEW n \in Nat, NEW spans, NEW f, Shows(f, spans, n),
         NEW k, NEW start, NEW end, NEW type, SpanIs(spans, k, start, end, type, n)
  PROVE  f[end] = Glue(f[start], Label(type))
<1> /\ k \in 1..Len(spans) /\ start \in Nat /\ end \in 0..n /\ start < end
    /\ spans[k].start = start /\ spans[k].end = end /\ spans[k].type = type
  BY DEF SpanIs
<1>0. PICK size \in Nat : size = end - start - 1
  OBVIOUS
<1> DEFINE S == {j \in 0..size : f[start + 1 + j] = Glue(f[start], Label(type))}
<1>1. f[start + 1] = Glue(f[start], Label(type)) /\ \A i \in start + 2..end : f[i] = f[i - 1]
  BY DEF Shows
<1>2. 0 \in S
  <2>1. start + 1 + 0 = start + 1 /\ 0 \in 0..size
    OBVIOUS
  <2> QED BY <1>1, <2>1
<1>3. ASSUME NEW j \in 0..size - 1, j \in S PROVE j + 1 \in S
  <2>1. PICK i \in Nat : i = start + 1 + (j + 1)
    OBVIOUS
  <2>2. i \in start + 2..end /\ i - 1 = start + 1 + j /\ j + 1 \in 0..size
    BY <1>0, <2>1
  <2>3. f[i] = f[i - 1]
    BY <1>1, <2>2
  <2> QED BY <1>3, <2>1, <2>2, <2>3
<1> HIDE DEF S
<1>4. size \in S
  <2>1. \A j \in 0..size - 1 : j \in S => j + 1 \in S
    BY <1>3
  <2>2. \A j \in 0..size : j \in S
    BY <1>2, <2>1, Upwards, Zenon
  <2> QED BY <2>2
<1>5. start + 1 + size = end
  BY <1>0
<1> QED BY <1>4, <1>5 DEF S

(* The first k spans from the end are replaced: the rest of the text is as *)
(* it was, up to the span before.                                          *)
Limit(spans, last, n, k) == IF k = 0 THEN n ELSE spans[last + 1 - k].start

LEMMA ClearBelow ==
  ASSUME NEW n \in Nat, NEW spans, NEW last \in Nat, last = Len(spans), Apart(spans),
         \A l \in 1..last : spans[l].start \in Nat /\ spans[l].end \in 0..n /\ spans[l].start < spans[l].end,
         NEW k \in 0..last
  PROVE  LET limit == Limit(spans, last, n, k)
             from == IF k = last THEN 0 ELSE spans[last - k].end
         IN  ClearRun(spans, from, limit, n)
<1> DEFINE limit == Limit(spans, last, n, k)
           from == IF k = last THEN 0 ELSE spans[last - k].end
<1>1. \A j, l \in 1..last : j < l => spans[j].end < spans[l].start
  BY DEF Apart
<1>2. limit \in 0..n
  <2>1. CASE k = 0
    BY <2>1 DEF Limit
  <2>2. CASE k # 0
    <3>1. last + 1 - k \in 1..last
      BY <2>2
    <3> QED BY <2>2, <3>1 DEF Limit
  <2> QED BY <2>1, <2>2
<1>3. ASSUME NEW l \in 1..last, l > last - k PROVE limit <= spans[l].start
  <2>1. k # 0 /\ last + 1 - k \in 1..last
    BY <1>3
  <2>2. PICK m \in 1..last : m = last + 1 - k
    BY <2>1
  <2>3. limit = spans[m].start
    BY <2>1, <2>2 DEF Limit
  <2>4. CASE l = m
    BY <2>3, <2>4
  <2>5. CASE l > m
    BY <1>1, <2>3, <2>5
  <2> QED BY <1>3, <2>2, <2>4, <2>5
<1>4. ASSUME NEW l \in 1..last, l <= last - k PROVE spans[l].end <= from
  <2>1. k # last /\ last - k \in 1..last
    BY <1>4
  <2>2. PICK m \in 1..last : m = last - k
    BY <2>1
  <2>3. from = spans[m].end
    BY <2>1, <2>2
  <2>4. CASE l = m
    BY <2>3, <2>4
  <2>5. CASE l < m
    BY <1>1, <2>3, <2>5
  <2> QED BY <1>4, <2>2, <2>4, <2>5
<1>5. from \in 0..limit
  <2>1. CASE k = last
    BY <1>2, <2>1
  <2>2. CASE k # last
    <3>0. last - k \in 1..last
      BY <2>2
    <3>1. PICK m \in 1..last : m = last - k
      BY <3>0
    <3>2. from = spans[m].end
      BY <2>2, <3>1
    <3>3. CASE k = 0
      BY <3>2, <3>3 DEF Limit
    <3>4. CASE k # 0
      <4>0. last + 1 - k \in 1..last /\ m < last + 1 - k
        BY <3>1, <3>4
      <4>1. PICK l \in 1..last : l = last + 1 - k /\ m < l
        BY <4>0
      <4> QED BY <1>1, <3>2, <3>4, <4>1 DEF Limit
    <3> QED BY <3>3, <3>4
  <2> QED BY <2>1, <2>2
<1> HIDE DEF limit, from
<1>6. ASSUME NEW i \in from + 1..limit PROVE Clear(spans, i)
  <2> SUFFICES ASSUME NEW l \in 1..last, In(spans[l], i) PROVE FALSE
    BY DEF Clear
  <2>1. spans[l].start < i /\ i <= spans[l].end
    BY DEF In
  <2>2. l > last - k \/ l <= last - k
    OBVIOUS
  <2> QED BY <1>2, <1>3, <1>4, <1>5, <2>1, <2>2
<1>7. from \in 0..n /\ limit \in from..n
  BY <1>2, <1>5
<1>8. ClearRun(spans, from, limit, n)
  BY <1>6, <1>7 DEF ClearRun
<1> QED BY <1>8 DEF limit, from

LEMMA RedactOne ==
  ASSUME NEW n \in Nat, NEW spans, NEW f, Shows(f, spans, n),
         NEW k, NEW start, NEW end, NEW type, SpanIs(spans, k, start, end, type, n),
         NEW b, ClearRun(spans, end, b, n), NEW y \in Texts, f[n] = Glue(f[b], y)
  PROVE  \E z \in Texts : /\ Replace(Glue(Run(0, b), y), spans[k]) = Glue(Run(0, start), z)
                          /\ f[n] = Glue(f[start], z)
<1>a. start \in Nat /\ end \in 0..n /\ start < end /\ type \in Int
      /\ spans[k].start = start /\ spans[k].end = end /\ spans[k].type = type
  BY DEF SpanIs
<1>b. b \in end..n
  BY DEF ClearRun
<1>0. b \in Nat /\ end \in Nat /\ end \in 0..b /\ start \in 0..n /\ start <= end /\ end <= b
  BY <1>a, <1>b
<1>1. PICK l \in Texts, r \in Texts, ry \in Texts, z \in Texts :
        l = Label(type) /\ r = Run(end, b) /\ ry = Glue(r, y) /\ z = Glue(l, ry)
  BY <1>a, <1>0, GlueIs, RunText
<1>2. Replace(Glue(Run(0, b), y), spans[k]) = Glue(Run(0, start), z)
  BY <1>a, <1>0, <1>1, ReplaceIs
<1>3. f[start] \in Texts /\ f[end] \in Texts
  BY <1>a, <1>0 DEF Shows
<1>4. f[end] = Glue(f[start], l)
  BY <1>1, ShowsLabel
<1>5. f[b] = Glue(f[end], r)
  BY <1>1, ShowsRun
<1>6. Glue(f[b], y) = Glue(f[end], ry)
  BY <1>1, <1>3, <1>5, GlueAssoc
<1>7. Glue(f[end], ry) = Glue(f[start], z)
  BY <1>1, <1>3, <1>4, GlueAssoc
<1> QED BY <1>2, <1>6, <1>7

LEMMA RedactAll ==
  ASSUME NEW n \in Nat, NEW spans, NEW last \in Nat, last = Len(spans), Apart(spans),
         \A l \in 1..last : spans[l].start \in Nat /\ spans[l].end \in 0..n /\ spans[l].start < spans[l].end
                           /\ spans[l].type \in Int,
         NEW f, Shows(f, spans, n), NEW detections, MergeDetections(detections) = spans
  PROVE  Redact(Run(0, n), detections) = f[n]
<1>1. \A l \in 1..last : spans[l].start \in Nat /\ spans[l].end \in 0..n /\ spans[l].start < spans[l].end
                         /\ spans[l].type \in Int
  OBVIOUS
<1> DEFINE redacted == CHOOSE g : Replaces(g, Run(0, n), spans, last)
           limit(k) == Limit(spans, last, n, k)
<1>2. Redact(Run(0, n), detections) = redacted[last]
  BY Zenon DEF Redact, Replaces
<1>3. Replaces(redacted, Run(0, n), spans, last)
  BY ReplacesExist
<1> HIDE DEF redacted
<1>4. redacted[0] = Run(0, n)
  <2>1. 0 \in 0..last
    OBVIOUS
  <2> QED BY <1>3, <2>1 DEF Replaces
<1>5. \A k \in 0..last - 1 : redacted[k + 1] = Replace(redacted[k], spans[last - k])
  <2> SUFFICES ASSUME NEW k \in 0..last - 1
               PROVE  redacted[k + 1] = Replace(redacted[k], spans[last - k])
    OBVIOUS
  <2>1. k + 1 \in 0..last /\ k + 1 # 0 /\ (k + 1) - 1 = k /\ last + 1 - (k + 1) = last - k
    OBVIOUS
  <2> QED BY <1>3, <2>1 DEF Replaces
<1>6. \A i \in 0..n : f[i] \in Texts
  BY DEF Shows
<1> DEFINE S == {k \in 0..last : \E y \in Texts : redacted[k] = Glue(Run(0, limit(k)), y)
                                                    /\ f[n] = Glue(f[limit(k)], y)}
<1>7. 0 \in S
  <2>1. limit(0) = n /\ n \in 0..n /\ 0 <= n
    BY DEF Limit
  <2>2. Run(0, n) \in Texts
    BY <2>1, RunText
  <2>3. Glue(Run(0, n), <<>>) = Run(0, n) /\ Glue(f[n], <<>>) = f[n] /\ <<>> \in Texts
    BY <1>6, <2>1, <2>2, GlueIs
  <2> QED BY <1>4, <2>1, <2>3
<1>8. ASSUME NEW k \in 0..last - 1, k \in S PROVE k + 1 \in S
  <2>1. PICK y \in Texts : redacted[k] = Glue(Run(0, limit(k)), y) /\ f[n] = Glue(f[limit(k)], y)
    BY <1>8
  <2>a. last - k \in 1..last
    OBVIOUS
  <2>2. PICK m \in 1..last : m = last - k
    BY <2>a
  <2>3. PICK start \in Nat, end \in 0..n, type \in Int :
          start = spans[m].start /\ end = spans[m].end /\ type = spans[m].type /\ start < end
    BY <1>1
  <2>4. ClearRun(spans, end, limit(k), n)
    <3>1. k \in 0..last /\ k # last
      OBVIOUS
    <3>2. LET from == IF k = last THEN 0 ELSE spans[last - k].end
          IN  ClearRun(spans, from, Limit(spans, last, n, k), n)
      BY <1>1, <3>1, ClearBelow, Zenon
    <3> QED BY <2>2, <2>3, <3>1, <3>2
  <2>5. SpanIs(spans, m, start, end, type, n)
    BY <2>3 DEF SpanIs
  <2>6. PICK z \in Texts : /\ Replace(Glue(Run(0, limit(k)), y), spans[m]) = Glue(Run(0, start), z)
                           /\ f[n] = Glue(f[start], z)
    <3> HIDE DEF limit
    <3> QED BY <2>1, <2>4, <2>5, RedactOne
  <2>7. k + 1 \in 0..last /\ limit(k + 1) = start
    <3>1. k + 1 # 0 /\ last + 1 - (k + 1) = m /\ k + 1 \in 0..last
      BY <2>2
    <3> QED BY <2>3, <3>1 DEF Limit
  <2>8. redacted[k + 1] = Glue(Run(0, start), z)
    BY <1>5, <2>1, <2>2, <2>6
  <2> QED BY <2>6, <2>7, <2>8
<1> HIDE DEF S
<1>9. last \in S
  <2>1. \A k \in 0..last - 1 : k \in S => k + 1 \in S
    BY <1>8
  <2>2. \A k \in 0..last : k \in S
    BY <1>7, <2>1, Upwards, Zenon
  <2> QED BY <2>2
<1>10. PICK y \in Texts : redacted[last] = Glue(Run(0, limit(last)), y) /\ f[n] = Glue(f[limit(last)], y)
  BY <1>9 DEF S
<1>11. ClearRun(spans, 0, limit(last), n)
  <2>1. last \in 0..last
    OBVIOUS
  <2> QED BY <1>1, <2>1, ClearBelow
<1> HIDE DEF limit
<1>12. limit(last) \in Nat /\ 0 <= limit(last)
  BY <1>11 DEF ClearRun
<1>13. f[limit(last)] = Glue(f[0], Run(0, limit(last)))
  BY <1>11, ShowsRun
<1>14. f[limit(last)] = Run(0, limit(last))
  <2>1. Run(0, limit(last)) \in Texts /\ f[0] = <<>>
    BY <1>12, RunText DEF Shows
  <2> QED BY <1>13, <2>1, GlueIs
<1> QED BY <1>2, <1>10, <1>14

(* The parts of ReplyExact.                                                *)
Covered(found, i) == \E k \in DOMAIN found : found[k].start < i /\ i <= found[k].end
Starting(found, i) == SelectInSeq(found, LAMBDA d : d.start = i - 1)
Shown(found, i) ==
  IF ~Covered(found, i) THEN <<i>>
  ELSE IF i = 1 \/ ~Covered(found, i - 1) THEN Label(found[Starting(found, i)].type)
  ELSE <<>>

LEMMA StartingIs ==
  ASSUME NEW found, NEW size \in Nat, Len(found) = size, NEW i, NEW a \in 1..size, First(found, a),
         found[a].start = i - 1
  PROVE  Starting(found, i) = a
<1>1. PICK I : I = {j \in 1..size : found[j].start = i - 1}
  OBVIOUS
<1>2. Starting(found, i) = IF I # {} THEN Min(I) ELSE 0
  BY <1>1 DEF Starting, SelectInSeq
<1>3. I \in SUBSET Nat /\ a \in I /\ \A j \in I : j \in 1..size /\ found[j].start = i - 1
  BY <1>1
<1>4. \A j \in I : a =< j
  <2> SUFFICES ASSUME NEW j \in I, j < a PROVE FALSE
    BY <1>3
  <2>1. j \in 1..a - 1
    BY <1>3
  <2> QED BY <1>3, <2>1 DEF First
<1>5. Min(I) = a
  BY <1>3, <1>4, MinIs
<1> QED BY <1>2, <1>3, <1>5

ShownSpans(found, spans, n) ==
  /\ \A i \in 1..n : Clear(spans, i) => Shown(found, i) = <<i>>
  /\ \A k \in 1..Len(spans) :
       /\ Shown(found, spans[k].start + 1) = Label(spans[k].type)
       /\ \A i \in spans[k].start + 2..spans[k].end : Shown(found, i) = <<>>

LEMMA ShownIs ==
  ASSUME NEW n \in Nat, NEW size \in Nat, NEW found, Len(found) = size, DOMAIN found = 1..size,
         NEW spans, MergeOf(spans, found), NEW last \in Nat, last = Len(spans),
         \A l \in 1..last : spans[l].start \in Nat /\ spans[l].end \in 0..n /\ spans[l].start < spans[l].end
                           /\ spans[l].type \in Int
  PROVE  ShownSpans(found, spans, n)
<1>1. \A k, l \in 1..last : k < l => spans[k].end < spans[l].start
  BY DEF MergeOf
<1>2. \A i \in Nat : Covered(found, i) <=> \E k \in 1..last : In(spans[k], i)
  <2>1. \A i \in Nat : Covered(found, i) <=> \E a \in 1..size : In(found[a], i)
    BY DEF Covered, In
  <2> QED BY <2>1 DEF MergeOf
<1>3. ASSUME NEW i \in 1..n, Clear(spans, i) PROVE Shown(found, i) = <<i>>
  <2>1. ~Covered(found, i)
    BY <1>2, <1>3 DEF Clear
  <2> QED BY <2>1 DEF Shown
<1>4. ASSUME NEW k \in 1..last PROVE Shown(found, spans[k].start + 1) = Label(spans[k].type)
  <2>1. PICK start \in Nat : start = spans[k].start /\ start < spans[k].end /\ spans[k].end \in Nat
    OBVIOUS
  <2>2. Covered(found, start + 1)
    <3>1. In(spans[k], start + 1) /\ start + 1 \in Nat
      BY <2>1 DEF In
    <3> QED BY <1>2, <3>1
  <2>3. ~Covered(found, start)
    <3> SUFFICES ASSUME NEW l \in 1..last, spans[l].start < start, start <= spans[l].end PROVE FALSE
      BY <1>2, <2>1 DEF In
    <3>1. CASE l < k
      BY <1>1, <2>1, <3>1
    <3>2. CASE l = k
      BY <2>1, <3>2
    <3>3. CASE l > k
      BY <1>1, <2>1, <3>3
    <3> QED BY <3>1, <3>2, <3>3
  <2>4. PICK a \in 1..size : First(found, a) /\ start = found[a].start /\ spans[k].type = found[a].type
    BY <2>1 DEF MergeOf
  <2>5. (start + 1) - 1 = start
    OBVIOUS
  <2>6. Starting(found, start + 1) = a
    BY <2>4, <2>5, StartingIs
  <2> QED BY <2>1, <2>2, <2>3, <2>4, <2>5, <2>6 DEF Shown
<1>5. ASSUME NEW k \in 1..last, NEW i \in spans[k].start + 2..spans[k].end PROVE Shown(found, i) = <<>>
  <2>1. i \in Nat /\ i - 1 \in Nat /\ i # 1 /\ In(spans[k], i) /\ In(spans[k], i - 1)
    BY DEF In
  <2>2. Covered(found, i) /\ Covered(found, i - 1)
    BY <1>2, <2>1
  <2> QED BY <2>1, <2>2 DEF Shown
<1> QED BY <1>3, <1>4, <1>5 DEF ShownSpans

LEMMA RedactShows ==
  ASSUME NEW n \in Nat, NEW size \in Nat, NEW found, Len(found) = size, DOMAIN found = 1..size,
         NEW spans, MergeDetections(found) = spans, MergeOf(spans, found), NEW last \in Nat, last = Len(spans),
         \A l \in 1..last : spans[l].start \in Nat /\ spans[l].end \in 0..n /\ spans[l].start < spans[l].end
                           /\ spans[l].type \in Int
  PROVE  Redact(Run(0, n), found) = FlattenSeq([i \in 1..n |-> Shown(found, i)])
<1>4. ShownSpans(found, spans, n)
  BY ShownIs
<1>3. \A l \in 1..last : spans[l].start \in Nat /\ spans[l].end \in 0..n /\ spans[l].start < spans[l].end
  OBVIOUS
<1>5. /\ \A i \in 1..n : Clear(spans, i) => Shown(found, i) = <<i>>
      /\ \A k \in 1..last : Shown(found, spans[k].start + 1) = Label(spans[k].type)
      /\ \A k \in 1..last : \A i \in spans[k].start + 2..spans[k].end : Shown(found, i) = <<>>
  BY <1>4 DEF ShownSpans
<1> DEFINE seqs == [i \in 1..n |-> Shown(found, i)]
<1>6. \A i \in 1..n : Shown(found, i) \in Texts
  <2> SUFFICES ASSUME NEW i \in 1..n PROVE Shown(found, i) \in Texts
    OBVIOUS
  <2>1. CASE Clear(spans, i)
    BY <1>5, <2>1, GlueIs
  <2>2. ASSUME NEW k \in 1..last, In(spans[k], i) PROVE Shown(found, i) \in Texts
    <3>1. i = spans[k].start + 1 \/ i \in spans[k].start + 2..spans[k].end
      BY <1>3, <2>2 DEF In
    <3> QED BY <1>3, <1>5, <3>1, GlueIs
  <2> QED BY <2>1, <2>2 DEF Clear
<1>7. seqs \in Seq(Seq(Int)) /\ Len(seqs) = n /\ \A i \in 1..n : seqs[i] = Shown(found, i)
  BY <1>6 DEF Texts
<1> HIDE DEF seqs
<1>8. PICK f \in [0..n -> Seq(Int)] : Joins(f, seqs) /\ FlattenSeq(seqs) = f[n]
  BY <1>7, FlattenIs
<1>9. f[0] = <<>> /\ \A i \in 1..n : f[i] = Glue(f[i - 1], Shown(found, i))
  BY <1>7, <1>8 DEF Joins, Glue
<1>10. \A i \in 0..n : f[i] \in Texts
  BY DEF Texts
<1>11. Shows(f, spans, n)
  <2>1. f \in [0..n -> Texts]
    BY DEF Texts
  <2>2. \A i \in 1..n : Clear(spans, i) => f[i] = Glue(f[i - 1], <<i>>)
    BY <1>5, <1>9
  <2>3. ASSUME NEW k \in 1..last
        PROVE  /\ f[spans[k].start + 1] = Glue(f[spans[k].start], Label(spans[k].type))
               /\ \A i \in spans[k].start + 2..spans[k].end : f[i] = f[i - 1]
    <3>1. PICK start \in Nat, end \in 0..n : start = spans[k].start /\ end = spans[k].end /\ start < end
      BY <1>3
    <3>2. start + 1 \in 1..n /\ (start + 1) - 1 = start
      <4>1. \A s \in Nat, e \in 0..n : s < e => s + 1 \in 1..n /\ (s + 1) - 1 = s
        OBVIOUS
      <4> QED BY <3>1, <4>1
    <3>3. f[start + 1] = Glue(f[start], Label(spans[k].type))
      BY <1>5, <1>9, <3>1, <3>2
    <3>4. ASSUME NEW i \in start + 2..end PROVE f[i] = f[i - 1]
      <4>1. i \in 1..n /\ i - 1 \in 0..n
        OBVIOUS
      <4>2. Shown(found, i) = <<>>
        BY <1>5, <3>1
      <4> QED BY <1>9, <1>10, <4>1, <4>2, GlueIs
    <3> QED BY <3>1, <3>3, <3>4
  <2> QED BY <1>9, <2>1, <2>2, <2>3 DEF Shows
<1>12. Apart(spans)
  BY DEF MergeOf, Apart
<1>13. Redact(Run(0, n), found) = f[n]
  BY <1>11, <1>12, RedactAll
<1> QED BY <1>8, <1>13 DEF seqs

LEMMA RedactIs ==
  ASSUME NEW n \in Nat, NEW found \in Seq(Ranges(n))
  PROVE  Redact(Run(0, n), found) = FlattenSeq([i \in 1..n |-> Shown(found, i)])
<1>1. PICK spans \in Seq(Ranges(n)) : MergeDetections(found) = spans /\ MergeOf(spans, found)
  BY MergeIs
<1>2. PICK last \in Nat : last = Len(spans)
  OBVIOUS
<1>3. \A l \in 1..last : spans[l].start \in Nat /\ spans[l].end \in 0..n /\ spans[l].start < spans[l].end
                         /\ spans[l].type \in Int
  BY <1>2 DEF Ranges
<1>4. PICK size \in Nat : Len(found) = size /\ DOMAIN found = 1..size
  OBVIOUS
<1> QED BY <1>1, <1>2, <1>3, <1>4, RedactShows, Zenon

-----------------------------------------------------------------------------
(* The cut, and the reply to one answer.                                   *)

LEMMA TruncateIs ==
  ASSUME NEW T, NEW s \in Seq(T), NEW max \in Nat
  PROVE  /\ TruncateUtf8(s, max) \in 0..Len(s) /\ TruncateUtf8(s, max) <= max
         /\ Boundary(s, TruncateUtf8(s, max))
         /\ \A c \in TruncateUtf8(s, max) + 1..Len(s) : Boundary(s, c) => c > max
<1>n. PICK n \in Nat : n = Len(s)
  OBVIOUS
<1>1. CASE n <= max
  <2>1. TruncateUtf8(s, max) = n
    BY <1>n, <1>1 DEF TruncateUtf8
  <2> QED BY <1>n, <1>1, <2>1 DEF Boundary
<1>2. CASE n > max
  <2> DEFINE Bounds(b) == Boundary(s, b)
             step == [vi \in (0..max) \X (1..max) |-> IF Bounds(vi[2]) THEN vi[2] ELSE vi[1]]
             Is(g) == g = [b \in 0..max |-> IF Bounds(b) THEN b ELSE g[b - 1]]
             back == CHOOSE g : Is(g)
  <2>1. Bounds(0)
    BY DEF Boundary
  <2> HIDE DEF Bounds
  <2>2. step \in [(0..max) \X (1..max) -> 0..max] /\ 0 \in 0..max
    OBVIOUS
  <2>3. \A v \in 0..max, i \in 1..max : step[<<v, i>>] = IF Bounds(i) THEN i ELSE v
    OBVIOUS
  <2> HIDE DEF step
  <2>4. PICK g \in [0..max -> 0..max] : IsLoop(g, max, 0, step)
    BY <2>2, LoopExists
  <2>5. \A b \in 0..max : g[b] = IF Bounds(b) THEN b ELSE g[b - 1]
    <3> SUFFICES ASSUME NEW b \in 0..max PROVE g[b] = IF Bounds(b) THEN b ELSE g[b - 1]
      OBVIOUS
    <3>1. g[b] = IF b = 0 THEN 0 ELSE step[<<g[b - 1], b>>]
      BY <2>4 DEF IsLoop
    <3>2. CASE b = 0
      BY <2>1, <3>1, <3>2
    <3>3. CASE b # 0
      <4>1. b \in 1..max /\ g[b - 1] \in 0..max
        BY <3>3
      <4> QED BY <2>3, <3>1, <3>3, <4>1
    <3> QED BY <3>2, <3>3
  <2>6. Is(g)
    <3>1. g = [b \in 0..max |-> g[b]]
      OBVIOUS
    <3> QED BY <2>5, <3>1
  <2>7. Is(back)
    <3> HIDE DEF Is
    <3> QED BY <2>6
  <2>8. TruncateUtf8(s, max) = back[max]
    <3>1. ~(Len(s) <= max)
      BY <1>n, <1>2
    <3> QED BY <3>1, Zenon DEF TruncateUtf8, Bounds
  <2> HIDE DEF back
  <2>9. \A b \in 0..max : back[b] = IF Bounds(b) THEN b ELSE back[b - 1]
    BY <2>7
  <2> HIDE DEF Is
  <2> DEFINE S == {b \in 0..max : /\ back[b] \in 0..b /\ Bounds(back[b])
                                  /\ \A c \in back[b] + 1..b : ~Bounds(c)}
  <2>10. 0 \in S
    <3>1. 0 \in 0..max /\ back[0] = 0
      BY <2>1, <2>9
    <3> QED BY <2>1, <3>1
  <2>11. ASSUME NEW k \in 0..max - 1, k \in S PROVE k + 1 \in S
    <3>1. PICK j \in 1..max : j = k + 1
      OBVIOUS
    <3>2. j - 1 = k /\ j \in 0..max /\ j # 0
      BY <3>1
    <3>3. back[j] = IF Bounds(j) THEN j ELSE back[k]
      BY <2>9, <3>2
    <3>4. back[j] \in 0..j /\ Bounds(back[j]) /\ \A c \in back[j] + 1..j : ~Bounds(c)
      <4>1. CASE Bounds(j)
        <5>1. \A c : c \notin j + 1..j
          OBVIOUS
        <5>2. back[j] = j /\ j \in 0..j
          BY <3>3, <4>1
        <5> QED BY <4>1, <5>1, <5>2
      <4>2. CASE ~Bounds(j)
        <5>1. PICK b \in 0..k : b = back[k] /\ Bounds(b) /\ \A c \in b + 1..k : ~Bounds(c)
          BY <2>11
        <5>2. back[j] = b
          BY <3>3, <4>2, <5>1, Zenon
        <5>j. b \in 0..j
          BY <3>1
        <5>3. \A c \in b + 1..j : c = j \/ c \in b + 1..k
          BY <3>1
        <5>4. \A c \in b + 1..j : ~Bounds(c)
          BY <4>2, <5>1, <5>3, Zenon
        <5> QED BY <5>1, <5>2, <5>j, <5>4, Zenon
      <4> QED BY <4>1, <4>2
    <3>5. j \in S
      BY <3>2, <3>4, Zenon
    <3> QED BY <3>1, <3>5
  <2> HIDE DEF S
  <2>12. max \in S
    <3>1. \A k \in 0..max - 1 : k \in S => k + 1 \in S
      BY <2>11
    <3>2. \A k \in 0..max : k \in S
      BY <2>10, <3>1, Upwards, Zenon
    <3> QED BY <3>2
  <2>13. back[max] \in 0..max /\ Bounds(back[max]) /\ \A c \in back[max] + 1..max : ~Bounds(c)
    BY <2>12 DEF S
  <2>14. \A c \in back[max] + 1..n : Bounds(c) => c > max
    <3> SUFFICES ASSUME NEW c \in back[max] + 1..n, Bounds(c), ~(c > max) PROVE FALSE
      OBVIOUS
    <3>1. c \in back[max] + 1..max
      BY <2>13
    <3> QED BY <2>13, <3>1
  <2> QED BY <1>n, <1>2, <2>8, <2>13, <2>14 DEF Bounds
<1> QED BY <1>n, <1>1, <1>2

LEMMA CutIs ==
  ASSUME NEW T, answer.line \in Seq(T), manifest.maxSize \in Int
  PROVE  /\ ApplySizeLimit(answer.line, manifest.maxSize) \in Seq(T)
         /\ Len(ApplySizeLimit(answer.line, manifest.maxSize)) = Cut
<1> PICK s \in Seq(T), max \in Int : s = answer.line /\ max = manifest.maxSize
  OBVIOUS
<1>n. PICK n \in Nat : n = Len(s)
  OBVIOUS
<1>1. PICK text : text = ApplySizeLimit(s, max)
  OBVIOUS
<1>2. \A b : Fits(b) <=> b \in 0..n /\ Boundary(s, b) /\ (max < 0 \/ b <= max)
  BY <1>n DEF Fits
<1>3. PICK t \in 0..n : text \in Seq(T) /\ Len(text) = t /\ Fits(t) /\ \A c \in t + 1..n : ~Fits(c)
  <2>1. CASE max < 0
    <3>1. text = s /\ Boundary(s, n)
      BY <1>n, <1>1, <2>1 DEF ApplySizeLimit, Boundary
    <3>2. \A c : c \notin n + 1..n
      OBVIOUS
    <3> QED BY <1>n, <1>2, <2>1, <3>1, <3>2
  <2>2. CASE ~(max < 0)
    <3>1. PICK t : t = TruncateUtf8(s, max)
      OBVIOUS
    <3>2. max \in Nat
      BY <2>2
    <3>3. t \in 0..n /\ t <= max /\ Boundary(s, t) /\ \A c \in t + 1..n : Boundary(s, c) => c > max
      BY <1>n, <3>1, <3>2, TruncateIs
    <3>4. text = SubSeq(s, 1, t)
      BY <1>1, <2>2, <3>1 DEF ApplySizeLimit
    <3>5. text \in Seq(T) /\ Len(text) = t
      BY <1>n, <3>3, <3>4
    <3> QED BY <1>2, <2>2, <3>3, <3>5
  <2> QED BY <2>1, <2>2
<1> DEFINE Is(b) == b \in 0..n /\ Fits(b) /\ \A c \in b + 1..n : ~Fits(c)
<1>4. Is(t)
  BY <1>3
<1>5. \A b : Is(b) => b = t
  <2> SUFFICES ASSUME NEW b \in 0..n, Fits(b), \A c \in b + 1..n : ~Fits(c), b # t PROVE FALSE
    OBVIOUS
  <2>1. b \in t + 1..n \/ t \in b + 1..n
    OBVIOUS
  <2> QED BY <1>3, <2>1
<1>6. Cut = CHOOSE b : Is(b)
  <2>1. Cut = CHOOSE b : b \in 0..n /\ (Fits(b) /\ \A c \in b + 1..n : ~Fits(c))
    BY <1>n DEF Cut
  <2> QED BY <2>1
<1>7. Is(CHOOSE b : Is(b))
  <2> HIDE DEF Is
  <2> QED BY <1>4
<1> HIDE DEF Is
<1>8. Cut = t
  BY <1>5, <1>6, <1>7
<1> QED BY <1>1, <1>3, <1>8

(* A reply that is forwarded is the text byte by byte, each byte shown as  *)
(* ReplyExact says.                                                        *)
LEMMA IdentityIs ==
  ASSUME NEW n \in Nat
  PROVE  FlattenSeq([i \in 1..n |-> <<i>>]) = Run(0, n)
<1> DEFINE seqs == [i \in 1..n |-> <<i>>]
<1>1. seqs \in Seq(Seq(Int)) /\ Len(seqs) = n /\ \A i \in 1..n : seqs[i] = <<i>>
  OBVIOUS
<1> HIDE DEF seqs
<1>2. PICK f \in [0..n -> Seq(Int)] : Joins(f, seqs) /\ FlattenSeq(seqs) = f[n]
  BY <1>1, FlattenIs
<1>3. f[0] = <<>> /\ \A i \in 1..n : f[i] = Glue(f[i - 1], <<i>>)
  BY <1>1, <1>2 DEF Joins, Glue
<1>4. f \in [0..n -> Texts]
  BY DEF Texts
<1>5. Shows(f, <<>>, n)
  BY <1>3, <1>4 DEF Shows
<1>6. ClearRun(<<>>, 0, n, n)
  BY DEF ClearRun, Clear
<1>7. f[n] = Glue(<<>>, Run(0, n))
  BY <1>3, <1>5, <1>6, ShowsRun
<1>8. Run(0, n) \in Texts
  BY RunIs DEF Texts
<1>9. f[n] = Run(0, n)
  BY <1>7, <1>8, GlueIs
<1> QED BY <1>2, <1>9 DEF seqs

LEMMA ScanIs ==
  ASSUME NEW T, NEW found \in Seq(Seq(T))
  PROVE  Scan(found) \in Seq(T)
<1>1. PICK size \in Nat : Len(found) = size
  OBVIOUS
<1>2. PICK f \in [0..size -> Seq(T)] : FlattenSeq(found) = f[size]
  BY <1>1, FlattenIs
<1> QED BY <1>2 DEF Scan

ShownIn(mode, found, i) == IF mode = "disabled" THEN <<i>> ELSE Shown(found, i)

LEMMA ReplyIs ==
  ASSUME NEW n \in Nat, NEW text, Len(text) = n, NEW found \in Seq(Seq(Ranges(n))), NEW mode,
         ProcessResponse(text, found, mode).verdict = "forward"
  PROVE  ProcessResponse(text, found, mode).text
           = FlattenSeq([i \in 1..n |-> ShownIn(mode, FlattenSeq(found), i)])
<1>1. PICK all \in Seq(Ranges(n)) : all = Scan(found) /\ all = FlattenSeq(found)
  BY ScanIs DEF Scan
<1>2. PICK bytes : bytes = [i \in 1..Len(text) |-> i]
  OBVIOUS
<1>3. bytes = Run(0, n)
  BY <1>2 DEF Run
<1>4. PICK reply_ : reply_ = ProcessResponse(text, found, mode)
  OBVIOUS
<1>5. reply_ = CASE mode = "disabled" -> [verdict |-> "forward", text |-> bytes]
                 [] mode = "redact" -> [verdict |-> "forward", text |-> Redact(bytes, all)]
                 [] mode = "strict" /\ all = <<>> -> [verdict |-> "forward", text |-> bytes]
                 [] OTHER -> [verdict |-> "block", text |-> Label(all[1].type)]
  BY <1>1, <1>2, <1>4, Zenon DEF ProcessResponse
<1>6. CASE mode = "disabled"
  <2>1. reply_.text = Run(0, n)
    BY <1>3, <1>5, <1>6
  <2>2. [i \in 1..n |-> ShownIn(mode, FlattenSeq(found), i)] = [i \in 1..n |-> <<i>>]
    BY <1>6 DEF ShownIn
  <2> QED BY <1>4, <2>1, <2>2, IdentityIs
<1>7. [i \in 1..n |-> ShownIn(mode, FlattenSeq(found), i)] = [i \in 1..n |-> Shown(all, i)]
      \/ mode = "disabled"
  BY <1>1, Zenon DEF ShownIn
<1>8. CASE mode = "redact"
  <2>1. reply_.text = Redact(Run(0, n), all)
    BY <1>3, <1>5, <1>8
  <2> QED BY <1>4, <1>7, <1>8, <2>1, RedactIs
<1>9. CASE mode = "strict" /\ all = <<>>
  <2>1. reply_.text = Run(0, n)
    BY <1>3, <1>5, <1>9
  <2>2. \A i \in 1..n : Shown(all, i) = <<i>>
    BY <1>9 DEF Shown, Covered
  <2>3. [i \in 1..n |-> Shown(all, i)] = [i \in 1..n |-> <<i>>]
    BY <2>2
  <2> QED BY <1>4, <1>7, <1>9, <2>1, <2>3, IdentityIs
<1>10. CASE ~(mode = "disabled") /\ ~(mode = "redact") /\ ~(mode = "strict" /\ all = <<>>)
  <2>1. reply_.verdict = "block"
    BY <1>5, <1>10
  <2> QED BY <1>4, <2>1
<1> QED BY <1>6, <1>8, <1>9, <1>10

(* What is known of the answer and of the reply at each point of a call.   *)
CutText == ApplySizeLimit(answer.line, manifest.maxSize)
ReplyInv ==
  /\ phase \in {"answered", "done"} => answer.line \in Cases[case].lines
  /\ phase = "answered" => answer = [line |-> answer.line, found |-> <<>>]
  /\ phase = "done" =>
       /\ answer.found \in Cases[case].findings /\ FoundIn(CutText, answer.found)
       /\ reply = ProcessResponse(CutText, answer.found, manifest.scan)
  /\ phase # "done" => reply = NoReply

LEMMA ReplyInvariant == Spec => []ReplyInv
<1>1. Init => ReplyInv
  BY DEF Init, ReplyInv
<1>2. ReplyInv /\ [Next]_vars => ReplyInv'
  <2> SUFFICES ASSUME ReplyInv, [Next]_vars PROVE ReplyInv'
    OBVIOUS
  <2>1. CASE HostCalls
    BY <2>1 DEF HostCalls, ReplyInv
  <2>2. CASE Inspect
    BY <2>2 DEF Inspect, ReplyInv
  <2>3. CASE ToolAnswers
    BY <2>3 DEF ToolAnswers, ReplyInv
  <2>4. CASE Filter
    <3>1. PICK line : answer = [line |-> line, found |-> <<>>] /\ line \in Cases[case].lines
      BY <2>4 DEF Filter, ReplyInv
    <3>2. PICK found \in Cases[case].findings :
            /\ FoundIn(CutText, found) /\ answer' = [answer EXCEPT !.found = found]
            /\ reply' = ProcessResponse(CutText, found, manifest.scan)
      BY <2>4 DEF Filter, CutText
    <3>3. answer'.line = answer.line /\ answer'.found = found /\ answer.line = line
      BY <3>1, <3>2
    <3>4. phase' = "done" /\ case' = case /\ manifest' = manifest
      BY <2>4 DEF Filter
    <3>5. CutText' = CutText
      BY <3>3, <3>4 DEF CutText
    <3>6. /\ FoundIn(CutText, found)'
          /\ ProcessResponse(CutText, found, manifest.scan)' = ProcessResponse(CutText, found, manifest.scan)
      BY <3>2, <3>4, <3>5 DEF FoundIn
    <3> QED BY <3>1, <3>2, <3>3, <3>4, <3>5, <3>6 DEF ReplyInv
  <2>5. CASE NextCall
    BY <2>5 DEF NextCall, ReplyInv
  <2>6. CASE UNCHANGED vars
    BY <2>6 DEF vars, ReplyInv, CutText
  <2> QED BY <2>1, <2>2, <2>3, <2>4, <2>5, <2>6 DEF Next
<1> QED BY <1>1, <1>2, PTL DEF Spec

(* The answers the theorem speaks of: a limit is a number, a line is made  *)
(* of the bytes of characters, and what a pattern finds is not empty.      *)
Detections == {d \in [type : Int, start : Nat, end : Nat] : d.start < d.end}
AnswersAre ==
  \A c \in DOMAIN Cases :
    /\ \A m \in Cases[c].manifests : m.maxSize \in Int
    /\ Cases[c].lines \subseteq Seq({"lead", "cont"})
    /\ Cases[c].findings \subseteq Seq(Seq(Detections))

LEMMA FoundRanges ==
  ASSUME NEW n \in Nat, NEW text, Len(text) = n, NEW found \in Seq(Seq(Detections)), FoundIn(text, found)
  PROVE  found \in Seq(Seq(Ranges(n)))
<1>1. PICK size \in Nat : Len(found) = size /\ DOMAIN found = 1..size
  OBVIOUS
<1>2. ASSUME NEW p \in 1..size PROVE found[p] \in Seq(Ranges(n))
  <2>1. PICK f \in Seq(Detections) : f = found[p]
    BY <1>1
  <2>2. PICK last \in Nat : Len(f) = last /\ DOMAIN f = 1..last
    OBVIOUS
  <2>3. ASSUME NEW k \in 1..last PROVE f[k] \in Ranges(n)
    <3>1. f[k] \in Detections /\ f[k].end <= n
      BY <1>1, <2>1, <2>2 DEF FoundIn
    <3> QED BY <3>1 DEF Detections, Ranges
  <2>4. f \in [1..last -> Ranges(n)]
    BY <2>2, <2>3
  <2> QED BY <2>1, <2>4
<1>3. found \in [1..size -> Seq(Ranges(n))]
  BY <1>1, <1>2
<1> QED BY <1>3

(* What is forwarded is, for every line, limit and list of findings, the   *)
(* longest whole-character part of the line within the limit, in which     *)
(* every run of found bytes has become one label and no other byte is      *)
(* lost, changed or moved.                                                 *)
THEOREM RepliesAreExact ==
  ASSUME AnswersAre
  PROVE  Spec => []ReplyExact
<1>1. ASSUME CallInv, ReplyInv PROVE ReplyExact
  <2> SUFFICES ASSUME reply.verdict = "forward"
               PROVE  reply.text = FlattenSeq([i \in 1..Cut |-> ShownIn(manifest.scan, FlattenSeq(answer.found), i)])
    <3>1. \A i : ShownIn(manifest.scan, FlattenSeq(answer.found), i) =
                   LET found == FlattenSeq(answer.found)
                       Covers(b) == \E k \in DOMAIN found : found[k].start < b /\ b <= found[k].end
                       Starts(b) == SelectInSeq(found, LAMBDA d : d.start = b - 1)
                   IN  IF manifest.scan = "disabled" \/ ~Covers(i) THEN <<i>>
                       ELSE IF i = 1 \/ ~Covers(i - 1) THEN Label(found[Starts(i)].type)
                       ELSE <<>>
      BY Zenon DEF ShownIn, Shown, Covered, Starting
    <3> QED BY <3>1, Zenon DEF ReplyExact
  <2>1. phase = "done"
    BY <1>1 DEF ReplyInv, NoReply
  <2>2. /\ answer.line \in Cases[case].lines /\ answer.found \in Cases[case].findings
        /\ FoundIn(CutText, answer.found)
        /\ reply = ProcessResponse(CutText, answer.found, manifest.scan)
    BY <1>1, <2>1 DEF ReplyInv
  <2>3. /\ answer.line \in Seq({"lead", "cont"}) /\ manifest.maxSize \in Int
        /\ answer.found \in Seq(Seq(Detections))
    BY <1>1, <2>2 DEF CallInv, AnswersAre
  <2>4. PICK n \in Nat : n = Cut /\ Len(CutText) = n
    <3>1. CutText \in Seq({"lead", "cont"}) /\ Len(CutText) = Cut
      BY <2>3, CutIs DEF CutText
    <3> QED BY <3>1
  <2>5. answer.found \in Seq(Seq(Ranges(n)))
    BY <2>2, <2>3, <2>4, FoundRanges
  <2> QED BY <2>2, <2>4, <2>5, ReplyIs
<1> QED BY <1>1, CallInvariant, ReplyInvariant, PTL
=============================================================================
