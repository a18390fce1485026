--------------------------- MODULE PyPool_proofs ---------------------------
(***************************************************************************)
(* Proofs about module PyPool: no getter of the queue sleeps through a     *)
(* process that it could have, close() leaves none behind, the answers a   *)
(* process gives lag by the calls that timed out and no more, and the pool *)
(* implements Pool, for any number of clients, places, spawns and calls.   *)
(***************************************************************************)
EXTENDS PyPool, FiniteSetTheorems, SequenceTheorems, TLAPS

Ever == {p \in Proc : life[p] # "none"}
Idle == ToSet(available)
Pooled == ToSet(all)
Distinct(seq) == \A i, j \in DOMAIN seq : seq[i] = seq[j] => i = j
OneHolder(who) == \A c, d \in Client : who[c] = who[d] /\ who[c] # None => c = d

PyType ==
  /\ life \in [Proc -> {"none", "up", "dead"}]
  /\ open \in SUBSET Proc /\ dropped \in SUBSET Proc
  /\ started \in BOOLEAN /\ closed \in {"no", "yes", "raised"}
  /\ all \in Seq(Proc) /\ available \in Seq(Proc)
  /\ getters \in Seq(Client) /\ woken \in SUBSET Client
  /\ holds \in [Client -> Proc \cup {None}]

Numbered == Ever = 1..Cardinality(Ever)

ProcsKnown == open \cup dropped \cup Pooled \cup Idle \cup Held \subseteq Ever

(* A start() that failed leaves processes in the queue and in _all, or it  *)
(* leaves none at all.                                                     *)
StartKnown ==
  ~started =>
    /\ getters = <<>> /\ woken = {} /\ Held = {}
    /\ Len(available) =< Size /\ (available = <<>> => all = <<>>)
    /\ closed = "no" => Ever \ dropped = Pooled /\ Pooled \subseteq open

PlacesKnown ==
  /\ Distinct(available) /\ Idle \cap Held = {} /\ OneHolder(holds)
  /\ closed = "no" => Idle \cup Held \subseteq open \cap Pooled

(* A getter sleeps or is woken, not both, and a process in the queue while *)
(* getters sleep is one that a woken getter comes for.                     *)
QueueKnown ==
  /\ Distinct(getters) /\ ToSet(getters) \cap woken = {}
  /\ \A c \in ToSet(getters) \cup woken : holds[c] = None
  /\ NoLostWakeup

UpKnown ==
  /\ closed = "no" => \A p \in Proc : life[p] = "up" => p \in dropped \/ p \in Pooled \cap open
  /\ CloseLeavesNone

PoolInv ==
  PyType /\ Numbered /\ ProcsKnown /\ StartKnown /\ PlacesKnown /\ QueueKnown /\ UpKnown

-----------------------------------------------------------------------------
(* Sequences without repetition, and the sets they stand for.              *)

LEMMA Elements ==
  ASSUME NEW S, NEW s \in Seq(S)
  PROVE  /\ ToSet(s) = {s[i] : i \in 1..Len(s)} /\ Len(s) \in Nat /\ DOMAIN s = 1..Len(s)
         /\ ToSet(s) \in SUBSET S /\ (s = <<>> <=> ToSet(s) = {})
<1>1. Len(s) \in Nat /\ DOMAIN s = 1..Len(s) /\ \A i \in 1..Len(s) : s[i] \in S
  OBVIOUS
<1>2. ToSet(s) = {s[i] : i \in 1..Len(s)}
  BY <1>1 DEF ToSet
<1>3. s = <<>> => ToSet(s) = {}
  BY <1>2
<1>4. s # <<>> => s[1] \in ToSet(s)
  BY <1>1, <1>2
<1> QED BY <1>1, <1>2, <1>3, <1>4

LEMMA AppendElement ==
  ASSUME NEW S, NEW s \in Seq(S), NEW e \in S
  PROVE  /\ Append(s, e) \in Seq(S) /\ Len(Append(s, e)) = Len(s) + 1
         /\ ToSet(Append(s, e)) = ToSet(s) \cup {e}
         /\ Distinct(s) /\ e \notin ToSet(s) => Distinct(Append(s, e))
<1>1. /\ Append(s, e) \in Seq(S) /\ DOMAIN Append(s, e) = 1..(Len(s) + 1)
      /\ Len(Append(s, e)) = Len(s) + 1
      /\ \A i \in 1..Len(s) : Append(s, e)[i] = s[i]
      /\ Append(s, e)[Len(s) + 1] = e
      /\ DOMAIN s = 1..Len(s) /\ Len(s) \in Nat
  OBVIOUS
<1>2. 1..(Len(s) + 1) = (1..Len(s)) \cup {Len(s) + 1}
  BY <1>1
<1>3. ToSet(Append(s, e)) = ToSet(s) \cup {e}
  BY <1>1, <1>2 DEF ToSet
<1>4. ASSUME Distinct(s), e \notin ToSet(s)
      PROVE  Distinct(Append(s, e))
  BY <1>1, <1>2, <1>4 DEF Distinct, ToSet
<1> QED BY <1>1, <1>3, <1>4

LEMMA TakeElement ==
  ASSUME NEW S, NEW s \in Seq(S), s # <<>>
  PROVE  /\ Head(s) \in S /\ Head(s) \in ToSet(s) /\ Tail(s) \in Seq(S)
         /\ Len(Tail(s)) = Len(s) - 1
         /\ Distinct(s) => /\ Distinct(Tail(s))
                           /\ ToSet(Tail(s)) = ToSet(s) \ {Head(s)}
<1>1. /\ Len(s) \in Nat \ {0} /\ DOMAIN s = 1..Len(s) /\ Len(Tail(s)) = Len(s) - 1
      /\ Head(s) = s[1] /\ Tail(s) \in Seq(S)
      /\ DOMAIN Tail(s) = 1..(Len(s) - 1) /\ \A i \in 1..(Len(s) - 1) : Tail(s)[i] = s[i + 1]
  OBVIOUS
<1>2. Head(s) \in S /\ Head(s) \in ToSet(s)
  BY <1>1 DEF ToSet
<1>3. ASSUME Distinct(s)
      PROVE  Distinct(Tail(s)) /\ ToSet(Tail(s)) = ToSet(s) \ {Head(s)}
  <2>1. Distinct(Tail(s))
    BY <1>1, <1>3 DEF Distinct
  <2>2. ASSUME NEW x \in ToSet(Tail(s))
        PROVE  x \in ToSet(s) /\ x # Head(s)
    <3>1. PICK i \in 1..(Len(s) - 1) : x = s[i + 1]
      BY <1>1 DEF ToSet
    <3> QED BY <1>1, <1>3, <3>1 DEF Distinct, ToSet
  <2>3. ASSUME NEW x \in ToSet(s), x # Head(s)
        PROVE  x \in ToSet(Tail(s))
    <3>1. PICK i \in 1..Len(s) : x = s[i]
      BY <1>1 DEF ToSet
    <3>2. i # 1 /\ i - 1 \in 1..(Len(s) - 1) /\ Tail(s)[i - 1] = s[i]
      BY <1>1, <2>3, <3>1
    <3> QED BY <1>1, <3>1, <3>2 DEF ToSet
  <2> QED BY <2>1, <2>2, <2>3
<1> QED BY <1>1, <1>2, <1>3

LEMMA JoinElements ==
  ASSUME NEW S, NEW s \in Seq(S), NEW t \in Seq(S)
  PROVE  /\ s \o t \in Seq(S) /\ Len(s \o t) = Len(s) + Len(t)
         /\ ToSet(s \o t) = ToSet(s) \cup ToSet(t)
         /\ Distinct(s) /\ Distinct(t) /\ ToSet(s) \cap ToSet(t) = {} => Distinct(s \o t)
<1>1. /\ s \o t \in Seq(S) /\ Len(s \o t) = Len(s) + Len(t) /\ DOMAIN (s \o t) = 1..(Len(s) + Len(t))
      /\ \A i \in 1..Len(s) : (s \o t)[i] = s[i]
      /\ \A i \in 1..Len(t) : (s \o t)[Len(s) + i] = t[i]
      /\ DOMAIN s = 1..Len(s) /\ DOMAIN t = 1..Len(t) /\ Len(s) \in Nat /\ Len(t) \in Nat
  OBVIOUS
<1>2. \A k \in 1..(Len(s) + Len(t)) :
        \/ k \in 1..Len(s) /\ (s \o t)[k] = s[k]
        \/ k - Len(s) \in 1..Len(t) /\ (s \o t)[k] = t[k - Len(s)]
  BY <1>1
<1>3. ToSet(s \o t) \subseteq ToSet(s) \cup ToSet(t)
  BY <1>1, <1>2 DEF ToSet
<1>4. \A i \in 1..Len(t) : Len(s) + i \in 1..(Len(s) + Len(t))
  BY <1>1
<1>5. ToSet(s) \cup ToSet(t) \subseteq ToSet(s \o t)
  BY <1>1, <1>4 DEF ToSet
<1>6. ASSUME Distinct(s), Distinct(t), ToSet(s) \cap ToSet(t) = {}
      PROVE  Distinct(s \o t)
  <2> SUFFICES ASSUME NEW i \in 1..(Len(s) + Len(t)), NEW j \in 1..(Len(s) + Len(t)),
                      (s \o t)[i] = (s \o t)[j]
               PROVE  i = j
    BY <1>1 DEF Distinct
  <2>1. \A k \in 1..Len(s) : s[k] \in ToSet(s)
    BY <1>1 DEF ToSet
  <2>2. \A k \in 1..Len(t) : t[k] \in ToSet(t)
    BY <1>1 DEF ToSet
  <2>3. CASE i \in 1..Len(s) /\ j \in 1..Len(s)
    BY <1>1, <1>6, <2>3 DEF Distinct
  <2>4. CASE i - Len(s) \in 1..Len(t) /\ j - Len(s) \in 1..Len(t)
    <3>1. t[i - Len(s)] = t[j - Len(s)]
      BY <1>1, <1>2, <2>4
    <3> QED BY <1>1, <1>6, <2>4, <3>1 DEF Distinct
  <2> QED BY <1>1, <1>2, <1>6, <2>1, <2>2, <2>3, <2>4
<1> QED BY <1>1, <1>3, <1>5, <1>6

-----------------------------------------------------------------------------
(* Processes and their numbers.                                            *)

LEMMA ProcFinite == IsFiniteSet(Proc) /\ None \notin Proc /\ MaxSpawns \in Nat
<1>1. MaxSpawns \in Nat
  BY PyPoolAssumption
<1> QED BY <1>1, FS_Interval DEF Proc, None

LEMMA FreshNumber ==
  ASSUME Numbered
  PROVE  /\ IsFiniteSet(Ever) /\ Fresh = Cardinality(Ever) + 1 /\ Cardinality(Ever) \in Nat
         /\ Fresh \in Nat /\ Ever = 1..(Fresh - 1)
<1>1. IsFiniteSet(Ever) /\ Fresh = Cardinality(Ever) + 1
  BY ProcFinite, FS_Subset DEF Ever, Fresh
<1>2. Cardinality(Ever) \in Nat
  BY <1>1, FS_CardinalityType
<1> QED BY <1>1, <1>2 DEF Numbered

LEMMA NewNumbers ==
  ASSUME Numbered, NEW n \in Nat
  PROVE  /\ Len(New(n)) = n /\ DOMAIN New(n) = 1..n /\ Distinct(New(n))
         /\ ToSet(New(n)) = Fresh..(Fresh + n - 1)
         /\ ToSet(New(n)) \cap Ever = {} /\ Cardinality(ToSet(New(n))) = n
<1>1. Fresh \in Nat \ {0} /\ Ever = 1..(Fresh - 1)
  BY FreshNumber
<1>2. /\ New(n) = [k \in 1..n |-> Fresh + k - 1]
  BY DEF New
<1> HIDE DEF New
<1>3. DOMAIN New(n) = 1..n /\ Len(New(n)) = n /\ Distinct(New(n))
  BY <1>1, <1>2 DEF Distinct
<1>4. ToSet(New(n)) = {Fresh + k - 1 : k \in 1..n}
  BY <1>2, <1>3 DEF ToSet
<1>5. \A p \in Fresh..(Fresh + n - 1) : p - Fresh + 1 \in 1..n /\ Fresh + (p - Fresh + 1) - 1 = p
  BY <1>1
<1>6. \A k \in 1..n : Fresh + k - 1 \in Fresh..(Fresh + n - 1)
  BY <1>1
<1>7. ToSet(New(n)) = Fresh..(Fresh + n - 1)
  BY <1>4, <1>5, <1>6
<1>8. Cardinality(Fresh..(Fresh + n - 1)) = n
  BY <1>1, FS_Interval
<1> QED BY <1>1, <1>3, <1>7, <1>8

LEMMA OneNew ==
  ASSUME Numbered
  PROVE  ToSet(New(1)) = {Fresh} /\ ToSet(New(1)) \cap Ever = {}
<1>1. ToSet(New(1)) = Fresh..(Fresh + 1 - 1) /\ ToSet(New(1)) \cap Ever = {}
  BY NewNumbers
<1>2. Fresh \in Nat
  BY FreshNumber
<1>3. Fresh..(Fresh + 1 - 1) = {Fresh}
  BY <1>2
<1> QED BY <1>1, <1>3

LEMMA SpawnedNext ==
  ASSUME PyType, Numbered, NEW n \in Nat, Spawned(n)
  PROVE  /\ Ever' = Ever \cup ToSet(New(n)) /\ Numbered'
         /\ life' \in [Proc -> {"none", "up", "dead"}]
         /\ \A p \in Proc \ ToSet(New(n)) : life'[p] = life[p]
         /\ \A m \in 0..n : /\ New(m) \in Seq(Proc) /\ ToSet(New(m)) \subseteq ToSet(New(n))
                            /\ ToSet(New(m)) \in SUBSET Proc
<1>1. /\ Fresh \in Nat \ {0} /\ Ever = 1..(Fresh - 1) /\ Fresh + n - 1 =< MaxSpawns
      /\ ToSet(New(n)) = Fresh..(Fresh + n - 1) /\ MaxSpawns \in Nat /\ Proc = 1..MaxSpawns
  <2>1. Fresh \in Nat \ {0} /\ Ever = 1..(Fresh - 1)
    BY FreshNumber
  <2>2. ToSet(New(n)) = Fresh..(Fresh + n - 1)
    BY NewNumbers
  <2> QED BY <2>1, <2>2, ProcFinite DEF Spawned, Proc
<1>2. /\ life' = [p \in Proc |-> IF p \in ToSet(New(n)) THEN "up" ELSE life[p]]
      /\ ToSet(New(n)) \subseteq Proc
  BY <1>1 DEF Spawned
<1>3. /\ life' \in [Proc -> {"none", "up", "dead"}]
      /\ \A p \in Proc \ ToSet(New(n)) : life'[p] = life[p]
      /\ Ever' = Ever \cup ToSet(New(n))
  BY <1>2 DEF PyType, Ever
<1>4. Ever' = 1..(Fresh + n - 1)
  BY <1>1, <1>3
<1>5. Cardinality(1..(Fresh + n - 1)) = Fresh + n - 1
  <2>1. Fresh + n - 1 \in Nat
    BY <1>1
  <2>2. \A k \in Nat : Cardinality(1..k) = k
    BY FS_Interval
  <2> QED BY <2>1, <2>2
<1>6. Numbered'
  <2>1. Cardinality(Ever') = Fresh + n - 1
    BY <1>4, <1>5
  <2> QED BY <1>4, <2>1 DEF Numbered
<1>7. ASSUME NEW m \in 0..n
      PROVE  /\ New(m) \in Seq(Proc) /\ ToSet(New(m)) \subseteq ToSet(New(n))
             /\ ToSet(New(m)) \in SUBSET Proc
  <2>1. m \in Nat /\ ToSet(New(m)) = Fresh..(Fresh + m - 1)
    BY NewNumbers
  <2>2. ToSet(New(m)) \subseteq ToSet(New(n))
    BY <1>1, <2>1
  <2>3. New(m) \in [1..m -> Proc]
    BY <1>1, <2>1 DEF New
  <2>4. New(m) \in Seq(Proc)
    <3>1. \A f \in [1..m -> Proc] : f \in Seq(Proc)
      BY <2>1
    <3> QED BY <2>3, <3>1
  <2> QED BY <1>2, <2>2, <2>4
<1> QED BY <1>3, <1>6, <1>7

-----------------------------------------------------------------------------
(* The inductive invariant, action by action.                              *)

LEMMA InitInv ==
  ASSUME Init
  PROVE  PoolInv
<1>1. PyType
  <2>1. all = <<>> /\ available = <<>> /\ getters = <<>> /\ started = FALSE
    BY DEF Init
  <2>2. all \in Seq(Proc) /\ available \in Seq(Proc) /\ getters \in Seq(Client)
    BY <2>1
  <2>3. started \in BOOLEAN
    BY <2>1
  <2> QED BY <2>2, <2>3 DEF Init, PyType, None
<1>2. Ever = {} /\ Idle = {} /\ Pooled = {} /\ Held = {} /\ ToSet(getters) = {}
  BY DEF Init, Ever, Idle, Pooled, Held, ToSet
<1>3. Numbered
  <2>1. Cardinality(Ever) = 0
    BY <1>2, FS_EmptySet
  <2> QED BY <1>2, <2>1 DEF Numbered
<1>4. ProcsKnown /\ StartKnown
  BY <1>2, PyPoolAssumption DEF Init, ProcsKnown, StartKnown
<1>5. PlacesKnown
  BY <1>2 DEF Init, PlacesKnown, Distinct, OneHolder
<1>6. QueueKnown
  BY <1>2 DEF Init, QueueKnown, Distinct, NoLostWakeup
<1>7. UpKnown
  BY DEF Init, UpKnown, CloseLeavesNone
<1> QED BY <1>1, <1>3, <1>4, <1>5, <1>6, <1>7 DEF PoolInv

(* The brokers write and die, and clients call them: the pool and its      *)
(* queue do not move.                                                      *)
LEMMA QuietInv ==
  ASSUME PoolInv, UNCHANGED <<objVars, queueVars, poolVars, holds>>,
         life' \in [Proc -> {"none", "up", "dead"}], Ever' = Ever,
         \A p \in Proc : life'[p] = "up" => life[p] = "up"
  PROVE  PoolInv'
<1>1. Idle' = Idle /\ Held' = Held /\ Pooled' = Pooled /\ ToSet(getters)' = ToSet(getters)
  BY DEF Idle, Held, Pooled, queueVars, poolVars
<1>2. PyType' /\ Numbered' /\ ProcsKnown' /\ StartKnown'
  BY <1>1 DEF PoolInv, PyType, Numbered, ProcsKnown, StartKnown, objVars, queueVars, poolVars
<1>3. PlacesKnown' /\ QueueKnown'
  BY <1>1 DEF PoolInv, PlacesKnown, QueueKnown, NoLostWakeup, OneHolder, Distinct, objVars,
     queueVars, poolVars
<1>4. UpKnown'
  BY <1>1 DEF PoolInv, UpKnown, CloseLeavesNone, objVars, poolVars
<1> QED BY <1>2, <1>3, <1>4 DEF PoolInv

LEMMA BrokerInv ==
  ASSUME PoolInv,
         \/ UNCHANGED vars
         \/ \E p \in Proc : Tool(p)
         \/ \E c \in Client : Call(c)
  PROVE  PoolInv'
<1>1. UNCHANGED <<objVars, queueVars, poolVars, holds>>
  BY DEF vars, Tool, WritesText, WritesNewline, Dies, Call, Invoke, Selects, TimesOut, Returns
<1>2. life' = life \/ \E p \in Proc : life[p] = "up" /\ life' = [life EXCEPT ![p] = "dead"]
  BY DEF vars, Tool, WritesText, WritesNewline, Dies, Call, Invoke, Selects, TimesOut, Returns,
     toolVars
<1>3. /\ life' \in [Proc -> {"none", "up", "dead"}] /\ Ever' = Ever
      /\ \A p \in Proc : life'[p] = "up" => life[p] = "up"
  BY <1>2 DEF PoolInv, PyType, Ever
<1> QED BY <1>1, <1>3, QuietInv

(* An acquirer that is served or goes to sleep: one that comes in, or one  *)
(* that was woken.                                                         *)
LEMMA GetInv ==
  ASSUME PoolInv, NEW c \in Client, started, holds[c] = None, c \notin ToSet(getters),
         Get(c), woken' = woken \ {c}, UNCHANGED <<life, objVars, poolVars>>
  PROVE  PoolInv'
<1>0. /\ available \in Seq(Proc) /\ getters \in Seq(Client) /\ woken \in SUBSET Client
      /\ holds \in [Client -> Proc \cup {None}] /\ None \notin Proc
      /\ Distinct(available) /\ Distinct(getters) /\ OneHolder(holds) /\ Idle \cap Held = {}
      /\ ToSet(getters) \in SUBSET Client /\ ToSet(getters) \cap woken = {}
      /\ \A d \in ToSet(getters) \cup woken : holds[d] = None
  BY ProcFinite, Elements DEF PoolInv, PyType, PlacesKnown, QueueKnown
<1>1. /\ IsFiniteSet(woken) /\ Cardinality(woken) \in Nat /\ IsFiniteSet(woken')
      /\ Cardinality(woken') \in Nat /\ Cardinality(woken) - 1 =< Cardinality(woken')
  <2>1. IsFiniteSet(woken) /\ Cardinality(woken) \in Nat
    BY <1>0, PyPoolAssumption, FS_Subset, FS_CardinalityType
  <2>2. /\ IsFiniteSet(woken \ {c})
        /\ Cardinality(woken \ {c}) = IF c \in woken THEN Cardinality(woken) - 1 ELSE Cardinality(woken)
    BY <2>1, FS_RemoveElement
  <2> QED BY <2>1, <2>2, FS_CardinalityType
<1>2. /\ holds' \in [Client -> Proc \cup {None}] /\ available' \in Seq(Proc)
      /\ getters' \in Seq(Client) /\ Distinct(available)' /\ OneHolder(holds)'
      /\ (Idle \cap Held = {})' /\ (Idle \cup Held)' = Idle \cup Held /\ QueueKnown'
  <2>1. CASE available # <<>>
    <3> DEFINE p == Head(available)
    <3>1. holds' = [holds EXCEPT ![c] = p] /\ available' = Tail(available) /\ getters' = getters
      BY <2>1 DEF Get, GetNowait
    <3>2. /\ p \in Proc /\ p \in Idle /\ Tail(available) \in Seq(Proc)
          /\ Distinct(Tail(available)) /\ ToSet(Tail(available)) = Idle \ {p}
          /\ Len(Tail(available)) = Len(available) - 1 /\ Len(available) \in Nat
      BY <1>0, <2>1, TakeElement, Elements DEF Idle
    <3> HIDE DEF p
    <3>3. /\ holds' \in [Client -> Proc \cup {None}] /\ holds'[c] = p
          /\ \A d \in Client \ {c} : holds'[d] = holds[d]
      BY <1>0, <3>1, <3>2
    <3>4. Held' = Held \cup {p}
      BY <1>0, <3>2, <3>3 DEF Held
    <3>5. OneHolder(holds')
      BY <1>0, <3>2, <3>3 DEF OneHolder, Held
    <3>6. Idle' = Idle \ {p} /\ ToSet(getters)' = ToSet(getters)
      BY <3>1, <3>2 DEF Idle
    <3>7. \A d \in ToSet(getters)' \cup woken' : holds'[d] = None
      BY <1>0, <3>3, <3>6
    <3>8. NoLostWakeup'
      BY <1>1, <3>1, <3>2 DEF PoolInv, QueueKnown, NoLostWakeup
    <3>9. QueueKnown'
      BY <1>0, <3>1, <3>6, <3>7, <3>8 DEF QueueKnown
    <3> QED BY <1>0, <3>1, <3>2, <3>3, <3>4, <3>5, <3>6, <3>9
  <2>2. CASE available = <<>>
    <3>1. getters' = Append(getters, c) /\ holds' = holds /\ available' = available
      BY <2>2 DEF Get
    <3>2. /\ getters' \in Seq(Client) /\ Distinct(getters)'
          /\ ToSet(getters)' = ToSet(getters) \cup {c}
      BY <1>0, <3>1, AppendElement
    <3>3. Len(available') = 0
      BY <2>2, <3>1
    <3>4. NoLostWakeup'
      BY <1>1, <3>3 DEF NoLostWakeup
    <3>5. QueueKnown'
      BY <1>0, <3>1, <3>2, <3>4 DEF QueueKnown
    <3>6. Idle' = Idle /\ Held' = Held
      BY <3>1 DEF Idle, Held
    <3> QED BY <1>0, <3>1, <3>2, <3>5, <3>6
  <2> QED BY <2>1, <2>2
<1>3. Ever' = Ever /\ Pooled' = Pooled /\ PyType'
  BY <1>0, <1>2 DEF PoolInv, PyType, Ever, Pooled, objVars, poolVars
<1>4. Numbered' /\ ProcsKnown' /\ StartKnown'
  BY <1>2, <1>3 DEF PoolInv, Numbered, ProcsKnown, StartKnown, objVars, poolVars
<1>5. PlacesKnown'
  BY <1>2, <1>3 DEF PoolInv, PlacesKnown, objVars, poolVars
<1>6. UpKnown'
  BY <1>3 DEF PoolInv, UpKnown, CloseLeavesNone, objVars, poolVars
<1> QED BY <1>2, <1>3, <1>4, <1>5, <1>6 DEF PoolInv

LEMMA AcquireInv ==
  ASSUME PoolInv, NEW c \in Client, Acquire(c) \/ Resume(c)
  PROVE  PoolInv'
<1>1. CASE Acquire(c)
  <2>1. c \notin ToSet(getters) /\ woken' = woken \ {c}
    BY <1>1 DEF Acquire, Waiting
  <2> QED BY <1>1, <2>1, GetInv DEF Acquire, toolVars
<1>2. CASE Resume(c)
  <2>1. c \notin ToSet(getters) /\ started /\ holds[c] = None
    BY <1>2 DEF Resume, PoolInv, QueueKnown, StartKnown
  <2> QED BY <1>2, <2>1, GetInv DEF Resume, toolVars
<1> QED BY <1>1, <1>2

-----------------------------------------------------------------------------
(* release.                                                                *)

LEMMA GivenUp ==
  ASSUME PoolInv, NEW c \in Client, GivesUp(c)
  PROVE  /\ holds[c] \in Proc /\ holds[c] \in Held /\ holds[c] \notin Idle /\ started
         /\ holds' \in [Client -> Proc \cup {None}] /\ Held' = Held \ {holds[c]}
         /\ OneHolder(holds)' /\ \A d \in Client : holds[d] = None => holds'[d] = None
<1>1. /\ holds[c] \in Proc /\ holds[c] \in Held /\ holds[c] # None
      /\ holds \in [Client -> Proc \cup {None}] /\ OneHolder(holds)
  BY DEF PoolInv, PyType, PlacesKnown, GivesUp, Held
<1>2. /\ holds' \in [Client -> Proc \cup {None}] /\ holds'[c] = None
      /\ \A d \in Client \ {c} : holds'[d] = holds[d]
  BY <1>1 DEF GivesUp
<1>3. Held' = Held \ {holds[c]}
  BY <1>1, <1>2 DEF Held, OneHolder
<1>4. started /\ holds[c] \notin Idle
  BY <1>1 DEF PoolInv, StartKnown, PlacesKnown, PyType
<1>5. OneHolder(holds') /\ \A d \in Client : holds[d] = None => holds'[d] = None
  BY <1>1, <1>2 DEF OneHolder
<1> QED BY <1>1, <1>2, <1>3, <1>4, <1>5

(* A process is put into the queue in the place of the one given up.       *)
LEMMA PutKeeps ==
  ASSUME PoolInv, NEW c \in Client, GivesUp(c), NEW p \in Proc, p \notin Idle,
         p \notin Held \ {holds[c]}, Put(p)
  PROVE  /\ available' \in Seq(Proc) /\ Idle' = Idle \cup {p} /\ Distinct(available)'
         /\ (Idle \cap Held = {})' /\ OneHolder(holds)' /\ QueueKnown'
         /\ getters' \in Seq(Client) /\ woken' \in SUBSET Client
<1>1. /\ holds' \in [Client -> Proc \cup {None}] /\ Held' = Held \ {holds[c]}
      /\ OneHolder(holds)' /\ \A d \in Client : holds[d] = None => holds'[d] = None
  BY GivenUp
<1>2. /\ available \in Seq(Proc) /\ getters \in Seq(Client) /\ woken \in SUBSET Client
      /\ Distinct(available) /\ Distinct(getters) /\ Idle \cap Held = {}
      /\ ToSet(getters) \in SUBSET Client /\ ToSet(getters) \cap woken = {}
      /\ \A d \in ToSet(getters) \cup woken : holds[d] = None
  BY Elements DEF PoolInv, PyType, PlacesKnown, QueueKnown
<1>3. /\ available' \in Seq(Proc) /\ Idle' = Idle \cup {p} /\ Distinct(available)'
      /\ Len(available') = Len(available) + 1 /\ Len(available) \in Nat
  BY <1>2, AppendElement, Elements DEF Put, Idle
<1>4. (Idle \cap Held = {})'
  BY <1>1, <1>2, <1>3
<1>5. QueueKnown' /\ getters' \in Seq(Client) /\ woken' \in SUBSET Client
  <2>1. CASE getters = <<>>
    <3>1. getters' = getters /\ woken' = woken
      BY <2>1 DEF Put
    <3>2. NoLostWakeup'
      BY <2>1, <3>1 DEF NoLostWakeup
    <3> QED BY <1>1, <1>2, <3>1, <3>2 DEF QueueKnown
  <2>2. CASE getters # <<>>
    <3> DEFINE d == Head(getters)
    <3>1. getters' = Tail(getters) /\ woken' = woken \cup {d}
      BY <2>2 DEF Put
    <3>2. /\ d \in Client /\ d \in ToSet(getters) /\ Tail(getters) \in Seq(Client)
          /\ Distinct(Tail(getters)) /\ ToSet(Tail(getters)) = ToSet(getters) \ {d}
      BY <1>2, <2>2, TakeElement
    <3> HIDE DEF d
    <3>3. ToSet(getters') = ToSet(getters) \ {d} /\ d \notin woken
      BY <1>2, <3>1, <3>2
    <3>4. Cardinality(woken \cup {d}) = Cardinality(woken) + 1 /\ Cardinality(woken) \in Nat
      <4>1. IsFiniteSet(woken) /\ Cardinality(woken) \in Nat
        BY <1>2, PyPoolAssumption, FS_Subset, FS_CardinalityType
      <4> QED BY <3>3, <4>1, FS_AddElement
    <3>5. NoLostWakeup'
      BY <1>3, <2>2, <3>1, <3>4 DEF NoLostWakeup, PoolInv, QueueKnown
    <3>6. \A e \in ToSet(getters') \cup woken' : holds'[e] = None
      BY <1>1, <1>2, <3>1, <3>2, <3>3
    <3>7. QueueKnown'
      BY <1>2, <3>1, <3>2, <3>3, <3>5, <3>6 DEF QueueKnown
    <3> QED BY <1>2, <3>1, <3>2, <3>7
  <2> QED BY <2>1, <2>2
<1> QED BY <1>1, <1>3, <1>4, <1>5

LEMMA ReleaseAliveInv ==
  ASSUME PoolInv, NEW c \in Client, ReleaseAlive(c)
  PROVE  PoolInv'
<1> DEFINE p == holds[c]
<1>1. /\ p \in Proc /\ p \in Held /\ p \notin Idle /\ started /\ Held' = Held \ {p}
      /\ holds' \in [Client -> Proc \cup {None}]
  BY GivenUp DEF ReleaseAlive
<1>2. /\ available' \in Seq(Proc) /\ Idle' = Idle \cup {p} /\ Distinct(available)'
      /\ (Idle \cap Held = {})' /\ OneHolder(holds)' /\ QueueKnown'
      /\ getters' \in Seq(Client) /\ woken' \in SUBSET Client
  BY <1>1, PutKeeps DEF ReleaseAlive
<1> HIDE DEF p
<1>3. /\ UNCHANGED <<life, objVars, poolVars>> /\ (Idle \cup Held)' = Idle \cup Held
  BY <1>1, <1>2 DEF ReleaseAlive, toolVars
<1>4. Ever' = Ever /\ Pooled' = Pooled /\ PyType'
  BY <1>1, <1>2, <1>3 DEF PoolInv, PyType, Ever, Pooled, objVars, poolVars
<1>5. Numbered' /\ ProcsKnown' /\ StartKnown'
  BY <1>1, <1>3, <1>4 DEF PoolInv, Numbered, ProcsKnown, StartKnown, objVars, poolVars
<1>6. PlacesKnown'
  BY <1>2, <1>3, <1>4 DEF PoolInv, PlacesKnown, objVars, poolVars
<1>7. UpKnown'
  BY <1>3, <1>4 DEF PoolInv, UpKnown, CloseLeavesNone, objVars, poolVars
<1> QED BY <1>2, <1>4, <1>5, <1>6, <1>7 DEF PoolInv

LEMMA ReplacedElements ==
  ASSUME all \in Seq(Proc), NEW old, NEW new \in Proc, old \in Pooled
  PROVE  /\ Replaced(old, new) \in Seq(Proc)
         /\ ToSet(Replaced(old, new)) = (Pooled \ {old}) \cup {new}
<1>1. Len(all) \in Nat /\ DOMAIN all = 1..Len(all) /\ \A k \in 1..Len(all) : all[k] \in Proc
  OBVIOUS
<1>2. /\ DOMAIN Replaced(old, new) = 1..Len(all) /\ Replaced(old, new) \in [1..Len(all) -> Proc]
      /\ \A k \in 1..Len(all) : Replaced(old, new)[k] = IF all[k] = old THEN new ELSE all[k]
  BY <1>1 DEF Replaced
<1>3. Replaced(old, new) \in Seq(Proc)
  <2>1. \A f \in [1..Len(all) -> Proc] : f \in Seq(Proc)
    BY <1>1
  <2> QED BY <1>2, <2>1
<1>4. PICK j \in 1..Len(all) : all[j] = old
  BY <1>1 DEF Pooled, ToSet
<1> QED BY <1>1, <1>2, <1>3, <1>4 DEF Pooled, ToSet

LEMMA ReleaseDeadInv ==
  ASSUME PoolInv, NEW c \in Client, ReleaseDead(c)
  PROVE  PoolInv'
<1> DEFINE old == holds[c]
           new == Fresh
<1>1. /\ old \in Proc /\ old \in Held /\ old \notin Idle /\ started /\ Held' = Held \ {old}
      /\ holds' \in [Client -> Proc \cup {None}]
  BY GivenUp DEF ReleaseDead
<1>2. /\ Ever' = Ever \cup {new} /\ Numbered' /\ new \in Proc /\ new \notin Ever
      /\ life' \in [Proc -> {"none", "up", "dead"}]
      /\ \A p \in Proc \ {new} : life'[p] = life[p]
  <2>1. ToSet(New(1)) = {new} /\ ToSet(New(1)) \cap Ever = {}
    BY OneNew DEF PoolInv
  <2> QED BY <2>1, SpawnedNext DEF ReleaseDead, PoolInv
<1>3. /\ old \in Pooled \cap open /\ new \notin Idle \cup Held \cup Pooled \cup open \cup dropped
      /\ closed = "no"
  BY <1>1, <1>2 DEF ReleaseDead, PoolInv, PlacesKnown, ProcsKnown
<1>4. /\ available' \in Seq(Proc) /\ Idle' = Idle \cup {new} /\ Distinct(available)'
      /\ (Idle \cap Held = {})' /\ OneHolder(holds)' /\ QueueKnown'
      /\ getters' \in Seq(Client) /\ woken' \in SUBSET Client
  BY <1>2, <1>3, PutKeeps DEF ReleaseDead
<1>5. all' \in Seq(Proc) /\ Pooled' = (Pooled \ {old}) \cup {new}
  BY <1>2, <1>3, ReplacedElements DEF ReleaseDead, Pooled, PoolInv, PyType
<1>6. /\ open' = (open \ {old}) \cup {new} /\ UNCHANGED <<dropped, started, closed>>
      /\ old \notin open \/ life[old] # "up"
  BY DEF ReleaseDead, IsAlive
<1> HIDE DEF old, new
<1>7. PyType'
  BY <1>1, <1>2, <1>4, <1>5, <1>6 DEF PoolInv, PyType
<1>8. ProcsKnown' /\ StartKnown'
  BY <1>1, <1>2, <1>4, <1>5, <1>6 DEF PoolInv, ProcsKnown, StartKnown
<1>9. PlacesKnown'
  BY <1>1, <1>3, <1>4, <1>5, <1>6 DEF PoolInv, PlacesKnown
<1>10. UpKnown'
  BY <1>2, <1>3, <1>5, <1>6 DEF PoolInv, UpKnown, CloseLeavesNone
<1> QED BY <1>2, <1>4, <1>7, <1>8, <1>9, <1>10 DEF PoolInv

(* Of a release that puts nothing back: who waits is not concerned.        *)
LEMMA LeavesQueue ==
  ASSUME PoolInv, NEW c \in Client, GivesUp(c), UNCHANGED queueVars
  PROVE  /\ QueueKnown' /\ Idle' = Idle /\ Distinct(available)' /\ (Idle \cap Held = {})'
         /\ OneHolder(holds)' /\ available' \in Seq(Proc) /\ getters' \in Seq(Client)
         /\ woken' \in SUBSET Client /\ holds' \in [Client -> Proc \cup {None}]
<1>1. /\ Held' = Held \ {holds[c]} /\ holds' \in [Client -> Proc \cup {None}]
      /\ OneHolder(holds)' /\ \A d \in Client : holds[d] = None => holds'[d] = None
  BY GivenUp
<1>2. ToSet(getters) \in SUBSET Client /\ woken \in SUBSET Client
  BY Elements DEF PoolInv, PyType
<1>3. Idle' = Idle /\ UNCHANGED <<available, getters, woken>> /\ ToSet(getters)' = ToSet(getters)
  BY DEF queueVars, Idle
<1>4. QueueKnown'
  BY <1>1, <1>2, <1>3 DEF PoolInv, QueueKnown, NoLostWakeup
<1> QED BY <1>1, <1>2, <1>3, <1>4 DEF PoolInv, PyType, PlacesKnown

LEMMA ReleaseFailsInv ==
  ASSUME PoolInv, NEW c \in Client, ReleaseFails(c)
  PROVE  PoolInv'
<1> DEFINE old == holds[c]
<1>1. /\ old \in Proc /\ old \in Held /\ started /\ Held' = Held \ {old}
      /\ old \notin Idle
  BY GivenUp DEF ReleaseFails
<1>2. PICK n \in 0..1 : Spawned(n) /\ dropped' = dropped \cup ToSet(New(n))
  BY DEF ReleaseFails
<1>3. /\ Ever' = Ever \cup ToSet(New(n)) /\ Numbered'
      /\ life' \in [Proc -> {"none", "up", "dead"}]
      /\ \A p \in Proc \ ToSet(New(n)) : life'[p] = life[p]
      /\ ToSet(New(n)) \in SUBSET Proc
  BY <1>2, SpawnedNext DEF PoolInv
<1>4. /\ QueueKnown' /\ Idle' = Idle /\ Distinct(available)' /\ (Idle \cap Held = {})'
      /\ OneHolder(holds)' /\ available' \in Seq(Proc) /\ getters' \in Seq(Client)
      /\ woken' \in SUBSET Client /\ holds' \in [Client -> Proc \cup {None}]
  BY LeavesQueue DEF ReleaseFails
<1>5. /\ open' = open \ {old} /\ UNCHANGED poolVars /\ Pooled' = Pooled
      /\ old \notin open \/ life[old] # "up"
  BY DEF ReleaseFails, IsAlive, poolVars, Pooled
<1> HIDE DEF old
<1>6. PyType'
  BY <1>2, <1>3, <1>4, <1>5 DEF PoolInv, PyType, poolVars
<1>7. ProcsKnown' /\ StartKnown'
  BY <1>1, <1>2, <1>3, <1>4, <1>5 DEF PoolInv, ProcsKnown, StartKnown, poolVars
<1>8. PlacesKnown'
  BY <1>1, <1>4, <1>5 DEF PoolInv, PlacesKnown, poolVars
<1>9. UpKnown'
  BY <1>2, <1>3, <1>5 DEF ReleaseFails, PoolInv, UpKnown, CloseLeavesNone, poolVars
<1> QED BY <1>3, <1>4, <1>6, <1>7, <1>8, <1>9 DEF PoolInv

-----------------------------------------------------------------------------
(* close.                                                                  *)

LEMMA EndsKeeps ==
  ASSUME PoolInv, NEW procs, NEW late, Ends(procs, late)
  PROVE  /\ life' \in [Proc -> {"none", "up", "dead"}] /\ Ever' = Ever /\ Numbered'
         /\ open' = open \ procs /\ late \subseteq procs \cap open
         /\ \A p \in Proc : life'[p] = "up" => life[p] = "up" /\ p \notin (procs \cap open) \ late
<1>1. /\ life' = [p \in Proc |-> IF p \in (procs \cap open) \ late THEN "dead" ELSE life[p]]
      /\ open' = open \ procs /\ late \subseteq procs \cap open
  BY DEF Ends
<1>2. Ever' = Ever
  BY <1>1 DEF Ever, PoolInv, PyType, ProcsKnown
<1> QED BY <1>1, <1>2 DEF PoolInv, PyType, Numbered

LEMMA ReleaseClosedInv ==
  ASSUME PoolInv, NEW c \in Client, ReleaseClosed(c)
  PROVE  PoolInv'
<1> DEFINE old == holds[c]
<1>1. old \in Held /\ started /\ Held' = Held \ {old}
  BY GivenUp DEF ReleaseClosed
<1>2. PICK late \in SUBSET {old} : Ends({old}, late)
  BY DEF ReleaseClosed
<1>3. /\ life' \in [Proc -> {"none", "up", "dead"}] /\ Ever' = Ever /\ Numbered'
      /\ open' = open \ {old}
      /\ \A p \in Proc : life'[p] = "up" => life[p] = "up"
  BY <1>2, EndsKeeps
<1>4. /\ QueueKnown' /\ Idle' = Idle /\ Distinct(available)' /\ (Idle \cap Held = {})'
      /\ OneHolder(holds)' /\ available' \in Seq(Proc) /\ getters' \in Seq(Client)
      /\ woken' \in SUBSET Client /\ holds' \in [Client -> Proc \cup {None}]
  BY LeavesQueue DEF ReleaseClosed
<1>5. UNCHANGED <<dropped, poolVars>> /\ Pooled' = Pooled /\ closed # "no"
  BY DEF ReleaseClosed, poolVars, Pooled
<1> HIDE DEF old
<1>6. PyType'
  BY <1>3, <1>4, <1>5 DEF PoolInv, PyType, poolVars
<1>7. ProcsKnown' /\ StartKnown'
  BY <1>1, <1>3, <1>4, <1>5 DEF PoolInv, ProcsKnown, StartKnown, poolVars
<1>8. PlacesKnown' /\ UpKnown'
  BY <1>3, <1>4, <1>5 DEF PoolInv, PlacesKnown, UpKnown, CloseLeavesNone, poolVars
<1> QED BY <1>3, <1>4, <1>6, <1>7, <1>8 DEF PoolInv

LEMMA CloseInv ==
  ASSUME PoolInv, Close \/ CloseRaises
  PROVE  PoolInv'
<1>1. PICK procs \in SUBSET Pooled : \E late : Ends(procs, late)
  <2>1. CASE Close
    BY <2>1 DEF Close, Pooled
  <2>2. CASE CloseRaises
    <3>1. PICK n \in DOMAIN all : Ends(ToSet(SubSeq(all, 1, n)), {all[n]})
      BY <2>2 DEF CloseRaises
    <3>2. ToSet(SubSeq(all, 1, n)) \subseteq Pooled
      BY DEF ToSet, Pooled, PoolInv, PyType
    <3> QED BY <3>1, <3>2
  <2> QED BY <2>1, <2>2
<1>2. /\ life' \in [Proc -> {"none", "up", "dead"}] /\ Ever' = Ever /\ Numbered'
      /\ open' = open \ procs
  BY <1>1, EndsKeeps
<1>3. /\ UNCHANGED <<dropped, queueVars, started, holds>> /\ closed' \in {"yes", "raised"}
      /\ all' \in {all, <<>>}
  BY DEF Close, CloseRaises
<1>4. /\ Idle' = Idle /\ Held' = Held /\ ToSet(getters)' = ToSet(getters)
      /\ UNCHANGED <<available, getters, woken>>
  BY <1>3 DEF Idle, Held, queueVars
<1>5. all' \in Seq(Proc) /\ Pooled' \subseteq Pooled /\ (all = <<>> => all' = <<>>)
  <2>1. all \in Seq(Proc) /\ <<>> \in Seq(Proc) /\ ToSet(<<>>) = {}
    BY DEF PoolInv, PyType, ToSet
  <2> QED BY <1>3, <2>1 DEF Pooled
<1>6. PyType'
  BY <1>2, <1>3, <1>4, <1>5 DEF PoolInv, PyType
<1>7. ProcsKnown' /\ StartKnown'
  BY <1>2, <1>3, <1>4, <1>5 DEF PoolInv, ProcsKnown, StartKnown
<1>8. PlacesKnown' /\ QueueKnown'
  BY <1>3, <1>4 DEF PoolInv, PlacesKnown, QueueKnown, NoLostWakeup, OneHolder, Distinct
<1>9. UpKnown'
  <2>1. CASE Close
    <3>1. /\ \A p \in Proc : life'[p] = "up" => life[p] = "up" /\ p \notin Pooled \cap open
          /\ dropped' = dropped /\ closed = "no" /\ closed' = "yes"
      BY <2>1, EndsKeeps DEF Close, Pooled
    <3> QED BY <3>1 DEF PoolInv, UpKnown, CloseLeavesNone
  <2>2. CASE CloseRaises
    BY <2>2 DEF CloseRaises, UpKnown, CloseLeavesNone
  <2> QED BY <2>1, <2>2
<1> QED BY <1>2, <1>6, <1>7, <1>8, <1>9 DEF PoolInv

-----------------------------------------------------------------------------
(* start.                                                                  *)

(* What start() does with "spawns" processes, of which "ready" come up and *)
(* "queued" find room in the queue.                                        *)
Starts(spawns, ready, queued) ==
  /\ Spawned(spawns)
  /\ available' = available \o New(queued)
  /\ all' = all \o New(ready)
  /\ open' = open \cup ToSet(New(ready))
  /\ dropped' = dropped \cup (ToSet(New(spawns)) \ ToSet(New(ready)))
  /\ started' = (queued = Size)

LEMMA StartCases ==
  ASSUME PoolInv, Start
  PROVE  \E spawns \in 0..Size : \E ready \in 0..spawns : \E queued \in 0..ready :
           /\ Starts(spawns, ready, queued) /\ ready >= spawns - 1
           /\ Len(available) + queued =< Size
           /\ queued = 0 => ready = 0 \/ Len(available) = Size
           /\ queued = Size => ready = queued /\ spawns = ready /\ available = <<>>
<1>1. /\ Len(available) \in Nat /\ Len(available) =< Size /\ Size \in Nat \ {0}
      /\ Len(available) = 0 => available = <<>>
  BY PyPoolAssumption, Elements DEF Start, PoolInv, StartKnown, PyType
<1>2. PICK spawns \in 0..Size : \E ready \in 0..spawns :
        LET room == Size - Len(available)
            queued == IF ready < room THEN ready ELSE room
        IN  /\ ready >= spawns - 1
            /\ queued = ready \/ (ready = spawns /\ ready = room + 1)
            /\ Starts(spawns, ready, queued)
  BY DEF Start, Starts, Noted
<1>3. PICK ready \in 0..spawns :
        LET room == Size - Len(available)
            queued == IF ready < room THEN ready ELSE room
        IN  /\ ready >= spawns - 1
            /\ queued = ready \/ (ready = spawns /\ ready = room + 1)
            /\ Starts(spawns, ready, queued)
  BY <1>2
<1> DEFINE room == Size - Len(available)
           queued == IF ready < room THEN ready ELSE room
<1>4. /\ queued \in 0..ready /\ Starts(spawns, ready, queued) /\ ready >= spawns - 1
      /\ room \in 0..Size /\ Len(available) + queued =< Size
      /\ queued = ready \/ (ready = spawns /\ ready = room + 1)
  BY <1>1, <1>3
<1>5. queued = 0 => ready = 0 \/ Len(available) = Size
  BY <1>1, <1>3
<1>6. queued = Size => ready = queued /\ spawns = ready /\ available = <<>>
  BY <1>1, <1>3
<1> QED BY <1>4, <1>5, <1>6

LEMMA StartInv ==
  ASSUME PoolInv, Start
  PROVE  PoolInv'
<1>1. PICK spawns \in 0..Size : \E ready \in 0..spawns : \E queued \in 0..ready :
           /\ Starts(spawns, ready, queued)
           /\ Len(available) + queued =< Size
           /\ queued = 0 => ready = 0 \/ Len(available) = Size
  BY StartCases
<1>2. PICK ready \in 0..spawns : \E queued \in 0..ready :
           /\ Starts(spawns, ready, queued)
           /\ Len(available) + queued =< Size
           /\ queued = 0 => ready = 0 \/ Len(available) = Size
  BY <1>1
<1>3. PICK queued \in 0..ready :
           /\ Starts(spawns, ready, queued)
           /\ Len(available) + queued =< Size
           /\ queued = 0 => ready = 0 \/ Len(available) = Size
  BY <1>2
<1>4. /\ spawns \in Nat /\ ready \in Nat /\ queued \in Nat /\ Size \in Nat \ {0}
      /\ ready \in 0..spawns /\ queued \in 0..spawns
  BY PyPoolAssumption
<1>5. /\ ~started /\ closed = "no" /\ closed' = "no" /\ holds' = holds
      /\ UNCHANGED <<getters, woken>> /\ getters = <<>> /\ woken = {} /\ Held = {} /\ Held' = {}
      /\ Ever \ dropped = Pooled /\ Pooled \subseteq open /\ (available = <<>> => all = <<>>)
  BY DEF Start, PoolInv, StartKnown, Held
<1>6. /\ Ever' = Ever \cup ToSet(New(spawns)) /\ Numbered'
      /\ life' \in [Proc -> {"none", "up", "dead"}]
      /\ \A p \in Proc \ ToSet(New(spawns)) : life'[p] = life[p]
      /\ New(queued) \in Seq(Proc) /\ New(ready) \in Seq(Proc)
      /\ ToSet(New(ready)) \subseteq ToSet(New(spawns)) /\ ToSet(New(spawns)) \in SUBSET Proc
      /\ ToSet(New(queued)) \subseteq ToSet(New(spawns))
  BY <1>3, <1>4, SpawnedNext DEF Starts, PoolInv
<1>7. /\ ToSet(New(spawns)) \cap Ever = {} /\ Distinct(New(queued))
      /\ Len(New(queued)) = queued /\ Len(New(ready)) = ready
  BY <1>4, NewNumbers DEF PoolInv
<1>8. ToSet(New(queued)) \subseteq ToSet(New(ready))
  <2>1. ToSet(New(queued)) = Fresh..(Fresh + queued - 1) /\ ToSet(New(ready)) = Fresh..(Fresh + ready - 1)
    BY <1>4, NewNumbers DEF PoolInv
  <2> QED BY <1>4, <2>1, FreshNumber DEF PoolInv
<1>9. /\ available' \in Seq(Proc) /\ Idle' = Idle \cup ToSet(New(queued))
      /\ Len(available') = Len(available) + queued /\ Distinct(available)'
  <2>1. ToSet(available) \cap ToSet(New(queued)) = {}
    BY <1>6, <1>7 DEF PoolInv, ProcsKnown, Idle
  <2>2. available' = available \o New(queued) /\ available \in Seq(Proc) /\ Distinct(available)
    BY <1>3 DEF Starts, PoolInv, PyType, PlacesKnown
  <2>3. /\ available \o New(queued) \in Seq(Proc)
        /\ ToSet(available \o New(queued)) = ToSet(available) \cup ToSet(New(queued))
        /\ Len(available \o New(queued)) = Len(available) + Len(New(queued))
    BY <1>6, <2>2, JoinElements
  <2>4. Distinct(available \o New(queued))
    BY <1>6, <1>7, <2>1, <2>2, JoinElements
  <2>5. Distinct(available')
    BY <2>2, <2>4
  <2> QED BY <1>7, <2>2, <2>3, <2>5 DEF Idle
<1>10. all' \in Seq(Proc) /\ Pooled' = Pooled \cup ToSet(New(ready))
  BY <1>3, <1>6, JoinElements DEF Starts, Pooled, PoolInv, PyType
<1>11. /\ open' = open \cup ToSet(New(ready)) /\ started' \in BOOLEAN
       /\ dropped' = dropped \cup (ToSet(New(spawns)) \ ToSet(New(ready)))
  BY <1>3 DEF Starts
<1>12. PyType'
  BY <1>5, <1>6, <1>9, <1>10, <1>11 DEF PoolInv, PyType
<1>13. ProcsKnown'
  BY <1>5, <1>6, <1>8, <1>9, <1>10, <1>11 DEF PoolInv, ProcsKnown
<1>14. StartKnown'
  <2>1. Len(available') =< Size
    BY <1>3, <1>9
  <2>2. available' = <<>> => all' = <<>>
    <3> SUFFICES ASSUME available' = <<>> PROVE all' = <<>>
      OBVIOUS
    <3>1. Len(available) = 0 /\ queued = 0 /\ Len(available) \in Nat
      <4>1. Len(available) \in Nat /\ Len(available') = 0
        BY Elements DEF PoolInv, PyType
      <4> QED BY <1>4, <1>9, <4>1
    <3>2. available = <<>>
      BY <3>1 DEF PoolInv, PyType
    <3>3. ready = 0 /\ all = <<>>
      BY <1>3, <1>4, <1>5, <3>1, <3>2
    <3>4. New(ready) = <<>>
      BY <1>6, <1>7, <3>3
    <3> QED BY <1>3, <3>3, <3>4 DEF Starts
  <2>3. Ever' \ dropped' = Pooled' /\ Pooled' \subseteq open'
    BY <1>5, <1>6, <1>7, <1>10, <1>11 DEF PoolInv, ProcsKnown
  <2> QED BY <1>5, <2>1, <2>2, <2>3 DEF StartKnown
<1>15. PlacesKnown'
  BY <1>5, <1>8, <1>9, <1>10, <1>11 DEF PoolInv, PlacesKnown
<1>16. QueueKnown'
  BY <1>5 DEF PoolInv, QueueKnown, NoLostWakeup
<1>17. UpKnown'
  BY <1>5, <1>6, <1>10, <1>11 DEF PoolInv, UpKnown, CloseLeavesNone
<1> QED BY <1>6, <1>12, <1>13, <1>14, <1>15, <1>16, <1>17 DEF PoolInv

LEMMA PoolStep ==
  ASSUME PoolInv, [Next]_vars
  PROVE  PoolInv'
<1>1. ASSUME NEW c \in Client, Acquire(c) \/ Resume(c) \/ Call(c) \/ Release(c)
      PROVE  PoolInv'
  BY <1>1, AcquireInv, BrokerInv, ReleaseAliveInv, ReleaseDeadInv, ReleaseFailsInv,
     ReleaseClosedInv DEF Release
<1> QED BY <1>1, StartInv, CloseInv, BrokerInv DEF Next

LEMMA PoolInvariant == Spec => []PoolInv
<1>1. Init => PoolInv
  BY InitInv
<1>2. PoolInv /\ [Next]_vars => PoolInv'
  BY PoolStep
<1> QED BY <1>1, <1>2, PTL DEF Spec

(* No getter sleeps while there is a process in the queue that no woken    *)
(* getter comes for, in whatever order getters resume and newcomers        *)
(* overtake them (asyncio.Queue, acquire and release).                     *)
THEOREM NoWakeupIsLost == Spec => []NoLostWakeup
<1>1. PoolInv => NoLostWakeup
  BY DEF PoolInv, QueueKnown
<1> QED BY <1>1, PoolInvariant, PTL

(* When close() has returned no process of the pool is left running, not   *)
(* one of a start() that failed nor a replacement nor one in a client's    *)
(* hands, but those whose ready signal did not come.                       *)
THEOREM CloseLeavesNoneUp == Spec => []CloseLeavesNone
<1>1. PoolInv => CloseLeavesNone
  BY DEF PoolInv, UpKnown
<1> QED BY <1>1, PoolInvariant, PTL

-----------------------------------------------------------------------------
(* The refinement: every step is one of Pool's, or none.                   *)

(* What the mapping shows of the pool's processes.                         *)
Joined == Ever \ dropped
Phase == IF closed # "no" THEN "closed" ELSE IF started THEN "open" ELSE "new"
View == <<Idle, holds, Joined, Broken>>

(* A step that Pool does not see: it changes nothing of the view, or there *)
(* is no pool in use before it and after it.                               *)
LEMMA Unseen ==
  ASSUME Phase' = Phase, InUse => UNCHANGED View
  PROVE  [Promise!Next]_Promise!vars
<1>1. InUse' = InUse
  BY DEF InUse, Phase
<1>2. InUse => Idle' = Idle /\ holds' = holds /\ Joined' = Joined /\ Broken' = Broken
  BY DEF View
<1> QED BY <1>1, <1>2 DEF Promise!vars, Promise!places, Phase, Joined, Ever, Idle

(* The mapping has its own name for the cardinality of a set.              *)
LEMMA SameCardinality == \A S : Promise!Cardinality(S) = Cardinality(S)
  BY DEF Promise!Cardinality, Cardinality

LEMMA BrokenFinite ==
  ASSUME PoolInv
  PROVE  /\ Broken = Pooled \ open /\ IsFiniteSet(Broken) /\ Cardinality(Broken) \in Nat
<1>1. Broken = Pooled \ open
  BY DEF Broken, Pooled
<1>2. Broken \in SUBSET Proc
  BY <1>1, Elements DEF PoolInv, PyType, Pooled
<1> QED BY <1>1, <1>2, ProcFinite, FS_Subset, FS_CardinalityType

(* The start() that fills the queue opens the pool, and one that fails is  *)
(* not seen.                                                               *)
LEMMA StartRefines ==
  ASSUME PoolInv, Start
  PROVE  [Promise!Next]_Promise!vars
<1>1. PICK spawns \in 0..Size : \E ready \in 0..spawns : \E queued \in 0..ready :
           /\ Starts(spawns, ready, queued)
           /\ queued = Size => ready = queued /\ spawns = ready /\ available = <<>>
  BY StartCases
<1>2. PICK ready \in 0..spawns : \E queued \in 0..ready :
           /\ Starts(spawns, ready, queued)
           /\ queued = Size => ready = queued /\ spawns = ready /\ available = <<>>
  BY <1>1
<1>3. PICK queued \in 0..ready :
           /\ Starts(spawns, ready, queued)
           /\ queued = Size => ready = queued /\ spawns = ready /\ available = <<>>
  BY <1>2
<1>4. ~started /\ closed = "no" /\ closed' = "no" /\ holds' = holds /\ started' = (queued = Size)
  BY <1>3 DEF Start, Starts
<1>5. Size \in Nat \ {0}
  BY PyPoolAssumption
<1>6. CASE queued # Size
  <2>1. Phase' = Phase /\ ~InUse
    BY <1>4, <1>6 DEF Phase, InUse
  <2> QED BY <2>1, Unseen
<1>7. CASE queued = Size
  <2> DEFINE procs == ToSet(New(Size))
  <2>1. Phase = "new" /\ Phase' = "open" /\ ~InUse /\ InUse'
    BY <1>4, <1>7 DEF Phase, InUse
  <2>2. /\ ready = Size /\ spawns = Size /\ available = <<>> /\ all = <<>>
        /\ Pooled = {} /\ Joined = {} /\ Held = {}
    BY <1>3, <1>4, <1>7 DEF PoolInv, StartKnown, Pooled, ToSet, Joined
  <2>3. /\ New(Size) \in Seq(Proc) /\ procs \in SUBSET Proc /\ Ever' = Ever \cup procs
        /\ Cardinality(procs) = Size /\ procs \cap Ever = {}
    BY <1>3, <1>5, <2>2, SpawnedNext, NewNumbers DEF Starts, PoolInv
  <2>4. available' = New(Size) /\ all' = New(Size)
    <3>1. <<>> \o New(Size) = New(Size)
      BY <2>3
    <3> QED BY <1>3, <1>7, <2>2, <3>1 DEF Starts
  <2>5. Idle' = procs /\ Pooled' = procs
    BY <2>4 DEF Idle, Pooled
  <2>6. open' = open \cup procs /\ dropped' = dropped
    BY <1>3, <2>2 DEF Starts
  <2>7. Joined' = procs
    BY <2>2, <2>3, <2>6 DEF Joined, PoolInv, ProcsKnown
  <2>8. Broken' = {}
    BY <2>5, <2>6 DEF Broken, Pooled
  <2>9. holds' = [c \in Client |-> None]
    BY <1>4, <2>2 DEF Held, PoolInv, PyType
  <2> HIDE DEF procs
  <2>10. Promise!Open
    <3>1. \E q \in SUBSET Proc :
            /\ Cardinality(q) = Size
            /\ (IF InUse THEN ToSet(available) ELSE {})' = q
            /\ (IF InUse THEN {p \in Proc : life[p] # "none"} \ dropped ELSE {})' = q
      BY <2>1, <2>3, <2>5, <2>7 DEF Idle, Joined, Ever
    <3>2. (IF InUse THEN holds ELSE [c \in Client |-> None])' = (IF InUse THEN holds ELSE [c \in Client |-> None])
      BY <2>1, <2>9
    <3>3. (IF InUse THEN Cardinality(Broken) ELSE 0)' = IF InUse THEN Cardinality(Broken) ELSE 0
      BY <2>1, <2>8, FS_EmptySet
    <3> QED BY <2>1, <3>1, <3>2, <3>3, SameCardinality DEF Promise!Open, Promise!places, Phase
  <2> QED BY <2>10 DEF Promise!Next
<1> QED BY <1>6, <1>7

LEMMA CloseRefines ==
  ASSUME Close \/ CloseRaises
  PROVE  [Promise!Next]_Promise!vars
<1>1. Phase # "closed" /\ Phase' = "closed" /\ ~InUse'
  BY DEF Close, CloseRaises, Phase, InUse
<1>2. Promise!Close
  BY <1>1 DEF Promise!Close, Promise!Nobody, Phase
<1> QED BY <1>2 DEF Promise!Next

LEMMA GetRefines ==
  ASSUME PoolInv, NEW c \in Client, holds[c] = None, Get(c), UNCHANGED <<life, objVars, poolVars>>
  PROVE  [Promise!Next]_Promise!vars
<1>1. /\ Phase' = Phase /\ InUse' = InUse /\ Joined' = Joined /\ Broken' = Broken
      /\ UNCHANGED <<life, dropped>>
  BY DEF Phase, InUse, Joined, Ever, Broken, objVars, poolVars
<1>2. CASE ~InUse
  BY <1>1, <1>2, Unseen
<1>3. CASE available = <<>>
  <2>1. UNCHANGED View
    BY <1>1, <1>3 DEF Get, View, Idle
  <2> QED BY <1>1, <2>1, Unseen
<1>4. CASE InUse /\ available # <<>>
  <2> DEFINE p == Head(available)
  <2>1. holds' = [holds EXCEPT ![c] = p] /\ available' = Tail(available)
    BY <1>4 DEF Get, GetNowait
  <2>2. p \in Proc /\ p \in ToSet(available) /\ ToSet(Tail(available)) = ToSet(available) \ {p}
    BY <1>4, TakeElement DEF PoolInv, PyType, PlacesKnown
  <2> HIDE DEF p
  <2>3. Phase = "open" /\ Phase' = "open"
    BY <1>1, <1>4 DEF InUse, Phase
  <2>4. Promise!Take(c, p)
    BY <1>1, <1>4, <2>1, <2>2, <2>3 DEF Promise!Take, Promise!places, Phase
  <2> QED BY <2>2, <2>4 DEF Promise!Next
<1> QED BY <1>2, <1>3, <1>4

LEMMA AcquireRefines ==
  ASSUME PoolInv, NEW c \in Client, Acquire(c) \/ Resume(c)
  PROVE  [Promise!Next]_Promise!vars
<1>1. holds[c] = None
  BY DEF Acquire, Resume, PoolInv, QueueKnown
<1> QED BY <1>1, GetRefines DEF Acquire, Resume, toolVars

LEMMA ReleaseAliveRefines ==
  ASSUME PoolInv, NEW c \in Client, ReleaseAlive(c)
  PROVE  [Promise!Next]_Promise!vars
<1>1. /\ Phase = "open" /\ Phase' = "open" /\ InUse /\ InUse'
      /\ holds[c] # None /\ holds[c] \in Proc /\ holds' = [holds EXCEPT ![c] = None]
  BY GivenUp DEF ReleaseAlive, GivesUp, Phase, InUse, poolVars
<1>2. UNCHANGED <<life, dropped, all, open>> /\ Broken' = Broken
  BY DEF ReleaseAlive, toolVars, objVars, poolVars, Broken
<1>3. ToSet(available)' = ToSet(available) \cup {holds[c]}
  BY <1>1, AppendElement DEF ReleaseAlive, Put, PoolInv, PyType
<1>4. Promise!GiveBack(c)
  BY <1>1, <1>2, <1>3 DEF Promise!GiveBack, Promise!places, Phase
<1> QED BY <1>4 DEF Promise!Next

LEMMA ReleaseDeadRefines ==
  ASSUME PoolInv, NEW c \in Client, ReleaseDead(c)
  PROVE  [Promise!Next]_Promise!vars
<1> DEFINE old == holds[c]
<1>1. /\ Phase = "open" /\ Phase' = "open" /\ InUse /\ InUse'
      /\ old # None /\ old \in Held /\ holds' = [holds EXCEPT ![c] = None]
  BY GivenUp DEF ReleaseDead, GivesUp, Phase, InUse
<1>2. PICK new \in Proc : new = Fresh /\ Ever' = Ever \cup {new} /\ new \notin Ever
  <2>1. ToSet(New(1)) = {Fresh} /\ ToSet(New(1)) \cap Ever = {}
    BY OneNew DEF PoolInv
  <2> QED BY <2>1, SpawnedNext DEF ReleaseDead, PoolInv
<1>3. /\ old \in Pooled \cap open /\ new \notin Pooled \cup open \cup dropped
  BY <1>1, <1>2 DEF ReleaseDead, PoolInv, PlacesKnown, ProcsKnown
<1>4. Pooled' = (Pooled \ {old}) \cup {new}
  BY <1>2, <1>3, ReplacedElements DEF ReleaseDead, Pooled, PoolInv, PyType
<1>5. open' = (open \ {old}) \cup {new} /\ dropped' = dropped
  BY <1>2 DEF ReleaseDead
<1>6. ToSet(available)' = ToSet(available) \cup {new}
  BY <1>2, AppendElement DEF ReleaseDead, Put, PoolInv, PyType
<1> HIDE DEF old
<1>7. Broken' = Broken
  BY <1>3, <1>4, <1>5 DEF Broken, Pooled
<1>8. Joined' = Joined \cup {new} /\ new \notin Joined
  BY <1>2, <1>3, <1>5 DEF Joined
<1>9. Promise!Exchange(c, new)
  BY <1>1, <1>6, <1>7, <1>8 DEF Promise!Exchange, Promise!places, Phase, Joined, Ever, old
<1> QED BY <1>9 DEF Promise!Next

LEMMA ReleaseFailsRefines ==
  ASSUME PoolInv, NEW c \in Client, ReleaseFails(c)
  PROVE  [Promise!Next]_Promise!vars
<1> DEFINE old == holds[c]
<1>1. /\ Phase = "open" /\ Phase' = "open" /\ InUse /\ InUse'
      /\ old # None /\ old \in Held /\ holds' = [holds EXCEPT ![c] = None]
      /\ available' = available
  BY GivenUp DEF ReleaseFails, GivesUp, Phase, InUse, poolVars, queueVars
<1>2. PICK n \in 0..1 : Spawned(n) /\ dropped' = dropped \cup ToSet(New(n))
  BY DEF ReleaseFails
<1>3. Ever' = Ever \cup ToSet(New(n)) /\ ToSet(New(n)) \cap Ever = {}
  BY <1>2, SpawnedNext, NewNumbers DEF PoolInv
<1>4. Joined' = Joined
  BY <1>2, <1>3 DEF Joined
<1>5. old \in Pooled \cap open /\ open' = open \ {old} /\ Pooled' = Pooled
  BY <1>1 DEF ReleaseFails, PoolInv, PlacesKnown, poolVars, Pooled
<1> HIDE DEF old
<1>6. Broken' = Broken \cup {old} /\ old \notin Broken
  BY <1>5 DEF Broken, Pooled
<1>7. Cardinality(Broken') = Cardinality(Broken) + 1
  BY <1>6, BrokenFinite, FS_AddElement
<1>8. Promise!Forfeit(c)
  BY <1>1, <1>4, <1>7 DEF Promise!Forfeit, Phase, Joined, Ever, old
<1> QED BY <1>8 DEF Promise!Next

LEMMA QuietRefines ==
  ASSUME PoolInv,
         \/ UNCHANGED vars
         \/ \E p \in Proc : Tool(p)
         \/ \E c \in Client : Call(c) \/ ReleaseClosed(c)
  PROVE  [Promise!Next]_Promise!vars
<1>1. CASE \E c \in Client : ReleaseClosed(c)
  BY <1>1, Unseen DEF ReleaseClosed, Phase, InUse, poolVars
<1>2. CASE UNCHANGED vars \/ (\E p \in Proc : Tool(p)) \/ \E c \in Client : Call(c)
  <2>1. UNCHANGED <<objVars, queueVars, poolVars, holds>>
    BY <1>2 DEF vars, Tool, WritesText, WritesNewline, Dies, Call, Invoke, Selects, TimesOut, Returns
  <2>2. life' = life \/ \E p \in Proc : life[p] = "up" /\ life' = [life EXCEPT ![p] = "dead"]
    BY <1>2 DEF vars, Tool, WritesText, WritesNewline, Dies, Call, Invoke, Selects, TimesOut,
       Returns, toolVars
  <2>3. Ever' = Ever
    BY <2>2 DEF PoolInv, PyType, Ever
  <2>4. Phase' = Phase /\ UNCHANGED View
    BY <2>1, <2>3 DEF Phase, View, Idle, Joined, Broken, objVars, queueVars, poolVars
  <2> QED BY <2>4, Unseen
<1> QED BY <1>1, <1>2

LEMMA PromiseStep ==
  ASSUME PoolInv, [Next]_vars
  PROVE  [Promise!Next]_Promise!vars
<1>1. ASSUME NEW c \in Client, Acquire(c) \/ Resume(c) \/ Call(c) \/ Release(c)
      PROVE  [Promise!Next]_Promise!vars
  BY <1>1, AcquireRefines, ReleaseAliveRefines, ReleaseDeadRefines, ReleaseFailsRefines,
     QuietRefines DEF Release
<1> QED BY <1>1, StartRefines, CloseRefines, QuietRefines DEF Next

(* The Python pool is a Pool from the start() that succeeds until close(): *)
(* no process is in two hands, or back after it was given up, and a place  *)
(* is lost only with a replacement that does not come up.                  *)
THEOREM PyPoolIsPool == Spec => ImplementsPool
<1>1. Init => Promise!Init
  <2> SUFFICES ASSUME Init PROVE Promise!Init
    OBVIOUS
  <2>1. Phase = "new" /\ ~InUse
    BY DEF Init, Phase, InUse
  <2> QED BY <2>1 DEF Promise!Init, Promise!Nobody, Phase
<1>2. PoolInv /\ [Next]_vars => [Promise!Next]_Promise!vars
  BY PromiseStep
<1> QED BY <1>1, <1>2, PoolInvariant, PTL DEF Spec, ImplementsPool, Promise!Spec

-----------------------------------------------------------------------------
(* What is still to be read of a process whose answers up to the one to    *)
(* message r have been read, and that has begun n lines: the answers to    *)
(* the messages r + 1 to n in that order, a newline after each, but after  *)
(* the last perhaps not yet.                                               *)
Lined(o, r, n) ==
  /\ o = <<>> => n = r
  /\ o # <<>> => o[1] = r + 1 /\ n = IF o[Len(o)] # Newline THEN o[Len(o)] ELSE o[Len(o) - 1]
  /\ \A k \in 1..(Len(o) - 1) : o[k] = Newline <=> o[k + 1] # Newline
  /\ \A k \in 1..(Len(o) - 2) : o[k] # Newline => o[k + 2] = o[k] + 1

LEMMA LineBegun ==
  ASSUME NEW o \in Seq(Nat), NEW r \in Nat, NEW n \in Nat, Lined(o, r, n),
         o = <<>> \/ o[Len(o)] = Newline
  PROVE  Lined(Append(o, n + 1), r, n + 1)
<1> DEFINE q == Append(o, n + 1)
<1>1. /\ Len(o) \in Nat /\ Len(q) = Len(o) + 1 /\ q[Len(o) + 1] = n + 1 /\ q # <<>>
      /\ \A k \in 1..Len(o) : q[k] = o[k] /\ o[k] \in Nat
  <2>1. \A x \in Nat : /\ Len(o) \in Nat /\ Len(Append(o, x)) = Len(o) + 1
                       /\ Append(o, x)[Len(o) + 1] = x /\ Append(o, x) # <<>>
                       /\ \A k \in 1..Len(o) : Append(o, x)[k] = o[k] /\ o[k] \in Nat
    OBVIOUS
  <2>2. n + 1 \in Nat
    OBVIOUS
  <2> QED BY <2>1, <2>2
<1>0. o = <<>> <=> Len(o) = 0
  OBVIOUS
<1> HIDE DEF q
<1>2. q[Len(q)] = n + 1 /\ n + 1 # Newline
  BY <1>1 DEF Newline
<1>3. q[1] = r + 1
  BY <1>0, <1>1 DEF Lined
<1>4. ASSUME NEW k \in 1..(Len(q) - 1)
      PROVE  q[k] = Newline <=> q[k + 1] # Newline
  <2>1. CASE k = Len(o)
    BY <1>1, <1>2, <2>1
  <2>2. CASE k \in 1..(Len(o) - 1)
    <3>1. o[k] = Newline <=> o[k + 1] # Newline
      BY <2>2 DEF Lined
    <3> QED BY <1>1, <2>2, <3>1
  <2> QED BY <1>1, <2>1, <2>2
<1>5. ASSUME NEW k \in 1..(Len(q) - 2), q[k] # Newline
      PROVE  q[k + 2] = q[k] + 1
  <2>1. CASE k = Len(o) - 1
    <3>1. n = o[k]
      BY <1>0, <1>1, <2>1 DEF Lined
    <3> QED BY <1>1, <2>1, <3>1
  <2>2. CASE k \in 1..(Len(o) - 2)
    <3>1. o[k] # Newline => o[k + 2] = o[k] + 1
      BY <2>2 DEF Lined
    <3> QED BY <1>1, <1>5, <2>2, <3>1
  <2> QED BY <1>1, <2>1, <2>2
<1>6. Lined(q, r, n + 1)
  BY <1>1, <1>2, <1>3, <1>4, <1>5 DEF Lined
<1> QED BY <1>6 DEF q

LEMMA LineEnded ==
  ASSUME NEW o \in Seq(Nat), NEW r \in Nat, NEW n \in Nat, Lined(o, r, n),
         o # <<>>, o[Len(o)] # Newline
  PROVE  Lined(Append(o, Newline), r, n)
<1> DEFINE q == Append(o, Newline)
<1>1. /\ Len(o) \in Nat \ {0} /\ Len(q) = Len(o) + 1 /\ q[Len(o) + 1] = Newline /\ q # <<>>
      /\ \A k \in 1..Len(o) : q[k] = o[k] /\ o[k] \in Nat
  BY DEF Newline
<1> HIDE DEF q
<1>2. o[1] = r + 1 /\ n = o[Len(o)]
  BY DEF Lined
<1>3. ASSUME NEW k \in 1..(Len(q) - 1)
      PROVE  q[k] = Newline <=> q[k + 1] # Newline
  <2>1. CASE k = Len(o)
    BY <1>1, <2>1
  <2>2. CASE k \in 1..(Len(o) - 1)
    <3>1. o[k] = Newline <=> o[k + 1] # Newline
      BY <2>2 DEF Lined
    <3> QED BY <1>1, <2>2, <3>1
  <2> QED BY <1>1, <2>1, <2>2
<1>4. ASSUME NEW k \in 1..(Len(q) - 2), q[k] # Newline
      PROVE  q[k + 2] = q[k] + 1
  <2>1. CASE k = Len(o) - 1
    <3>1. o[k] = Newline <=> o[k + 1] # Newline
      BY <1>1, <2>1 DEF Lined
    <3> QED BY <1>1, <1>4, <2>1, <3>1
  <2>2. CASE k \in 1..(Len(o) - 2)
    <3>1. o[k] # Newline => o[k + 2] = o[k] + 1
      BY <2>2 DEF Lined
    <3>2. k \in 1..Len(o) /\ k + 2 \in 1..Len(o)
      BY <1>1, <2>2
    <3>3. q[k] = o[k] /\ q[k + 2] = o[k + 2]
      BY <1>1, <3>2
    <3> QED BY <1>4, <3>1, <3>3
  <2> QED BY <1>1, <2>1, <2>2
<1>5. q[1] = r + 1 /\ q[Len(q)] = Newline /\ q[Len(q) - 1] = n
  BY <1>1, <1>2
<1>6. Lined(q, r, n)
  BY <1>1, <1>3, <1>4, <1>5 DEF Lined
<1> QED BY <1>6 DEF q

(* What begins with the text of a line, and its newline after it.          *)
LEMMA FirstNewline ==
  ASSUME NEW s \in Seq(Nat), HasLine(s), s[1] # Newline, Len(s) > 1 => s[2] = Newline
  PROVE  SelectInSeq(s, LAMBDA x : x = Newline) = 2 /\ Len(s) >= 2
<1> DEFINE I == {i \in 1..Len(s) : s[i] = Newline}
<1>1. PICK i \in 1..Len(s) : s[i] = Newline
  BY DEF HasLine, Contains
<1>2. i # 1 /\ Len(s) \in Nat
  BY <1>1
<1>3. Len(s) >= 2
  BY <1>1, <1>2
<1>4. 2 \in I /\ \A k \in I : k \in Nat /\ 2 =< k
  BY <1>2, <1>3
<1>5. SelectInSeq(s, LAMBDA x : x = Newline) = Min(I)
  BY <1>4 DEF SelectInSeq
<1>6. Min(I) = 2
  <2> HIDE DEF I
  <2>1. Min(I) = CHOOSE x \in I : \A y \in I : x =< y
    BY DEF Min
  <2>2. \A x \in I : (\A y \in I : x =< y) => x = 2
    BY <1>4
  <2>3. \A y \in I : 2 =< y
    BY <1>4
  <2> QED BY <1>4, <2>1, <2>2, <2>3
<1> QED BY <1>3, <1>5, <1>6

LEMMA LineFirst ==
  ASSUME NEW o \in Seq(Nat), NEW r \in Nat, NEW n \in Nat, Lined(o, r, n), o # <<>>
  PROVE  o[1] = r + 1 /\ o[1] # Newline /\ (Len(o) > 1 => o[2] = Newline)
<1>1. o[1] = r + 1 /\ o[1] # Newline
  BY DEF Lined, Newline
<1>2. ASSUME Len(o) > 1
      PROVE  o[2] = Newline
  <2>1. 1 \in 1..(Len(o) - 1)
    BY <1>2
  <2>2. o[1] = Newline <=> o[1 + 1] # Newline
    BY <2>1 DEF Lined
  <2> QED BY <1>1, <2>2
<1> QED BY <1>1, <1>2

(* A line is read when its newline is there.                               *)
LEMMA LineRead ==
  ASSUME NEW o \in Seq(Nat), NEW r \in Nat, NEW n \in Nat, Lined(o, r, n), HasLine(o)
  PROVE  /\ SelectInSeq(o, LAMBDA x : x = Newline) = 2
         /\ SubSeq(o, 3, Len(o)) \in Seq(Nat) /\ Lined(SubSeq(o, 3, Len(o)), r + 1, n)
<1> DEFINE q == SubSeq(o, 3, Len(o))
<1>1. Len(o) \in Nat \ {0} /\ o # <<>>
  BY DEF HasLine, Contains
<1>2. Len(o) \in Nat \ {0} /\ o # <<>> /\ \A k \in 1..Len(o) : o[k] \in Nat
  BY <1>1
<1>3. o[1] = r + 1 /\ o[1] # Newline
  BY <1>2, LineFirst
<1>4. Len(o) >= 2
  BY <1>2, LineFirst, FirstNewline
<1>5. o[2] = Newline
  BY <1>2, <1>4, LineFirst
<1>7. SelectInSeq(o, LAMBDA x : x = Newline) = 2
  BY <1>3, <1>5, FirstNewline
<1>8. /\ q \in Seq(Nat) /\ Len(q) = Len(o) - 2
      /\ \A k \in 1..(Len(o) - 2) : q[k] = o[k + 2]
      /\ q = <<>> <=> Len(q) = 0
  <2>1. \A k \in 3..Len(o) : o[k] \in Nat
    BY <1>2
  <2>2. /\ q = [k \in 1..(Len(o) - 2) |-> o[k + 2]]
    BY <1>2, <1>4
  <2> HIDE DEF q
  <2>4. \A k \in 1..(Len(o) - 2) : o[k + 2] \in Nat
    BY <1>2
  <2>5. q \in [1..(Len(o) - 2) -> Nat]
    BY <2>2, <2>4
  <2>6. q \in Seq(Nat) /\ Len(q) = Len(o) - 2
    <3>1. PICK m \in Nat : m = Len(o) - 2
      BY <1>2, <1>4
    <3>2. \A g \in [1..m -> Nat] : g \in Seq(Nat) /\ Len(g) = m
      OBVIOUS
    <3> QED BY <2>5, <3>1, <3>2
  <2>7. q = <<>> <=> Len(q) = 0
    <3>1. \A g \in Seq(Nat) : g = <<>> <=> Len(g) = 0
      OBVIOUS
    <3> QED BY <2>6, <3>1
  <2>8. \A k \in 1..(Len(o) - 2) : q[k] = o[k + 2]
    BY <2>2
  <2> QED BY <2>6, <2>7, <2>8
<1> HIDE DEF q
<1>9. CASE Len(o) = 2
  <2>1. o[Len(o)] = Newline /\ n = o[1]
    BY <1>2, <1>5, <1>9 DEF Lined
  <2>2. q = <<>> /\ Len(q) = 0
    BY <1>8, <1>9
  <2>3. Lined(q, r + 1, n)
    BY <1>3, <2>1, <2>2 DEF Lined
  <2> QED BY <1>4, <1>7, <1>8, <2>3 DEF q
<1>10. CASE Len(o) > 2
  <2>1. o[3] = o[1] + 1
    <3>1. 1 \in 1..(Len(o) - 2)
      BY <1>2, <1>10
    <3>2. o[1] # Newline => o[1 + 2] = o[1] + 1
      BY <3>1 DEF Lined
    <3> QED BY <1>3, <3>2
  <2>2. o[3] # Newline /\ q # <<>> /\ q[1] = r + 1 + 1
    BY <1>2, <1>3, <1>8, <1>10, <2>1 DEF Newline
  <2>3. n = IF o[Len(o)] # Newline THEN o[Len(o)] ELSE o[Len(o) - 1]
    BY <1>2 DEF Lined
  <2>4. q[Len(q)] = o[Len(o)]
    BY <1>2, <1>8, <1>10
  <2>5. o[Len(o)] = Newline => q[Len(q) - 1] = o[Len(o) - 1]
    <3>1. Len(o) = 3 => o[Len(o)] # Newline
      BY <2>2
    <3>2. CASE Len(o) # 3
      <4>1. \A m \in Nat : m > 2 /\ m # 3 =>
               m - 3 \in 1..(m - 2) /\ m - 3 + 2 = m - 1 /\ m - 3 = m - 2 - 1
        OBVIOUS
      <4>2. /\ Len(o) - 3 \in 1..(Len(o) - 2) /\ Len(o) - 3 + 2 = Len(o) - 1
            /\ Len(o) - 3 = Len(q) - 1
        BY <1>2, <1>8, <1>10, <3>2, <4>1
      <4>3. q[Len(o) - 3] = o[Len(o) - 3 + 2]
        BY <1>8, <4>2
      <4> QED BY <4>2, <4>3
    <3> QED BY <3>1, <3>2
  <2>6. ASSUME NEW k \in 1..(Len(q) - 1)
        PROVE  q[k] = Newline <=> q[k + 1] # Newline
    <3>1. k + 2 \in 1..(Len(o) - 1) /\ k \in 1..(Len(o) - 2) /\ k + 1 \in 1..(Len(o) - 2)
      BY <1>2, <1>8
    <3>2. o[k + 2] = Newline <=> o[k + 2 + 1] # Newline
      BY <3>1 DEF Lined
    <3>3. q[k] = o[k + 2] /\ q[k + 1] = o[k + 1 + 2]
      BY <1>8, <3>1
    <3>4. k + 1 + 2 = k + 2 + 1
      BY <3>1
    <3> QED BY <3>2, <3>3, <3>4
  <2>7. ASSUME NEW k \in 1..(Len(q) - 2), q[k] # Newline
        PROVE  q[k + 2] = q[k] + 1
    <3>1. k + 2 \in 1..(Len(o) - 2) /\ k \in 1..(Len(o) - 2)
      BY <1>2, <1>8
    <3>2. o[k + 2] # Newline => o[k + 2 + 2] = o[k + 2] + 1
      BY <3>1 DEF Lined
    <3>3. q[k] = o[k + 2] /\ q[k + 2] = o[k + 2 + 2]
      BY <1>8, <3>1
    <3> QED BY <2>7, <3>2, <3>3
  <2>8. n = IF q[Len(q)] # Newline THEN q[Len(q)] ELSE q[Len(q) - 1]
    BY <2>3, <2>4, <2>5
  <2>9. Lined(q, r + 1, n)
    BY <2>2, <2>6, <2>7, <2>8 DEF Lined
  <2> QED BY <1>4, <1>7, <1>8, <2>9 DEF q
<1>11. Len(o) = 2 \/ Len(o) > 2
  <2>1. \A m \in Nat : m >= 2 => m = 2 \/ m > 2
    OBVIOUS
  <2> QED BY <1>2, <1>4, <2>1
<1> QED BY <1>9, <1>10, <1>11

-----------------------------------------------------------------------------
(* Calls, and what is under way between a process and its caller.          *)

InFlight(p) == \E c \in Client : holds[c] = p /\ call[c] # "none"

(* The answers the calls that are over have read.                          *)
Returned(p) == calls[p] - expired[p] - (IF InFlight(p) THEN 1 ELSE 0)

CallType ==
  /\ {calls, lines, expired} \subseteq [Proc -> Nat]
  /\ {pipe, buffer} \subseteq [Proc -> Seq(Nat)]
  /\ call \in [Client -> {"none", "select", "read"}]

CallKnown == \A c \in Client : call[c] # "none" => holds[c] # None

(* A process that runs, or whose caller still reads, has its lines in      *)
(* order, with nothing lost and nothing read twice.                        *)
LineKnown ==
  \A p \in Proc :
    /\ life[p] = "up" \/ InFlight(p) =>
         Returned(p) \in Nat /\ Lined(Output(p), Returned(p), lines[p])
    /\ life[p] = "none" => /\ calls[p] = 0 /\ expired[p] = 0 /\ lines[p] = 0
                           /\ buffer[p] = <<>> /\ pipe[p] = <<>>

LineInv == CallType /\ CallKnown /\ LineKnown

LEMMA LineInit ==
  ASSUME Init
  PROVE  LineInv
<1>1. <<>> \in Seq(Nat) /\ 0 \in Nat
  OBVIOUS
<1>2. CallType
  BY <1>1 DEF Init, CallType
<1> QED BY <1>2 DEF Init, LineInv, CallKnown, LineKnown, InFlight

LEMMA OutputType ==
  ASSUME LineInv, NEW p \in Proc
  PROVE  /\ buffer[p] \in Seq(Nat) /\ pipe[p] \in Seq(Nat) /\ Output(p) \in Seq(Nat)
         /\ calls[p] \in Nat /\ expired[p] \in Nat /\ lines[p] \in Nat
  BY DEF LineInv, CallType, Output

(* Life as the actions of the pool change it: it goes forward.             *)
Forward ==
  \A p \in Proc : \/ life'[p] = life[p]
                  \/ life[p] = "none" /\ life'[p] = "up"
                  \/ life[p] # "none" /\ life'[p] = "dead"

LEMMA SpawnedForward ==
  ASSUME PoolInv, NEW n \in Nat, Spawned(n)
  PROVE  Forward
<1>1. ToSet(New(n)) \cap Ever = {}
  BY NewNumbers DEF PoolInv
<1>2. life' = [p \in Proc |-> IF p \in ToSet(New(n)) THEN "up" ELSE life[p]]
  BY DEF Spawned
<1> QED BY <1>1, <1>2 DEF Forward, Ever

LEMMA EndsForward ==
  ASSUME PoolInv, NEW procs, NEW late, Ends(procs, late)
  PROVE  Forward
<1>1. life' = [p \in Proc |-> IF p \in (procs \cap open) \ late THEN "dead" ELSE life[p]]
  BY DEF Ends
<1> QED BY <1>1 DEF Forward, PoolInv, ProcsKnown, Ever

(* The pool moves: what is under way between a process and its caller does *)
(* not, for nobody takes, gives back or replaces a process during a call.  *)
LEMMA PoolKeepsLines ==
  ASSUME PoolInv, LineInv, UNCHANGED <<lines, pipe, callVars>>, Forward,
         \A c \in Client : call[c] # "none" => holds'[c] = holds[c]
  PROVE  LineInv'
<1>1. UNCHANGED <<lines, pipe, calls, buffer, call, expired>>
  BY DEF callVars
<1>2. \A p : InFlight(p)' <=> InFlight(p)
  BY <1>1 DEF InFlight
<1>3. \A p \in Proc : Returned(p)' = Returned(p) /\ Output(p)' = Output(p)
  BY <1>1, <1>2 DEF Returned, Output
<1>4. CallType' /\ CallKnown'
  BY <1>1 DEF LineInv, CallType, CallKnown
<1>5. ASSUME NEW p \in Proc, life[p] = "none"
      PROVE  Returned(p) = 0 /\ Lined(Output(p), Returned(p), lines[p])
  <2>1. p \notin Held
    BY <1>5 DEF PoolInv, ProcsKnown, Ever
  <2>2. ~InFlight(p)
    BY <2>1, ProcFinite DEF InFlight, Held
  <2>3. /\ calls[p] = 0 /\ expired[p] = 0 /\ lines[p] = 0 /\ Output(p) = <<>>
    BY <1>5 DEF LineInv, LineKnown, Output
  <2>4. Returned(p) = 0
    <3>1. Returned(p) = 0 - 0 - 0
      BY <2>2, <2>3 DEF Returned
    <3> QED BY <3>1
  <2> QED BY <2>3, <2>4 DEF Lined
<1>6. ASSUME NEW p \in Proc, (life[p] = "up" \/ InFlight(p))'
      PROVE  (Returned(p) \in Nat /\ Lined(Output(p), Returned(p), lines[p]))'
  <2>1. CASE life[p] = "none"
    BY <1>1, <1>3, <1>5, <2>1
  <2>2. CASE life[p] = "up" \/ InFlight(p)
    BY <1>1, <1>3, <2>2 DEF LineInv, LineKnown
  <2>3. life[p] = "none" \/ life[p] = "up" \/ InFlight(p)
    BY <1>2, <1>6 DEF Forward
  <2> QED BY <2>1, <2>2, <2>3
<1>7. ASSUME NEW p \in Proc, life'[p] = "none"
      PROVE  (/\ calls[p] = 0 /\ expired[p] = 0 /\ lines[p] = 0
              /\ buffer[p] = <<>> /\ pipe[p] = <<>>)'
  BY <1>1, <1>7 DEF Forward, LineInv, LineKnown
<1> QED BY <1>4, <1>6, <1>7 DEF LineInv, LineKnown

LEMMA PoolLines ==
  ASSUME PoolInv, LineInv,
         \/ Start \/ Close \/ CloseRaises \/ UNCHANGED vars
         \/ \E c \in Client : Acquire(c) \/ Resume(c) \/ Release(c)
  PROVE  LineInv'
<1>1. CASE Start
  <2>1. PICK spawns \in 0..Size : Spawned(spawns)
    BY <1>1 DEF Start
  <2>2. spawns \in Nat
    BY PyPoolAssumption
  <2> QED BY <1>1, <2>1, <2>2, SpawnedForward, PoolKeepsLines DEF Start
<1>2. CASE Close \/ CloseRaises
  <2>1. Forward
    BY <1>2, EndsForward DEF Close, CloseRaises
  <2> QED BY <1>2, <2>1, PoolKeepsLines DEF Close, CloseRaises
<1>3. CASE UNCHANGED vars
  <2>1. Forward
    BY <1>3 DEF vars, toolVars, Forward
  <2> QED BY <1>3, <2>1, PoolKeepsLines DEF vars, toolVars
<1>4. ASSUME NEW c \in Client, Acquire(c) \/ Resume(c)
      PROVE  LineInv'
  <2>1. holds[c] = None
    BY <1>4 DEF Acquire, Resume, PoolInv, QueueKnown
  <2>2. call[c] = "none"
    BY <2>1 DEF LineInv, CallKnown
  <2>3. \A d \in Client : call[d] # "none" => holds'[d] = holds[d]
    BY <1>4, <2>2 DEF Acquire, Resume, Get, GetNowait, PoolInv, PyType
  <2>4. Forward /\ UNCHANGED <<lines, pipe, callVars>>
    BY <1>4 DEF Acquire, Resume, toolVars, Forward
  <2> QED BY <2>3, <2>4, PoolKeepsLines
<1>5. ASSUME NEW c \in Client, Release(c)
      PROVE  LineInv'
  <2>1. GivesUp(c) /\ UNCHANGED <<lines, pipe>>
    BY <1>5 DEF Release, ReleaseAlive, ReleaseDead, ReleaseFails, ReleaseClosed, toolVars
  <2>2. UNCHANGED callVars /\ \A d \in Client : call[d] # "none" => holds'[d] = holds[d]
    BY <2>1 DEF GivesUp, callVars, PoolInv, PyType
  <2>3. Forward
    <3>1. CASE ReleaseAlive(c)
      BY <3>1 DEF ReleaseAlive, toolVars, Forward
    <3>2. CASE ReleaseDead(c)
      BY <3>2, SpawnedForward DEF ReleaseDead
    <3>3. CASE ReleaseFails(c)
      <4>1. PICK n \in 0..1 : Spawned(n)
        BY <3>3 DEF ReleaseFails
      <4> QED BY <4>1, SpawnedForward
    <3>4. CASE ReleaseClosed(c)
      BY <3>4, EndsForward DEF ReleaseClosed
    <3> QED BY <1>5, <3>1, <3>2, <3>3, <3>4 DEF Release
  <2> QED BY <2>1, <2>2, <2>3, PoolKeepsLines
<1> QED BY <1>1, <1>2, <1>3, <1>4, <1>5

-----------------------------------------------------------------------------
(* The process writes.                                                     *)

LEMMA JoinAppend ==
  ASSUME NEW s \in Seq(Nat), NEW t \in Seq(Nat), NEW x \in Nat
  PROVE  s \o Append(t, x) = Append(s \o t, x)
<1>1. Append(t, x) = t \o <<x>> /\ s \o t \in Seq(Nat) /\ <<x>> \in Seq(Nat)
  BY AppendIsConcat
<1>2. Append(s \o t, x) = (s \o t) \o <<x>>
  BY <1>1, AppendIsConcat
<1>3. (s \o t) \o <<x>> = s \o (t \o <<x>>)
  BY <1>1, ConcatAssociative
<1> QED BY <1>1, <1>2, <1>3

LEMMA WritesLines ==
  ASSUME PoolInv, LineInv, NEW p \in Proc, Tool(p)
  PROVE  LineInv'
<1>0. /\ buffer[p] \in Seq(Nat) /\ pipe[p] \in Seq(Nat) /\ Output(p) \in Seq(Nat)
      /\ lines[p] \in Nat /\ lines \in [Proc -> Nat] /\ pipe \in [Proc -> Seq(Nat)]
  BY OutputType DEF LineInv, CallType
<1>1. UNCHANGED <<calls, buffer, call, expired, holds>> /\ life[p] = "up"
  BY DEF Tool, WritesText, WritesNewline, Dies, callVars
<1>2. (\A q : InFlight(q)' <=> InFlight(q)) /\ \A q \in Proc : Returned(q)' = Returned(q)
  BY <1>1 DEF InFlight, Returned
<1>3. Returned(p) \in Nat /\ Lined(Output(p), Returned(p), lines[p])
  BY <1>1 DEF LineInv, LineKnown
<1>4. \A x \in Nat : buffer[p] \o Append(pipe[p], x) = Append(Output(p), x)
  <2>1. \A x \in Nat : buffer[p] \o Append(pipe[p], x) = Append(buffer[p] \o pipe[p], x)
    BY <1>0, JoinAppend
  <2> QED BY <2>1 DEF Output
<1>5. /\ lines' \in [Proc -> Nat] /\ pipe' \in [Proc -> Seq(Nat)]
      /\ \A q \in Proc \ {p} : lines'[q] = lines[q] /\ pipe'[q] = pipe[q] /\ life'[q] = life[q]
      /\ Lined(Output(p), Returned(p), lines[p])' /\ life'[p] # "none"
  <2>1. CASE WritesText(p)
    <3>1. /\ lines' = [lines EXCEPT ![p] = lines[p] + 1] /\ life' = life
          /\ pipe' = [pipe EXCEPT ![p] = Append(pipe[p], lines[p] + 1)]
          /\ Output(p) = <<>> \/ Output(p)[Len(Output(p))] = Newline
      BY <2>1 DEF WritesText, MidLine, Last
    <3>2. Lined(Append(Output(p), lines[p] + 1), Returned(p), lines[p] + 1)
      BY <1>0, <1>3, <3>1, LineBegun
    <3>3. Append(pipe[p], lines[p] + 1) \in Seq(Nat) /\ lines[p] + 1 \in Nat
      BY <1>0
    <3>4. lines'[p] = lines[p] + 1 /\ pipe'[p] = Append(pipe[p], lines[p] + 1)
      BY <1>0, <3>1
    <3>5. Output(p)' = Append(Output(p), lines[p] + 1)
      <4>1. Output(p)' = buffer[p] \o Append(pipe[p], lines[p] + 1)
        BY <1>1, <3>4 DEF Output
      <4> QED BY <1>4, <3>3, <4>1
    <3> QED BY <1>0, <1>1, <1>2, <3>1, <3>2, <3>3, <3>4, <3>5
  <2>2. CASE WritesNewline(p)
    <3>1. /\ lines' = lines /\ life' = life
          /\ pipe' = [pipe EXCEPT ![p] = Append(pipe[p], Newline)]
          /\ Output(p) # <<>> /\ Output(p)[Len(Output(p))] # Newline
      BY <2>2 DEF WritesNewline, MidLine, Last
    <3>2. Lined(Append(Output(p), Newline), Returned(p), lines[p])
      BY <1>0, <1>3, <3>1, LineEnded
    <3>3. Append(pipe[p], Newline) \in Seq(Nat)
      BY <1>0 DEF Newline
    <3>4. Output(p)' = Append(Output(p), Newline)
      <4>1. pipe'[p] = Append(pipe[p], Newline) /\ Newline \in Nat
        BY <1>0, <3>1 DEF Newline
      <4>2. Output(p)' = buffer[p] \o Append(pipe[p], Newline)
        BY <1>1, <4>1 DEF Output
      <4> QED BY <1>4, <4>1, <4>2
    <3> QED BY <1>0, <1>1, <1>2, <3>1, <3>2, <3>3, <3>4
  <2>3. CASE Dies(p)
    <3>1. lines' = lines /\ pipe' = pipe /\ life' = [life EXCEPT ![p] = "dead"]
      BY <2>3 DEF Dies
    <3>2. Output(p)' = Output(p)
      BY <1>1, <3>1 DEF Output
    <3> QED BY <1>0, <1>2, <1>3, <3>1, <3>2 DEF PoolInv, PyType
  <2> QED BY <2>1, <2>2, <2>3 DEF Tool
<1>6. CallType' /\ CallKnown'
  BY <1>1, <1>5 DEF LineInv, CallType, CallKnown
<1>7. \A q \in Proc \ {p} : Output(q)' = Output(q)
  BY <1>1, <1>5 DEF Output
<1>8. LineKnown'
  BY <1>1, <1>2, <1>3, <1>5, <1>7 DEF LineInv, LineKnown
<1> QED BY <1>6, <1>8 DEF LineInv

-----------------------------------------------------------------------------
(* The caller.                                                             *)

(* A client moves in its call on p: the others and their processes do not. *)
LEMMA OthersCalls ==
  ASSUME PoolInv, NEW c \in Client, NEW p, holds[c] = p, p # None, UNCHANGED holds,
         NEW state, state \in {"none", "select", "read"}, SetCall(c, state), LineInv
  PROVE  /\ call' \in [Client -> {"none", "select", "read"}] /\ CallKnown' /\ p \in Proc
         /\ InFlight(p) <=> call[c] # "none"
         /\ InFlight(p)' <=> state # "none"
         /\ \A q \in Proc \ {p} : InFlight(q)' <=> InFlight(q)
<1>1. /\ call \in [Client -> {"none", "select", "read"}] /\ OneHolder(holds) /\ p \in Proc
  BY DEF LineInv, CallType, PoolInv, PlacesKnown, PyType
<1>2. /\ call' \in [Client -> {"none", "select", "read"}] /\ call'[c] = state
      /\ \A d \in Client \ {c} : call'[d] = call[d] /\ holds[d] # p
  BY <1>1 DEF SetCall, OneHolder
<1>3. CallKnown'
  BY <1>2 DEF LineInv, CallKnown
<1> QED BY <1>1, <1>2, <1>3 DEF InFlight

(* The lines that are left are the same wherever they are.                 *)
LEMMA RestJoined ==
  ASSUME NEW s \in Seq(Nat), NEW t \in Seq(Nat), Len(s) >= 2
  PROVE  SubSeq(s, 3, Len(s)) \o t = SubSeq(s \o t, 3, Len(s \o t))
<1> DEFINE o == s \o t
<1>1. /\ Len(s) \in Nat /\ Len(t) \in Nat /\ o \in Seq(Nat) /\ Len(o) = Len(s) + Len(t)
  OBVIOUS
<1>2. SubSeq(o, 3, Len(s)) = SubSeq(s, 3, Len(s))
  <2>1. CASE Len(s) = 2
    BY <2>1, SubSeqEmpty
  <2>2. CASE Len(s) > 2
    <3>1. 3 \in 1..Len(s) /\ Len(s) \in 1..Len(s)
      BY <1>1, <2>2
    <3> QED BY <3>1, SubSeqOfConcat1
  <2> QED BY <1>1, <2>1, <2>2
<1>3. SubSeq(o, Len(s) + 1, Len(o)) = t
  <2>1. CASE Len(t) = 0
    <3>1. t = <<>> /\ Len(o) < Len(s) + 1
      BY <1>1, <2>1
    <3> QED BY <1>1, <3>1, SubSeqEmpty
  <2>2. CASE Len(t) > 0
    <3>1. /\ Len(s) + 1 \in (Len(s) + 1)..(Len(s) + Len(t))
          /\ Len(o) \in (Len(s) + 1)..(Len(s) + Len(t))
          /\ Len(s) + 1 - Len(s) = 1 /\ Len(o) - Len(s) = Len(t)
      BY <1>1, <2>2
    <3>2. SubSeq(o, Len(s) + 1, Len(o)) = SubSeq(t, 1, Len(t))
      BY <3>1, SubSeqOfConcat2
    <3> QED BY <3>2, SubSeqFull
  <2> QED BY <1>1, <2>1, <2>2
<1>4. SubSeq(o, 3, Len(s)) \o SubSeq(o, Len(s) + 1, Len(o)) = SubSeq(o, 3, Len(o))
  <2> HIDE DEF o
  <2>1. 3 \in 1..(Len(o) + 1) /\ Len(s) \in (3 - 1)..Len(o) /\ Len(o) \in Len(s)..Len(o)
    BY <1>1
  <2> QED BY <1>1, <2>1, ConcatAdjacentSubSeq
<1> QED BY <1>2, <1>3, <1>4

LEMMA JoinFirst ==
  ASSUME NEW s \in Seq(Nat), NEW t \in Seq(Nat), HasLine(s)
  PROVE  /\ s # <<>> /\ Head(s) = s[1] /\ s \o t # <<>> /\ (s \o t)[1] = s[1]
         /\ Len(s) > 1 => Len(s \o t) > 1 /\ (s \o t)[2] = s[2]
         /\ HasLine(s \o t)
<1>1. PICK i \in 1..Len(s) : s[i] = Newline
  BY DEF HasLine, Contains
<1>2. /\ Len(s) \in Nat \ {0} /\ Len(t) \in Nat /\ Len(s \o t) = Len(s) + Len(t)
      /\ \A k \in 1..Len(s) : (s \o t)[k] = s[k]
  BY <1>1
<1>3. s # <<>> /\ Head(s) = s[1] /\ (s \o t)[1] = s[1]
  BY <1>2
<1>4. s \o t # <<>>
  <2>1. Len(s \o t) # 0
    BY <1>2
  <2> QED BY <2>1
<1>5. Len(s) > 1 => Len(s \o t) > 1 /\ (s \o t)[2] = s[2]
  BY <1>2
<1>6. i \in 1..Len(s \o t) /\ (s \o t)[i] = Newline
  BY <1>1, <1>2
<1>7. HasLine(s \o t)
  BY <1>6 DEF HasLine, Contains
<1> QED BY <1>3, <1>4, <1>5, <1>7

(* What is to be read is the same lines wherever they are, and a call that *)
(* reads one takes it with its newline.                                    *)
LEMMA InputKnown ==
  ASSUME LineInv, NEW p \in Proc, life[p] = "up" \/ InFlight(p)
  PROVE  /\ Returned(p) \in Nat
         /\ Input(p) # <<>> => Head(Input(p)) = Returned(p) + 1
         /\ HasLine(Input(p)) =>
              /\ SelectInSeq(Input(p), LAMBDA x : x = Newline) = 2
              /\ SubSeq(Input(p), 3, Len(Input(p))) \in Seq(Nat)
              /\ Lined(SubSeq(Input(p), 3, Len(Input(p)))
                         \o (IF HasLine(buffer[p]) THEN pipe[p] ELSE <<>>),
                       Returned(p) + 1, lines[p])
<1>1. /\ buffer[p] \in Seq(Nat) /\ pipe[p] \in Seq(Nat) /\ Output(p) \in Seq(Nat)
      /\ lines[p] \in Nat /\ Returned(p) \in Nat /\ Lined(Output(p), Returned(p), lines[p])
  BY OutputType DEF LineInv, LineKnown
<1>2. CASE HasLine(buffer[p])
  <2>1. Input(p) = buffer[p] /\ Output(p) = buffer[p] \o pipe[p]
    BY <1>2 DEF Input, Output
  <2>2. /\ buffer[p] # <<>> /\ Head(buffer[p]) = buffer[p][1]
        /\ Output(p) # <<>> /\ Output(p)[1] = buffer[p][1]
        /\ Len(buffer[p]) > 1 => Len(Output(p)) > 1 /\ Output(p)[2] = buffer[p][2]
        /\ HasLine(Output(p))
    <3> DEFINE b == buffer[p]
               t == pipe[p]
    <3>1. /\ b # <<>> /\ Head(b) = b[1] /\ b \o t # <<>> /\ (b \o t)[1] = b[1]
          /\ Len(b) > 1 => Len(b \o t) > 1 /\ (b \o t)[2] = b[2]
          /\ HasLine(b \o t)
      <4> HIDE DEF b, t
      <4>1. b \in Seq(Nat) /\ t \in Seq(Nat) /\ HasLine(b)
        BY <1>1, <1>2 DEF b, t
      <4> QED BY <4>1, JoinFirst
    <3> QED BY <2>1, <3>1
  <2>4. /\ Output(p)[1] = Returned(p) + 1 /\ Output(p)[1] # Newline
        /\ (Len(Output(p)) > 1 => Output(p)[2] = Newline)
    BY <1>1, <2>2, LineFirst
  <2>5. Head(Input(p)) = Returned(p) + 1
    BY <2>1, <2>2, <2>4
  <2>6. buffer[p][1] # Newline /\ (Len(buffer[p]) > 1 => buffer[p][2] = Newline)
    BY <2>2, <2>4
  <2>7. SelectInSeq(buffer[p], LAMBDA x : x = Newline) = 2 /\ Len(buffer[p]) >= 2
    BY <1>1, <1>2, <2>6, FirstNewline
  <2>8. SubSeq(buffer[p], 3, Len(buffer[p])) \o pipe[p] = SubSeq(Output(p), 3, Len(Output(p)))
    BY <1>1, <2>1, <2>7, RestJoined
  <2>9. Lined(SubSeq(Output(p), 3, Len(Output(p))), Returned(p) + 1, lines[p])
    BY <1>1, <2>2, LineRead
  <2>10. SubSeq(buffer[p], 3, Len(buffer[p])) \in Seq(Nat)
    <3>1. \A k \in 3..Len(buffer[p]) : buffer[p][k] \in Nat
      BY <1>1
    <3> QED BY <1>1, <3>1, SubSeqProperties
  <2> QED BY <1>1, <1>2, <2>1, <2>5, <2>7, <2>8, <2>9, <2>10
<1>3. CASE ~HasLine(buffer[p])
  <2>1. Input(p) = Output(p)
    BY <1>3 DEF Input
  <2>2. Output(p) # <<>> => Head(Output(p)) = Returned(p) + 1
    BY <1>1, LineFirst
  <2>3. ASSUME HasLine(Output(p))
        PROVE  /\ SelectInSeq(Output(p), LAMBDA x : x = Newline) = 2
               /\ SubSeq(Output(p), 3, Len(Output(p))) \in Seq(Nat)
               /\ Lined(SubSeq(Output(p), 3, Len(Output(p))) \o <<>>, Returned(p) + 1, lines[p])
    <3>1. /\ SelectInSeq(Output(p), LAMBDA x : x = Newline) = 2
          /\ SubSeq(Output(p), 3, Len(Output(p))) \in Seq(Nat)
          /\ Lined(SubSeq(Output(p), 3, Len(Output(p))), Returned(p) + 1, lines[p])
      BY <1>1, <2>3, LineRead
    <3>2. SubSeq(Output(p), 3, Len(Output(p))) \o <<>> = SubSeq(Output(p), 3, Len(Output(p)))
      BY <3>1, ConcatEmptySeq
    <3> QED BY <3>1, <3>2
  <2> QED BY <1>1, <1>3, <2>1, <2>2, <2>3
<1> QED BY <1>2, <1>3

LEMMA ReturnedIs ==
  ASSUME NEW p
  PROVE  /\ InFlight(p) => Returned(p) = calls[p] - expired[p] - 1
         /\ ~InFlight(p) => Returned(p) = calls[p] - expired[p] - 0
         /\ InFlight(p)' => Returned(p)' = calls'[p] - expired'[p] - 1
         /\ ~InFlight(p)' => Returned(p)' = calls'[p] - expired'[p] - 0
  BY DEF Returned

LEMMA CallLines ==
  ASSUME PoolInv, LineInv, NEW c \in Client, Call(c)
  PROVE  LineInv'
<1>1. PICK p \in Proc : p = holds[c] /\ p # None /\ UNCHANGED <<life, lines, holds>>
  BY ProcFinite DEF Call, Invoke, Selects, TimesOut, Returns, LineInv, CallKnown, toolVars, PoolInv,
     PyType
<1>2. /\ p \in Proc /\ lines \in [Proc -> Nat] /\ calls \in [Proc -> Nat]
      /\ expired \in [Proc -> Nat] /\ buffer \in [Proc -> Seq(Nat)] /\ pipe \in [Proc -> Seq(Nat)]
  BY DEF LineInv, CallType
(* What remains to be shown of each step. *)
<1>3. ASSUME call' \in [Client -> {"none", "select", "read"}], CallKnown',
             \A q \in Proc \ {p} : InFlight(q)' <=> InFlight(q),
             calls' \in [Proc -> Nat], expired' \in [Proc -> Nat],
             buffer' \in [Proc -> Seq(Nat)], pipe' \in [Proc -> Seq(Nat)],
             \A q \in Proc \ {p} : /\ calls'[q] = calls[q] /\ expired'[q] = expired[q]
                                   /\ buffer'[q] = buffer[q] /\ pipe'[q] = pipe[q],
             life[p] # "none",
             (life[p] = "up" \/ InFlight(p) =>
                Returned(p) \in Nat /\ Lined(Output(p), Returned(p), lines[p]))'
      PROVE  LineInv'
  <2>1. CallType'
    BY <1>1, <1>2, <1>3 DEF CallType
  <2>2. ASSUME NEW q \in Proc \ {p}
        PROVE  Returned(q)' = Returned(q) /\ Output(q)' = Output(q)
    BY <1>3 DEF Returned, Output
  <2>3. LineKnown'
    <3> SUFFICES ASSUME NEW q \in Proc
                 PROVE  (/\ life[q] = "up" \/ InFlight(q) =>
                              Returned(q) \in Nat /\ Lined(Output(q), Returned(q), lines[q])
                         /\ life[q] = "none" =>
                              /\ calls[q] = 0 /\ expired[q] = 0 /\ lines[q] = 0
                              /\ buffer[q] = <<>> /\ pipe[q] = <<>>)'
      BY DEF LineKnown
    <3>1. CASE q = p
      BY <1>1, <1>3, <3>1
    <3>2. CASE q # p
      <4>1. /\ life'[q] = life[q] /\ lines'[q] = lines[q] /\ calls'[q] = calls[q]
            /\ expired'[q] = expired[q] /\ buffer'[q] = buffer[q] /\ pipe'[q] = pipe[q]
            /\ Returned(q)' = Returned(q) /\ Output(q)' = Output(q)
            /\ (InFlight(q)' <=> InFlight(q))
        BY <1>1, <1>3, <2>2, <3>2
      <4> QED BY <4>1 DEF LineInv, LineKnown
    <3> QED BY <3>1, <3>2
  <2> QED BY <1>3, <2>1, <2>3 DEF LineInv
<1>4. /\ calls[p] \in Nat /\ expired[p] \in Nat /\ lines[p] \in Nat
      /\ buffer[p] \in Seq(Nat) /\ pipe[p] \in Seq(Nat)
  BY <1>2
<1>5. life[p] = "up" \/ InFlight(p) =>
        Returned(p) \in Nat /\ Lined(Output(p), Returned(p), lines[p])
  BY <1>2 DEF LineInv, LineKnown
<1>6. CASE Invoke(c)
  <2>1. /\ call[c] = "none" /\ life[p] = "up" /\ calls' = [calls EXCEPT ![p] = calls[p] + 1]
        /\ UNCHANGED <<pipe, buffer, expired>>
    BY <1>1, <1>6 DEF Invoke, toolVars
  <2>2. PICK next \in {"select", "read"} : SetCall(c, next)
    BY <1>6 DEF Invoke
  <2>3. /\ call' \in [Client -> {"none", "select", "read"}] /\ CallKnown'
        /\ ~InFlight(p) /\ InFlight(p)'
        /\ \A q \in Proc \ {p} : InFlight(q)' <=> InFlight(q)
    BY <1>1, <2>1, <2>2, OthersCalls
  <2>4. /\ calls' \in [Proc -> Nat] /\ calls'[p] = calls[p] + 1
        /\ \A q \in Proc \ {p} : calls'[q] = calls[q]
    BY <1>2, <2>1
  <2>5. Returned(p)' = Returned(p)
    <3>1. Returned(p) = calls[p] - expired[p] - 0 /\ Returned(p)' = (calls[p] + 1) - expired[p] - 1
      <4>1. /\ Returned(p) = calls[p] - expired[p] - 0
            /\ Returned(p)' = calls'[p] - expired'[p] - 1
        BY <2>3, ReturnedIs
      <4>2. calls'[p] = calls[p] + 1 /\ expired'[p] = expired[p]
        BY <2>1, <2>4
      <4> QED BY <4>1, <4>2
    <3>2. \A x, e \in Nat : (x + 1) - e - 1 = x - e - 0
      OBVIOUS
    <3> QED BY <1>4, <3>1, <3>2
  <2>6. Output(p)' = Output(p)
    BY <2>1 DEF Output
  <2> QED BY <1>1, <1>2, <1>3, <1>5, <2>1, <2>3, <2>4, <2>5, <2>6
<1>7. CASE Selects(c)
  <2>1. /\ call[c] = "select" /\ SetCall(c, "read") /\ UNCHANGED <<calls, pipe, buffer, expired>>
    BY <1>7 DEF Selects, toolVars
  <2>2. /\ call' \in [Client -> {"none", "select", "read"}] /\ CallKnown'
        /\ InFlight(p) /\ InFlight(p)'
        /\ \A q \in Proc \ {p} : InFlight(q)' <=> InFlight(q)
    BY <1>1, <2>1, OthersCalls
  <2>3. Returned(p)' = Returned(p) /\ Output(p)' = Output(p)
    BY <2>1, <2>2 DEF Returned, Output
  <2>4. life[p] # "none"
    BY <1>1, <1>2 DEF PoolInv, ProcsKnown, Held, Ever
  <2> QED BY <1>1, <1>2, <1>3, <1>5, <2>1, <2>2, <2>3, <2>4
<1>8. CASE TimesOut(c)
  <2>1. /\ call[c] = "select" /\ SetCall(c, "none") /\ life[p] = "up"
        /\ expired' = [expired EXCEPT ![p] = expired[p] + 1] /\ UNCHANGED <<calls, pipe, buffer>>
    BY <1>1, <1>8 DEF TimesOut, toolVars
  <2>2. /\ call' \in [Client -> {"none", "select", "read"}] /\ CallKnown'
        /\ InFlight(p) /\ ~InFlight(p)'
        /\ \A q \in Proc \ {p} : InFlight(q)' <=> InFlight(q)
    BY <1>1, <2>1, OthersCalls
  <2>3. /\ expired' \in [Proc -> Nat] /\ expired'[p] = expired[p] + 1
        /\ \A q \in Proc \ {p} : expired'[q] = expired[q]
    BY <1>2, <2>1
  <2>4. Returned(p)' = Returned(p)
    <3>1. /\ Returned(p) = calls[p] - expired[p] - 1
          /\ Returned(p)' = calls[p] - (expired[p] + 1) - 0
      BY <2>1, <2>2, <2>3, ReturnedIs
    <3>2. \A x, e \in Nat : x - (e + 1) - 0 = x - e - 1
      OBVIOUS
    <3> QED BY <1>4, <3>1, <3>2
  <2>5. Output(p)' = Output(p)
    BY <2>1 DEF Output
  <2> QED BY <1>1, <1>2, <1>3, <1>5, <2>1, <2>2, <2>3, <2>4, <2>5
<1>9. CASE Returns(c)
  <2> DEFINE end == IF HasLine(Input(p)) THEN SelectInSeq(Input(p), LAMBDA x : x = Newline)
                                         ELSE Len(Input(p))
             rest == SubSeq(Input(p), end + 1, Len(Input(p)))
             left == IF HasLine(buffer[p]) THEN pipe[p] ELSE <<>>
  <2>1. /\ call[c] = "read" /\ SetCall(c, "none") /\ UNCHANGED <<calls, expired>>
        /\ HasLine(Input(p)) \/ life[p] # "up"
        /\ buffer' = [buffer EXCEPT ![p] = rest] /\ pipe' = [pipe EXCEPT ![p] = left]
    BY <1>1, <1>9 DEF Returns
  <2>2. /\ call' \in [Client -> {"none", "select", "read"}] /\ CallKnown'
        /\ InFlight(p) /\ ~InFlight(p)'
        /\ \A q \in Proc \ {p} : InFlight(q)' <=> InFlight(q)
    BY <1>1, <2>1, OthersCalls
  <2>3. left \in Seq(Nat)
    <3>1. <<>> \in Seq(Nat)
      OBVIOUS
    <3> QED BY <1>4, <3>1
  <2>4. rest \in Seq(Nat) /\ (HasLine(Input(p)) => Lined(rest \o left, Returned(p) + 1, lines[p]))
    <3>1. CASE HasLine(Input(p))
      <4>1. rest = SubSeq(Input(p), 3, Len(Input(p)))
        <5>1. end = 2
          BY <1>2, <2>2, <3>1, InputKnown
        <5> HIDE DEF end
        <5>2. end + 1 = 3
          BY <5>1
        <5> QED BY <5>2
      <4> QED BY <1>2, <2>2, <3>1, <4>1, InputKnown
    <3>2. CASE ~HasLine(Input(p))
      <4>1. Input(p) \in Seq(Nat)
        BY <1>2, OutputType DEF Input
      <4>2. rest = <<>>
        <5>1. end = Len(Input(p)) /\ Len(Input(p)) \in Nat
          BY <3>2, <4>1
        <5> HIDE DEF end
        <5>2. end + 1 \in Int /\ Len(Input(p)) \in Int /\ Len(Input(p)) < end + 1
          BY <5>1
        <5> QED BY <5>2, SubSeqEmpty
      <4> QED BY <3>2, <4>2
    <3> QED BY <3>1, <3>2
  <2> HIDE DEF end, rest, left
  <2>5. /\ buffer' \in [Proc -> Seq(Nat)] /\ buffer'[p] = rest
        /\ pipe' \in [Proc -> Seq(Nat)] /\ pipe'[p] = left
        /\ \A q \in Proc \ {p} : buffer'[q] = buffer[q] /\ pipe'[q] = pipe[q]
    BY <1>2, <2>1, <2>3, <2>4
  <2>6. Returned(p)' = Returned(p) + 1 /\ Returned(p) \in Nat
    <3>1. /\ Returned(p) = calls[p] - expired[p] - 1 /\ Returned(p)' = calls[p] - expired[p] - 0
          /\ Returned(p) \in Nat
      BY <1>5, <2>1, <2>2, ReturnedIs
    <3>2. \A x, e \in Nat : x - e - 0 = x - e - 1 + 1
      OBVIOUS
    <3> QED BY <1>4, <3>1, <3>2
  <2>7. Output(p)' = rest \o left
    BY <2>5 DEF Output
  <2>8. life[p] # "none"
    BY <1>1, <1>2 DEF PoolInv, ProcsKnown, Held, Ever
  <2>9. (life[p] = "up" \/ InFlight(p))' =>
          (Returned(p) \in Nat /\ Lined(Output(p), Returned(p), lines[p]))'
    BY <1>1, <2>1, <2>2, <2>4, <2>6, <2>7
  <2> QED BY <1>1, <1>2, <1>3, <2>1, <2>2, <2>5, <2>8, <2>9
<1> QED BY <1>6, <1>7, <1>8, <1>9 DEF Call

LEMMA LineStep ==
  ASSUME PoolInv, LineInv, [Next]_vars
  PROVE  LineInv'
  BY PoolLines, WritesLines, CallLines DEF Next

LEMMA LineInvariant == Spec => [](PoolInv /\ LineInv)
<1>1. Init => PoolInv /\ LineInv
  BY InitInv, LineInit
<1>2. (PoolInv /\ LineInv) /\ [Next]_vars => (PoolInv /\ LineInv)'
  BY PoolStep, LineStep
<1> QED BY <1>1, <1>2, PTL DEF Spec

(* A call returns the answer to its own message if none on the process has *)
(* timed out, whoever made it, and else lags by one answer for each call   *)
(* that did: no line is lost, read twice or out of order between the pipe, *)
(* the reader's buffer and the clients (_read_response, release).          *)
THEOREM AnswersLagByTimeouts == Spec => AnswersLag
<1>1. ASSUME PoolInv, LineInv, NEW c \in Client, Returns(c), Input(holds[c]) # <<>>
      PROVE  Head(Input(holds[c])) = calls[holds[c]] - expired[holds[c]]
  <2> DEFINE p == holds[c]
  <2>1. call[c] = "read"
    BY <1>1 DEF Returns
  <2>2. p \in Proc /\ InFlight(p)
    BY <1>1, <2>1 DEF LineInv, CallKnown, PoolInv, PyType, InFlight
  <2>3. calls[p] \in Nat /\ expired[p] \in Nat
    BY <1>1, <2>2, OutputType
  <2>4. Head(Input(p)) = Returned(p) + 1 /\ Returned(p) = calls[p] - expired[p] - 1
    BY <1>1, <2>2, InputKnown DEF Returned
  <2> QED BY <2>3, <2>4
<1>2. PoolInv /\ LineInv =>
        \A c \in Client : LET p == holds[c] IN
          Returns(c) /\ Input(p) # <<>> => Head(Input(p)) = calls[p] - expired[p]
  BY <1>1
<1> QED BY <1>2, LineInvariant, PTL DEF AnswersLag

=============================================================================
