-------------------------- MODULE NodePool_proofs --------------------------
(***************************************************************************)
(* Proofs about module NodePool: its types, that it neither loses nor      *)
(* doubles a place while processes die and are replaced, what close()      *)
(* ends, and that it implements Pool, for any number of clients, places    *)
(* and deaths.                                                             *)
(***************************************************************************)
EXTENDS NodePool, FiniteSetTheorems, TLAPS

Spawned == {p \in Proc : life[p] # "none"}
Idle == Elements(available)
Distinct(seq) == \A i, j \in DOMAIN seq : seq[i] = seq[j] => i = j

(* The processes that have a replacement, and those that still count for   *)
(* the place it is to take.                                                *)
Gone == {replaces[p] : p \in Proc} \ {None}
Replaced == {replaces[p] : p \in Replacing \cup Lost}
Places == Idle \cup Held \cup Replaced

(* TypeOK without the lengths, which follow from the invariant.            *)
NodeType ==
  /\ life \in [Proc -> {"none", "up", "exited", "signalled", "killed"}]
  /\ lingers \in SUBSET Proc
  /\ shut \in SUBSET Proc /\ ended \in SUBSET Proc /\ creating \in SUBSET Proc
  /\ failed \in SUBSET Proc /\ all \in SUBSET Proc /\ awaited \in SUBSET Proc
  /\ known \in SUBSET Proc
  /\ replaces \in [Proc -> Proc \cup {None}]
  /\ start \in {"idle", "spawning", "resolved", "rejected"}
  /\ pool \in {"open", "closing", "closed"}
  /\ available \in Seq(Proc) /\ waiters \in Seq(Client)
  /\ holds \in [Client -> Proc \cup {None}]

Numbered == Spawned = 1..Cardinality(Spawned)

(* A process is one of the first or the replacement of one that was given  *)
(* up before, and of no other.                                             *)
SpawnsKnown ==
  /\ creating \cup failed \cup ended \subseteq Spawned
  /\ creating \cap (failed \cup ended) = {}
  /\ \A p \in Proc : replaces[p] # None <=> p \in Spawned \ First
  /\ \A p, q \in Proc : replaces[p] = replaces[q] /\ replaces[p] # None => p = q
  /\ Gone \subseteq (Spawned \cap ended) \ (creating \cup failed)

StartKnown ==
  /\ start = "idle" => Spawned = {}
  /\ start # "idle" => First \subseteq Spawned
  /\ start = "spawning" => First \cap failed = {}
  /\ start = "resolved" => First \cap (creating \cup failed) = {}
  /\ start # "resolved" =>
       /\ all = {} /\ available = <<>> /\ Held = {} /\ waiters = <<>> /\ known = {}
       /\ ended = {} /\ Spawned \subseteq First

OneHolder(who) == \A c, d \in Client : who[c] = who[d] /\ who[c] # None => c = d

(* Nothing that is spawned again, or was given up, is idle or held.        *)
PlacesKnown ==
  /\ Distinct(available) /\ Idle \cap Held = {} /\ OneHolder(holds)
  /\ Idle \cup Held \subseteq Spawned \ (creating \cup failed \cup Gone)
  /\ Distinct(waiters) /\ \A c \in Elements(waiters) : holds[c] = None

PlacesKept ==
  /\ Cardinality(Places) =< Size
  /\ pool = "open" =>
       /\ start = "resolved" => Cardinality(Places) = Size
       /\ all = Places /\ (Idle \cup Held) \cap ended = {}

KnownEnded ==
  /\ known \subseteq Spawned \ creating
  /\ \A p \in known : life[p] # "up" \/ (p \in awaited /\ pool = "closing")
  /\ pool = "open" => known = {}
  /\ pool = "closed" => known \cap (Idle \cup all) = {}

PoolInv ==
  NodeType /\ Numbered /\ SpawnsKnown /\ StartKnown /\ PlacesKnown /\ PlacesKept /\ KnownEnded

-----------------------------------------------------------------------------
(* Sequences without repetition, and the sets they stand for.              *)

LEMMA AppendElement ==
  ASSUME NEW S, NEW s \in Seq(S), NEW e \in S
  PROVE  /\ Append(s, e) \in Seq(S)
         /\ Elements(Append(s, e)) = Elements(s) \cup {e}
         /\ Distinct(s) /\ e \notin Elements(s) => Distinct(Append(s, e))
<1>1. /\ Append(s, e) \in Seq(S) /\ DOMAIN Append(s, e) = 1..(Len(s) + 1)
      /\ \A i \in 1..Len(s) : Append(s, e)[i] = s[i]
      /\ Append(s, e)[Len(s) + 1] = e
      /\ DOMAIN s = 1..Len(s) /\ Len(s) \in Nat
  OBVIOUS
<1>2. 1..(Len(s) + 1) = (1..Len(s)) \cup {Len(s) + 1}
  BY <1>1
<1>3. Elements(Append(s, e)) = Elements(s) \cup {e}
  BY <1>1, <1>2 DEF Elements
<1>4. ASSUME Distinct(s), e \notin Elements(s)
      PROVE  Distinct(Append(s, e))
  BY <1>1, <1>2, <1>4 DEF Distinct, Elements
<1> QED BY <1>1, <1>3, <1>4

LEMMA TakeElement ==
  ASSUME NEW S, NEW s \in Seq(S), s # <<>>
  PROVE  /\ Head(s) \in S /\ Head(s) \in Elements(s) /\ Tail(s) \in Seq(S)
         /\ Distinct(s) => /\ Distinct(Tail(s))
                           /\ Elements(Tail(s)) = Elements(s) \ {Head(s)}
<1>1. /\ Len(s) \in Nat \ {0} /\ DOMAIN s = 1..Len(s)
      /\ Head(s) = s[1] /\ Tail(s) \in Seq(S)
      /\ DOMAIN Tail(s) = 1..(Len(s) - 1) /\ \A i \in 1..(Len(s) - 1) : Tail(s)[i] = s[i + 1]
  OBVIOUS
<1>2. Head(s) \in S /\ Head(s) \in Elements(s)
  BY <1>1 DEF Elements
<1>3. ASSUME Distinct(s)
      PROVE  Distinct(Tail(s)) /\ Elements(Tail(s)) = Elements(s) \ {Head(s)}
  <2>1. Distinct(Tail(s))
    BY <1>1, <1>3 DEF Distinct
  <2>2. ASSUME NEW x \in Elements(Tail(s))
        PROVE  x \in Elements(s) /\ x # Head(s)
    <3>1. PICK i \in 1..(Len(s) - 1) : x = s[i + 1]
      BY <1>1 DEF Elements
    <3> QED BY <1>1, <1>3, <3>1 DEF Distinct, Elements
  <2>3. ASSUME NEW x \in Elements(s), x # Head(s)
        PROVE  x \in Elements(Tail(s))
    <3>1. PICK i \in 1..Len(s) : x = s[i]
      BY <1>1 DEF Elements
    <3>2. i # 1 /\ i - 1 \in 1..(Len(s) - 1) /\ Tail(s)[i - 1] = s[i]
      BY <1>1, <2>3, <3>1
    <3> QED BY <1>1, <3>1, <3>2 DEF Elements
  <2> QED BY <2>1, <2>2, <2>3
<1> QED BY <1>1, <1>2, <1>3

LEMMA NumberOfElements ==
  ASSUME NEW S, NEW s \in Seq(S), Distinct(s)
  PROVE  IsFiniteSet(Elements(s)) /\ Cardinality(Elements(s)) = Len(s)
<1>1. Len(s) \in Nat /\ DOMAIN s = 1..Len(s)
  OBVIOUS
<1>2. s \in Bijection(1..Len(s), Elements(s))
  BY <1>1 DEF Bijection, Injection, Surjection, Elements, Distinct, IsInjective
<1>3. ExistsBijection(1..Len(s), Elements(s))
  BY <1>2 DEF ExistsBijection
<1>4. IsFiniteSet(1..Len(s)) /\ Cardinality(1..Len(s)) = Len(s)
  BY <1>1, FS_Interval
<1> QED BY <1>3, <1>4, FS_Bijection

-----------------------------------------------------------------------------
(* Processes and their numbers.                                            *)

LEMMA ProcFinite == IsFiniteSet(Proc) /\ First \subseteq Proc /\ None \notin Proc
<1>1. Size + MaxDeaths \in Nat /\ Size =< Size + MaxDeaths
  BY NodePoolAssumption
<1>2. IsFiniteSet(1..(Size + MaxDeaths))
  BY <1>1, FS_Interval
<1> QED BY <1>1, <1>2, NodePoolAssumption DEF Proc, First, None

LEMMA FreshNumber ==
  ASSUME Numbered
  PROVE  Fresh = Cardinality(Spawned) + 1 /\ Fresh \in Nat /\ Fresh \notin Spawned
<1>1. IsFiniteSet(Spawned) /\ Fresh = Cardinality(Spawned) + 1
  BY ProcFinite, FS_Subset DEF Spawned, Fresh
<1>2. Cardinality(Spawned) \in Nat
  BY <1>1, FS_CardinalityType
<1> QED BY <1>1, <1>2 DEF Numbered

LEMMA BornNext ==
  ASSUME NodeType, Numbered, Born({Fresh})
  PROVE  Numbered' /\ Spawned' = Spawned \cup {Fresh} /\ Fresh \in Proc
<1>1. Fresh \in Proc /\ Spawned' = Spawned \cup {Fresh}
  BY DEF Born, Spawned, NodeType
<1>2. IsFiniteSet(Spawned)
  BY ProcFinite, FS_Subset DEF Spawned
<1>3. Fresh = Cardinality(Spawned) + 1 /\ Fresh \notin Spawned /\ Cardinality(Spawned) \in Nat
  BY <1>2, FreshNumber, FS_CardinalityType
<1>4. Cardinality(Spawned \cup {Fresh}) = Cardinality(Spawned) + 1
  BY <1>2, <1>3, FS_AddElement
<1>5. Spawned \cup {Fresh} = 1..(Cardinality(Spawned) + 1)
  BY <1>3 DEF Numbered
<1> QED BY <1>1, <1>4, <1>5 DEF Numbered

(* A life that goes on, or none that begins.                               *)
LEMMA SameSpawned ==
  ASSUME Spawned' = Spawned, Numbered
  PROVE  Numbered'
  BY DEF Numbered

LEMMA PlacesFinite ==
  ASSUME NodeType
  PROVE  Places \in SUBSET Proc /\ IsFiniteSet(Places) /\ Cardinality(Places) \in Nat
<1>1. Idle \subseteq Proc /\ Held \subseteq Proc /\ Replaced \subseteq Proc
  BY DEF NodeType, Idle, Elements, Held, Replaced, Replacing, Lost, None
<1>2. Places \in SUBSET Proc
  BY <1>1 DEF Places
<1> QED BY <1>2, ProcFinite, FS_Subset, FS_CardinalityType

-----------------------------------------------------------------------------
(* #handOff.                                                               *)

Reached(who) == {who[c] : c \in Client} \ {None}

LEMMA HandOffKeeps ==
  ASSUME NodeType, NEW who \in [Client -> Proc \cup {None}], NEW p \in Proc,
         OneHolder(who), Distinct(available), Distinct(waiters),
         Idle \cap Reached(who) = {}, p \notin Idle \cup Reached(who),
         \A c \in Elements(waiters) : who[c] = None,
         HandOff(p, who)
  PROVE  /\ holds' \in [Client -> Proc \cup {None}] /\ available' \in Seq(Proc)
         /\ waiters' \in Seq(Client) /\ Distinct(available)' /\ Distinct(waiters)'
         /\ OneHolder(holds)' /\ (Idle \cap Held = {})'
         /\ (Idle \cup Held)' = Idle \cup Reached(who) \cup {p} /\ Idle' \subseteq Idle \cup {p}
         /\ \A c \in Elements(waiters)' : holds'[c] = None
<1>0. available \in Seq(Proc) /\ waiters \in Seq(Client) /\ p # None
  BY ProcFinite DEF NodeType
<1>1. CASE waiters # <<>>
  <2> DEFINE w == Head(waiters)
  <2>1. /\ holds' = [who EXCEPT ![w] = p] /\ waiters' = Tail(waiters) /\ available' = available
    BY <1>1 DEF HandOff
  <2>2. /\ w \in Client /\ w \in Elements(waiters) /\ Tail(waiters) \in Seq(Client)
        /\ Distinct(Tail(waiters)) /\ Elements(Tail(waiters)) = Elements(waiters) \ {w}
    BY <1>0, <1>1, TakeElement
  <2>3. who[w] = None
    BY <2>2
  <2> HIDE DEF w
  <2>4. /\ holds' \in [Client -> Proc \cup {None}] /\ holds'[w] = p
        /\ \A c \in Client \ {w} : holds'[c] = who[c]
    BY <2>1, <2>2
  <2>5. Held' = Reached(who) \cup {p}
    BY <1>0, <2>2, <2>3, <2>4 DEF Held, Reached
  <2>6. OneHolder(holds')
    BY <1>0, <2>2, <2>4 DEF OneHolder, Reached
  <2>7. Idle' = Idle /\ Elements(waiters)' = Elements(waiters) \ {w}
    BY <2>1, <2>2 DEF Idle
  <2>8. \A c \in Elements(waiters) \ {w} : c \in Client
    BY <1>0 DEF Elements
  <2> QED BY <1>0, <2>1, <2>2, <2>4, <2>5, <2>6, <2>7, <2>8
<1>2. CASE waiters = <<>>
  <2>1. holds' = who /\ available' = Append(available, p) /\ waiters' = waiters
    BY <1>2 DEF HandOff
  <2>2. available' \in Seq(Proc) /\ Idle' = Idle \cup {p} /\ Distinct(available')
    BY <1>0, <2>1, AppendElement DEF Idle
  <2>3. Held' = Reached(who)
    BY <2>1 DEF Held, Reached
  <2> QED BY <1>0, <2>1, <2>2, <2>3
<1> QED BY <1>1, <1>2

LEMMA FreedHolds ==
  ASSUME NodeType, OneHolder(holds), NEW c \in Client, holds[c] # None
  PROVE  /\ Freed(c) \in [Client -> Proc \cup {None}] /\ OneHolder(Freed(c))
         /\ Reached(Freed(c)) = Held \ {holds[c]} /\ holds[c] \in Held \cap Proc
         /\ \A d \in Client : holds[d] = None => Freed(c)[d] = None
<1>1. /\ Freed(c) \in [Client -> Proc \cup {None}] /\ Freed(c)[c] = None
      /\ \A d \in Client \ {c} : Freed(c)[d] = holds[d]
  BY DEF NodeType, Freed
<1>2. Reached(Freed(c)) = Held \ {holds[c]}
  BY <1>1 DEF Reached, Held, OneHolder
<1> QED BY <1>1, <1>2 DEF OneHolder, Held, NodeType

-----------------------------------------------------------------------------
(* The inductive invariant, action by action.                              *)

LEMMA SameReplaced ==
  ASSUME replaces' = replaces,
         \A q \in Proc : replaces[q] # None =>
           (q \in creating' \cup failed' <=> q \in creating \cup failed)
  PROVE  Replaced' = Replaced /\ Gone' = Gone
  BY DEF Replaced, Replacing, Lost, Gone

LEMMA InitInv ==
  ASSUME Init
  PROVE  PoolInv
<1>1. NodeType
  BY Init DEF Init, NodeType, None
<1>2. Spawned = {} /\ Gone = {} /\ Idle = {} /\ Held = {} /\ Replaced = {} /\ Places = {}
  BY Init DEF Init, Spawned, Gone, Idle, Elements, Held, Replaced, Replacing, Lost, Places
<1>3. Cardinality(Spawned) = 0 /\ Cardinality(Places) = 0
  BY <1>2, FS_EmptySet
<1>4. Numbered
  BY <1>2, <1>3 DEF Numbered
<1>5. SpawnsKnown /\ StartKnown
  BY <1>2 DEF Init, SpawnsKnown, StartKnown
<1>6. PlacesKnown
  BY <1>2 DEF Init, PlacesKnown, Distinct, OneHolder, Elements
<1>7. PlacesKept /\ KnownEnded
  BY <1>2, <1>3, NodePoolAssumption DEF Init, PlacesKept, KnownEnded
<1> QED BY <1>1, <1>4, <1>5, <1>6, <1>7 DEF PoolInv

(* What is left alone when only the processes' lives go on.                *)
LEMMA LifeInv ==
  ASSUME PoolInv, NodeType', Spawned' = Spawned,
         \A p \in Proc : life'[p] = "up" => life[p] = "up",
         \A p \in awaited \ awaited' : life[p] # "up",
         UNCHANGED <<ended, spawnVars, start, pool, all, available, waiters, holds, known>>
  PROVE  PoolInv'
<1>1. /\ Idle' = Idle /\ Held' = Held /\ Replaced' = Replaced /\ Gone' = Gone
      /\ Places' = Places /\ Elements(waiters)' = Elements(waiters)
  BY SameReplaced DEF Idle, Held, Places, Elements, spawnVars
<1>2. Numbered' /\ SpawnsKnown'
  BY <1>1, SameSpawned DEF PoolInv, SpawnsKnown, spawnVars
<1>3. StartKnown'
  BY <1>1 DEF PoolInv, StartKnown, spawnVars
<1>4. PlacesKnown'
  BY <1>1 DEF PoolInv, PlacesKnown, spawnVars, Distinct, OneHolder
<1>5. PlacesKept'
  BY <1>1 DEF PoolInv, PlacesKept
<1>6. KnownEnded'
  BY <1>1 DEF PoolInv, KnownEnded, spawnVars, NodeType
<1> QED BY <1>2, <1>3, <1>4, <1>5, <1>6 DEF PoolInv

LEMMA ExitsInv ==
  ASSUME PoolInv, NEW p \in Proc, Exits(p) \/ ToolEnds(p) \/ Shuts(p)
  PROVE  PoolInv'
<1>1. CASE Exits(p)
  <2>1. PICK how \in {"exited", "signalled", "killed"} : life' = [life EXCEPT ![p] = how]
    BY <1>1 DEF Exits
  <2>2. NodeType' /\ Spawned' = Spawned /\ \A q \in Proc : life'[q] = "up" => life[q] = "up"
    BY <1>1, <2>1 DEF Exits, PoolInv, NodeType, Spawned, spawnVars, poolVars
  <2> QED BY <1>1, <2>2, LifeInv DEF Exits, poolVars
<1>2. CASE Shuts(p)
  <2>1. NodeType' /\ Spawned' = Spawned /\ \A q \in Proc : life'[q] = "up" => life[q] = "up"
    BY <1>2 DEF Shuts, PoolInv, NodeType, Spawned, spawnVars
  <2>2. awaited \ awaited' \subseteq {p} /\ life[p] # "up"
    BY <1>2 DEF Shuts
  <2> QED BY <1>2, <2>1, <2>2, LifeInv DEF Shuts
<1>3. CASE ToolEnds(p)
  <2>1. NodeType' /\ Spawned' = Spawned /\ life' = life /\ awaited' = awaited
    BY <1>3 DEF ToolEnds, PoolInv, NodeType, Spawned, spawnVars, poolVars
  <2> QED BY <1>3, <2>1, LifeInv DEF ToolEnds, poolVars
<1> QED BY <1>1, <1>2, <1>3

LEMMA StartCallInv ==
  ASSUME PoolInv, StartCall
  PROVE  PoolInv'
<1>1. /\ start = "idle" /\ start' = "spawning" /\ pool = "open" /\ creating' = First
      /\ First \subseteq Proc /\ Spawned = {} /\ Spawned' = First
  BY ProcFinite DEF StartCall, Born, PoolInv, StartKnown, Spawned
<1>2. NodeType'
  BY <1>1 DEF StartCall, Born, PoolInv, NodeType
<1>3. Numbered'
  <2>1. Cardinality(First) = Size
    BY FS_Interval, NodePoolAssumption DEF First
  <2> QED BY <1>1, <2>1 DEF Numbered, First
<1>4. \A p \in Proc : replaces[p] = None
  BY <1>1 DEF PoolInv, SpawnsKnown
<1>5. /\ ended = {} /\ failed = {} /\ all = {} /\ available = <<>> /\ Held = {}
      /\ waiters = <<>> /\ known = {}
  BY <1>1 DEF PoolInv, SpawnsKnown, StartKnown
<1>6. Replaced' = Replaced /\ Gone' = Gone /\ Gone = {} /\ Replaced = {}
  BY <1>4, SameReplaced DEF StartCall, Gone, Replaced, Replacing, Lost
<1>7. Idle' = {} /\ Held' = {} /\ Places' = {} /\ Places = {}
  <2>1. Elements(<<>>) = {} /\ available' = available /\ holds' = holds
    BY DEF Elements, StartCall
  <2>2. Held' = Held
    BY <2>1 DEF Held
  <2> QED BY <1>5, <1>6, <2>1, <2>2 DEF Idle, Places
<1>8. SpawnsKnown'
  BY <1>1, <1>4, <1>5, <1>6 DEF StartCall, SpawnsKnown
<1>9. StartKnown'
  BY <1>1, <1>5, <1>7 DEF StartCall, StartKnown
<1>10. PlacesKnown'
  BY <1>1, <1>5, <1>7 DEF StartCall, PoolInv, PlacesKnown, Distinct, OneHolder, Elements
<1>11. PlacesKept'
  BY <1>1, <1>5, <1>7 DEF StartCall, PoolInv, PlacesKept
<1>12. KnownEnded'
  BY <1>1, <1>5 DEF StartCall, KnownEnded
<1> QED BY <1>2, <1>3, <1>8, <1>9, <1>10, <1>11, <1>12 DEF PoolInv

(* A spawn that settles, without a place in the pool for the process.      *)
LEMMA SettleInv ==
  ASSUME PoolInv, NEW p \in Proc, SpawnResolves(p) \/ SpawnRejects(p)
  PROVE  PoolInv'
<1>1. /\ p \in creating /\ creating' = creating \ {p} /\ failed \subseteq failed'
      /\ failed' \subseteq failed \cup {p}
      /\ UNCHANGED <<procVars, replaces, pool, all, available, waiters, awaited, holds, known>>
  BY DEF SpawnResolves, SpawnRejects, poolVars
<1>2. /\ p \in First => start # "resolved"
      /\ start' = start \/ (p \in First /\ start' = "rejected" /\ start # "idle")
      /\ p \in First /\ p \in failed' => start' = "rejected"
      /\ replaces[p] # None => p \in failed'
  <2>1. p \in Spawned /\ (replaces[p] # None <=> p \notin First) /\ p \notin failed
    BY <1>1 DEF PoolInv, SpawnsKnown
  <2>2. p \in First => start # "resolved"
    BY <1>1 DEF PoolInv, StartKnown
  <2>3. start # "idle"
    BY <2>1 DEF PoolInv, StartKnown
  <2> QED BY <2>1, <2>2, <2>3 DEF SpawnResolves, SpawnRejects, poolVars
<1>3. NodeType'
  BY <1>1, <1>2 DEF PoolInv, NodeType, procVars
<1>4. /\ Spawned' = Spawned /\ Idle' = Idle /\ Held' = Held
      /\ Elements(waiters)' = Elements(waiters)
  BY <1>1 DEF Spawned, Idle, Elements, Held, procVars
<1>5. Replaced' = Replaced /\ Gone' = Gone /\ Places' = Places
  BY <1>1, <1>2, <1>4, SameReplaced DEF Places
<1>6. Numbered' /\ SpawnsKnown'
  BY <1>1, <1>4, <1>5, SameSpawned DEF PoolInv, SpawnsKnown, procVars
<1>7. StartKnown'
  BY <1>1, <1>2, <1>4 DEF PoolInv, StartKnown, procVars
<1>8. PlacesKnown'
  BY <1>1, <1>4, <1>5 DEF PoolInv, PlacesKnown, Distinct, OneHolder
<1>9. PlacesKept'
  BY <1>1, <1>2, <1>4, <1>5 DEF PoolInv, PlacesKept, procVars
<1>10. KnownEnded'
  BY <1>1, <1>4 DEF PoolInv, KnownEnded, procVars
<1> QED BY <1>3, <1>6, <1>7, <1>8, <1>9, <1>10 DEF PoolInv

LEMMA StartResolvesInv ==
  ASSUME PoolInv, StartResolves
  PROVE  PoolInv'
<1>1. /\ start = "spawning" /\ start' = "resolved" /\ First \cap creating = {}
      /\ UNCHANGED <<procVars, spawnVars, pool, waiters, awaited, holds, known>>
      /\ all = {} /\ available = <<>> /\ Held = {} /\ waiters = <<>> /\ known = {}
      /\ First \cap failed = {} /\ First \subseteq Spawned /\ Spawned \subseteq First
  BY DEF StartResolves, PoolInv, StartKnown
<1>2. all' = First /\ available' = [k \in First |-> k]
  <2>1. [k \in First |-> k] \in Seq(Proc)
    BY ProcFinite, NodePoolAssumption DEF First
  <2>2. <<>> \o [k \in First |-> k] = [k \in First |-> k]
    BY <2>1
  <2> QED BY <1>1, <2>2 DEF StartResolves
<1>3. available' \in Seq(Proc) /\ Distinct(available)' /\ Idle' = First
  BY <1>2, ProcFinite, NodePoolAssumption DEF First, Distinct, Idle, Elements
<1>4. NodeType'
  BY <1>1, <1>2, <1>3, ProcFinite DEF PoolInv, NodeType, procVars, spawnVars
<1>5. /\ Spawned' = Spawned /\ Held' = {} /\ Replaced' = Replaced /\ Gone' = Gone
      /\ Elements(waiters)' = Elements(waiters)
  BY <1>1, SameReplaced DEF Spawned, Held, Elements, procVars, spawnVars
<1>6. Gone = {} /\ Replaced = {} /\ Places' = First
  <2>1. \A p \in Proc : replaces[p] = None
    BY <1>1 DEF PoolInv, SpawnsKnown
  <2>2. Gone = {} /\ Replaced = {}
    BY <2>1 DEF Gone, Replaced, Replacing, Lost
  <2> QED BY <1>3, <1>5, <2>2 DEF Places
<1>7. Numbered' /\ SpawnsKnown'
  BY <1>1, <1>5, SameSpawned DEF PoolInv, SpawnsKnown, procVars, spawnVars
<1>8. StartKnown'
  BY <1>1, <1>5 DEF StartKnown, spawnVars
<1>9. PlacesKnown'
  BY <1>1, <1>3, <1>5, <1>6 DEF PoolInv, PlacesKnown, OneHolder, Distinct, spawnVars
<1>10. PlacesKept'
  <2>1. Cardinality(First) = Size
    BY FS_Interval, NodePoolAssumption DEF First
  <2>2. pool = "open" => First \cap ended = {}
    BY <1>1 DEF PoolInv, StartKnown
  <2> QED BY <1>1, <1>2, <1>3, <1>5, <1>6, <2>1, <2>2, NodePoolAssumption DEF PlacesKept, procVars
<1>11. KnownEnded'
  BY <1>1, <1>5 DEF PoolInv, KnownEnded, procVars, spawnVars
<1> QED BY <1>4, <1>7, <1>8, <1>9, <1>10, <1>11 DEF PoolInv

(* What acquire, #handOff and a release do: processes change hands, and    *)
(* none joins or leaves.                                                   *)
LEMMA HandsInv ==
  ASSUME PoolInv, start = "resolved", pool = "open",
         UNCHANGED <<procVars, spawnVars, start, pool, all, awaited, known>>,
         holds' \in [Client -> Proc \cup {None}], available' \in Seq(Proc),
         waiters' \in Seq(Client), Distinct(available)', Distinct(waiters)',
         OneHolder(holds)', (Idle \cap Held = {})', (Idle \cup Held)' = Idle \cup Held,
         \A c \in Elements(waiters)' : holds'[c] = None
  PROVE  PoolInv'
<1>1. NodeType' /\ Spawned' = Spawned
  BY DEF PoolInv, NodeType, procVars, spawnVars, Spawned
<1>2. Replaced' = Replaced /\ Gone' = Gone /\ Places' = Places
  BY SameReplaced DEF Places, spawnVars
<1>3. Numbered' /\ SpawnsKnown'
  BY <1>1, <1>2, SameSpawned DEF PoolInv, SpawnsKnown, procVars, spawnVars
<1>4. StartKnown'
  BY <1>1 DEF PoolInv, StartKnown, procVars, spawnVars
<1>5. PlacesKnown'
  BY <1>1, <1>2 DEF PoolInv, PlacesKnown, procVars, spawnVars
<1>6. PlacesKept'
  BY <1>2 DEF PoolInv, PlacesKept, procVars
<1>7. KnownEnded'
  BY <1>1 DEF PoolInv, KnownEnded, procVars, spawnVars
<1> QED BY <1>1, <1>3, <1>4, <1>5, <1>6, <1>7 DEF PoolInv

LEMMA AcquireInv ==
  ASSUME PoolInv, NEW c \in Client, Acquire(c)
  PROVE  PoolInv'
<1>0. /\ available \in Seq(Proc) /\ waiters \in Seq(Client) /\ holds[c] = None
      /\ holds \in [Client -> Proc \cup {None}] /\ None \notin Proc
      /\ Distinct(available) /\ Distinct(waiters) /\ OneHolder(holds) /\ Idle \cap Held = {}
      /\ \A d \in Elements(waiters) : holds[d] = None
      /\ c \notin Elements(waiters)
  BY ProcFinite DEF Acquire, Waiting, PoolInv, NodeType, PlacesKnown
<1>1. CASE available # <<>>
  <2> DEFINE p == Head(available)
  <2>1. holds' = [holds EXCEPT ![c] = p] /\ available' = Tail(available) /\ waiters' = waiters
    BY <1>1 DEF Acquire, Take
  <2>2. /\ p \in Proc /\ p \in Idle /\ Tail(available) \in Seq(Proc)
        /\ Distinct(Tail(available)) /\ Elements(Tail(available)) = Idle \ {p}
    BY <1>0, <1>1, TakeElement DEF Idle
  <2> HIDE DEF p
  <2>3. /\ holds' \in [Client -> Proc \cup {None}] /\ holds'[c] = p
        /\ \A d \in Client \ {c} : holds'[d] = holds[d]
    BY <1>0, <2>1, <2>2
  <2>4. Held' = Held \cup {p}
    BY <1>0, <2>2, <2>3 DEF Held
  <2>5. OneHolder(holds')
    BY <1>0, <2>2, <2>3 DEF OneHolder, Held
  <2>6. Idle' = Idle \ {p} /\ Elements(waiters)' = Elements(waiters)
    BY <2>1, <2>2 DEF Idle
  <2>7. \A d \in Elements(waiters) : d \in Client /\ d # c
    BY <1>0 DEF Elements
  <2>8. /\ available' \in Seq(Proc) /\ Distinct(available)' /\ Distinct(waiters)'
        /\ waiters' \in Seq(Client)
    BY <1>0, <2>1, <2>2
  <2>9. (Idle \cap Held = {})' /\ (Idle \cup Held)' = Idle \cup Held
    BY <1>0, <2>2, <2>4, <2>6
  <2>10. \A d \in Elements(waiters)' : holds'[d] = None
    BY <1>0, <2>3, <2>6, <2>7
  <2> QED BY <2>3, <2>5, <2>8, <2>9, <2>10, HandsInv DEF Acquire
<1>2. CASE available = <<>>
  <2>1. waiters' = Append(waiters, c) /\ holds' = holds /\ available' = available
    BY <1>2 DEF Acquire
  <2>2. /\ waiters' \in Seq(Client) /\ Distinct(waiters)'
        /\ Elements(waiters)' = Elements(waiters) \cup {c}
    BY <1>0, <2>1, AppendElement
  <2>3. Idle' = Idle /\ Held' = Held /\ Distinct(available)' /\ OneHolder(holds)'
    BY <1>0, <2>1 DEF Idle, Elements, Held
  <2>4. holds' \in [Client -> Proc \cup {None}] /\ available' \in Seq(Proc)
        /\ \A d \in Elements(waiters)' : holds'[d] = None
    BY <1>0, <2>1, <2>2
  <2> QED BY <1>0, <2>2, <2>3, <2>4, HandsInv DEF Acquire
<1> QED BY <1>1, <1>2

LEMMA ReleaseAliveInv ==
  ASSUME PoolInv, NEW c \in Client, ReleaseAlive(c)
  PROVE  PoolInv'
<1>1. /\ Freed(c) \in [Client -> Proc \cup {None}] /\ OneHolder(Freed(c))
      /\ Reached(Freed(c)) = Held \ {holds[c]} /\ holds[c] \in Held \cap Proc
      /\ \A d \in Client : holds[d] = None => Freed(c)[d] = None
  BY FreedHolds DEF ReleaseAlive, PoolInv, PlacesKnown
<1>2. /\ NodeType /\ Distinct(available) /\ Distinct(waiters) /\ Idle \cap Held = {}
      /\ \A d \in Elements(waiters) : d \in Client /\ holds[d] = None
  BY DEF PoolInv, PlacesKnown, NodeType, Elements
<1>3. start = "resolved"
  BY <1>1 DEF PoolInv, StartKnown
<1>4. /\ holds' \in [Client -> Proc \cup {None}] /\ available' \in Seq(Proc)
      /\ waiters' \in Seq(Client) /\ Distinct(available)' /\ Distinct(waiters)'
      /\ OneHolder(holds)' /\ (Idle \cap Held = {})'
      /\ (Idle \cup Held)' = Idle \cup Reached(Freed(c)) \cup {holds[c]}
      /\ \A d \in Elements(waiters)' : holds'[d] = None
  BY <1>1, <1>2, HandOffKeeps DEF ReleaseAlive
<1>5. (Idle \cup Held)' = Idle \cup Held
  BY <1>1, <1>4
<1> QED BY <1>3, <1>4, <1>5, HandsInv DEF ReleaseAlive

LEMMA ReleaseDeadInv ==
  ASSUME PoolInv, NEW c \in Client, ReleaseDead(c)
  PROVE  PoolInv'
<1> DEFINE old == holds[c]
           new == Fresh
<1>1. /\ Freed(c) \in [Client -> Proc \cup {None}] /\ OneHolder(Freed(c))
      /\ Reached(Freed(c)) = Held \ {old} /\ old \in Held \cap Proc
      /\ \A d \in Client : holds[d] = None => Freed(c)[d] = None
  BY FreedHolds DEF ReleaseDead, PoolInv, PlacesKnown
<1>2. /\ Numbered' /\ Spawned' = Spawned \cup {new} /\ new \in Proc /\ new \notin Spawned
  BY BornNext, FreshNumber DEF ReleaseDead, PoolInv
<1>3. /\ life' = [p \in Proc |-> IF p = new THEN "up" ELSE life[p]]
      /\ ended' = ended \cup {old} /\ creating' = creating \cup {new}
      /\ replaces' = [replaces EXCEPT ![new] = old] /\ holds' = Freed(c)
      /\ UNCHANGED <<lingers, shut, failed, poolVars, known>> /\ pool = "open"
  BY DEF ReleaseDead, Born
<1> HIDE DEF old, new
<1>4. start = "resolved" /\ First \subseteq Spawned /\ new \notin First
  BY <1>1, <1>2 DEF PoolInv, StartKnown
<1>5. /\ old \in Spawned \ (creating \cup failed \cup Gone) /\ old # new
      /\ old \notin Idle /\ old # None /\ replaces[new] = None
  BY <1>1, <1>2, ProcFinite DEF PoolInv, PlacesKnown, SpawnsKnown
<1>6. NodeType'
  BY <1>1, <1>2, <1>3 DEF PoolInv, NodeType, poolVars
<1>7. /\ replaces' \in [Proc -> Proc \cup {None}] /\ replaces'[new] = old
      /\ \A p \in Proc \ {new} : replaces'[p] = replaces[p]
  BY <1>1, <1>2, <1>3 DEF PoolInv, NodeType
<1>8. Gone' = Gone \cup {old}
  BY <1>2, <1>5, <1>7 DEF Gone
<1>9. Replaced' = Replaced \cup {old}
  <2>1. Replacing' = Replacing \cup {new}
    BY <1>2, <1>3, <1>5, <1>7 DEF Replacing
  <2>2. Lost' = Lost
    BY <1>2, <1>3, <1>5, <1>7 DEF Lost, PoolInv, SpawnsKnown
  <2>3. \A p \in Replacing \cup Lost : p \in Proc /\ p # new
    BY <1>5 DEF Replacing, Lost
  <2> QED BY <1>7, <2>1, <2>2, <2>3 DEF Replaced
<1>10. Idle' = Idle /\ Held' = Held \ {old} /\ Elements(waiters)' = Elements(waiters)
  BY <1>1, <1>3 DEF Idle, Elements, Held, Reached, poolVars
<1>11. Places' = Places
  BY <1>1, <1>5, <1>9, <1>10 DEF Places
<1>12. SpawnsKnown'
  <2>1. /\ creating' \cup failed' \cup ended' \subseteq Spawned'
        /\ creating' \cap (failed' \cup ended') = {}
    BY <1>2, <1>3, <1>5 DEF PoolInv, SpawnsKnown
  <2>2. \A p \in Proc : replaces'[p] # None <=> p \in Spawned' \ First
    BY <1>2, <1>4, <1>5, <1>7 DEF PoolInv, SpawnsKnown
  <2>3. \A p, q \in Proc : replaces'[p] = replaces'[q] /\ replaces'[p] # None => p = q
    BY <1>2, <1>5, <1>7 DEF PoolInv, SpawnsKnown, Gone
  <2>4. Gone' \subseteq (Spawned' \cap ended') \ (creating' \cup failed')
    BY <1>2, <1>3, <1>5, <1>8 DEF PoolInv, SpawnsKnown
  <2> QED BY <2>1, <2>2, <2>3, <2>4 DEF SpawnsKnown
<1>13. StartKnown'
  BY <1>2, <1>3, <1>4 DEF PoolInv, StartKnown, poolVars
<1>14. PlacesKnown'
  <2>1. (Idle \cup Held \subseteq Spawned \ (creating \cup failed \cup Gone))'
    BY <1>2, <1>3, <1>5, <1>8, <1>10 DEF PoolInv, PlacesKnown
  <2>2. \A d \in Elements(waiters) : d \in Client /\ holds[d] = None
    BY DEF PoolInv, PlacesKnown, NodeType, Elements
  <2> QED BY <1>1, <1>3, <1>10, <2>1, <2>2 DEF PoolInv, PlacesKnown, poolVars
<1>15. PlacesKept'
  BY <1>3, <1>5, <1>10, <1>11 DEF PoolInv, PlacesKept, poolVars
<1>16. KnownEnded'
  BY <1>3 DEF PoolInv, KnownEnded, poolVars
<1> QED BY <1>2, <1>6, <1>12, <1>13, <1>14, <1>15, <1>16 DEF PoolInv

LEMMA ReleaseClosedInv ==
  ASSUME PoolInv, NEW c \in Client, ReleaseClosed(c)
  PROVE  PoolInv'
<1> DEFINE old == holds[c]
<1>1. /\ Freed(c) \in [Client -> Proc \cup {None}] /\ OneHolder(Freed(c))
      /\ Reached(Freed(c)) = Held \ {old} /\ old \in Held \cap Proc
      /\ \A d \in Client : holds[d] = None => Freed(c)[d] = None
  BY FreedHolds DEF ReleaseClosed, PoolInv, PlacesKnown
<1>2. /\ ended' = ended \cup {old} /\ holds' = Freed(c) /\ pool # "open"
      /\ UNCHANGED <<life, lingers, shut, spawnVars, poolVars, known>>
  BY DEF ReleaseClosed
<1> HIDE DEF old
<1>3. NodeType' /\ Spawned' = Spawned /\ old \in Spawned \ creating
  BY <1>1, <1>2 DEF PoolInv, NodeType, PlacesKnown, Spawned, spawnVars, poolVars
<1>4. /\ Idle' = Idle /\ Held' = Held \ {old} /\ Elements(waiters)' = Elements(waiters)
      /\ Replaced' = Replaced /\ Gone' = Gone /\ start = "resolved"
  BY <1>1, <1>2, SameReplaced
     DEF Idle, Elements, Held, Reached, PoolInv, StartKnown, spawnVars, poolVars
<1>5. Numbered' /\ SpawnsKnown' /\ StartKnown'
  BY <1>2, <1>3, <1>4, SameSpawned
     DEF PoolInv, SpawnsKnown, StartKnown, spawnVars, poolVars
<1>6. PlacesKnown'
  <2>1. \A d \in Elements(waiters) : d \in Client /\ holds[d] = None
    BY DEF PoolInv, PlacesKnown, NodeType, Elements
  <2> QED BY <1>1, <1>2, <1>3, <1>4, <2>1 DEF PoolInv, PlacesKnown, spawnVars, poolVars
<1>7. PlacesKept'
  <2>1. Places' \in SUBSET Places
    BY <1>4 DEF Places
  <2>2. Cardinality(Places') =< Cardinality(Places) /\ Cardinality(Places') \in Nat
        /\ Cardinality(Places) \in Nat
    BY <2>1, <1>3, PlacesFinite, FS_Subset, FS_CardinalityType DEF PoolInv
  <2> QED BY <1>2, <2>2, NodePoolAssumption DEF PoolInv, PlacesKept, poolVars
<1>8. KnownEnded'
  BY <1>2, <1>3, <1>4 DEF PoolInv, KnownEnded, poolVars, spawnVars
<1> QED BY <1>3, <1>5, <1>6, <1>7, <1>8 DEF PoolInv

LEMMA ReplaceInv ==
  ASSUME PoolInv, NEW p \in Proc, Replace(p)
  PROVE  PoolInv'
<1> DEFINE old == replaces[p]
<1>1. /\ p \in creating /\ old # None /\ creating' = creating \ {p}
      /\ all' = (all \ {old}) \cup {p} /\ HandOff(p, holds)
      /\ UNCHANGED <<procVars, failed, replaces, start, pool, awaited, known>>
  BY DEF Replace, Swap
<1> HIDE DEF old
<1>2. /\ p \in Spawned /\ p \notin First /\ p \notin failed
      /\ old \in Gone /\ old \in Replaced /\ old \in Proc /\ p \notin Gone /\ old # p
  BY <1>1 DEF PoolInv, SpawnsKnown, Gone, Replaced, Replacing, NodeType, old
<1>3. start = "resolved"
  BY <1>2 DEF PoolInv, StartKnown
<1>4. p \notin Idle \cup Held \cup Replaced /\ old \notin Idle \cup Held
  <2>1. Replaced \subseteq Gone
    BY DEF Replaced, Gone, Replacing, Lost
  <2> QED BY <1>1, <1>2, <2>1 DEF PoolInv, PlacesKnown
<1>5. /\ holds' \in [Client -> Proc \cup {None}] /\ available' \in Seq(Proc)
      /\ waiters' \in Seq(Client) /\ Distinct(available)' /\ Distinct(waiters)'
      /\ OneHolder(holds)' /\ (Idle \cap Held = {})'
      /\ (Idle \cup Held)' = Idle \cup Held \cup {p} /\ Idle' \subseteq Idle \cup {p}
      /\ \A d \in Elements(waiters)' : holds'[d] = None
  <2>1. Reached(holds) = Held
    BY DEF Reached, Held
  <2>2. /\ NodeType /\ Distinct(available) /\ Distinct(waiters) /\ Idle \cap Held = {}
        /\ \A d \in Elements(waiters) : holds[d] = None
        /\ holds \in [Client -> Proc \cup {None}] /\ OneHolder(holds)
    BY DEF PoolInv, PlacesKnown, NodeType
  <2> QED BY <1>1, <1>4, <2>1, <2>2, HandOffKeeps
<1>6. NodeType' /\ Spawned' = Spawned
  BY <1>1, <1>2, <1>5 DEF PoolInv, NodeType, Spawned, procVars
<1>7. Gone' = Gone /\ Replaced' = Replaced \ {old}
  <2>1. (Replacing \cup Lost)' = (Replacing \cup Lost) \ {p}
    BY <1>1, <1>2 DEF Replacing, Lost
  <2>2. \A q \in Replacing \cup Lost : q # p => replaces[q] # old
    BY <1>1 DEF Replacing, Lost, PoolInv, SpawnsKnown, old
  <2>3. Replaced' = {replaces[q] : q \in (Replacing \cup Lost) \ {p}}
    BY <1>1, <2>1 DEF Replaced
  <2>4. Gone' = Gone
    BY <1>1 DEF Gone
  <2> QED BY <2>2, <2>3, <2>4 DEF Replaced, old
<1>8. Places' = (Places \ {old}) \cup {p} /\ old \in Places /\ p \notin Places
  BY <1>2, <1>4, <1>5, <1>7 DEF Places
<1>9. Cardinality(Places') = Cardinality(Places)
  <2>1. IsFiniteSet(Places) /\ Cardinality(Places) \in Nat
    BY PlacesFinite DEF PoolInv
  <2>2. IsFiniteSet(Places \ {old}) /\ Cardinality(Places \ {old}) = Cardinality(Places) - 1
    BY <1>8, <2>1, FS_RemoveElement
  <2>3. Cardinality((Places \ {old}) \cup {p}) = Cardinality(Places \ {old}) + 1
    BY <1>8, <2>2, FS_AddElement
  <2> QED BY <1>8, <2>1, <2>2, <2>3
<1>10. Numbered' /\ SpawnsKnown'
  BY <1>1, <1>6, <1>7, SameSpawned DEF PoolInv, SpawnsKnown, procVars
<1>11. StartKnown'
  BY <1>1, <1>3, <1>6 DEF PoolInv, StartKnown, procVars
<1>12. PlacesKnown'
  BY <1>1, <1>2, <1>5, <1>6, <1>7 DEF PoolInv, PlacesKnown
<1>13. PlacesKept'
  <2>1. pool = "open" => p \notin ended
    BY <1>1 DEF PoolInv, SpawnsKnown
  <2>2. pool = "open" => all = Places /\ (Idle \cup Held) \cap ended = {}
    BY DEF PoolInv, PlacesKept
  <2>3. pool = "open" => all' = Places' /\ ((Idle \cup Held) \cap ended = {})'
    BY <1>1, <1>5, <1>8, <2>1, <2>2 DEF procVars
  <2> QED BY <1>1, <1>9, <2>3 DEF PoolInv, PlacesKept
<1>14. KnownEnded'
  <2>1. p \notin known
    BY <1>1 DEF PoolInv, KnownEnded
  <2> QED BY <1>1, <1>5, <1>6, <2>1 DEF PoolInv, KnownEnded, procVars
<1> QED BY <1>6, <1>10, <1>11, <1>12, <1>13, <1>14 DEF PoolInv

LEMMA CloseInv ==
  ASSUME PoolInv, Close \/ CloseResolves
  PROVE  PoolInv'
<1>0. /\ UNCHANGED <<life, lingers, shut, spawnVars, start, waiters, holds>> /\ pool' # "open"
      /\ available' = available \/ available' = <<>>
  BY DEF Close, CloseResolves, procVars, spawnVars
<1>1. /\ UNCHANGED <<life, lingers, shut, spawnVars, start, waiters, holds>> /\ pool' # "open"
      /\ Spawned' = Spawned /\ Elements(waiters)' = Elements(waiters) /\ NodeType'
      /\ available' = available \/ available' = <<>>
  <2>1. Spawned' = Spawned /\ Elements(waiters)' = Elements(waiters)
    <3>1. life' = life /\ waiters' = waiters
      BY <1>0
    <3> QED BY <3>1 DEF Spawned, Elements
  <2>2. /\ Idle \subseteq Proc /\ Held \subseteq Proc /\ available' \in Seq(Proc)
    <3>1. Held \subseteq Proc
      BY DEF PoolInv, NodeType, Held
    <3>2. available \in Seq(Proc)
      BY DEF PoolInv, NodeType
    <3>3. Idle \subseteq Proc
      BY <3>2 DEF Idle, Elements
    <3>4. <<>> \in Seq(Proc)
      OBVIOUS
    <3> QED BY <1>0, <3>1, <3>2, <3>3, <3>4
  <2>3. /\ ended' \in SUBSET Proc /\ all' \in SUBSET Proc /\ awaited' \in SUBSET Proc
        /\ known' \in SUBSET Proc /\ pool' \in {"open", "closing", "closed"}
    BY <2>2 DEF Close, CloseResolves, PoolInv, NodeType, Idle, procVars
  <2> QED BY <1>0, <2>1, <2>2, <2>3 DEF PoolInv, NodeType, spawnVars
<1>2. Held' = Held /\ Replaced' = Replaced /\ Gone' = Gone
  BY <1>1, SameReplaced DEF Held, spawnVars
<1>3. Idle' \subseteq Idle /\ Distinct(available)'
  BY <1>1 DEF Idle, Elements, PoolInv, PlacesKnown, Distinct
<1>4. Replaced \subseteq Gone
  BY DEF Replaced, Gone, Replacing, Lost
<1>5. ended \subseteq ended' /\ ended' \subseteq ended \cup (Spawned \ creating)
  <2>1. Close => all \subseteq Spawned \ creating
    BY <1>4 DEF Close, PoolInv, PlacesKept, Places, PlacesKnown, SpawnsKnown
  <2> QED BY <2>1 DEF Close, CloseResolves, procVars
<1>6. Numbered' /\ SpawnsKnown'
  BY <1>1, <1>2, <1>5, SameSpawned DEF PoolInv, SpawnsKnown, spawnVars
<1>7. StartKnown'
  <2>1. start # "resolved" => all' = {} /\ available' = <<>> /\ known' = {} /\ ended' = {}
    BY <1>1 DEF PoolInv, StartKnown, Close, CloseResolves, procVars, Idle, Elements
  <2> QED BY <1>1, <1>2, <2>1 DEF PoolInv, StartKnown, spawnVars
<1>8. PlacesKnown'
  BY <1>1, <1>2, <1>3 DEF PoolInv, PlacesKnown, spawnVars
<1>9. PlacesKept'
  <2>1. Places' \in SUBSET Places
    BY <1>2, <1>3 DEF Places
  <2>2. Cardinality(Places') =< Cardinality(Places) /\ Cardinality(Places') \in Nat
        /\ Cardinality(Places) \in Nat
    BY <2>1, <1>1, PlacesFinite, FS_Subset, FS_CardinalityType DEF PoolInv
  <2> QED BY <1>1, <2>2, NodePoolAssumption DEF PoolInv, PlacesKept
<1>10. KnownEnded'
  <2>1. CASE Close
    <3>1. pool = "open" /\ all = Places /\ (Idle \cup Held) \cap ended = {}
      BY <2>1 DEF Close, PoolInv, PlacesKept
    <3>2. known' = Idle \cup Held /\ awaited' = all \ ended /\ pool' = "closing"
      BY <2>1 DEF Close, Idle
    <3>3. known' \subseteq awaited' /\ known' \subseteq Spawned \ creating
      BY <3>1, <3>2 DEF Places, PoolInv, PlacesKnown
    <3> QED BY <1>1, <3>2, <3>3 DEF KnownEnded, spawnVars
  <2>2. CASE CloseResolves
    <3>1. Idle' = {}
      BY <2>2 DEF CloseResolves, Idle, Elements
    <3> QED BY <1>1, <2>2, <3>1 DEF CloseResolves, PoolInv, KnownEnded, spawnVars
  <2> QED BY <2>1, <2>2
<1> QED BY <1>1, <1>6, <1>7, <1>8, <1>9, <1>10 DEF PoolInv

LEMMA PoolStep ==
  ASSUME PoolInv, [Next]_vars
  PROVE  PoolInv'
<1>1. CASE UNCHANGED vars
  <2>1. NodeType' /\ Spawned' = Spawned
    BY <1>1 DEF vars, procVars, spawnVars, poolVars, PoolInv, NodeType, Spawned
  <2> QED BY <1>1, <2>1, LifeInv DEF vars, procVars, poolVars
<1>2. ASSUME NEW p \in Proc, Exits(p) \/ ToolEnds(p) \/ Shuts(p) \/ SpawnSettles(p)
      PROVE  PoolInv'
  BY <1>2, ExitsInv, SettleInv, ReplaceInv DEF SpawnSettles
<1>3. ASSUME NEW c \in Client, Acquire(c) \/ Release(c)
      PROVE  PoolInv'
  BY <1>3, AcquireInv, ReleaseAliveInv, ReleaseDeadInv, ReleaseClosedInv DEF Release
<1> QED BY <1>1, <1>2, <1>3, StartCallInv, StartResolvesInv, CloseInv DEF Next

LEMMA PoolInvariant == Spec => []PoolInv
<1>1. Init => PoolInv
  BY InitInv
<1>2. PoolInv /\ [Next]_vars => PoolInv'
  BY PoolStep
<1> QED BY <1>1, <1>2, PTL DEF Spec

-----------------------------------------------------------------------------
(* What follows from it.                                                   *)

LEMMA DisjointUnion ==
  ASSUME NEW S, NEW T, IsFiniteSet(S), IsFiniteSet(T), S \cap T = {}
  PROVE  IsFiniteSet(S \cup T) /\ Cardinality(S \cup T) = Cardinality(S) + Cardinality(T)
<1>1. /\ IsFiniteSet(S \cup T)
      /\ Cardinality(S \cup T) = Cardinality(S) + Cardinality(T) - Cardinality(S \cap T)
  BY FS_Union
<1>2. Cardinality(S \cap T) = 0 /\ Cardinality(S) \in Nat /\ Cardinality(T) \in Nat
  BY FS_EmptySet, FS_CardinalityType
<1> QED BY <1>1, <1>2

LEMMA Counts ==
  ASSUME PoolInv
  PROVE  /\ IsFiniteSet(Idle) /\ Cardinality(Idle) = Len(available)
         /\ Cardinality(Places) = Len(available) + Cardinality(Held) + Cardinality(Replaced)
         /\ Len(available) \in Nat /\ Cardinality(Held) \in Nat /\ Cardinality(Replaced) \in Nat
<1>1. IsFiniteSet(Idle) /\ Cardinality(Idle) = Len(available) /\ Len(available) \in Nat
  BY NumberOfElements DEF PoolInv, PlacesKnown, NodeType, Idle
<1>2. /\ IsFiniteSet(Held) /\ IsFiniteSet(Replaced)
      /\ Cardinality(Held) \in Nat /\ Cardinality(Replaced) \in Nat
  BY PlacesFinite, FS_Subset, FS_CardinalityType DEF PoolInv, Places
<1>3. Replaced \subseteq Gone
  BY DEF Replaced, Gone, Replacing, Lost
<1>4. Idle \cap Held = {} /\ (Idle \cup Held) \cap Replaced = {}
  BY <1>3 DEF PoolInv, PlacesKnown
<1>5. IsFiniteSet(Idle \cup Held) /\ Cardinality(Idle \cup Held) = Len(available) + Cardinality(Held)
  BY <1>1, <1>2, <1>4, DisjointUnion
<1>6. Cardinality(Places) = Cardinality(Idle \cup Held) + Cardinality(Replaced)
  BY <1>2, <1>4, <1>5, DisjointUnion DEF Places
<1> QED BY <1>1, <1>2, <1>5, <1>6

(* The types of NodePool; no more processes are idle than there are places,*)
(* and no client waits twice.                                              *)
THEOREM TypeCorrect == Spec => []TypeOK
<1>1. PoolInv => TypeOK
  <2> SUFFICES ASSUME PoolInv PROVE TypeOK
    OBVIOUS
  <2>1. Len(available) =< Size
    BY Counts, NodePoolAssumption DEF PoolInv, PlacesKept
  <2>2. Len(waiters) =< Cardinality(Client)
    <3>1. waiters \in Seq(Client) /\ Distinct(waiters) /\ Elements(waiters) \in SUBSET Client
      BY DEF PoolInv, NodeType, PlacesKnown, Elements
    <3>2. Cardinality(Elements(waiters)) = Len(waiters)
      BY <3>1, NumberOfElements
    <3> QED BY <3>1, <3>2, NodePoolAssumption, FS_Subset
  <2> QED BY <2>1, <2>2 DEF PoolInv, NodeType, TypeOK
<1> QED BY <1>1, PoolInvariant, PTL

(* While the pool is open none of its places is forgotten or filled twice: *)
(* each is idle, held, or that of a process that is being replaced or      *)
(* could not be, and #all names just these (release, #replaceProcess).     *)
THEOREM CapacityIsConserved == Spec => []CapacityConserved
<1>1. PoolInv => CapacityConserved
  <2> SUFFICES ASSUME PoolInv, pool = "open" PROVE CapacityConserved
    BY DEF CapacityConserved
  <2>1. all = Places /\ (Idle \cup Held) \cap (ended \cup creating) = {}
    BY DEF PoolInv, PlacesKept, PlacesKnown
  <2>2. start # "resolved" => Places = {}
    <3>1. start # "resolved" => all = {}
      BY DEF PoolInv, StartKnown
    <3> QED BY <2>1, <3>1
  <2>3. Cardinality(Places) = IF start = "resolved" THEN Size ELSE 0
    BY <2>2, FS_EmptySet DEF PoolInv, PlacesKept
  <2> QED BY <2>1, <2>3, Counts DEF CapacityConserved, Places, Idle, Replaced
<1> QED BY <1>1, PoolInvariant, PTL

(* What close() found idle or held is dead once close() has resolved, and  *)
(* neither a release nor a replacement that is under way brings it back.   *)
THEOREM CloseEndsAll == Spec => []CloseEndsKnown
<1>1. PoolInv => CloseEndsKnown
  BY DEF PoolInv, KnownEnded, CloseEndsKnown, Idle
<1> QED BY <1>1, PoolInvariant, PTL

-----------------------------------------------------------------------------
(* The refinement: every step is one of Pool's, or none.                   *)

(* What the mapping shows of the pool's processes.                         *)
Joined == Spawned \ (creating \cup failed)
View == <<Idle, holds, Joined, Replacing, Lost>>

(* A step that Pool does not see: it changes nothing of the view, or there *)
(* is no pool in use before it and after it.                               *)
LEMMA Unseen ==
  ASSUME Phase' = Phase, InUse => UNCHANGED View
  PROVE  [Promise!Next]_Promise!vars
<1>1. Phase' = Phase /\ InUse' = InUse
  BY DEF InUse
<1>2. InUse => /\ Elements(available)' = Elements(available) /\ holds' = holds
               /\ Joined' = Joined /\ Replacing' = Replacing /\ Lost' = Lost
  BY DEF View, Idle
<1> QED BY <1>1, <1>2 DEF Promise!vars, Promise!places, Joined, Spawned

(* The mapping has its own name for the cardinality of a set.              *)
LEMMA SameCardinality == \A S : Promise!Cardinality(S) = Cardinality(S)
  BY DEF Promise!Cardinality, Cardinality

LEMMA InUseKnown == InUse <=> pool = "open" /\ start = "resolved"
  BY DEF InUse, Phase

LEMMA VacantFinite ==
  /\ IsFiniteSet(Replacing) /\ IsFiniteSet(Lost)
  /\ Cardinality(Replacing) \in Nat /\ Cardinality(Lost) \in Nat
<1>1. Replacing \in SUBSET Proc /\ Lost \in SUBSET Proc
  BY DEF Replacing, Lost
<1> QED BY <1>1, ProcFinite, FS_Subset, FS_CardinalityType

LEMMA StartRefines ==
  ASSUME PoolInv, StartResolves
  PROVE  [Promise!Next]_Promise!vars
<1>1. CASE pool # "open"
  BY <1>1, Unseen DEF StartResolves, Phase, InUse
<1>2. CASE pool = "open"
  <2>1. Phase = "new" /\ Phase' = "open" /\ ~InUse /\ InUse'
    BY <1>2 DEF StartResolves, Phase, InUse
  <2>2. /\ First \cap (creating \cup failed) = {} /\ Spawned = First
        /\ available = <<>> /\ Held = {} /\ creating' = creating /\ failed' = failed
        /\ life' = life /\ holds' = holds /\ replaces' = replaces
    BY DEF StartResolves, PoolInv, StartKnown, procVars, spawnVars
  <2>3. (Spawned \ (creating \cup failed))' = First
    BY <2>2 DEF Spawned
  <2>4. Elements(available)' = First
    <3>1. [k \in First |-> k] \in Seq(Proc) /\ DOMAIN [k \in First |-> k] = First
      BY ProcFinite, NodePoolAssumption DEF First
    <3>2. available' = [k \in First |-> k]
      BY <2>2, <3>1 DEF StartResolves
    <3> QED BY <3>1, <3>2 DEF Elements
  <2>5. holds' = [c \in Client |-> None]
    BY <2>2 DEF Held, PoolInv, NodeType
  <2>6. Replacing' = {} /\ Lost' = {}
    BY <2>2 DEF Replacing, Lost, PoolInv, SpawnsKnown
  <2>7. Cardinality(Replacing') = 0 /\ Cardinality(Lost') = 0 /\ Cardinality(First) = Size
    BY <2>6, FS_EmptySet, FS_Interval, NodePoolAssumption DEF First
  <2>8. First \in SUBSET Proc
    BY ProcFinite
  <2>9. Promise!Open
    <3>1. \E procs \in SUBSET Proc :
            /\ Cardinality(procs) = Size
            /\ (IF InUse THEN Elements(available) ELSE {})' = procs
            /\ (IF InUse THEN {p \in Proc : life[p] # "none"} \ (creating \cup failed) ELSE {})' = procs
      BY <2>1, <2>3, <2>4, <2>7, <2>8 DEF Spawned
    <3>2. (IF InUse THEN holds ELSE [c \in Client |-> None])' = (IF InUse THEN holds ELSE [c \in Client |-> None])
      BY <2>1, <2>5
    <3>3. (IF InUse THEN Cardinality(Replacing) ELSE 0)' = IF InUse THEN Cardinality(Replacing) ELSE 0
      BY <2>1, <2>7
    <3>4. (IF InUse THEN Cardinality(Lost) ELSE 0)' = IF InUse THEN Cardinality(Lost) ELSE 0
      BY <2>1, <2>7
    <3> QED BY <2>1, <3>1, <3>2, <3>3, <3>4, SameCardinality DEF Promise!Open, Promise!places
  <2> QED BY <2>9 DEF Promise!Next
<1> QED BY <1>1, <1>2

LEMMA CloseRefines ==
  ASSUME Close \/ CloseResolves
  PROVE  [Promise!Next]_Promise!vars
<1>1. CASE Close
  <2>1. Phase # "closed" /\ Phase' = "closed" /\ ~InUse'
    BY <1>1 DEF Close, Phase, InUse
  <2>2. Promise!Close
    BY <2>1 DEF Promise!Close, Promise!Nobody
  <2> QED BY <2>2 DEF Promise!Next
<1>2. CASE CloseResolves
  BY <1>2, Unseen DEF CloseResolves, Phase, InUse
<1> QED BY <1>1, <1>2

(* While the pool is open Pool's variables are those of the view.          *)
LEMMA AcquireRefines ==
  ASSUME PoolInv, NEW c \in Client, Acquire(c)
  PROVE  [Promise!Next]_Promise!vars
<1>1. Phase = "open" /\ Phase' = "open" /\ InUse /\ InUse'
  BY DEF Acquire, Phase, InUse
<1>2. /\ life' = life /\ creating' = creating /\ failed' = failed /\ replaces' = replaces
      /\ Replacing' = Replacing /\ Lost' = Lost /\ Joined' = Joined
  BY DEF Acquire, procVars, spawnVars, Replacing, Lost, Joined, Spawned
<1>3. CASE available = <<>>
  BY <1>1, <1>2, <1>3, Unseen DEF Acquire, View, Idle
<1>4. CASE available # <<>>
  <2> DEFINE p == Head(available)
  <2>1. holds' = [holds EXCEPT ![c] = p] /\ available' = Tail(available) /\ holds[c] = None
    BY <1>4 DEF Acquire, Take
  <2>2. p \in Proc /\ p \in Elements(available) /\ Elements(Tail(available)) = Elements(available) \ {p}
    BY <1>4, TakeElement DEF PoolInv, NodeType, PlacesKnown
  <2> HIDE DEF p
  <2>3. Promise!Take(c, p)
    BY <1>1, <1>2, <2>1, <2>2 DEF Promise!Take, Promise!places, Joined, Spawned
  <2> QED BY <2>2, <2>3 DEF Promise!Next
<1> QED BY <1>3, <1>4

LEMMA ReleaseAliveRefines ==
  ASSUME PoolInv, NEW c \in Client, ReleaseAlive(c)
  PROVE  [Promise!Next]_Promise!vars
<1>0. start = "resolved" /\ waiters \in Seq(Client)
  BY DEF ReleaseAlive, PoolInv, StartKnown, Held, NodeType
<1>1. /\ Phase = "open" /\ Phase' = "open" /\ InUse /\ InUse'
      /\ holds[c] # None /\ holds[c] \in Proc /\ holds \in [Client -> Proc \cup {None}]
  BY <1>0 DEF ReleaseAlive, Phase, InUse, PoolInv, NodeType
<1>2. /\ life' = life /\ creating' = creating /\ failed' = failed /\ replaces' = replaces
      /\ Replacing' = Replacing /\ Lost' = Lost /\ Joined' = Joined
  BY DEF ReleaseAlive, procVars, spawnVars, Replacing, Lost, Joined, Spawned
<1>3. CASE waiters = <<>>
  <2>1. holds' = [holds EXCEPT ![c] = None] /\ available' = Append(available, holds[c])
    BY <1>3 DEF ReleaseAlive, HandOff, Freed
  <2>2. Elements(available)' = Elements(available) \cup {holds[c]}
    BY <1>1, <2>1, AppendElement DEF PoolInv, NodeType
  <2>3. Promise!GiveBack(c)
    BY <1>1, <1>2, <2>1, <2>2 DEF Promise!GiveBack, Promise!places, Joined, Spawned
  <2> QED BY <2>3 DEF Promise!Next
<1>4. CASE waiters # <<>>
  <2> DEFINE d == Head(waiters)
  <2>1. holds' = [[holds EXCEPT ![c] = None] EXCEPT ![d] = holds[c]] /\ available' = available
    BY <1>4 DEF ReleaseAlive, HandOff, Freed
  <2>2. d \in Client /\ d \in Elements(waiters)
    BY <1>0, <1>4, TakeElement
  <2>3. holds[d] = None
    BY <2>2 DEF PoolInv, PlacesKnown
  <2> HIDE DEF d
  <2>4. holds' = [holds EXCEPT ![c] = None, ![d] = holds[c]]
    BY <2>1
  <2>5. Promise!HandOver(c, d)
    BY <1>1, <1>2, <2>1, <2>3, <2>4 DEF Promise!HandOver, Promise!places, Joined, Spawned
  <2> QED BY <2>2, <2>5 DEF Promise!Next
<1> QED BY <1>3, <1>4

LEMMA ReleaseDeadRefines ==
  ASSUME PoolInv, NEW c \in Client, ReleaseDead(c)
  PROVE  [Promise!Next]_Promise!vars
<1> DEFINE new == Fresh
<1>0. start = "resolved"
  BY DEF ReleaseDead, PoolInv, StartKnown, Held
<1>1. /\ Phase = "open" /\ Phase' = "open" /\ InUse /\ InUse' /\ holds[c] # None
      /\ available' = available /\ holds' = [holds EXCEPT ![c] = None]
  BY <1>0 DEF ReleaseDead, Phase, InUse, poolVars, Freed
<1>2. Spawned' = Spawned \cup {new} /\ new \in Proc /\ new \notin Spawned
  BY BornNext, FreshNumber DEF ReleaseDead, PoolInv
<1>3. /\ creating' = creating \cup {new} /\ failed' = failed
      /\ replaces' = [replaces EXCEPT ![new] = holds[c]]
  BY DEF ReleaseDead
<1> HIDE DEF new
<1>4. new \notin creating \cup failed
  BY <1>2 DEF PoolInv, SpawnsKnown
<1>5. /\ replaces'[new] # None /\ \A p \in Proc \ {new} : replaces'[p] = replaces[p]
  BY <1>1, <1>2, <1>3 DEF PoolInv, NodeType
<1>6. Replacing' = Replacing \cup {new} /\ new \notin Replacing /\ Lost' = Lost
  BY <1>2, <1>3, <1>4, <1>5 DEF Replacing, Lost
<1>7. Cardinality(Replacing') = Cardinality(Replacing) + 1
  BY <1>6, VacantFinite, FS_AddElement
<1>8. (Spawned \ (creating \cup failed))' = Spawned \ (creating \cup failed)
  BY <1>2, <1>3, <1>4
<1>9. Promise!Retire(c)
  BY <1>1, <1>6, <1>7, <1>8 DEF Promise!Retire, Spawned
<1> QED BY <1>9 DEF Promise!Next

LEMMA ReplaceRefines ==
  ASSUME PoolInv, NEW p \in Proc, Replace(p)
  PROVE  [Promise!Next]_Promise!vars
<1>0. /\ p \in creating /\ creating' = creating \ {p} /\ HandOff(p, holds) /\ replaces[p] # None
      /\ UNCHANGED <<procVars, failed, replaces, start, pool, awaited, known>>
  BY DEF Replace
<1>1. CASE ~InUse
  BY <1>0, <1>1, Unseen DEF Phase, InUse
<1>2. CASE InUse
  <2>1. Phase = "open" /\ Phase' = "open" /\ InUse'
    BY <1>0, <1>2 DEF Phase, InUse
  <2>2. Replacing' = Replacing \ {p} /\ p \in Replacing /\ Lost' = Lost
    BY <1>0 DEF Replacing, Lost
  <2>3. Cardinality(Replacing') = Cardinality(Replacing) - 1 /\ Cardinality(Replacing) > 0
    <3>1. Cardinality(Replacing \ {p}) = Cardinality(Replacing) - 1
      BY <2>2, VacantFinite, FS_RemoveElement
    <3>2. Cardinality(Replacing) # 0
      BY <2>2, VacantFinite, FS_EmptySet
    <3> QED BY <2>2, <3>1, <3>2, VacantFinite
  <2>4. /\ (Spawned \ (creating \cup failed))' = (Spawned \ (creating \cup failed)) \cup {p}
        /\ p \notin Spawned \ (creating \cup failed)
    BY <1>0 DEF procVars, Spawned, PoolInv, SpawnsKnown
  <2>5. /\ available \in Seq(Proc) /\ waiters \in Seq(Client)
        /\ holds \in [Client -> Proc \cup {None}]
    BY DEF PoolInv, NodeType
  <2>6. CASE waiters = <<>>
    <3>1. holds' = holds /\ available' = Append(available, p)
      BY <1>0, <2>6 DEF HandOff
    <3>2. Elements(available)' = Elements(available) \cup {p}
      BY <2>5, <3>1, AppendElement
    <3>3. Promise!Refill(p)
      BY <1>2, <2>1, <2>2, <2>3, <2>4, <3>1, <3>2, SameCardinality DEF Promise!Refill, Spawned
    <3> QED BY <3>3 DEF Promise!Next
  <2>7. CASE waiters # <<>>
    <3> DEFINE d == Head(waiters)
    <3>1. holds' = [holds EXCEPT ![d] = p] /\ available' = available
      BY <1>0, <2>7 DEF HandOff
    <3>2. d \in Client /\ d \in Elements(waiters)
      BY <2>5, <2>7, TakeElement
    <3>3. holds[d] = None
      BY <3>2 DEF PoolInv, PlacesKnown
    <3> HIDE DEF d
    <3>4. Promise!RefillFor(d, p)
      BY <1>2, <2>1, <2>2, <2>3, <2>4, <3>1, <3>3 DEF Promise!RefillFor, Spawned
    <3> QED BY <3>2, <3>4 DEF Promise!Next
  <2> QED BY <2>6, <2>7
<1> QED BY <1>1, <1>2

LEMMA SettleRefines ==
  ASSUME PoolInv, NEW p \in Proc, SpawnResolves(p) \/ SpawnRejects(p)
  PROVE  [Promise!Next]_Promise!vars
<1>1. /\ p \in creating /\ creating' = creating \ {p}
      /\ UNCHANGED <<procVars, replaces, pool, all, available, waiters, awaited, holds, known>>
  BY DEF SpawnResolves, SpawnRejects, poolVars
<1>2. /\ p \in Spawned /\ (replaces[p] # None <=> p \notin First) /\ p \notin failed
      /\ p \in First => start # "resolved"
  BY <1>1 DEF PoolInv, SpawnsKnown, StartKnown
<1>3. CASE ~InUse
  <2>1. start' = start \/ (start # "resolved" /\ start' # "resolved")
    BY <1>2 DEF SpawnResolves, SpawnRejects, poolVars
  <2>2. Phase' = Phase
    BY <1>1, <2>1 DEF Phase
  <2> QED BY <1>3, <2>2, Unseen
<1>4. CASE InUse
  <2>1. start = "resolved" /\ p \notin First /\ replaces[p] # None
    BY <1>2, <1>4, InUseKnown
  <2>2. /\ failed' = failed \cup {p} /\ start' = start
        /\ available' = available /\ holds' = holds /\ life' = life
    BY <1>1, <2>1 DEF SpawnResolves, SpawnRejects, procVars
  <2>3. Phase = "open" /\ Phase' = "open" /\ InUse'
    BY <1>1, <1>4, <2>2 DEF Phase, InUse
  <2>4. /\ Replacing' = Replacing \ {p} /\ p \in Replacing
        /\ Lost' = Lost \cup {p} /\ p \notin Lost
    BY <1>1, <1>2, <2>1, <2>2 DEF Replacing, Lost
  <2>5. /\ Cardinality(Replacing') = Cardinality(Replacing) - 1 /\ Cardinality(Replacing) > 0
        /\ Cardinality(Lost') = Cardinality(Lost) + 1
    <3>1. Cardinality(Replacing \ {p}) = Cardinality(Replacing) - 1
      BY <2>4, VacantFinite, FS_RemoveElement
    <3>2. Cardinality(Replacing) # 0
      BY <2>4, VacantFinite, FS_EmptySet
    <3>3. Cardinality(Lost \cup {p}) = Cardinality(Lost) + 1
      BY <2>4, VacantFinite, FS_AddElement
    <3> QED BY <2>4, <3>1, <3>2, <3>3, VacantFinite
  <2>6. (Spawned \ (creating \cup failed))' = Spawned \ (creating \cup failed)
    BY <1>1, <2>2 DEF Spawned
  <2>7. Promise!Lose
    BY <1>4, <2>2, <2>3, <2>5, <2>6 DEF Promise!Lose, Spawned
  <2> QED BY <2>7 DEF Promise!Next
<1> QED BY <1>3, <1>4

LEMMA QuietRefines ==
  ASSUME PoolInv,
         \/ \E p \in Proc : Exits(p) \/ ToolEnds(p) \/ Shuts(p)
         \/ StartCall \/ UNCHANGED vars
         \/ \E c \in Client : ReleaseClosed(c)
  PROVE  [Promise!Next]_Promise!vars
<1>1. Phase' = Phase
  BY DEF Exits, ToolEnds, Shuts, StartCall, ReleaseClosed, vars, poolVars, Phase
<1>2. CASE StartCall \/ \E c \in Client : ReleaseClosed(c)
  <2>1. ~InUse
    BY <1>2 DEF StartCall, ReleaseClosed, InUse, Phase
  <2> QED BY <1>1, <2>1, Unseen
<1>3. CASE UNCHANGED vars \/ \E p \in Proc : Exits(p) \/ ToolEnds(p) \/ Shuts(p)
  <2>1. UNCHANGED <<spawnVars, available, holds>>
    BY <1>3 DEF Exits, ToolEnds, Shuts, vars, poolVars
  <2>2. Spawned' = Spawned
    BY <1>3 DEF Exits, ToolEnds, Shuts, vars, procVars, Spawned, PoolInv, NodeType
  <2>3. UNCHANGED View
    BY <2>1, <2>2 DEF View, Idle, Elements, Joined, Replacing, Lost, spawnVars
  <2> QED BY <1>1, <2>3, Unseen
<1> QED BY <1>2, <1>3

LEMMA PromiseStep ==
  ASSUME PoolInv, [Next]_vars
  PROVE  [Promise!Next]_Promise!vars
<1>1. ASSUME NEW p \in Proc, Exits(p) \/ ToolEnds(p) \/ Shuts(p) \/ SpawnSettles(p)
      PROVE  [Promise!Next]_Promise!vars
  BY <1>1, QuietRefines, SettleRefines, ReplaceRefines DEF SpawnSettles
<1>2. ASSUME NEW c \in Client, Acquire(c) \/ Release(c)
      PROVE  [Promise!Next]_Promise!vars
  BY <1>2, AcquireRefines, ReleaseAliveRefines, ReleaseDeadRefines, QuietRefines DEF Release
<1> QED BY <1>1, <1>2, StartRefines, CloseRefines, QuietRefines DEF Next

(* The Node pool is a Pool: no process is in two hands, idle and held at   *)
(* once, or back after it was given up, and every place is filled again    *)
(* once, for any interleaving of spawns, exits, releases and close().      *)
THEOREM NodePoolIsPool == Spec => ImplementsPool
<1>1. Init => Promise!Init
  <2> SUFFICES ASSUME Init PROVE Promise!Init
    OBVIOUS
  <2>1. Phase = "new" /\ ~InUse
    BY DEF Init, Phase, InUse
  <2> QED BY <2>1 DEF Promise!Init, Promise!Nobody
<1>2. PoolInv /\ [Next]_vars => [Promise!Next]_Promise!vars
  BY PromiseStep
<1> QED BY <1>1, <1>2, PoolInvariant, PTL DEF Spec, ImplementsPool, Promise!Spec

=============================================================================
