---------------------------- MODULE Pool_proofs ----------------------------
(***************************************************************************)
(* Proofs about module Pool: what the two SDKs' pools, which implement it, *)
(* owe to it, for any number of clients, processes and places.             *)
(***************************************************************************)
EXTENDS Pool, FiniteSetTheorems, TLAPS

Users == {c \in Client : user[c] # None}
Present == idle \cup {user[c] : c \in Users}

(* Nobody shares a process, and none that is held is idle as well.         *)
Exclusive ==
  /\ \A c, d \in Users : user[c] = user[d] => c = d
  /\ \A c \in Users : user[c] \notin idle

(* Each place is accounted for, once.                                      *)
NoneForgotten ==
  phase = "open" => Cardinality(idle) + Cardinality(Users) + vacant + lost = Size

PoolType ==
  /\ phase \in {"new", "open", "closed"}
  /\ idle \in SUBSET Proc /\ user \in [Client -> Proc \cup {None}] /\ used \in SUBSET Proc
  /\ vacant \in Nat /\ lost \in Nat
  /\ idle \subseteq used /\ \A c \in Users : user[c] \in used
  /\ phase # "open" => idle = {} /\ Users = {} /\ used = {} /\ vacant = 0 /\ lost = 0

PoolInv == PoolType /\ Exclusive /\ NoneForgotten

Finite == IsFiniteSet(Client) /\ IsFiniteSet(Proc) /\ None \notin Proc /\ Size \in Nat

LEMMA Counts ==
  ASSUME Finite, PoolType
  PROVE  /\ IsFiniteSet(idle) /\ Cardinality(idle) \in Nat
         /\ IsFiniteSet(Users) /\ Cardinality(Users) \in Nat
<1>1. IsFiniteSet(idle) /\ IsFiniteSet(Users)
  BY FS_Subset DEF Finite, PoolType, Users
<1> QED BY <1>1, FS_CardinalityType

LEMMA PoolInit == Finite /\ Init => PoolInv
  BY DEF Finite, Init, Nobody, PoolInv, PoolType, Exclusive, NoneForgotten, Users

(* A client gives up its process.                                          *)
LEMMA GivenUp ==
  ASSUME Finite, PoolInv, NEW c \in Users, user' = [user EXCEPT ![c] = None]
  PROVE  /\ user' \in [Client -> Proc \cup {None}]
         /\ Users' = Users \ {c} /\ Cardinality(Users') = Cardinality(Users) - 1
         /\ \A d \in Users' : user'[d] = user[d] /\ user[d] # user[c]
<1>1. user \in [Client -> Proc \cup {None}] /\ c \in Client
  BY DEF PoolInv, PoolType, Users
<1>2. Users' = Users \ {c}
  BY <1>1 DEF Users
<1>3. Cardinality(Users \ {c}) = Cardinality(Users) - 1
  BY Counts, FS_RemoveElement DEF PoolInv
<1>4. \A d \in Users' : user'[d] = user[d] /\ user[d] # user[c]
  BY <1>1, <1>2 DEF PoolInv, Exclusive, Users
<1> QED BY <1>1, <1>2, <1>3, <1>4

(* And a client that has none gets one that nobody has.                    *)
LEMMA Given ==
  ASSUME Finite, PoolInv, NEW c \in Client, user[c] = None, NEW p \in Proc,
         user' = [user EXCEPT ![c] = p]
  PROVE  /\ user' \in [Client -> Proc \cup {None}]
         /\ Users' = Users \cup {c} /\ Cardinality(Users') = Cardinality(Users) + 1
         /\ user'[c] = p /\ \A d \in Users : user'[d] = user[d] /\ d # c
<1>1. user \in [Client -> Proc \cup {None}] /\ p # None
  BY DEF PoolInv, PoolType, Finite
<1>2. Users' = Users \cup {c} /\ c \notin Users
  BY <1>1 DEF Users
<1>3. Cardinality(Users \cup {c}) = Cardinality(Users) + 1
  BY <1>2, Counts, FS_AddElement DEF PoolInv
<1> QED BY <1>1, <1>2, <1>3

LEMMA Joins ==
  ASSUME Finite, PoolInv, NEW p, p \notin idle
  PROVE  Cardinality(idle \cup {p}) = Cardinality(idle) + 1
  BY Counts, FS_AddElement DEF PoolInv

LEMMA Leaves ==
  ASSUME Finite, PoolInv, NEW p \in idle
  PROVE  Cardinality(idle \ {p}) = Cardinality(idle) - 1
  BY Counts, FS_RemoveElement DEF PoolInv

(* The shape of each move: who gives up and who gets what.                 *)
LEMMA AfterGivingUp ==
  ASSUME Finite, PoolInv, phase = "open", phase' = "open", NEW c \in Users,
         user' = [user EXCEPT ![c] = None],
         idle' \in SUBSET Proc, used' \in SUBSET Proc, vacant' \in Nat, lost' \in Nat,
         used \subseteq used', idle' \subseteq used', \A d \in Users \ {c} : user[d] \notin idle',
         Cardinality(idle') + vacant' + lost' = Cardinality(idle) + vacant + lost + 1
  PROVE  PoolInv'
<1>1. /\ user' \in [Client -> Proc \cup {None}]
      /\ Users' = Users \ {c} /\ Cardinality(Users') = Cardinality(Users) - 1
      /\ \A d \in Users' : user'[d] = user[d] /\ user[d] # user[c]
  BY GivenUp
<1>2. PoolType'
  BY <1>1 DEF PoolInv, PoolType
<1>3. Exclusive'
  BY <1>1 DEF PoolInv, Exclusive
<1>4. /\ Cardinality(idle) \in Nat /\ Cardinality(Users) \in Nat /\ vacant \in Nat /\ lost \in Nat
      /\ Cardinality(idle) + Cardinality(Users) + vacant + lost = Size
  BY Counts DEF PoolInv, PoolType, NoneForgotten
<1>5. Cardinality(idle') \in Nat
  BY <1>2, FS_Subset, FS_CardinalityType DEF Finite, PoolType
<1>6. NoneForgotten'
  BY <1>1, <1>2, <1>4, <1>5 DEF NoneForgotten, PoolType
<1> QED BY <1>2, <1>3, <1>6 DEF PoolInv

LEMMA AfterGetting ==
  ASSUME Finite, PoolInv, phase = "open", phase' = "open", NEW c \in Client, user[c] = None,
         NEW p \in Proc, user' = [user EXCEPT ![c] = p], \A d \in Users : user[d] # p,
         idle' \in SUBSET idle, p \notin idle',
         used' \in SUBSET Proc, used \subseteq used', p \in used', vacant' \in Nat, lost' \in Nat,
         Cardinality(idle') + vacant' + lost' + 1 = Cardinality(idle) + vacant + lost
  PROVE  PoolInv'
<1>1. /\ user' \in [Client -> Proc \cup {None}]
      /\ Users' = Users \cup {c} /\ Cardinality(Users') = Cardinality(Users) + 1
      /\ user'[c] = p /\ \A d \in Users : user'[d] = user[d] /\ d # c
  BY Given
<1>2. PoolType'
  BY <1>1 DEF PoolInv, PoolType
<1>3. Exclusive'
  BY <1>1 DEF PoolInv, Exclusive
<1>4. /\ Cardinality(idle) \in Nat /\ Cardinality(Users) \in Nat /\ vacant \in Nat /\ lost \in Nat
      /\ Cardinality(idle) + Cardinality(Users) + vacant + lost = Size
  BY Counts DEF PoolInv, PoolType, NoneForgotten
<1>5. Cardinality(idle') \in Nat
  BY <1>2, FS_Subset, FS_CardinalityType DEF Finite, PoolType
<1>6. NoneForgotten'
  BY <1>1, <1>2, <1>4, <1>5 DEF NoneForgotten, PoolType
<1> QED BY <1>2, <1>3, <1>6 DEF PoolInv

LEMMA PoolMoves ==
  ASSUME Finite, PoolInv,
         NEW c \in Client,
         GiveBack(c) \/ Retire(c) \/ Forfeit(c) \/ (\E d \in Client : HandOver(c, d))
           \/ (\E p \in Proc : Take(c, p) \/ Exchange(c, p) \/ RefillFor(c, p))
  PROVE  PoolInv'
<1>0. /\ Cardinality(idle) \in Nat /\ Cardinality(Users) \in Nat
      /\ idle \in SUBSET Proc /\ used \in SUBSET Proc /\ idle \subseteq used
      /\ vacant \in Nat /\ lost \in Nat
      /\ \A d \in Users : user[d] \in used /\ user[d] \notin idle
      /\ \A d, e \in Users : user[d] = user[e] => d = e
      /\ user[c] # None => c \in Users /\ user[c] \in Proc
  BY Counts DEF PoolInv, PoolType, Exclusive, Users
<1>1. CASE GiveBack(c)
  <2>1. /\ phase = "open" /\ phase' = "open" /\ c \in Users /\ user' = [user EXCEPT ![c] = None]
        /\ idle' = idle \cup {user[c]} /\ UNCHANGED <<used, vacant, lost>>
    BY <1>0, <1>1 DEF GiveBack, places
  <2>2. /\ idle' \in SUBSET Proc /\ used' \in SUBSET Proc /\ vacant' \in Nat /\ lost' \in Nat
        /\ used \subseteq used' /\ idle' \subseteq used'
        /\ \A d \in Users \ {c} : user[d] \notin idle'
    BY <1>0, <2>1
  <2>3. Cardinality(idle') + vacant' + lost' = Cardinality(idle) + vacant + lost + 1
    BY <1>0, <2>1, Joins
  <2> QED BY <2>1, <2>2, <2>3, AfterGivingUp
<1>2. CASE Retire(c)
  <2>1. /\ phase = "open" /\ phase' = "open" /\ c \in Users /\ user' = [user EXCEPT ![c] = None]
        /\ vacant' = vacant + 1 /\ UNCHANGED <<idle, used, lost>>
    BY <1>0, <1>2 DEF Retire
  <2>2. /\ idle' \in SUBSET Proc /\ used' \in SUBSET Proc /\ vacant' \in Nat /\ lost' \in Nat
        /\ used \subseteq used' /\ idle' \subseteq used'
        /\ \A d \in Users \ {c} : user[d] \notin idle'
    BY <1>0, <2>1
  <2>3. Cardinality(idle') + vacant' + lost' = Cardinality(idle) + vacant + lost + 1
    BY <1>0, <2>1
  <2> QED BY <2>1, <2>2, <2>3, AfterGivingUp
<1>3. CASE Forfeit(c)
  <2>1. /\ phase = "open" /\ phase' = "open" /\ c \in Users /\ user' = [user EXCEPT ![c] = None]
        /\ lost' = lost + 1 /\ UNCHANGED <<idle, used, vacant>>
    BY <1>0, <1>3 DEF Forfeit
  <2>2. /\ idle' \in SUBSET Proc /\ used' \in SUBSET Proc /\ vacant' \in Nat /\ lost' \in Nat
        /\ used \subseteq used' /\ idle' \subseteq used'
        /\ \A d \in Users \ {c} : user[d] \notin idle'
    BY <1>0, <2>1
  <2>3. Cardinality(idle') + vacant' + lost' = Cardinality(idle) + vacant + lost + 1
    BY <1>0, <2>1
  <2> QED BY <2>1, <2>2, <2>3, AfterGivingUp
<1>4. ASSUME NEW p \in Proc, Take(c, p) PROVE PoolInv'
  <2>1. /\ phase = "open" /\ phase' = "open" /\ user[c] = None /\ user' = [user EXCEPT ![c] = p]
        /\ p \in idle /\ idle' = idle \ {p} /\ UNCHANGED <<used, vacant, lost>>
    BY <1>0, <1>4 DEF Take, places
  <2>2. /\ idle' \in SUBSET idle /\ p \notin idle' /\ used' \in SUBSET Proc /\ used \subseteq used'
        /\ p \in used' /\ vacant' \in Nat /\ lost' \in Nat /\ \A d \in Users : user[d] # p
    BY <1>0, <2>1
  <2>3. Cardinality(idle') + vacant' + lost' + 1 = Cardinality(idle) + vacant + lost
    BY <1>0, <2>1, Leaves
  <2> QED BY <2>1, <2>2, <2>3, AfterGetting
<1>5. ASSUME NEW p \in Proc, Exchange(c, p) PROVE PoolInv'
  <2>1. /\ phase = "open" /\ phase' = "open" /\ c \in Users /\ user' = [user EXCEPT ![c] = None]
        /\ p \notin used /\ idle' = idle \cup {p} /\ used' = used \cup {p} /\ UNCHANGED <<vacant, lost>>
    BY <1>0, <1>5 DEF Exchange, places
  <2>2. /\ idle' \in SUBSET Proc /\ used' \in SUBSET Proc /\ vacant' \in Nat /\ lost' \in Nat
        /\ used \subseteq used' /\ idle' \subseteq used'
        /\ \A d \in Users \ {c} : user[d] \notin idle'
    BY <1>0, <2>1
  <2>3. Cardinality(idle') + vacant' + lost' = Cardinality(idle) + vacant + lost + 1
    BY <1>0, <2>1, Joins
  <2> QED BY <2>1, <2>2, <2>3, AfterGivingUp
<1>6. ASSUME NEW p \in Proc, RefillFor(c, p) PROVE PoolInv'
  <2>1. /\ phase = "open" /\ phase' = "open" /\ user[c] = None /\ user' = [user EXCEPT ![c] = p]
        /\ p \notin used /\ vacant > 0 /\ used' = used \cup {p} /\ vacant' = vacant - 1 /\ UNCHANGED <<idle, lost>>
    BY <1>0, <1>6 DEF RefillFor
  <2>2. /\ idle' \in SUBSET idle /\ p \notin idle' /\ used' \in SUBSET Proc /\ used \subseteq used'
        /\ p \in used' /\ vacant' \in Nat /\ lost' \in Nat /\ \A d \in Users : user[d] # p
    BY <1>0, <2>1
  <2>3. Cardinality(idle') + vacant' + lost' + 1 = Cardinality(idle) + vacant + lost
    BY <1>0, <2>1
  <2> QED BY <2>1, <2>2, <2>3, AfterGetting
<1>7. ASSUME NEW d \in Client, HandOver(c, d) PROVE PoolInv'
  <2>1. /\ phase = "open" /\ c \in Users /\ d \in Client \ Users /\ user[c] \in Proc \ {None}
        /\ user \in [Client -> Proc \cup {None}] /\ c # d
        /\ user' = [user EXCEPT ![c] = None, ![d] = user[c]]
        /\ UNCHANGED <<phase, idle, used, vacant, lost>>
    BY <1>0, <1>7 DEF HandOver, places, Users, Finite, PoolInv, PoolType
  <2>2. user' \in [Client -> Proc \cup {None}] /\ Users' = (Users \ {c}) \cup {d}
    BY <2>1 DEF Users
  <2>3. Cardinality((Users \ {c}) \cup {d}) = Cardinality(Users)
    <3>1. IsFiniteSet(Users \ {c}) /\ Cardinality(Users \ {c}) = Cardinality(Users) - 1
      BY <2>1, Counts, FS_RemoveElement DEF PoolInv
    <3>2. d \notin Users \ {c}
      BY <2>1
    <3>3. Cardinality((Users \ {c}) \cup {d}) = Cardinality(Users \ {c}) + 1
      BY <3>1, <3>2, FS_AddElement
    <3> QED BY <1>0, <3>1, <3>3
  <2>4. user'[d] = user[c]
    BY <2>1
  <2>5. \A e \in Users \ {c} : user'[e] = user[e] /\ user[e] # user[c]
    <3> SUFFICES ASSUME NEW e \in Users \ {c} PROVE user'[e] = user[e] /\ user[e] # user[c]
      OBVIOUS
    <3>1. e \in Client /\ e # c /\ e # d
      BY <2>1 DEF Users
    <3> QED BY <1>0, <2>1, <3>1
  <2>6. \A e \in Users' : e = d \/ e \in Users \ {c}
    BY <2>2
  <2>7. \A e \in Users' : user'[e] \in used /\ user'[e] \notin idle
    BY <1>0, <2>1, <2>4, <2>5, <2>6
  <2>8. \A e, f \in Users' : user'[e] = user'[f] => e = f
    BY <1>0, <2>4, <2>5, <2>6
  <2>9. Exclusive'
    BY <2>1, <2>7, <2>8 DEF Exclusive
  <2>10. PoolType'
    <3>1. /\ phase' = "open" /\ idle' \in SUBSET Proc /\ used' \in SUBSET Proc /\ idle' \subseteq used'
          /\ vacant' \in Nat /\ lost' \in Nat /\ \A e \in Users' : user'[e] \in used'
      BY <1>0, <2>1, <2>7
    <3> QED BY <2>2, <3>1 DEF PoolType
  <2>11. NoneForgotten'
    BY <2>1, <2>2, <2>3 DEF PoolInv, NoneForgotten
  <2> QED BY <2>9, <2>10, <2>11 DEF PoolInv
<1> QED BY <1>1, <1>2, <1>3, <1>4, <1>5, <1>6, <1>7

(* And the moves of no client in particular.                               *)
LEMMA PoolOpens == ASSUME Finite, PoolInv, Open PROVE PoolInv'
<1>1. /\ phase = "new" /\ phase' = "open" /\ idle' \in SUBSET Proc /\ used' = idle'
      /\ Cardinality(idle') = Size /\ UNCHANGED <<user, vacant, lost>>
  BY DEF Open, places
<1>2. Users' = {} /\ user' \in [Client -> Proc \cup {None}] /\ vacant' = 0 /\ lost' = 0
  BY <1>1 DEF Users, PoolInv, PoolType
<1>3. PoolType'
  BY <1>1, <1>2 DEF PoolType
<1>4. Exclusive'
  BY <1>2 DEF Exclusive
<1>5. NoneForgotten'
  <2>1. Cardinality(Users') = 0
    BY <1>2, FS_EmptySet
  <2>2. Size \in Nat
    BY DEF Finite
  <2> QED BY <1>1, <1>2, <2>1, <2>2 DEF NoneForgotten
<1> QED BY <1>3, <1>4, <1>5 DEF PoolInv

LEMMA PoolLoses == ASSUME Finite, PoolInv, Lose PROVE PoolInv'
<1>1. /\ phase = "open" /\ UNCHANGED <<phase, idle, user, used>>
      /\ vacant' = vacant - 1 /\ lost' = lost + 1 /\ vacant > 0 /\ vacant \in Nat /\ lost \in Nat
  BY DEF Lose, PoolInv, PoolType
<1>2. Users' = Users
  BY <1>1 DEF Users
<1>3. vacant' \in Nat /\ lost' \in Nat
  BY <1>1
<1>4. PoolType'
  BY <1>1, <1>2, <1>3 DEF PoolInv, PoolType
<1>5. Exclusive'
  BY <1>1, <1>2 DEF PoolInv, Exclusive
<1>6. Cardinality(idle) \in Nat /\ Cardinality(Users) \in Nat
  BY Counts DEF PoolInv
<1>7. NoneForgotten'
  BY <1>1, <1>2, <1>6 DEF PoolInv, NoneForgotten
<1> QED BY <1>4, <1>5, <1>7 DEF PoolInv

LEMMA PoolCloses == ASSUME Finite, PoolInv, Close PROVE PoolInv'
<1>1. phase' = "closed" /\ idle' = {} /\ user' = Nobody /\ used' = {} /\ vacant' = 0 /\ lost' = 0
  BY DEF Close
<1>2. Users' = {} /\ user' \in [Client -> Proc \cup {None}]
  BY <1>1 DEF Users, Nobody
<1> QED BY <1>1, <1>2 DEF PoolInv, PoolType, Exclusive, NoneForgotten

LEMMA PoolRefills == ASSUME Finite, PoolInv, NEW p \in Proc, Refill(p) PROVE PoolInv'
<1>1. /\ phase = "open" /\ vacant > 0 /\ p \notin used /\ UNCHANGED <<phase, user, lost>>
      /\ idle' = idle \cup {p} /\ used' = used \cup {p} /\ vacant' = vacant - 1
  BY DEF Refill
<1>2. /\ idle \subseteq used /\ idle \in SUBSET Proc /\ used \in SUBSET Proc
      /\ \A c \in Users : user[c] \in used /\ user[c] \notin idle
      /\ vacant \in Nat /\ lost \in Nat
  BY DEF PoolInv, PoolType, Exclusive
<1>3. Users' = Users
  BY <1>1 DEF Users
<1>4. PoolType'
  BY <1>1, <1>2, <1>3 DEF PoolInv, PoolType
<1>5. Exclusive'
  BY <1>1, <1>2, <1>3 DEF PoolInv, Exclusive
<1>6. /\ Cardinality(idle) \in Nat /\ Cardinality(Users) \in Nat
      /\ Cardinality(idle') = Cardinality(idle) + 1
  BY <1>1, <1>2, Counts, Joins DEF PoolInv
<1>7. NoneForgotten'
  BY <1>1, <1>2, <1>3, <1>6 DEF PoolInv, NoneForgotten
<1> QED BY <1>4, <1>5, <1>7 DEF PoolInv

LEMMA PoolNext == ASSUME Finite, PoolInv, [Next]_vars PROVE PoolInv'
<1>1. CASE UNCHANGED vars
  BY <1>1 DEF vars, places, PoolInv, PoolType, Exclusive, NoneForgotten, Users
<1>2. CASE Next
  BY <1>2, PoolOpens, PoolLoses, PoolCloses, PoolRefills, PoolMoves DEF Next
<1> QED BY <1>1, <1>2

(* No process is ever held twice, or held and idle, and while the pool is  *)
(* open every place is idle, held, vacant or lost, exactly one of these:   *)
(* what acquire, release and the replacement of dead processes in _pool.py *)
(* and pool.ts amount to.                                                  *)
THEOREM PoolSound ==
  ASSUME Finite
  PROVE  Spec => [](Exclusive /\ NoneForgotten)
<1>1. PoolInv => Exclusive /\ NoneForgotten
  BY DEF PoolInv
<1>2. Init => PoolInv
  BY PoolInit
<1>3. PoolInv /\ [Next]_vars => PoolInv'
  BY PoolNext
<1> QED BY <1>1, <1>2, <1>3, PTL DEF Spec

(* A process that has left an open pool, because it was dead when it was   *)
(* given back, is never idle or held again (release in both SDKs).         *)
THEOREM NoneReturns ==
  ASSUME Finite
  PROVE  Spec => [][\A p \in used \ Present : p \notin Present']_vars
<1>1. PoolInv /\ [Next]_vars => [\A p \in used \ Present : p \notin Present']_vars
  <2> SUFFICES ASSUME PoolInv, Next, NEW p \in used, p \notin Present
               PROVE  p \notin Present'
    OBVIOUS
  <2>1. /\ p \notin idle /\ \A c \in Client : user[c] # None => user[c] # p
        /\ user \in [Client -> Proc \cup {None}] /\ phase # "new"
    BY DEF PoolInv, PoolType, Present, Users
  <2>2. p \notin idle' /\ \A c \in Client : user'[c] # None => user'[c] # p
    <3>1. CASE Open \/ Lose \/ Close
      BY <2>1, <3>1 DEF Open, Lose, Close, Nobody
    <3>2. ASSUME NEW c \in Client, GiveBack(c) \/ Retire(c) \/ Forfeit(c)
          PROVE  p \notin idle' /\ \A d \in Client : user'[d] # None => user'[d] # p
      BY <2>1, <3>2 DEF GiveBack, Retire, Forfeit
    <3>3. ASSUME NEW c \in Client, NEW d \in Client, HandOver(c, d)
          PROVE  p \notin idle' /\ \A e \in Client : user'[e] # None => user'[e] # p
      BY <2>1, <3>3 DEF HandOver
    <3>4. ASSUME NEW q \in Proc, Refill(q)
          PROVE  p \notin idle' /\ \A d \in Client : user'[d] # None => user'[d] # p
      BY <2>1, <3>4 DEF Refill
    <3>5. ASSUME NEW c \in Client, NEW q \in Proc, Take(c, q) \/ Exchange(c, q) \/ RefillFor(c, q)
          PROVE  p \notin idle' /\ \A d \in Client : user'[d] # None => user'[d] # p
      BY <2>1, <3>5 DEF Take, Exchange, RefillFor
    <3> QED BY <3>1, <3>2, <3>3, <3>4, <3>5 DEF Next
  <2> QED BY <2>2 DEF Present, Users
<1> QED BY <1>1, PoolInit, PoolNext, PTL DEF Spec
=============================================================================
