-------------------------------- MODULE Pool --------------------------------
(***************************************************************************)
(* What the pools of the two SDKs promise, whatever goes on inside: a      *)
(* fixed number of places, each with a process that is idle or held by one *)
(* client.  A process that has died is given up: its place is vacant until *)
(* a new process takes it, or lost if none can be spawned.  No process     *)
(* comes back once it has left, none is in two hands, and no place is      *)
(* forgotten or filled twice.                                              *)
(***************************************************************************)
EXTENDS Naturals, FiniteSets

CONSTANTS Client, Proc, None, Size

VARIABLES
  phase,  \* "new", "open" or "closed"
  idle,   \* processes nobody holds
  user,   \* the process each client holds, or None
  used,   \* history: the processes that ever were in the pool
  vacant, \* places without a process
  lost    \* places that will never have one again

places == <<vacant, lost>>
vars == <<phase, idle, user, used, places>>

Nobody == [c \in Client |-> None]

Init == phase = "new" /\ idle = {} /\ user = Nobody /\ used = {} /\ vacant = 0 /\ lost = 0

Open ==
  /\ phase = "new" /\ phase' = "open"
  /\ \E procs \in SUBSET Proc :
       Cardinality(procs) = Size /\ idle' = procs /\ used' = procs
  /\ UNCHANGED <<user, places>>

Take(c, p) ==
  /\ phase = "open" /\ user[c] = None /\ p \in idle
  /\ user' = [user EXCEPT ![c] = p] /\ idle' = idle \ {p}
  /\ UNCHANGED <<phase, used, places>>

(* A process is given back: to the idle ones, or to a client that waits.   *)
GiveBack(c) ==
  /\ phase = "open" /\ user[c] # None
  /\ user' = [user EXCEPT ![c] = None] /\ idle' = idle \cup {user[c]}
  /\ UNCHANGED <<phase, used, places>>

HandOver(c, d) ==
  /\ phase = "open" /\ user[c] # None /\ user[d] = None
  /\ user' = [user EXCEPT ![c] = None, ![d] = user[c]]
  /\ UNCHANGED <<phase, idle, used, places>>

(* It is dead, and leaves the pool.                                        *)
Retire(c) ==
  /\ phase = "open" /\ user[c] # None
  /\ user' = [user EXCEPT ![c] = None] /\ vacant' = vacant + 1
  /\ UNCHANGED <<phase, idle, used, lost>>

(* A new process is idle, or goes to a client that waits.                  *)
Refill(p) ==
  /\ phase = "open" /\ vacant > 0 /\ p \notin used
  /\ idle' = idle \cup {p} /\ used' = used \cup {p} /\ vacant' = vacant - 1
  /\ UNCHANGED <<phase, user, lost>>

RefillFor(c, p) ==
  /\ phase = "open" /\ vacant > 0 /\ p \notin used /\ user[c] = None
  /\ user' = [user EXCEPT ![c] = p] /\ used' = used \cup {p} /\ vacant' = vacant - 1
  /\ UNCHANGED <<phase, idle, lost>>

Lose ==
  /\ phase = "open" /\ vacant > 0
  /\ vacant' = vacant - 1 /\ lost' = lost + 1
  /\ UNCHANGED <<phase, idle, user, used>>

(* Retire and, in the same step, Refill or Lose.                           *)
Exchange(c, p) ==
  /\ phase = "open" /\ user[c] # None /\ p \notin used
  /\ user' = [user EXCEPT ![c] = None]
  /\ idle' = idle \cup {p} /\ used' = used \cup {p}
  /\ UNCHANGED <<phase, places>>

Forfeit(c) ==
  /\ phase = "open" /\ user[c] # None
  /\ user' = [user EXCEPT ![c] = None] /\ lost' = lost + 1
  /\ UNCHANGED <<phase, idle, used, vacant>>

Close ==
  /\ phase # "closed" /\ phase' = "closed"
  /\ idle' = {} /\ user' = Nobody /\ used' = {} /\ vacant' = 0 /\ lost' = 0

Next ==
  \/ Open \/ Lose \/ Close
  \/ \E c \in Client : GiveBack(c) \/ Retire(c) \/ Forfeit(c)
  \/ \E c, d \in Client : HandOver(c, d)
  \/ \E p \in Proc : Refill(p)
  \/ \E c \in Client, p \in Proc : Take(c, p) \/ Exchange(c, p) \/ RefillFor(c, p)

Spec == Init /\ [][Next]_vars
=============================================================================
