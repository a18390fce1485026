------------------------------ MODULE NodePool ------------------------------
(***************************************************************************)
(* ArmoredPool of the Node SDK (sdks/node/src/pool.ts), with what it uses  *)
(* of ArmoredProcess (process.ts): a fixed number of brokers, spawned      *)
(* ahead, handed out by acquire() and taken back by release().             *)
(*                                                                         *)
(* All code runs on one event loop.  An action is the code between two     *)
(* awaits, and the events of processes come in between: a start() that     *)
(* waits for its spawns, a replacement that is being spawned and a close() *)
(* that waits for exits are three calls that can be open at once.          *)
(***************************************************************************)
EXTENDS Naturals, Sequences, FiniteSets

CONSTANTS
  Client,     \* callers of acquire(), each with one process at a time
  Size,       \* options.size
  MaxDeaths   \* bound on the processes that die unasked

ASSUME NodePoolAssumption ==
  /\ Size \in Nat \ {0} /\ MaxDeaths \in Nat
  /\ IsFiniteSet(Client)

Proc == 1..(Size + MaxDeaths)
None == 0

VARIABLES
  life,       \* what the process objects have seen of their processes
  lingers,    \* processes that have exited, but not the tool behind them
  shut,       \* processes whose "close" event has been emitted
  ended,      \* processes whose close() was called
  creating,   \* spawn() has not resolved yet
  failed,     \* spawn() was rejected
  replaces,   \* the dead process that this one replaces, or None
  start,      \* the call of start(); #started is its resolution
  pool,       \* #closed, and whether close() has resolved
  all, available, waiters,
  awaited,    \* the exits that close() waits for
  holds,      \* per client: its process, or None
  known       \* history: what was idle or held when the pool was closed

procVars == <<life, lingers, shut, ended>>
spawnVars == <<creating, failed, replaces>>
poolVars == <<start, pool, all, available, waiters, awaited>>
vars == <<procVars, spawnVars, poolVars, holds, known>>

Elements(seq) == {seq[k] : k \in DOMAIN seq}
Held == {holds[c] : c \in Client} \ {None}
First == 1..Size

TypeOK ==
  /\ life \in [Proc -> {"none", "up", "exited", "signalled", "killed"}]
  /\ {lingers, shut, ended, creating, failed, all, awaited, known} \subseteq SUBSET Proc
  /\ replaces \in [Proc -> Proc \cup {None}]
  /\ start \in {"idle", "spawning", "resolved", "rejected"}
  /\ pool \in {"open", "closing", "closed"}
  /\ available \in Seq(Proc) /\ Len(available) =< Size
  /\ waiters \in Seq(Client) /\ Len(waiters) =< Cardinality(Client)
  /\ holds \in [Client -> Proc \cup {None}]

Init ==
  /\ life = [p \in Proc |-> "none"] /\ lingers = {} /\ shut = {} /\ ended = {}
  /\ creating = {} /\ failed = {} /\ replaces = [p \in Proc |-> None]
  /\ start = "idle" /\ pool = "open" /\ all = {} /\ available = <<>>
  /\ waiters = <<>> /\ awaited = {} /\ holds = [c \in Client |-> None] /\ known = {}

-----------------------------------------------------------------------------
(* Processes                                                               *)

(* Processes are numbered in the order they are spawned.                   *)
Fresh == Cardinality({p \in Proc : life[p] # "none"}) + 1
Born(procs) ==
  /\ procs \subseteq Proc
  /\ life' = [p \in Proc |-> IF p \in procs THEN "up" ELSE life[p]]

(* isAlive: the exit code of a process that died of a signal is null.      *)
IsAlive(p) == p \notin ended /\ life[p] \in {"up", "signalled"}

(* The "exit" event.  The tool behind the broker has its stderr from it,   *)
(* and may outlive it: it is not signalled, it only reads the end of stdin.*)
Exits(p) ==
  /\ life[p] = "up"
  /\ \/ p \in ended /\ life' = [life EXCEPT ![p] = "killed"]
     \/ /\ p \notin ended
        /\ Cardinality({q \in Proc : life[q] \in {"exited", "signalled"}}) < MaxDeaths
        /\ \E how \in {"exited", "signalled"} : life' = [life EXCEPT ![p] = how]
  /\ lingers' \in {lingers, lingers \cup {p}}
  /\ UNCHANGED <<shut, ended, spawnVars, poolVars, holds, known>>

(* The tool ends in its own time: the last holder of the broker's pipes.   *)
ToolEnds(p) ==
  /\ p \in lingers /\ lingers' = lingers \ {p}
  /\ UNCHANGED <<life, shut, ended, spawnVars, poolVars, holds, known>>

(* The "close" event, when the process is gone and all its pipes closed.   *)
Shuts(p) ==
  /\ life[p] \notin {"none", "up"} /\ p \notin lingers /\ p \notin shut
  /\ shut' = shut \cup {p} /\ awaited' = awaited \ {p}
  /\ UNCHANGED <<life, lingers, ended, spawnVars, start, pool, all, available, waiters, holds, known>>

-----------------------------------------------------------------------------
(* start                                                                   *)

StartCall ==
  /\ start = "idle" /\ pool = "open"
  /\ start' = "spawning"
  /\ Born(First)
  /\ creating' = First
  /\ UNCHANGED <<lingers, shut, ended, failed, replaces, pool, all, available, waiters, awaited>>
  /\ UNCHANGED <<holds, known>>

(* Without a ready signal, spawn() resolves in the next turn of the loop.  *)
SpawnResolves(p) ==
  /\ p \in creating /\ replaces[p] = None
  /\ creating' = creating \ {p}
  /\ UNCHANGED <<procVars, failed, replaces, poolVars, holds, known>>

(* waitReady times out, or reads something else, or the process exits; the *)
(* process object is dropped, and with one of the first its siblings.  The *)
(* rejection of a replacement is not handled by the pool.                  *)
SpawnRejects(p) ==
  /\ p \in creating
  /\ creating' = creating \ {p} /\ failed' = failed \cup {p}
  /\ start' = IF p \in First THEN "rejected" ELSE start
  /\ UNCHANGED <<procVars, replaces, pool, all, available, waiters, awaited, holds, known>>

(* Promise.all has resolved; #closed is not looked at again.               *)
StartResolves ==
  /\ start = "spawning" /\ First \cap creating = {}
  /\ start' = "resolved"
  /\ all' = all \cup First
  /\ available' = available \o [k \in First |-> k]
  /\ UNCHANGED <<procVars, spawnVars, pool, waiters, awaited, holds, known>>

-----------------------------------------------------------------------------
(* acquire and release                                                     *)

Waiting(c) == c \in Elements(waiters)

(* Mutant: the first idle process stays in the list.                       *)
Peek == UNCHANGED available
Take == available' = Tail(available)

Acquire(c) ==
  /\ start = "resolved" /\ pool = "open" /\ holds[c] = None /\ ~Waiting(c)
  /\ IF available # <<>>
       THEN /\ holds' = [holds EXCEPT ![c] = Head(available)]
            /\ Take
            /\ UNCHANGED waiters
       ELSE /\ waiters' = Append(waiters, c)
            /\ UNCHANGED <<holds, available>>
  /\ UNCHANGED <<procVars, spawnVars, start, pool, all, awaited, known>>

(* Mutant: the newcomer at the end of the queue is served first.           *)
HandOffLast(p, freed) ==
  IF waiters # <<>>
    THEN /\ holds' = [freed EXCEPT ![waiters[Len(waiters)]] = p]
         /\ waiters' = SubSeq(waiters, 1, Len(waiters) - 1)
         /\ UNCHANGED available
    ELSE /\ holds' = freed /\ available' = Append(available, p)
         /\ UNCHANGED waiters

(* #handOff; "freed" is who holds what without the process handed off.     *)
HandOff(p, freed) ==
  IF waiters # <<>>
    THEN /\ holds' = [freed EXCEPT ![Head(waiters)] = p]
         /\ waiters' = Tail(waiters)
         /\ UNCHANGED available
    ELSE /\ holds' = freed /\ available' = Append(available, p)
         /\ UNCHANGED waiters

(* Mutant: the client keeps a reference that is handed out again.          *)
StillHeld(c) == holds
Freed(c) == [holds EXCEPT ![c] = None]

ReleaseAlive(c) ==
  /\ holds[c] # None /\ pool = "open" /\ IsAlive(holds[c])
  /\ HandOff(holds[c], Freed(c))
  /\ UNCHANGED <<procVars, spawnVars, start, pool, all, awaited, known>>

(* The replacement is spawned at once, but joins the pool when it is ready.*)
ReleaseDead(c) ==
  /\ holds[c] # None /\ pool = "open" /\ ~IsAlive(holds[c])
  /\ ended' = ended \cup {holds[c]}
  /\ Born({Fresh})
  /\ creating' = creating \cup {Fresh}
  /\ replaces' = [replaces EXCEPT ![Fresh] = holds[c]]
  /\ holds' = Freed(c)
  /\ UNCHANGED <<lingers, shut, failed, poolVars, known>>

ReleaseClosed(c) ==
  /\ holds[c] # None /\ pool # "open"
  /\ ended' = ended \cup {holds[c]}
  /\ holds' = Freed(c)
  /\ UNCHANGED <<life, lingers, shut, spawnVars, poolVars, known>>

(* Mutant: the replacement is not noted in #all.                           *)
SwapNothing(p) == UNCHANGED all
Swap(p) == all' = (all \ {replaces[p]}) \cup {p}

(* #replaceProcess goes on, also in a pool that has been closed.           *)
Replace(p) ==
  /\ p \in creating /\ replaces[p] # None
  /\ creating' = creating \ {p}
  /\ Swap(p)
  /\ HandOff(p, holds)
  /\ UNCHANGED <<procVars, failed, replaces, start, pool, awaited, known>>

-----------------------------------------------------------------------------
(* close                                                                   *)

(* Mutant: the processes are not killed.                                   *)
CloseGently ==
  /\ pool = "open" /\ pool' = "closing"
  /\ awaited' = all \ ended
  /\ known' = Elements(available) \cup Held
  /\ UNCHANGED <<procVars, spawnVars, start, all, available, waiters, holds>>

(* close() of a process waits for its "close" event, which it misses when  *)
(* it has been emitted before; a second close() of it waits for nothing.   *)
Close ==
  /\ pool = "open" /\ pool' = "closing"
  /\ awaited' = all \ ended
  /\ ended' = ended \cup all
  /\ known' = Elements(available) \cup Held
  /\ UNCHANGED <<life, lingers, shut, spawnVars, start, all, available, waiters, holds>>

(* Mutant: the exits are not awaited.                                      *)
CloseAtOnce ==
  /\ pool = "closing" /\ pool' = "closed"
  /\ all' = {} /\ available' = <<>>
  /\ UNCHANGED <<procVars, spawnVars, start, waiters, awaited, holds, known>>

CloseResolves ==
  /\ pool = "closing" /\ awaited = {} /\ pool' = "closed"
  /\ all' = {} /\ available' = <<>>
  /\ UNCHANGED <<procVars, spawnVars, start, waiters, awaited, holds, known>>

-----------------------------------------------------------------------------
Release(c) == ReleaseAlive(c) \/ ReleaseDead(c) \/ ReleaseClosed(c)
SpawnSettles(p) == SpawnResolves(p) \/ SpawnRejects(p) \/ Replace(p)

Next ==
  \/ \E p \in Proc : Exits(p) \/ ToolEnds(p) \/ Shuts(p) \/ SpawnSettles(p)
  \/ StartCall \/ StartResolves
  \/ \E c \in Client : Acquire(c) \/ Release(c)
  \/ Close \/ CloseResolves

Spec == Init /\ [][Next]_vars

(* The event loop runs every continuation, a spawn settles within the      *)
(* timeout of waitReady, a process that was sent SIGTERM exits, and a      *)
(* client that holds a process releases it.  Of the tools nothing is       *)
(* assumed: one that stays keeps its broker's "close" event from coming.   *)
Fairness ==
  /\ \A p \in Proc :
       WF_vars(SpawnSettles(p)) /\ WF_vars(p \in ended /\ Exits(p)) /\ WF_vars(Shuts(p))
  /\ WF_vars(StartResolves)
  /\ \A c \in Client : WF_vars(Release(c))
  /\ WF_vars(CloseResolves)

FairSpec == Spec /\ Fairness

-----------------------------------------------------------------------------
(* Properties                                                              *)

Replacing == {p \in Proc : replaces[p] # None /\ p \in creating}
Lost == {p \in Proc : replaces[p] # None /\ p \in failed}

(* The pool is a Pool: no process is in two hands, idle and held at once,  *)
(* or back after it was given up, and every place is filled again once,    *)
(* whatever dies or is replaced meanwhile (release, #handOff and           *)
(* #replaceProcess).  After close() a client has nothing by right.         *)
Phase == IF pool # "open" THEN "closed" ELSE IF start = "resolved" THEN "open" ELSE "new"
InUse == Phase = "open"
Promise == INSTANCE Pool WITH
  phase <- Phase,
  idle <- IF InUse THEN Elements(available) ELSE {},
  user <- IF InUse THEN holds ELSE [c \in Client |-> None],
  used <- IF InUse THEN {p \in Proc : life[p] # "none"} \ (creating \cup failed) ELSE {},
  vacant <- IF InUse THEN Cardinality(Replacing) ELSE 0,
  lost <- IF InUse THEN Cardinality(Lost) ELSE 0
ImplementsPool == Promise!Spec

(* The pool keeps its size: each of its places is idle, held, or being     *)
(* replaced, a place is lost only when a replacement fails, and #all names *)
(* the processes that close() has to end; none of its idle or held ones is *)
(* closed under its holder (#replaceProcess).                              *)
CapacityConserved ==
  pool = "open" =>
    LET replaced == {replaces[p] : p \in Replacing \cup Lost} IN
    /\ all = Elements(available) \cup Held \cup replaced
    /\ (Held \cup Elements(available)) \cap (ended \cup creating) = {}
    /\ Len(available) + Cardinality(Held) + Cardinality(replaced)
         = IF start = "resolved" THEN Size ELSE 0

(* close() ends what was idle and what was held: when it has resolved,     *)
(* those processes are dead, and no release brings one back.               *)
CloseEndsKnown ==
  pool = "closed" =>
    /\ \A p \in known : life[p] # "up"
    /\ known \cap (Elements(available) \cup all) = {}

(* An acquirer is served in the end, in a pool that stays open and has not *)
(* lost every place (the promise of acquire(); waiters queue up in order). *)
AcquirerServed ==
  \A c \in Client :
    Waiting(c) ~> (holds[c] # None \/ pool # "open" \/ Cardinality(Lost) = Size)

(* close() resolves when every tool ends (the one assumption about them:   *)
(* each process object awaits its "close" event), unless a process of the  *)
(* pool had died and been noticed before, whose event will not come again. *)
ToolsEnd == \A p \in Proc : []<>(p \notin lingers)
CloseCompletes == ToolsEnd => ((pool = "closing" /\ awaited \cap shut = {}) ~> pool = "closed")
=============================================================================
