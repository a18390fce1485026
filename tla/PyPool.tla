------------------------------- MODULE PyPool -------------------------------
(***************************************************************************)
(* ArmoredPool of the Python SDK (sdks/python/src/mcparmor/_pool.py) and   *)
(* the calls its clients make on the ArmoredProcess they hold              *)
(* (_process.py): a request is written to a broker, one line is read back, *)
(* and a call may time out before that line is there.                      *)
(*                                                                         *)
(* The pool's coroutines run on one event loop and await nothing but the   *)
(* queue of asyncio, so start(), release() and close() are one step each.  *)
(* invoke() blocks its thread; clients run theirs in threads of their own. *)
(***************************************************************************)
EXTENDS Naturals, SequencesExt, FiniteSets

CONSTANTS
  Client,     \* callers, each with one process at a time
  Size,       \* size of the pool
  MaxSpawns,  \* bound on the processes ever spawned
  MaxCalls,   \* bound on the messages written
  Late        \* a process may outlive SIGTERM by more than five seconds

ASSUME PyPoolAssumption ==
  /\ Size \in Nat \ {0} /\ {MaxSpawns, MaxCalls} \subseteq Nat /\ Late \in BOOLEAN
  /\ IsFiniteSet(Client)

Proc == 1..MaxSpawns
None == 0
Newline == 0

VARIABLES
  life,       \* the processes as the operating system sees them
  open,       \* process objects whose _process is not None
  dropped,    \* spawned, but wait_ready failed and nobody refers to them
  calls,      \* messages written to each
  lines,      \* lines each has begun to write: one for a message, in order
  pipe,       \* its stdout: the line's number for its text, and newlines
  buffer,     \* what the BufferedReader on it holds
  started, closed, all, available,
  getters,    \* acquirers asleep in the queue, in order
  woken,      \* acquirers the queue has woken and the loop has not resumed
  holds,      \* per client: its process, or None
  call,       \* per client: where its invoke() is
  expired     \* history: the calls on each process that timed out

toolVars == <<life, lines, pipe>>
objVars == <<open, dropped>>
callVars == <<calls, buffer, call, expired>>
queueVars == <<available, getters, woken>>
poolVars == <<started, closed, all>>
vars == <<toolVars, objVars, callVars, queueVars, poolVars, holds>>

Init ==
  /\ life = [p \in Proc |-> "none"] /\ lines = [p \in Proc |-> 0]
  /\ pipe = [p \in Proc |-> <<>>] /\ buffer = [p \in Proc |-> <<>>]
  /\ open = {} /\ dropped = {}
  /\ calls = [p \in Proc |-> 0] /\ expired = [p \in Proc |-> 0]
  /\ call = [c \in Client |-> "none"]
  /\ started = FALSE /\ closed = "no" /\ all = <<>> /\ available = <<>>
  /\ getters = <<>> /\ woken = {} /\ holds = [c \in Client |-> None]

-----------------------------------------------------------------------------
(* Brokers: a line's text and its newline are two writes.                  *)

Output(p) == buffer[p] \o pipe[p]
MidLine(p) == Output(p) # <<>> /\ Last(Output(p)) # Newline

WritesText(p) ==
  /\ life[p] = "up" /\ lines[p] < calls[p] /\ ~MidLine(p)
  /\ lines' = [lines EXCEPT ![p] = @ + 1]
  /\ pipe' = [pipe EXCEPT ![p] = Append(@, lines[p] + 1)]
  /\ UNCHANGED <<life, objVars, callVars, queueVars, poolVars, holds>>

WritesNewline(p) ==
  /\ life[p] = "up" /\ MidLine(p)
  /\ pipe' = [pipe EXCEPT ![p] = Append(@, Newline)]
  /\ UNCHANGED <<life, lines, objVars, callVars, queueVars, poolVars, holds>>

Dies(p) ==
  /\ life[p] = "up" /\ life' = [life EXCEPT ![p] = "dead"]
  /\ UNCHANGED <<lines, pipe, objVars, callVars, queueVars, poolVars, holds>>

-----------------------------------------------------------------------------
(* start                                                                   *)

(* Processes are numbered in the order they are spawned.                   *)
Fresh == Cardinality({p \in Proc : life[p] # "none"}) + 1
New(n) == [k \in 1..n |-> Fresh + k - 1]
Spawned(n) ==
  /\ Fresh + n - 1 =< MaxSpawns
  /\ life' = [p \in Proc |-> IF p \in ToSet(New(n)) THEN "up" ELSE life[p]]

(* Mutant: a process is noted in _all after the queue has taken it.        *)
NotedLate(queued, ready) == New(queued)
Noted(queued, ready) == New(ready)

(* Processes are spawned one by one, until there are Size of them or an    *)
(* exception ends it: a spawn that fails, a ready signal that does not     *)
(* come, or, when an earlier start() that failed has left some in the      *)
(* queue, put_nowait on a full queue.                                      *)
Start ==
  /\ ~started /\ closed = "no"
  /\ \E spawns \in 0..Size : \E ready \in 0..spawns :
       LET room == Size - Len(available)
           queued == IF ready < room THEN ready ELSE room
       IN  /\ ready >= spawns - 1
           /\ queued = ready \/ (ready = spawns /\ ready = room + 1)
           /\ Spawned(spawns)
           /\ available' = available \o New(queued)
           /\ all' = all \o Noted(queued, ready)
           /\ open' = open \cup ToSet(New(ready))
           /\ dropped' = dropped \cup (ToSet(New(spawns)) \ ToSet(New(ready)))
           /\ started' = (queued = Size)
  /\ UNCHANGED <<lines, pipe, callVars, getters, woken, closed, holds>>

-----------------------------------------------------------------------------
(* acquire                                                                 *)

Waiting(c) == c \in ToSet(getters) \cup woken

(* Mutant: the process stays in the queue.                                 *)
Peek(c) ==
  /\ holds' = [holds EXCEPT ![c] = Head(available)] /\ UNCHANGED available
GetNowait(c) ==
  /\ holds' = [holds EXCEPT ![c] = Head(available)] /\ available' = Tail(available)

(* Queue.get(): a caller that finds the queue empty goes to sleep at the   *)
(* end of the getters.                                                     *)
Get(c) ==
  IF available # <<>> THEN GetNowait(c) /\ UNCHANGED getters
  ELSE getters' = Append(getters, c) /\ UNCHANGED <<holds, available>>

Acquire(c) ==
  /\ started /\ closed = "no" /\ holds[c] = None /\ ~Waiting(c)
  /\ Get(c)
  /\ UNCHANGED <<toolVars, objVars, callVars, woken, poolVars>>

(* A woken getter looks again; another may have been faster.  _closed is   *)
(* not looked at again.                                                    *)
Resume(c) ==
  /\ c \in woken /\ woken' = woken \ {c}
  /\ Get(c)
  /\ UNCHANGED <<toolVars, objVars, callVars, poolVars>>

-----------------------------------------------------------------------------
(* invoke, in persistent mode                                              *)

SetCall(c, state) == call' = [call EXCEPT ![c] = state]

(* Without a timeout there is no select.  A process that is dead or closed *)
(* makes it raise, and nothing changes.                                    *)
Invoke(c) ==
  LET p == holds[c] IN
  /\ p # None /\ call[c] = "none"
  /\ p \in open /\ life[p] = "up" /\ FoldFunction(+, 0, calls) < MaxCalls
  /\ calls' = [calls EXCEPT ![p] = @ + 1]
  /\ \E next \in {"select", "read"} : SetCall(c, next)
  /\ UNCHANGED <<toolVars, objVars, buffer, expired, queueVars, poolVars, holds>>

(* select looks at the pipe and not into the buffer.                       *)
Selects(c) ==
  /\ call[c] = "select" /\ (pipe[holds[c]] # <<>> \/ life[holds[c]] # "up")
  /\ SetCall(c, "read")
  /\ UNCHANGED <<toolVars, objVars, calls, buffer, expired, queueVars, poolVars, holds>>

TimesOut(c) ==
  /\ call[c] = "select" /\ pipe[holds[c]] = <<>> /\ life[holds[c]] = "up"
  /\ SetCall(c, "none")
  /\ expired' = [expired EXCEPT ![holds[c]] = @ + 1]
  /\ UNCHANGED <<toolVars, objVars, calls, buffer, queueVars, poolVars, holds>>

HasLine(s) == Contains(s, Newline)

(* Mutant: what an earlier call has left in the buffer is passed over.     *)
InputOfPipe(p) == pipe[p]

(* readline: from the buffer if it has a line, else with all there is in   *)
(* the pipe; at the end of file what is there counts as a line, and        *)
(* nothing is an error.                                                    *)
Input(p) == IF HasLine(buffer[p]) THEN buffer[p] ELSE Output(p)
Returns(c) ==
  LET p == holds[c]
      end == IF HasLine(Input(p)) THEN SelectInSeq(Input(p), LAMBDA x : x = Newline)
                                  ELSE Len(Input(p))
  IN  /\ call[c] = "read" /\ (HasLine(Input(p)) \/ life[p] # "up")
      /\ SetCall(c, "none")
      /\ buffer' = [buffer EXCEPT ![p] = SubSeq(Input(p), end + 1, Len(Input(p)))]
      /\ pipe' = [pipe EXCEPT ![p] = IF HasLine(buffer[p]) THEN @ ELSE <<>>]
      /\ UNCHANGED <<life, lines, objVars, calls, expired, queueVars, poolVars, holds>>

-----------------------------------------------------------------------------
(* release                                                                 *)

GivesUp(c) ==
  /\ holds[c] # None /\ call[c] = "none"
  /\ holds' = [holds EXCEPT ![c] = None]
  /\ UNCHANGED <<calls, buffer, call, expired>>

(* Mutant: a put to an empty queue alone wakes a getter.                   *)
PutIfEmpty(p) ==
  /\ available' = Append(available, p)
  /\ IF getters # <<>> /\ available = <<>>
       THEN getters' = Tail(getters) /\ woken' = woken \cup {Head(getters)}
       ELSE UNCHANGED <<getters, woken>>

(* Queue.put(), which finds room: a pool that has started has Size         *)
(* processes.  It wakes the first getter and leaves the process in the     *)
(* queue, where any other acquirer may find it.                            *)
Put(p) ==
  /\ available' = Append(available, p)
  /\ IF getters # <<>>
       THEN getters' = Tail(getters) /\ woken' = woken \cup {Head(getters)}
       ELSE UNCHANGED <<getters, woken>>

IsAlive(p) == p \in open /\ life[p] = "up"

ReleaseAlive(c) ==
  /\ GivesUp(c) /\ closed = "no" /\ IsAlive(holds[c])
  /\ Put(holds[c])
  /\ UNCHANGED <<toolVars, objVars, poolVars>>

Replaced(old, new) == [k \in DOMAIN all |-> IF all[k] = old THEN new ELSE all[k]]

ReleaseDead(c) ==
  /\ GivesUp(c) /\ closed = "no" /\ ~IsAlive(holds[c])
  /\ open' = (open \ {holds[c]}) \cup {Fresh}
  /\ Spawned(1) /\ Put(Fresh)
  /\ all' = Replaced(holds[c], Fresh)
  /\ UNCHANGED <<lines, pipe, dropped, started, closed>>

(* The spawn fails, or the ready signal does not come: release raises, and *)
(* the place is lost.                                                      *)
ReleaseFails(c) ==
  /\ GivesUp(c) /\ closed = "no" /\ ~IsAlive(holds[c])
  /\ open' = open \ {holds[c]}
  /\ \E spawns \in 0..1 : Spawned(spawns) /\ dropped' = dropped \cup ToSet(New(spawns))
  /\ UNCHANGED <<lines, pipe, queueVars, poolVars>>

(* ArmoredProcess.close() of each: SIGTERM, and a wait that raises         *)
(* TimeoutExpired, which is not an OSError, after five seconds.            *)
Ends(procs, late) ==
  /\ open' = open \ procs
  /\ late \subseteq procs \cap open /\ (late # {} => Late)
  /\ \A p \in late : life[p] = "up"
  /\ life' = [p \in Proc |-> IF p \in (procs \cap open) \ late THEN "dead" ELSE life[p]]

ReleaseClosed(c) ==
  /\ GivesUp(c) /\ closed # "no"
  /\ \E late \in SUBSET {holds[c]} : Ends({holds[c]}, late)
  /\ UNCHANGED <<lines, pipe, dropped, queueVars, poolVars>>

-----------------------------------------------------------------------------
(* close: the exception ends the loop, and a second close() does nothing.  *)

Close ==
  /\ closed = "no"
  /\ Ends(ToSet(all), {}) /\ all' = <<>> /\ closed' = "yes"
  /\ UNCHANGED <<lines, pipe, dropped, callVars, queueVars, started, holds>>

CloseRaises ==
  /\ closed = "no"
  /\ \E n \in DOMAIN all : Ends(ToSet(SubSeq(all, 1, n)), {all[n]})
  /\ closed' = "raised"
  /\ UNCHANGED <<lines, pipe, dropped, callVars, queueVars, started, all, holds>>

-----------------------------------------------------------------------------
Tool(p) == WritesText(p) \/ WritesNewline(p) \/ Dies(p)
Call(c) == Invoke(c) \/ Selects(c) \/ TimesOut(c) \/ Returns(c)
Release(c) == ReleaseAlive(c) \/ ReleaseDead(c) \/ ReleaseFails(c) \/ ReleaseClosed(c)

Next ==
  \/ Start \/ Close \/ CloseRaises
  \/ \E p \in Proc : Tool(p)
  \/ \E c \in Client : Acquire(c) \/ Resume(c) \/ Call(c) \/ Release(c)

Spec == Init /\ [][Next]_vars

-----------------------------------------------------------------------------
(* Properties                                                              *)

(* The pool is a Pool from the start() that succeeds until close():        *)
(* exclusive, of a constant size, and a place is lost only with a          *)
(* replacement that does not come up (release, asyncio.Queue).             *)
InUse == started /\ closed = "no"
Broken == {p \in ToSet(all) : p \notin open}
Held == {holds[c] : c \in Client} \ {None}
Promise == INSTANCE Pool WITH
  phase <- IF closed # "no" THEN "closed" ELSE IF started THEN "open" ELSE "new",
  idle <- IF InUse THEN ToSet(available) ELSE {},
  user <- IF InUse THEN holds ELSE [c \in Client |-> None],
  used <- IF InUse THEN {p \in Proc : life[p] # "none"} \ dropped ELSE {},
  vacant <- 0,
  lost <- IF InUse THEN Cardinality(Broken) ELSE 0
ImplementsPool == Promise!Spec

(* The line a call returns is the answer to its own message if no call on  *)
(* the process has timed out before, whoever made it; each one that has    *)
(* leaves its answer to the calls after it (_read_response, release of a   *)
(* process with an answer to come, and the buffer select does not see).    *)
AnswersLag ==
  [][\A c \in Client : LET p == holds[c] IN
       Returns(c) /\ Input(p) # <<>> => Head(Input(p)) = calls[p] - expired[p]]_vars

(* No getter sleeps while there is a process that no woken getter comes    *)
(* for, in whatever order getters wake and newcomers overtake them.        *)
NoLostWakeup == getters # <<>> => Len(available) =< Cardinality(woken)

(* When close() has returned, no process of the pool is left: not one of   *)
(* a start() that failed, nor a replacement, nor one that a client holds   *)
(* or gets from the queue afterwards; only those whose ready signal did    *)
(* not come are not the pool's (start, release and close).                 *)
CloseLeavesNone ==
  closed = "yes" => \A p \in Proc : life[p] = "up" => p \in dropped
=============================================================================
