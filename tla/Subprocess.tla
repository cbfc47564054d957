----------------------------- MODULE Subprocess -----------------------------
(***************************************************************************)
(* The subprocess engine: a client's session is a directory and a slot for *)
(* one process of the CLI; a sweep removes what has been idle for the TTL. *)
(*                                                                         *)
(* A slot (the channel of an entry of the lock map) is named by the        *)
(* request that made it.  Ages are ticks, counted up to the TTL.           *)
(***************************************************************************)
EXTENDS Integers

CONSTANTS
    Requests, Clients,
    ClientOf,      \* auth.ClientIDFrom of each request
    Streams,       \* requests served by Stream, the others by Complete
    NoOne,
    TTL,           \* sessionTTL in ticks, at least two
    MaxRestarts    \* bound: restarts of the gateway

ASSUME SubprocessAssumption ==
    /\ ClientOf \in [Requests -> Clients]
    /\ Streams \subseteq Requests
    /\ NoOne \notin Requests
    /\ TTL \in Nat /\ TTL > 1
    /\ MaxRestarts \in Nat

VARIABLES
    pc,
    isNew,         \* Session.New of each request
    lock,          \* the slot a request looked up
    entry,         \* the slot in the lock map of each client's session
    used,          \* ticks since the entry's lastUsed
    holder,        \* the request in each slot
    sinceSweep,    \* ticks since lastSweep
    dirs,          \* clients whose directory exists
    dirAge,        \* ticks since its newest mtime
    conversations, \* clients with a conversation kept by the CLI
    restarts

request == <<pc, isNew, lock>>
map == <<entry, used, holder>>
disk == <<dirs, dirAge, conversations>>
vars == <<request, map, sinceSweep, disk, restarts>>

Holding == {"spawn", "run", "release"}

Init ==
    /\ pc = [r \in Requests |-> "idle"] /\ isNew = [r \in Requests |-> FALSE]
    /\ lock = [r \in Requests |-> NoOne]
    /\ entry = [c \in Clients |-> NoOne] /\ used = [c \in Clients |-> 0]
    /\ holder = [r \in Requests |-> NoOne]
    /\ sinceSweep = TTL
    /\ dirs \in SUBSET Clients /\ conversations = dirs
    /\ dirAge \in {a \in [Clients -> {0, TTL}] : \A c \in Clients \ dirs : a[c] = 0}
    /\ restarts = 0

GoTo(r, from, to) == pc[r] = from /\ pc' = [pc EXCEPT ![r] = to]
Forget(r) == isNew' = [isNew EXCEPT ![r] = FALSE] /\ lock' = [lock EXCEPT ![r] = NoOne]

-----------------------------------------------------------------------------
(* resolveSession.                                                         *)

SlipSweepsBusy(c) == entry[c] # NoOne /\ used[c] >= TTL

\* An entry goes when it was idle for the TTL and nobody holds its slot.
Evictable(c) == entry[c] # NoOne /\ used[c] >= TTL /\ holder[entry[c]] = NoOne

SlipSweepsByAge(left) == {c \in dirs : dirAge[c] >= TTL}

\* A directory goes when it is old and its client has no entry left.
Removable(left) == {c \in dirs : left[c] = NoOne /\ dirAge[c] >= TTL}

\* Under the mutex, at most once in half a TTL.
Sweep(r) ==
    /\ GoTo(r, "idle", "stat")
    /\ sinceSweep >= TTL \div 2
    /\ LET left == [c \in Clients |-> IF Evictable(c) THEN NoOne ELSE entry[c]]
       IN  /\ entry' = left
           /\ used' = [c \in Clients |-> IF left[c] = NoOne THEN 0 ELSE used[c]]
           /\ dirs' = dirs \ Removable(left)
           /\ dirAge' = [c \in Clients |-> IF c \in dirs' THEN dirAge[c] ELSE 0]
    /\ sinceSweep' = 0
    /\ UNCHANGED <<isNew, lock, holder, conversations, restarts>>

SkipSweep(r) ==
    /\ GoTo(r, "idle", "stat")
    /\ sinceSweep < TTL \div 2
    /\ UNCHANGED <<isNew, lock, map, sinceSweep, disk, restarts>>

\* The session is new if the directory is not there.
Stat(r) ==
    /\ GoTo(r, "stat", "mkdir")
    /\ isNew' = [isNew EXCEPT ![r] = ClientOf[r] \notin dirs]
    /\ UNCHANGED <<lock, map, sinceSweep, disk, restarts>>

Mkdir(r) ==
    /\ GoTo(r, "mkdir", "look")
    /\ dirs' = dirs \cup {ClientOf[r]}
    /\ UNCHANGED <<isNew, lock, map, sinceSweep, dirAge, conversations, restarts>>

MkdirFails(r) ==
    /\ GoTo(r, "mkdir", "done")
    /\ Forget(r)
    /\ UNCHANGED <<map, sinceSweep, disk, restarts>>

-----------------------------------------------------------------------------
(* acquireLock: the entry under the mutex, the slot outside of it.         *)

LookUp(r) ==
    LET c == ClientOf[r]
        slot == IF entry[c] = NoOne THEN r ELSE entry[c]
    IN  /\ GoTo(r, "look", "wait")
        /\ entry' = [entry EXCEPT ![c] = slot]
        /\ lock' = [lock EXCEPT ![r] = slot]
        /\ used' = [used EXCEPT ![c] = 0]
        /\ UNCHANGED <<isNew, holder, sinceSweep, disk, restarts>>

Take(r) ==
    /\ GoTo(r, "wait", "spawn")
    /\ holder[lock[r]] = NoOne
    /\ holder' = [holder EXCEPT ![lock[r]] = r]
    /\ UNCHANGED <<isNew, lock, entry, used, sinceSweep, disk, restarts>>

\* The context ends while the request waits.
GiveUp(r) ==
    /\ GoTo(r, "wait", "done")
    /\ Forget(r)
    /\ UNCHANGED <<map, sinceSweep, disk, restarts>>

Waiting(l) == {r \in Requests : pc[r] = "wait" /\ lock[r] = l}

\* Receiving from the channel hands the slot to a request blocked on it, if any.
Release(r) ==
    /\ IF Waiting(lock[r]) = {}
       THEN /\ GoTo(r, "release", "done")
            /\ holder' = [holder EXCEPT ![lock[r]] = NoOne]
       ELSE \E w \in Waiting(lock[r]) :
               /\ pc[r] = "release"
               /\ pc' = [pc EXCEPT ![r] = "done", ![w] = "spawn"]
               /\ holder' = [holder EXCEPT ![lock[r]] = w]
    /\ Forget(r)
    /\ UNCHANGED <<entry, used, sinceSweep, disk, restarts>>

-----------------------------------------------------------------------------
(* Complete and Stream, under the slot.                                    *)

\* The process needs its directory.
Spawn(r) ==
    /\ GoTo(r, "spawn", "run")
    /\ ClientOf[r] \in dirs
    /\ UNCHANGED <<isNew, lock, map, sinceSweep, disk, restarts>>

\* The body is refused, or the process does not start, with its directory or not.
NoProcess(r) ==
    /\ GoTo(r, "spawn", "release")
    /\ UNCHANGED <<isNew, lock, map, sinceSweep, disk, restarts>>

\* The CLI may write below the directory it runs in.
Touches(r) == dirAge' \in {dirAge, [dirAge EXCEPT ![ClientOf[r]] = 0]}

\* A new session is created, an old one resumed.
Served(r) ==
    /\ GoTo(r, "run", "release")
    /\ isNew[r] \/ ClientOf[r] \in conversations
    /\ conversations' = conversations \cup {ClientOf[r]}
    /\ Touches(r)
    /\ UNCHANGED <<isNew, lock, map, sinceSweep, dirs, restarts>>

\* "no conversation found": Complete runs the CLI once more, as for a new
\* session, and Stream fails.
NotFound(r) ==
    /\ ~isNew[r] /\ ClientOf[r] \notin conversations
    /\ IF r \in Streams
       THEN GoTo(r, "run", "release") /\ UNCHANGED isNew
       ELSE GoTo(r, "run", "spawn") /\ isNew' = [isNew EXCEPT ![r] = TRUE]
    /\ UNCHANGED <<lock, map, sinceSweep, disk, restarts>>

SlipAbandons(r) ==
    /\ GoTo(r, "run", IF r \in Streams THEN "done" ELSE "release")
    /\ UNCHANGED <<isNew, lock, map, sinceSweep, disk, restarts>>

\* The process fails, is killed with the context or its output is unreadable; a
\* new session may exist nevertheless.
RunFails(r) ==
    /\ GoTo(r, "run", "release")
    /\ \/ UNCHANGED conversations
       \/ isNew[r] /\ conversations' = conversations \cup {ClientOf[r]}
    /\ Touches(r)
    /\ UNCHANGED <<isNew, lock, map, sinceSweep, dirs, restarts>>

-----------------------------------------------------------------------------
(* The gateway restarts: systemd ends the processes with it.               *)
Restart ==
    /\ restarts < MaxRestarts /\ restarts' = restarts + 1
    /\ pc' = [r \in Requests |-> IF pc[r] = "idle" THEN "idle" ELSE "done"]
    /\ entry' = [c \in Clients |-> NoOne] /\ used' = [c \in Clients |-> 0]
    /\ holder' = [r \in Requests |-> NoOne]
    /\ sinceSweep' = TTL
    /\ isNew' = [r \in Requests |-> FALSE] /\ lock' = [r \in Requests |-> NoOne]
    /\ UNCHANGED disk

Older(n) == IF n < TTL THEN n + 1 ELSE TTL

\* Time passes while processes run and requests wait for a slot that is taken: a
\* goroutine that can take its slot does so within a tick.
Tick ==
    /\ \A r \in Requests : pc[r] = "wait" => holder[lock[r]] # NoOne
    /\ used' = [c \in Clients |-> IF entry[c] = NoOne THEN 0 ELSE Older(used[c])]
    /\ dirAge' = [c \in Clients |-> IF c \in dirs THEN Older(dirAge[c]) ELSE 0]
    /\ sinceSweep' = Older(sinceSweep)
    /\ UNCHANGED <<request, entry, holder, dirs, conversations, restarts>>

Resolve(r) == Sweep(r) \/ SkipSweep(r) \/ Stat(r) \/ Mkdir(r) \/ MkdirFails(r)
Acquire(r) == LookUp(r) \/ Take(r) \/ GiveUp(r)
Execute(r) == Spawn(r) \/ NoProcess(r) \/ Served(r) \/ NotFound(r) \/ RunFails(r)
Step(r) == Resolve(r) \/ Acquire(r) \/ Execute(r) \/ Release(r)

Finished == (\A r \in Requests : pc[r] = "done") /\ UNCHANGED vars

Next == (\E r \in Requests : Step(r)) \/ Restart \/ Tick \/ Finished

Spec == Init /\ [][Next]_vars

(* A request takes its steps, a process ends: by itself, with the timeout  *)
(* of the attempt or with the client's context.  No request has to give up *)
(* waiting.                                                                *)
FairSpec ==
    Spec /\ \A r \in Requests :
              WF_vars(Resolve(r) \/ LookUp(r) \/ Take(r) \/ Execute(r) \/ Release(r))

-----------------------------------------------------------------------------
Points == {"idle", "stat", "mkdir", "look", "wait", "done"} \cup Holding
Slots == Requests \cup {NoOne}
Ages == 0..TTL

\* The engine, its requests and its directories have the right shape, and a slot is
\* held by the one request that looked it up and runs under it.
TypeOK ==
    /\ pc \in [Requests -> Points] /\ isNew \in [Requests -> BOOLEAN]
    /\ lock \in [Requests -> Slots]
    /\ entry \in [Clients -> Slots] /\ used \in [Clients -> Ages]
    /\ holder \in [Requests -> Slots]
    /\ \A l \in Requests : holder[l] # NoOne => lock[holder[l]] = l /\ pc[holder[l]] \in Holding
    /\ sinceSweep \in Ages
    /\ dirs \subseteq Clients /\ dirAge \in [Clients -> Ages]
    /\ conversations \subseteq Clients
    /\ restarts \in 0..MaxRestarts

\* D8 of 013-001 and I3 of 013-004: at most one process of a session runs, across
\* sweeps, evictions of entries and restarts.
OneProcess ==
    \A r, q \in Requests :
        pc[r] = "run" /\ pc[q] = "run" /\ ClientOf[r] = ClientOf[q] => r = q

\* P6 of 013-004: whoever waits for a slot or holds it has the one that later
\* requests of the client will look up.
InFlightKeepsEntry ==
    \A r \in Requests :
        pc[r] \in Holding \cup {"wait"} => entry[ClientOf[r]] = lock[r]

\* P5 of 013-004: the directory of a running process is never swept.
RunningKeepsDir ==
    [][\A r \in Requests :
        pc[r] = "run" /\ pc'[r] = "run" /\ ClientOf[r] \in dirs => ClientOf[r] \in dirs']_vars

\* P4 of 013-004: every request ends and gives its slot back, also a stream that
\* was abandoned, so that no session starves.
Answered == \A r \in Requests : pc[r] # "idle" ~> pc[r] = "done"

=============================================================================
