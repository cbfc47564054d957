---------------------------- MODULE ModelsCache ----------------------------
(***************************************************************************)
(* The cache file of one source of models, and the runs of mofgw-sync that *)
(* refresh and read it.  systemd starts one run after the other, and an    *)
(* operator may start others beside them.                                  *)
(*                                                                         *)
(* The bytes the source serves are numbered in the order it publishes      *)
(* them; a digest is the number of the bytes it was computed from.  Ages   *)
(* are ticks, counted up to the TTL.                                       *)
(***************************************************************************)
EXTENDS Integers

CONSTANTS
    Procs,        \* runs that may be under way at the same time
    Timer,        \* the one systemd starts, again and again
    Unparsable,   \* versions Spec.Parse refuses
    TTL,
    Snapshot,     \* whether the binary embeds a catalog for this source
    MaxVersion,   \* bound: versions the source publishes
    MaxFailures   \* bound: failures of the network, the disk and the processes

None == -1
Absent == -2      \* Get had nothing, and neither had the snapshot
Embedded == -3    \* the snapshot
Versions == 0..MaxVersion
NoProc == "nobody"

ASSUME CacheAssumption ==
    /\ Timer \in Procs /\ NoProc \notin Procs
    /\ Unparsable \subseteq Versions
    /\ TTL \in Nat \ {0} /\ Snapshot \in BOOLEAN
    /\ MaxVersion \in Nat /\ MaxFailures \in Nat

VARIABLES
    locking,      \* Store.Lock
    disabled,     \* the source's knob
    upstream,     \* the version the source serves
    cache, age,   \* the version in the cache file, ticks since its mtime
    sidecar,      \* the digest file
    owner,        \* who holds the flock
    pc,
    found,        \* the file was there as Refresh looked
    raw,          \* the bytes each run fetched
    result,       \* how Refresh ended
    loaded,       \* what loadSources made of it
    failures

file == <<cache, age>>
run == <<found, raw, result, loaded>>
vars == <<locking, disabled, upstream, file, sidecar, owner, pc, run, failures>>
fixed == <<locking, disabled>>

Init ==
    /\ locking \in BOOLEAN /\ disabled \in BOOLEAN
    /\ upstream = 0
    /\ cache = None /\ age = TTL /\ sidecar = None
    /\ owner = NoProc
    /\ pc = [p \in Procs |-> "idle"]
    /\ found = [p \in Procs |-> FALSE] /\ raw = [p \in Procs |-> None]
    /\ result = [p \in Procs |-> "none"] /\ loaded = [p \in Procs |-> None]
    /\ failures = 0

GoTo(p, from, to) == pc[p] = from /\ pc' = [pc EXCEPT ![p] = to]
Fails == failures < MaxFailures /\ failures' = failures + 1

\* Refresh returns, which closes the lock file.
Return(p, from, how) ==
    /\ GoTo(p, from, "get")
    /\ result' = [result EXCEPT ![p] = how]
    /\ owner' = IF owner = p THEN NoProc ELSE owner

-----------------------------------------------------------------------------
(* Store.Refresh.                                                          *)

\* A run begins; with --no-fetch it only reads.
Start(p) ==
    /\ \/ GoTo(p, "idle", IF locking THEN "lock" ELSE "stat")
       \/ p # Timer /\ GoTo(p, "idle", "get")
    /\ UNCHANGED <<fixed, upstream, file, sidecar, owner, run, failures>>

Lock(p) ==
    /\ owner = NoProc
    /\ GoTo(p, "lock", "stat")
    /\ owner' = p
    /\ UNCHANGED <<fixed, upstream, file, sidecar, run, failures>>

SlipBusyGoesOn(p) ==
    /\ owner # NoProc
    /\ GoTo(p, "lock", "stat")
    /\ UNCHANGED <<fixed, upstream, file, sidecar, owner, run, failures>>

\* The flock does not block.
LockBusy(p) ==
    /\ owner # NoProc
    /\ Return(p, "lock", "busy")
    /\ UNCHANGED <<fixed, upstream, file, sidecar, found, raw, loaded, failures>>

Fresh == cache # None /\ age < TTL

StatDisabled(p) ==
    /\ disabled
    /\ Return(p, "stat", IF cache = None THEN "loud" ELSE "unfetched")
    /\ UNCHANGED <<fixed, upstream, file, sidecar, found, raw, loaded, failures>>

StatFresh(p) ==
    /\ ~disabled /\ Fresh
    /\ Return(p, "stat", "unfetched")
    /\ UNCHANGED <<fixed, upstream, file, sidecar, found, raw, loaded, failures>>

StatStale(p) ==
    /\ ~disabled /\ ~Fresh
    /\ GoTo(p, "stat", "fetch")
    /\ found' = [found EXCEPT ![p] = cache # None]
    /\ UNCHANGED <<fixed, upstream, file, sidecar, owner, raw, result, loaded, failures>>

\* fetchAnyWith: bytes that parse, at the first attempt or at the second.
Fetch(p, attempt) ==
    /\ upstream \notin Unparsable
    /\ GoTo(p, attempt, "digest")
    /\ raw' = [raw EXCEPT ![p] = upstream]
    /\ UNCHANGED <<fixed, upstream, file, sidecar, owner, found, result, loaded, failures>>

\* The network or a 5xx: once more after the backoff.
FetchRetried(p) ==
    /\ Fails
    /\ GoTo(p, "fetch", "again")
    /\ UNCHANGED <<fixed, upstream, file, sidecar, owner, run>>

\* Soft while there is a file, loud without.
FetchFails(p, attempt) ==
    /\ IF upstream \in Unparsable THEN UNCHANGED failures ELSE Fails
    /\ Return(p, attempt, IF found[p] THEN "soft" ELSE "loud")
    /\ UNCHANGED <<fixed, upstream, file, sidecar, found, raw, loaded>>

\* persist: the digest of the bytes is the sidecar's.
SkipIdentical(p) ==
    /\ sidecar = raw[p]
    /\ Return(p, "digest", "same")
    /\ UNCHANGED <<fixed, upstream, file, sidecar, found, raw, loaded, failures>>

WriteSidecar(p) ==
    /\ sidecar # raw[p]
    /\ GoTo(p, "digest", "commit")
    /\ sidecar' = raw[p]
    /\ UNCHANGED <<fixed, upstream, file, owner, run, failures>>

WriteCache(p) ==
    /\ Return(p, "commit", "changed")
    /\ cache' = raw[p] /\ age' = 0
    /\ UNCHANGED <<fixed, upstream, sidecar, found, raw, loaded, failures>>

\* A failed write leaves the file it would have replaced.
WriteFails(p) ==
    /\ Fails
    /\ \/ sidecar # raw[p] /\ Return(p, "digest", "failed")
       \/ Return(p, "commit", "failed")
    /\ UNCHANGED <<fixed, upstream, file, sidecar, found, raw, loaded>>

-----------------------------------------------------------------------------
(* Store.Get and the fallback of loadSources.                              *)

Get(p) ==
    /\ cache # None
    /\ GoTo(p, "get", "ended")
    /\ loaded' = [loaded EXCEPT ![p] = cache]
    /\ UNCHANGED <<fixed, upstream, file, sidecar, owner, found, raw, result, failures>>

GetFails(p) ==
    /\ cache = None
    /\ GoTo(p, "get", "fallback")
    /\ UNCHANGED <<fixed, upstream, file, sidecar, owner, run, failures>>

\* The snapshot stands in for a file that is still not there.
Fallback(p) ==
    /\ GoTo(p, "fallback", "ended")
    /\ loaded' = [loaded EXCEPT ![p] = IF cache = None /\ Snapshot THEN Embedded ELSE Absent]
    /\ UNCHANGED <<fixed, upstream, file, sidecar, owner, found, raw, result, failures>>

Ended(p, from) ==
    /\ pc[p] \in from
    /\ pc' = [pc EXCEPT ![p] = "idle"]
    /\ found' = [found EXCEPT ![p] = FALSE] /\ raw' = [raw EXCEPT ![p] = None]
    /\ result' = [result EXCEPT ![p] = "none"] /\ loaded' = [loaded EXCEPT ![p] = None]

Exit(p) == Ended(p, {"ended"}) /\ UNCHANGED <<fixed, upstream, file, sidecar, owner, failures>>

-----------------------------------------------------------------------------
(* The environment.                                                        *)

SlipLockOutlives(p) ==
    /\ Fails
    /\ Ended(p, {"lock", "stat", "fetch", "again", "digest", "commit", "get", "fallback"})
    /\ UNCHANGED <<fixed, upstream, file, sidecar, owner>>

\* A run is killed between two steps, which frees its flock.
Kill(p) ==
    /\ Fails
    /\ Ended(p, {"lock", "stat", "fetch", "again", "digest", "commit", "get", "fallback"})
    /\ owner' = IF owner = p THEN NoProc ELSE owner
    /\ UNCHANGED <<fixed, upstream, file, sidecar>>

\* Someone clears the cache file.
Clear ==
    /\ cache # None /\ Fails
    /\ cache' = None /\ age' = TTL
    /\ UNCHANGED <<fixed, upstream, sidecar, owner, pc, run>>

Publish ==
    /\ upstream < MaxVersion /\ upstream' = upstream + 1
    /\ UNCHANGED <<fixed, file, sidecar, owner, pc, run, failures>>

Tick ==
    /\ age < TTL /\ age' = age + 1
    /\ UNCHANGED <<fixed, upstream, cache, sidecar, owner, pc, run, failures>>

Refresh(p) ==
    \/ Lock(p) \/ LockBusy(p) \/ StatDisabled(p) \/ StatFresh(p) \/ StatStale(p)
    \/ Fetch(p, "fetch") \/ Fetch(p, "again") \/ FetchFails(p, "fetch") \/ FetchFails(p, "again")
    \/ SkipIdentical(p) \/ WriteSidecar(p) \/ WriteCache(p)

Load(p) == Get(p) \/ GetFails(p) \/ Fallback(p) \/ Exit(p)

Next ==
    \/ \E p \in Procs : Start(p) \/ Refresh(p) \/ FetchRetried(p) \/ WriteFails(p) \/ Load(p) \/ Kill(p)
    \/ Clear \/ Publish \/ Tick

Spec == Init /\ [][Next]_vars

(* The timer fires for ever, runs take their steps and time passes.        *)
FairSpec ==
    /\ Spec /\ WF_vars(Tick) /\ WF_vars(Start(Timer))
    /\ \A p \in Procs : WF_vars(Refresh(p) \/ Load(p))

-----------------------------------------------------------------------------
Points == {"idle", "lock", "stat", "fetch", "again", "digest", "commit", "get", "fallback", "ended"}
Results == {"none", "busy", "unfetched", "soft", "loud", "same", "changed", "failed"}

\* Files and runs have the right shape, and with the lock one run at a time is past it.
TypeOK ==
    /\ locking \in BOOLEAN /\ disabled \in BOOLEAN
    /\ upstream \in Versions
    /\ cache \in (Versions \ Unparsable) \cup {None} /\ age \in 0..TTL
    /\ sidecar \in (Versions \ Unparsable) \cup {None}
    /\ owner \in Procs \cup {NoProc}
    /\ pc \in [Procs -> Points] /\ found \in [Procs -> BOOLEAN]
    /\ raw \in [Procs -> (Versions \ Unparsable) \cup {None}]
    /\ result \in [Procs -> Results]
    /\ loaded \in [Procs -> Versions \cup {None, Absent, Embedded}]
    /\ failures \in 0..MaxFailures

Past == {"stat", "fetch", "again", "digest", "commit"}

\* P9 of 019-001: the lock is taken before the look at the age, so that no two runs see
\* the same stale file and both fetch it.
StaleIsSeenOnce ==
    locking =>
        \A p \in Procs : pc[p] \in {"fetch", "again", "digest", "commit"} =>
            /\ ~Fresh
            /\ \A q \in Procs \ {p} : pc[q] \notin Past

\* With the lock a refresh never puts older bytes over newer ones.
NeverOlder == [][locking /\ cache' # None => cache' >= cache]_vars

\* The file has the bytes the source serves, if they parse.
UpToDate == cache = upstream \/ upstream \in Unparsable

\* The sidecar has the digest of the bytes the source serves, and the file other bytes
\* or none: every refresh skips.
Trapped == sidecar = upstream /\ cache # upstream

\* Nothing but the trap of the sidecar and the knob keep the file from what the source
\* serves.
FreshUnlessTrapped == []<>(UpToDate \/ Trapped \/ disabled)

=============================================================================
