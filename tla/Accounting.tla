----------------------------- MODULE Accounting -----------------------------
(***************************************************************************)
(* The accounting of the gateway and its life across restarts: the records *)
(* a request leaves, each under a mutex of its own, the snapshot that is   *)
(* saved periodically and at shutdown, and its restoration at boot.        *)
(* A served request is worth one unit of usage and one of cost.            *)
(*                                                                         *)
(* Three variables only tell a history and are read by properties alone:   *)
(* "safe" has the requests that had recorded everything when a save that   *)
(* later reached the disk began; "gone" those of them that memory lacks,   *)
(* since the boot could not read the file; "erased" those that the file    *)
(* lacks, since a process without them has overwritten it.                 *)
(***************************************************************************)
EXTENDS Integers, Sequences, FiniteSets

CONSTANTS
    Requests, Clients, Sessions,
    ClientOf, SessionOf,
    NoSession,
    LimitAfter,        \* max_sessions_retained, as configured after so many stops
    DefaultRetained,   \* the same before the configuration is applied
    HistoryCap,        \* context.analysis.history_per_session
    DefaultHistory,    \* the same before the configuration is applied
    Served,            \* bound: requests a provider may serve, the others fail
    MaxTime,           \* bound: seconds that pass
    MaxStops,          \* bound: shutdowns and crashes
    MaxSaves           \* bound: periodic saves

ASSUME AccountingAssumption ==
    /\ IsFiniteSet(Requests)
    /\ NoSession \notin Sessions
    /\ ClientOf \in [Requests -> Clients]
    /\ SessionOf \in [Requests -> Sessions \cup {NoSession}]
    /\ Served \subseteq Requests
    /\ LimitAfter \in [0..MaxStops -> Nat \ {0}]
    /\ DefaultRetained \in Nat \ {0}
    /\ HistoryCap \in Nat /\ DefaultHistory \in Nat
    /\ MaxTime \in Nat /\ MaxStops \in Nat /\ MaxSaves \in Nat

VARIABLES
    process,    \* "down", "up", "draining", "closing" or "stopping"
    stops,
    saves,      \* periodic saves so far
    now,
    retained,   \* the limit of this life
    pc,         \* of each request
    usage, cost,
    sessions,   \* record of each client and session
    contexts,   \* the same of its composition, NoSession for the client's own
    saving,     \* where each saver is
    image,      \* what it has captured
    file,       \* the state file
    safe, gone, erased

books == <<usage, cost, sessions, contexts>>
savers == <<saving, image, file, safe, gone, erased>>
vars == <<process, stops, saves, now, retained, pc, books, savers>>

Savers == {"ticker", "final"}

Smaller(a, b) == IF a < b THEN a ELSE b
Larger(a, b) == IF a < b THEN b ELSE a
Only(f, K) == [k \in K |-> f[k]]
With(f, key, v) == [k \in DOMAIN f \cup {key} |-> IF k = key THEN v ELSE f[k]]

\* Sessions with the oldest last_request_at first; ties fall as the map iterates.
DropOldest(f, candidates, n) ==
    {Only(f, DOMAIN f \ dropped) :
        dropped \in {D \in SUBSET candidates :
            /\ Cardinality(D) = n
            /\ \A d \in D, k \in candidates \ D : f[d].last <= f[k].last}}

Over(n, cap) == IF n > cap THEN n - cap ELSE 0

Empty == [usage |-> [c \in Clients |-> 0], cost |-> [c \in Clients |-> 0],
          sessions |-> <<>>, contexts |-> <<>>, done |-> {}]

Init ==
    /\ process = "down" /\ stops = 0 /\ saves = 0 /\ now = 1
    /\ retained = DefaultRetained
    /\ pc = [r \in Requests |-> "idle"]
    /\ usage = Empty.usage /\ cost = Empty.cost
    /\ sessions = <<>> /\ contexts = <<>>
    /\ saving = [w \in Savers |-> "off"]
    /\ image = [w \in Savers |-> Empty]
    /\ file = Empty /\ safe = {} /\ gone = {} /\ erased = {}

GoTo(r, from, to) == pc[r] = from /\ pc' = [pc EXCEPT ![r] = to]

Running == process # "down"
InFlight == {r \in Requests : pc[r] \notin {"idle", "done", "failed", "lost"}}

-----------------------------------------------------------------------------
(* What a request records.                                                 *)

SessionKeys(f) == {k \in DOMAIN f : k[2] # NoSession}

NewContext(t) == [requests |-> 0, actual |-> 0, last |-> t, history |-> <<>>]

\* recordContextLocked: the record of a key, created with the current time.
WithContext(f, key, t) == IF key \in DOMAIN f THEN f ELSE With(f, key, NewContext(t))

\* One record per session is evicted when a new one exceeds the limit; the records
\* of the clients are not.
ContextRoom(f, key) ==
    IF key \in DOMAIN contexts \/ key[2] = NoSession THEN {f}
    ELSE DropOldest(f, SessionKeys(f),
                    IF Cardinality(SessionKeys(f)) > retained THEN 1 ELSE 0)

\* The request is added to a record, which may just have been evicted.
Composed(f, key, r) ==
    IF key \notin DOMAIN f THEN f
    ELSE [f EXCEPT ![key] =
             [requests |-> @.requests + 1, actual |-> @.actual, last |-> now,
              history |-> SubSeq(<<r>> \o @.history, 1,
                                 Smaller(HistoryCap, Len(@.history) + 1))]]

\* RecordContext: the client's record and, with a session, that of the session.
RecordContext(r) ==
    LET ofClient == <<ClientOf[r], NoSession>>
        ofSession == <<ClientOf[r], SessionOf[r]>>
        first == Composed(WithContext(contexts, ofClient, now), ofClient, r)
    IN  /\ process = "up" /\ GoTo(r, "idle", "call")
        /\ IF SessionOf[r] = NoSession THEN contexts' = first
           ELSE \E f \in ContextRoom(WithContext(first, ofSession, now), ofSession) :
                    contexts' = Composed(f, ofSession, r)
        /\ UNCHANGED <<process, stops, saves, now, retained, usage, cost, sessions, savers>>

\* A rejection or the failure of every provider: nothing more is recorded.
Fail(r) ==
    /\ GoTo(r, "call", "failed")
    /\ UNCHANGED <<process, stops, saves, now, retained, books, savers>>

\* recordCacheTokens of a request that was served.
IncUsage(r) ==
    /\ r \in Served
    /\ GoTo(r, "call", "cost")
    /\ usage' = [usage EXCEPT ![ClientOf[r]] = @ + 1]
    /\ UNCHANGED <<process, stops, saves, now, retained, cost, sessions, contexts, savers>>

IncCost(r) ==
    /\ GoTo(r, "cost", "session")
    /\ cost' = [cost EXCEPT ![ClientOf[r]] = @ + 1]
    /\ UNCHANGED <<process, stops, saves, now, retained, usage, sessions, contexts, savers>>

\* A new record exceeds the limit: the one with the oldest last_request_at goes,
\* and that of the new record is still zero.
SessionRoom(f, fresh) ==
    IF fresh THEN DropOldest(f, DOMAIN f, IF Cardinality(DOMAIN f) > retained THEN 1 ELSE 0)
    ELSE {f}

RecordSession(r) ==
    LET key == <<ClientOf[r], SessionOf[r]>>
        fresh == key \notin DOMAIN sessions
        inserted == IF fresh THEN With(sessions, key, [requests |-> 0, last |-> 0])
                    ELSE sessions
    IN  /\ GoTo(r, "session", "actual")
        /\ IF SessionOf[r] = NoSession THEN sessions' = sessions
           ELSE \E f \in SessionRoom(inserted, fresh) :
                    sessions' = IF key \notin DOMAIN f THEN f
                                ELSE [f EXCEPT ![key] = [requests |-> @.requests + 1,
                                                         last |-> now]]
        /\ UNCHANGED <<process, stops, saves, now, retained, usage, cost, contexts, savers>>

\* updateContextUsageLocked: only while the history still has the request.
Updated(f, key, r) ==
    IF key \in DOMAIN f /\ \E i \in 1..Len(f[key].history) : f[key].history[i] = r
    THEN [f EXCEPT ![key].actual = @ + 1] ELSE f

UpdateContextUsage(r) ==
    LET ofClient == <<ClientOf[r], NoSession>>
        ofSession == <<ClientOf[r], SessionOf[r]>>
        first == IF SessionOf[r] = NoSession THEN contexts ELSE Updated(contexts, ofSession, r)
    IN  /\ GoTo(r, "actual", "done")
        /\ contexts' = Updated(first, ofClient, r)
        /\ UNCHANGED <<process, stops, saves, now, retained, usage, cost, sessions, savers>>

-----------------------------------------------------------------------------
(* SaveState: the parts are captured one mutex after the other, written to *)
(* a temporary file and renamed.                                           *)

Save(w, from, to) == saving[w] = from /\ saving' = [saving EXCEPT ![w] = to]

TickerFires ==
    /\ process \in {"up", "draining"}
    /\ saves < MaxSaves /\ saves' = saves + 1
    /\ Save("ticker", "off", "usage")
    /\ image' = [image EXCEPT !["ticker"] =
                    [Empty EXCEPT !.done = {r \in Requests : pc[r] = "done"}]]
    /\ UNCHANGED <<process, stops, now, retained, pc, books, file, safe, gone, erased>>

CaptureUsage(w) ==
    /\ Save(w, "usage", "cost")
    /\ image' = [image EXCEPT ![w].usage = usage]
    /\ UNCHANGED <<process, stops, saves, now, retained, pc, books, file, safe, gone, erased>>

CaptureCost(w) ==
    /\ Save(w, "cost", "sessions")
    /\ image' = [image EXCEPT ![w].cost = cost]
    /\ UNCHANGED <<process, stops, saves, now, retained, pc, books, file, safe, gone, erased>>

CaptureSessions(w) ==
    /\ Save(w, "sessions", "contexts")
    /\ image' = [image EXCEPT ![w].sessions = sessions]
    /\ UNCHANGED <<process, stops, saves, now, retained, pc, books, file, safe, gone, erased>>

CaptureContexts(w) ==
    /\ Save(w, "contexts", "rename")
    /\ image' = [image EXCEPT ![w].contexts = contexts]
    /\ UNCHANGED <<process, stops, saves, now, retained, pc, books, file, safe, gone, erased>>

\* The rename replaces the file; writing the temporary one may fail before it.
Rename(w) ==
    /\ Save(w, "rename", "off")
    /\ file' = [image[w] EXCEPT !.done = {}]
    /\ safe' = safe \cup image[w].done /\ erased' = gone
    /\ image' = [image EXCEPT ![w] = Empty]
    /\ UNCHANGED <<process, stops, saves, now, retained, pc, books, gone>>

WriteFails(w) ==
    /\ Save(w, "rename", "off")
    /\ image' = [image EXCEPT ![w] = Empty]
    /\ UNCHANGED <<process, stops, saves, now, retained, pc, books, file, safe, gone, erased>>

SaveStep(w) == CaptureUsage(w) \/ CaptureCost(w) \/ CaptureSessions(w)
               \/ CaptureContexts(w) \/ Rename(w) \/ WriteFails(w)

-----------------------------------------------------------------------------
(* The life of the process.                                                *)

\* What metrics.New makes.
CleanBooks ==
    /\ usage' = Empty.usage /\ cost' = Empty.cost
    /\ sessions' = <<>> /\ contexts' = <<>>

SlipRestoresAll(f) == {f}

\* restore cuts histories and evicts down to the limits in force, which at this
\* point of the boot are the default ones.
RestoredContexts(f) ==
    LET cut == [k \in DOMAIN f |-> [f[k] EXCEPT !.history =
                   SubSeq(@, 1, Smaller(DefaultHistory, Len(@)))]]
    IN  DropOldest(cut, SessionKeys(cut),
                   Over(Cardinality(SessionKeys(cut)), DefaultRetained))

\* LoadState, before any request is accepted.  The configured limit is set after
\* it and evicts nothing.
Boot ==
    /\ process = "down" /\ process' = "up"
    /\ retained' = LimitAfter[stops]
    /\ usage' = file.usage /\ cost' = file.cost
    /\ sessions' \in DropOldest(file.sessions, DOMAIN file.sessions,
                                Over(Cardinality(DOMAIN file.sessions), DefaultRetained))
    /\ contexts' \in RestoredContexts(file.contexts)
    /\ gone' = erased
    /\ UNCHANGED <<stops, saves, now, pc, saving, image, file, safe, erased>>

\* LoadState fails: the file cannot be read or parsed, or is of a newer version.
\* The process starts with clean books and leaves the file to the next save.
BootClean ==
    /\ process = "down" /\ process' = "up"
    /\ retained' = LimitAfter[stops]
    /\ CleanBooks
    /\ gone' = safe
    /\ UNCHANGED <<stops, saves, now, pc, saving, image, file, safe, erased>>

\* SIGTERM: no new requests, the ones in flight have ten seconds.
Terminate ==
    /\ process = "up" /\ process' = "draining"
    /\ stops < MaxStops /\ stops' = stops + 1
    /\ UNCHANGED <<saves, now, retained, pc, books, savers>>

SlipDrainsForever ==
    /\ process = "draining" /\ process' = "closing"
    /\ InFlight = {}
    /\ UNCHANGED <<stops, saves, now, retained, pc, books, savers>>

\* Everything is answered, or ten seconds are over: the ticker is stopped while
\* stragglers still run.
Close ==
    /\ process = "draining" /\ process' = "closing"
    /\ UNCHANGED <<stops, saves, now, retained, pc, books, savers>>

SlipForgetsTicker == process = "closing"

\* The goroutine of the ticker is waited for.
TickerGone == process = "closing" /\ saving["ticker"] = "off"

FinalSave ==
    /\ TickerGone /\ process' = "stopping"
    /\ Save("final", "off", "usage")
    /\ image' = [image EXCEPT !["final"] =
                    [Empty EXCEPT !.done = {r \in Requests : pc[r] = "done"}]]
    /\ UNCHANGED <<stops, saves, now, retained, pc, books, file, safe, gone, erased>>

\* The process is gone, with its memory: what was in flight is lost, and perhaps
\* what finished after the last save began.
Gone ==
    /\ process' = "down"
    /\ pc' = [r \in Requests |->
                IF r \in InFlight \/ (pc[r] = "done" /\ r \notin safe) THEN "lost" ELSE pc[r]]
    /\ saving' = [w \in Savers |-> "off"] /\ image' = [w \in Savers |-> Empty]
    /\ CleanBooks
    /\ retained' = DefaultRetained /\ gone' = {}
    /\ UNCHANGED <<saves, now, file, safe, erased>>

Exit == process = "stopping" /\ saving["final"] = "off" /\ Gone /\ UNCHANGED stops

Crash ==
    /\ Running /\ Gone
    /\ IF process = "up" THEN stops < MaxStops /\ stops' = stops + 1 ELSE UNCHANGED stops

\* A second passes; it tells records apart only while there are new requests.
Tick ==
    /\ process = "up" /\ now < MaxTime /\ now' = now + 1
    /\ UNCHANGED <<process, stops, saves, retained, pc, books, savers>>

Work(r) == RecordContext(r) \/ Fail(r) \/ IncUsage(r) \/ IncCost(r)
           \/ RecordSession(r) \/ UpdateContextUsage(r)

Finished ==
    /\ stops = MaxStops /\ process = "up" /\ \A r \in Requests : pc[r] \notin {"idle", "call"}
    /\ UNCHANGED vars

Next ==
    \/ \E r \in Requests : Work(r)
    \/ TickerFires \/ \E w \in Savers : SaveStep(w)
    \/ Boot \/ BootClean \/ Terminate \/ Close \/ FinalSave \/ Exit \/ Crash
    \/ Tick \/ Finished

Spec == Init /\ [][Next]_vars

\* What main's goroutine does once it was told to stop.
ShutDown == Close \/ FinalSave \/ SaveStep("final") \/ Exit

(* The goroutines of main and of the ticker run; requests may hang for     *)
(* longer than the shutdown waits, and no fairness is asked of them.       *)
FairSpec == Spec /\ WF_vars(SaveStep("ticker")) /\ WF_vars(ShutDown)

-----------------------------------------------------------------------------
Points == {"idle", "call", "cost", "session", "actual",
           "done", "failed", "lost"}
Keys == Clients \X (Sessions \cup {NoSession})

Of(c, S) == Cardinality({r \in S : ClientOf[r] = c})
Billed == {r \in Requests : pc[r] \in {"cost", "session", "actual", "done", "lost"}}

\* TECHDEBT #13: the accounting survives restarts.  While the process serves, a
\* client is charged at least for every request that had finished when a save that
\* reached the disk began, whatever crashed since, and never for a request that
\* was not served; tokens and dollars alike.  The exception is a boot that cannot
\* read the file (main.go:184): memory then lacks what was saved, but the file has
\* it until a save overwrites it, so that a later boot may bring it back.
SavedNeverLost ==
    /\ Running =>
        \A c \in Clients : \A book \in {usage, cost} :
            Of(c, safe \ gone) <= book[c] /\ book[c] <= Of(c, Billed)
    /\ \A c \in Clients : \A book \in {file.usage, file.cost} :
            Of(c, safe \ erased) <= book[c] /\ book[c] <= Of(c, Billed)

OfSession(k) == contexts[k].requests

\* Retention holds, and only records of sessions are evicted: the record of a
\* client counts at least the requests of each session it has left, after
\* evictions, torn saves and restarts with another limit too, and the second phase
\* never counts a request the first did not.  A limit lowered below the default
\* does not evict what the boot brought back by the default (main.go:285).
ClientRecordComplete ==
    /\ Cardinality(DOMAIN sessions) <= Larger(retained, DefaultRetained)
    /\ Cardinality(SessionKeys(contexts)) <= Larger(retained, DefaultRetained)
    /\ \A k \in SessionKeys(contexts) :
          LET own == <<k[1], NoSession>>
          IN  /\ own \in DOMAIN contexts
              /\ OfSession(k) <= contexts[own].requests
    /\ \A k \in DOMAIN contexts : contexts[k].actual <= contexts[k].requests

\* The shutdown ends although requests hang: the drain has a limit and the last
\* save does not wait for them.
Stops == process = "draining" ~> process = "down"

=============================================================================
