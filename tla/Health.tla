------------------------------- MODULE Health -------------------------------
(***************************************************************************)
(* The health store (internal/health) as main.go wires it: at boot the     *)
(* store registers the providers that can be probed, starts its ticker and *)
(* probes them all before the server listens; from then on one goroutine   *)
(* probes, at each tick, the providers whose last probe is an interval     *)
(* old.  Probes run one after the other and outside the store's lock, so   *)
(* that the ticker and the boot may probe the same provider at once.       *)
(*                                                                         *)
(* Time is discrete and has no clock: what is kept is the age of each      *)
(* verdict, the phase of the ticker and the time a probe has taken.        *)
(* ConsecutiveFailures and LastLatency are only shown, and left out.       *)
(***************************************************************************)
EXTENDS Integers, FiniteSets

CONSTANTS
    Providers,  \* the providers of the router
    Probed,     \* those that implement health.Checker (no subprocess does)
    Interval,   \* fallback.health.interval
    Timeout,    \* fallback.health.timeout
    None        \* no provider

ASSUME HealthAssumption ==
    /\ Probed \subseteq Providers
    /\ IsFiniteSet(Probed)
    /\ None \notin Providers
    /\ Interval \in Nat \ {0}
    /\ Timeout \in Nat \ {0}

Workers == {"boot", "ticker"}  \* the goroutine of main and the one of Start
Never == Interval + 1          \* the age of a LastCheck that is still zero

VARIABLES
    up,       \* the providers that would answer a probe in time
    healthy,  \* the providers whose State has Healthy
    age,      \* the time since LastCheck: Interval when it is older, or Never
    phase,    \* the time since the ticker last fired
    tick,     \* a tick waits in the channel t.C, which holds one
    worker,   \* what each goroutine still has to probe, and its probe
    serving,  \* the server listens
    wrong     \* how long a verdict has differed from a provider at rest

healthVars == <<up, healthy, age, phase, tick, worker, serving, wrong>>

Smaller(a, b) == IF a < b THEN a ELSE b
Larger(a, b) == IF a < b THEN b ELSE a

\* The longest a verdict may be wrong about a provider that has not changed: a
\* probe that ends with what it saw before the change, the interval until the
\* verdict is old, then a tick, or the rest of a round of the other providers
\* that began just before, and the round that probes this one last.
Bound == LET n == Cardinality(Probed) IN
         Interval + Larger(Interval, (n - 1) * Timeout) + (n + 1) * Timeout

Idle == [todo |-> {}, at |-> None, spent |-> 0, saw |-> {}]

-----------------------------------------------------------------------------
\* What the router and /healthz read.

IsHealthy(p) == p \notin Probed \/ p \in healthy

\* handleHealth takes a provider that was never probed for unknown, not down.
ShownHealthy(p) == age[p] = Never \/ p \in healthy

Degraded == Probed # {} /\ \A p \in Probed : ~ShownHealthy(p)

-----------------------------------------------------------------------------
\* New, Register, Start and the first instant of CheckNow: the states are
\* created unhealthy, and the boot has every provider to probe.
HealthInit ==
    /\ up \in SUBSET Probed
    /\ healthy = {}
    /\ age = [p \in Probed |-> Never]
    /\ phase = 0
    /\ tick = FALSE
    /\ worker = [w \in Workers |->
                    IF w = "boot" THEN [Idle EXCEPT !.todo = Probed] ELSE Idle]
    /\ serving = FALSE
    /\ wrong = [p \in Probed |-> 0]

\* A provider fails or recovers.  A probe that is under way may see either.
Turn(p) ==
    /\ up' = IF p \in up THEN up \ {p} ELSE up \cup {p}
    /\ worker' = [w \in Workers |->
                    IF worker[w].at = p
                    THEN [worker[w] EXCEPT !.saw = @ \cup {p \in up'}]
                    ELSE worker[w]]
    /\ wrong' = [q \in Probed |-> IF q = p THEN 0 ELSE wrong[q]]
    /\ UNCHANGED <<healthy, age, phase, tick, serving>>

\* Only what is healthy is worth a probe.
SlipDue == {p \in healthy : age[p] >= Interval}

Due == {p \in Probed : age[p] >= Interval}

\* The ticker receives a tick and lists what is due.
CheckDue ==
    /\ tick /\ worker["ticker"] = Idle
    /\ tick' = FALSE
    /\ worker' = [worker EXCEPT !["ticker"].todo = Due]
    /\ UNCHANGED <<up, healthy, age, phase, serving, wrong>>

\* checkOne up to the request; the list has the order of a map: any.
BeginProbe(w, p) ==
    /\ worker[w].at = None /\ p \in worker[w].todo
    /\ worker' = [worker EXCEPT
                    ![w] = [todo |-> @.todo \ {p}, at |-> p, spent |-> 0,
                            saw |-> {p \in up}]]
    /\ UNCHANGED <<up, healthy, age, phase, tick, serving, wrong>>

\* What GET /models may come to: a provider that was up at some moment of the
\* probe may answer below 400; one that was down may refuse the connection,
\* answer an error, or keep the probe until its timeout.
Outcomes(w) == worker[w].saw

\* checkOne from the answer, the error or the timeout of the request.
EndProbe(w, ok) ==
    LET p == worker[w].at IN
    /\ p # None /\ ok \in Outcomes(w)
    /\ healthy' = IF ok THEN healthy \cup {p} ELSE healthy \ {p}
    /\ age' = [age EXCEPT ![p] = 0]
    /\ worker' = [worker EXCEPT ![w] = [Idle EXCEPT !.todo = worker[w].todo]]
    /\ wrong' = [wrong EXCEPT ![p] = IF ok = (p \in up) THEN 0 ELSE @]
    /\ UNCHANGED <<up, phase, tick, serving>>

\* go hs.CheckNow(): main does not wait for it.
SlipServe ==
    /\ ~serving
    /\ serving' = TRUE
    /\ UNCHANGED <<up, healthy, age, phase, tick, worker, wrong>>

\* CheckNow has returned and main goes on to listen.
Serve ==
    /\ ~serving /\ worker["boot"] = Idle
    /\ serving' = TRUE
    /\ UNCHANGED <<up, healthy, age, phase, tick, worker, wrong>>

\* A goroutine has nothing to do but wait for time to pass.
AtRest(w) ==
    IF worker[w].at = None
    THEN worker[w].todo = {} /\ (w = "ticker" => ~tick)
    ELSE worker[w].spent < Timeout

\* A unit of time passes.  The channel of the ticker drops a second tick.
Advance ==
    /\ \A w \in Workers : AtRest(w)
    /\ phase' = (phase + 1) % Interval
    /\ tick' = (tick \/ phase' = 0)
    /\ age' = [p \in Probed |->
                 IF age[p] = Never THEN Never ELSE Smaller(age[p] + 1, Interval)]
    /\ worker' = [w \in Workers |->
                    IF worker[w].at = None THEN worker[w]
                    ELSE [worker[w] EXCEPT !.spent = @ + 1]]
    /\ wrong' = [p \in Probed |->
                   IF (p \in healthy) = (p \in up) THEN 0
                   ELSE Smaller(wrong[p] + 1, Bound + 1)]
    /\ UNCHANGED <<up, healthy, serving>>

HealthNext ==
    \/ \E p \in Probed : Turn(p)
    \/ CheckDue
    \/ \E w \in Workers, p \in Probed : BeginProbe(w, p)
    \/ \E w \in Workers, ok \in BOOLEAN : EndProbe(w, ok)
    \/ Serve
    \/ Advance

HealthSpec == HealthInit /\ [][HealthNext]_healthVars

-----------------------------------------------------------------------------
\* Neither the order of the probes, nor a provider that hangs, nor the race
\* of the boot with the ticker keeps a verdict wrong for long: a provider
\* that stays as it is has that verdict within Bound.
SoonTruthful == \A p \in Probed : wrong[p] <= Bound

\* Once the server listens, the router's reading of a provider and the one of
\* /healthz are the same: nothing is still waiting for its first probe, which
\* the router would take for down and /healthz for unknown.  A 503 of /healthz
\* then means that the router, too, is down to its last resort.
ReadersAgree ==
    serving =>
        /\ \A p \in Probed : IsHealthy(p) = ShownHealthy(p)
        /\ Degraded => \A p \in Probed : ~IsHealthy(p)
=============================================================================
