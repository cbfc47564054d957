-------------------------- MODULE ProvidersProofs ---------------------------
(***************************************************************************)
(* What the router knows of its providers and what runs behind them: the   *)
(* health store and the engine of the subprocess providers.  The two share *)
(* no state; each part has its own invariant.                              *)
(***************************************************************************)
EXTENDS Health, Subprocess, FiniteSetTheorems, TLAPS

-----------------------------------------------------------------------------
(***************************************************************************)
(* The two readers of the health store agree once the server listens, and  *)
(* no verdict is wrong for long, for any providers, interval and timeout.  *)
(* The first holds because a provider without a verdict is always in the   *)
(* hands of the boot's CheckNow, and main does not listen before CheckNow  *)
(* has returned.  For the second, Wait is the most time that may pass      *)
(* until the ticker has probed a provider anew: no step makes it grow but  *)
(* one that has just set the verdict right or changed the provider, each   *)
(* unit of time makes it shrink, and it never exceeds Bound.               *)
(***************************************************************************)

Probe == [todo : SUBSET Probed, at : Probed \cup {None}, spent : Nat,
          saw : SUBSET BOOLEAN]

HealthTypes ==
    /\ healthy \subseteq Probed
    /\ age \in [Probed -> Nat]
    /\ worker \in [Workers -> Probe]
    /\ serving \in BOOLEAN

\* A provider without a verdict is still the boot's to probe.
BootHasIt ==
    \A p \in Probed :
        age[p] = Never =>
            p \in worker["boot"].todo \/ worker["boot"].at = p

ProbedFirst == serving => \A p \in Probed : age[p] # Never

Inv == HealthTypes /\ BootHasIt /\ ProbedFirst

\* The ages a verdict takes are never that of no verdict.
LEMMA NeverApart ==
    /\ 0 # Never
    /\ \A n \in Nat : Smaller(n + 1, Interval) \in Nat /\ Smaller(n + 1, Interval) # Never
    /\ Never \in Nat
BY HealthAssumption DEF Never, Smaller

LEMMA InitInv == HealthInit => Inv
<1> SUFFICES ASSUME HealthInit PROVE Inv
  OBVIOUS
<1>1. Idle \in Probe /\ [Idle EXCEPT !.todo = Probed] \in Probe
  BY DEF Idle, Probe
<1>2. worker \in [Workers -> Probe] /\ worker["boot"].todo = Probed
  BY <1>1 DEF HealthInit, Workers, Idle
<1>3. healthy \subseteq Probed /\ age \in [Probed -> Nat] /\ serving = FALSE
  BY NeverApart DEF HealthInit
<1> QED BY <1>2, <1>3 DEF Inv, HealthTypes, BootHasIt, ProbedFirst

LEMMA NextInv == Inv /\ [HealthNext]_healthVars => Inv'
<1> SUFFICES ASSUME Inv, [HealthNext]_healthVars PROVE Inv'
  OBVIOUS
<1> USE DEF Inv, HealthTypes, Workers
<1>0. CASE UNCHANGED healthVars
  BY <1>0 DEF healthVars, BootHasIt, ProbedFirst
<1>1. CASE \E p \in Probed : Turn(p)
  <2> PICK p \in Probed : Turn(p) BY <1>1
  <2>1. worker' \in [Workers -> Probe]
    BY DEF Turn, Probe
  <2>2. worker'["boot"].todo = worker["boot"].todo /\ worker'["boot"].at = worker["boot"].at
    BY DEF Turn, Probe
  <2> QED BY <2>1, <2>2 DEF Turn, BootHasIt, ProbedFirst
<1>2. CASE CheckDue
  <2>1. worker' \in [Workers -> Probe]
    BY <1>2 DEF CheckDue, Probe, Due
  <2>2. worker'["boot"] = worker["boot"]
    BY <1>2 DEF CheckDue
  <2> QED BY <1>2, <2>1, <2>2 DEF CheckDue, BootHasIt, ProbedFirst
<1>3. CASE \E w \in Workers, p \in Probed : BeginProbe(w, p)
  <2> PICK w \in Workers, p \in Probed : BeginProbe(w, p) BY <1>3
  <2>1. worker' \in [Workers -> Probe]
    BY DEF BeginProbe, Probe
  <2>2. BootHasIt'
    <3> SUFFICES ASSUME NEW q \in Probed, age[q] = Never
                 PROVE  q \in worker'["boot"].todo \/ worker'["boot"].at = q
      BY DEF BeginProbe, BootHasIt
    <3>1. q \in worker["boot"].todo \/ worker["boot"].at = q
      BY DEF BootHasIt
    <3>2. CASE w = "boot"
      BY <3>1, <3>2, HealthAssumption DEF BeginProbe, Probe
    <3>3. CASE w # "boot"
      BY <3>1, <3>3 DEF BeginProbe
    <3> QED BY <3>2, <3>3
  <2> QED BY <2>1, <2>2 DEF BeginProbe, ProbedFirst
<1>4. CASE \E w \in Workers, ok \in BOOLEAN : EndProbe(w, ok)
  <2> PICK w \in Workers, ok \in BOOLEAN : EndProbe(w, ok) BY <1>4
  <2> DEFINE p == worker[w].at
  <2>1. p \in Probed
    BY DEF EndProbe, Probe
  <2>2. worker' \in [Workers -> Probe]
    BY DEF EndProbe, Probe, Idle
  <2>3. /\ healthy' \subseteq Probed
        /\ age' \in [Probed -> Nat]
        /\ age'[p] = 0
        /\ \A q \in Probed : q # p => age'[q] = age[q]
        /\ serving' = serving
    BY <2>1 DEF EndProbe
  <2>4. BootHasIt'
    <3> SUFFICES ASSUME NEW q \in Probed, age'[q] = Never
                 PROVE  q \in worker'["boot"].todo \/ worker'["boot"].at = q
      BY DEF BootHasIt
    <3>1. q # p /\ age[q] = Never
      BY <2>3, NeverApart
    <3>2. q \in worker["boot"].todo \/ worker["boot"].at = q
      BY <3>1 DEF BootHasIt
    <3>3. CASE w = "boot"
      BY <3>1, <3>2, <3>3 DEF EndProbe, Idle
    <3>4. CASE w # "boot"
      BY <3>2, <3>4 DEF EndProbe
    <3> QED BY <3>3, <3>4
  <2>5. ProbedFirst'
    BY <2>1, <2>3, NeverApart DEF ProbedFirst
  <2> QED BY <2>2, <2>3, <2>4, <2>5
<1>5. CASE Serve
  BY <1>5, HealthAssumption DEF Serve, BootHasIt, ProbedFirst, Idle
<1>6. CASE Advance
  <2>1. worker' \in [Workers -> Probe]
    BY <1>6 DEF Advance, Probe
  <2>2. worker'["boot"].todo = worker["boot"].todo /\ worker'["boot"].at = worker["boot"].at
    BY <1>6 DEF Advance, Probe
  <2>3. /\ age' \in [Probed -> Nat]
        /\ \A q \in Probed : age'[q] = Never => age[q] = Never
    BY <1>6, NeverApart DEF Advance
  <2> QED BY <1>6, <2>1, <2>2, <2>3 DEF Advance, BootHasIt, ProbedFirst
<1> QED BY <1>0, <1>1, <1>2, <1>3, <1>4, <1>5, <1>6 DEF HealthNext

\* The router and /healthz read the same of every provider while the server
\* listens, and a 503 of /healthz leaves the router only its last resort.
THEOREM ReadersAgreeAlways == HealthSpec => []ReadersAgree
<1>1. Inv => ReadersAgree
  BY DEF Inv, ProbedFirst, ReadersAgree, IsHealthy, ShownHealthy, Degraded
<1> QED BY <1>1, InitInv, NextInv, PTL DEF HealthSpec

-------------------------------------------------------------------------------
Clock ==
    /\ up \subseteq Probed
    /\ phase \in 0..(Interval - 1)
    /\ tick \in BOOLEAN
    /\ wrong \in [Probed -> Nat]
    /\ \A w \in Workers :
          worker[w].spent <= Timeout /\ worker[w].at \notin worker[w].todo

\* The time a round of one probe of each other provider may take.
Others == (Cardinality(Probed) - 1) * Timeout

\* The probe of p by w may end with what p was before it changed.
Stale(w, p) == worker[w].at = p /\ worker[w].saw # {p \in up}

\* The most time the ticker's round still takes.
Left ==
    Cardinality(worker["ticker"].todo) * Timeout
      + (IF worker["ticker"].at = None THEN 0
         ELSE Timeout - worker["ticker"].spent)

TickIn == IF tick THEN 0 ELSE Interval - phase

\* The most time until the verdict on p is old enough: a stale probe of w may
\* still renew it.
RenewedBy(w, p) ==
    IF Stale(w, p) THEN (Timeout - worker[w].spent) + Interval ELSE 0
AgesIn(p) == IF age[p] >= Interval THEN 0 ELSE Interval - age[p]
OldIn(p) == Larger(Larger(RenewedBy("boot", p), RenewedBy("ticker", p)), AgesIn(p))

\* The most time until p is listed, from the time until its verdict is old, the
\* time until a tick and what is left of the round.
Listed(old, next, left) ==
    IF old = 0 THEN Larger(next, left)
    ELSE Larger(old + Interval, Larger(old + Others, left))

Afresh(p) == worker["ticker"].at = p /\ ~Stale("ticker", p)

Wait(p) ==
    IF Afresh(p) THEN Timeout - worker["ticker"].spent
    ELSE IF p \in worker["ticker"].todo THEN Left
    ELSE Listed(OldIn(p), TickIn, Left) + Others + Timeout

WaitBounded == \A p \in Probed : Wait(p) \in Nat /\ Wait(p) <= Bound

InTime == \A p \in Probed : wrong[p] + Wait(p) <= Bound

-------------------------------------------------------------------------------
\* Numbers.

LEMMA Counted ==
    ASSUME NEW p \in Probed
    PROVE  /\ Cardinality(Probed) \in Nat \ {0}
           /\ Others \in Nat
           /\ Bound = Interval + Larger(Interval, Others) + Others + 2 * Timeout
<1> DEFINE n == Cardinality(Probed)
<1>1. n \in Nat /\ n # 0
  BY FS_CardinalityType, FS_EmptySet, HealthAssumption
<1> HIDE DEF n
<1>2. (n - 1) * Timeout \in Nat
  BY <1>1, HealthAssumption
<1>3. (n + 1) * Timeout = (n - 1) * Timeout + 2 * Timeout
  BY <1>1, HealthAssumption
<1>4. Bound = Interval + Larger(Interval, (n - 1) * Timeout) + (n + 1) * Timeout
  BY DEF Bound, n
<1>5. Others = (n - 1) * Timeout
  BY DEF Others, n
<1>6. Larger(Interval, Others) \in Nat
  BY <1>2, <1>5, HealthAssumption DEF Larger
<1> QED BY <1>1, <1>2, <1>3, <1>4, <1>5, <1>6, HealthAssumption DEF n

\* A round of a part of the providers.
LEMMA RoundOf ==
    ASSUME NEW S \in SUBSET Probed, NEW p \in Probed
    PROVE  /\ Cardinality(S) * Timeout \in Nat
           /\ Cardinality(S) * Timeout <= Others + Timeout
           /\ p \notin S => Cardinality(S) * Timeout <= Others
           /\ p \in S =>
                 /\ Cardinality(S) * Timeout = Cardinality(S \ {p}) * Timeout + Timeout
                 /\ Cardinality(S \ {p}) * Timeout \in Nat
           /\ S = {} => Cardinality(S) * Timeout = 0
<1> DEFINE n == Cardinality(Probed)
           k == Cardinality(S)
<1>1. n \in Nat \ {0}
  BY Counted
<1>2. IsFiniteSet(S) /\ k \in Nat /\ k <= n
  BY FS_Subset, FS_CardinalityType, HealthAssumption
<1>3. p \notin S => k <= n - 1
  <2> SUFFICES ASSUME p \notin S PROVE k <= n - 1
    OBVIOUS
  <2>1. S \subseteq Probed \ {p}
    OBVIOUS
  <2>2. IsFiniteSet(Probed \ {p}) /\ Cardinality(Probed \ {p}) = n - 1
    BY FS_RemoveElement, HealthAssumption
  <2> QED BY <2>1, <2>2, FS_Subset
<1>4. p \in S => Cardinality(S \ {p}) \in Nat /\ k = Cardinality(S \ {p}) + 1
  <2> SUFFICES ASSUME p \in S
               PROVE  Cardinality(S \ {p}) \in Nat /\ k = Cardinality(S \ {p}) + 1
    OBVIOUS
  <2>1. IsFiniteSet(S \ {p}) /\ Cardinality(S \ {p}) = k - 1
    BY <1>2, FS_RemoveElement
  <2>2. Cardinality(S \ {p}) \in Nat
    BY <2>1, FS_CardinalityType
  <2> QED BY <1>2, <2>1, <2>2
<1>5. S = {} => k = 0
  BY FS_EmptySet
<1>6. Others = (n - 1) * Timeout
  BY DEF Others
<1> HIDE DEF n, k
<1>7. \A a, b \in Nat : a <= b => a * Timeout \in Nat /\ a * Timeout <= b * Timeout
  BY HealthAssumption
<1>8. \A a \in Nat : (a + 1) * Timeout = a * Timeout + Timeout /\ a * Timeout \in Nat
  BY HealthAssumption
<1>9. n - 1 \in Nat /\ n * Timeout = Others + Timeout
  <2>1. n - 1 \in Nat /\ n = (n - 1) + 1
    BY <1>1
  <2> QED BY <2>1, <1>6, <1>8
<1>10. k * Timeout \in Nat /\ k * Timeout <= Others + Timeout
  BY <1>2, <1>1, <1>7, <1>9
<1>11. p \notin S => k * Timeout <= Others
  BY <1>2, <1>3, <1>6, <1>7, <1>9
<1>12. p \in S => /\ k * Timeout = Cardinality(S \ {p}) * Timeout + Timeout
                  /\ Cardinality(S \ {p}) * Timeout \in Nat
  BY <1>4, <1>8
<1>13. S = {} => k * Timeout = 0
  BY <1>5, HealthAssumption
<1> QED BY <1>10, <1>11, <1>12, <1>13 DEF k

\* A provider is listed the sooner the sooner its verdict is old and the less
\* is left of the round.
LEMMA ListedSooner ==
    ASSUME NEW o \in Nat, NEW o2 \in Nat, NEW t \in Nat, NEW l \in Nat,
           NEW l2 \in Nat, Others \in Nat,
           o2 <= o, o = 0 <=> o2 = 0, l2 <= l
    PROVE  Listed(o2, t, l2) <= Listed(o, t, l)
BY HealthAssumption DEF Listed, Larger

\* A unit of time brings the listing nearer by one.
LEMMA ListedShrinks ==
    ASSUME NEW o \in Nat, NEW o2 \in Nat, NEW t \in Nat, NEW t2 \in Nat,
           NEW l \in Nat, NEW l2 \in Nat, Others \in Nat,
           o2 = IF o = 0 THEN 0 ELSE o - 1,
           t2 <= Interval,
           \/ l = 0 /\ l2 = 0 /\ t >= 1 /\ t2 <= t - 1
           \/ l = l2 + 1 /\ t2 <= IF t = 0 THEN 0 ELSE t - 1
    PROVE  Listed(o2, t2, l2) + 1 <= Listed(o, t, l)
<1>1. CASE o = 0
  <2>1. Listed(o, t, l) = Larger(t, l) /\ Listed(o2, t2, l2) = Larger(t2, l2)
    BY <1>1 DEF Listed
  <2> QED BY <2>1 DEF Larger
<1>2. CASE o = 1
  <2>1. /\ Listed(o, t, l) = Larger(1 + Interval, Larger(1 + Others, l))
        /\ Listed(o2, t2, l2) = Larger(t2, l2)
    BY <1>2 DEF Listed
  <2> QED BY <2>1, HealthAssumption DEF Larger
<1>3. CASE o > 1
  <2>1. /\ Listed(o, t, l) = Larger(o + Interval, Larger(o + Others, l))
        /\ Listed(o2, t2, l2) = Larger((o - 1) + Interval, Larger((o - 1) + Others, l2))
    BY <1>3 DEF Listed
  <2> QED BY <1>3, <2>1, HealthAssumption DEF Larger
<1> QED BY <1>1, <1>2, <1>3

LEMMA ListedInNat ==
    ASSUME NEW o \in Nat, NEW t \in Nat, NEW l \in Nat, Others \in Nat
    PROVE  Listed(o, t, l) \in Nat
BY HealthAssumption DEF Listed, Larger

-------------------------------------------------------------------------------
\* Everything Wait is made of is a number.
LEMMA Numbers ==
    ASSUME Inv, Clock, NEW p \in Probed
    PROVE  /\ Others \in Nat
           /\ Left \in Nat /\ Left <= Others + Timeout
           /\ TickIn \in Nat /\ TickIn <= Interval
           /\ OldIn(p) \in Nat /\ OldIn(p) <= Timeout + Interval
           /\ RenewedBy("boot", p) \in Nat /\ RenewedBy("ticker", p) \in Nat
           /\ AgesIn(p) \in Nat
<1> DEFINE c == worker["ticker"]
<1>1. /\ c.todo \in SUBSET Probed /\ c.at \in Probed \cup {None}
      /\ c.spent \in 0..Timeout /\ c.at \notin c.todo
      /\ worker["boot"].spent \in 0..Timeout
  BY HealthAssumption DEF Inv, HealthTypes, Clock, Probe, Workers
<1>2. Others \in Nat
  BY Counted
<1>3. Left \in Nat /\ Left <= Others + Timeout
  <2> DEFINE r == Cardinality(c.todo) * Timeout
  <2>1. r \in Nat /\ r <= Others + Timeout
    BY <1>1, RoundOf
  <2>2. CASE c.at = None
    BY <2>1, <2>2 DEF Left
  <2>3. CASE c.at # None
    <3>1. c.at \in Probed
      BY <1>1, <2>3
    <3>2. r <= Others
      BY <1>1, <3>1, RoundOf
    <3>3. Left = r + (Timeout - c.spent)
      BY <2>3 DEF Left
    <3> HIDE DEF r, c
    <3> QED BY <1>1, <1>2, <2>1, <3>2, <3>3, HealthAssumption
  <2> QED BY <2>2, <2>3
<1>4. TickIn \in Nat /\ TickIn <= Interval
  BY HealthAssumption DEF Clock, TickIn
<1>5. AgesIn(p) \in Nat /\ AgesIn(p) <= Interval
  BY HealthAssumption DEF Inv, HealthTypes, AgesIn
<1>6. /\ RenewedBy("boot", p) \in Nat /\ RenewedBy("boot", p) <= Timeout + Interval
      /\ RenewedBy("ticker", p) \in Nat /\ RenewedBy("ticker", p) <= Timeout + Interval
  BY <1>1, HealthAssumption DEF RenewedBy
<1>7. OldIn(p) \in Nat /\ OldIn(p) <= Timeout + Interval
  BY <1>5, <1>6, HealthAssumption DEF OldIn, Larger
<1> QED BY <1>2, <1>3, <1>4, <1>5, <1>6, <1>7

LEMMA Bounded == Inv /\ Clock => WaitBounded
<1> SUFFICES ASSUME Inv, Clock, NEW p \in Probed
             PROVE  Wait(p) \in Nat /\ Wait(p) <= Bound
  BY DEF WaitBounded
<1> DEFINE l == Listed(OldIn(p), TickIn, Left)
<1>1. Bound = Interval + Larger(Interval, Others) + Others + 2 * Timeout
  BY Counted
<1>2. l \in Nat
  BY Numbers, ListedInNat
<1>3. l <= Timeout + Interval + Larger(Interval, Others)
  BY Numbers, HealthAssumption DEF Listed, Larger
<1>4. Larger(Interval, Others) \in Nat
  BY Numbers, HealthAssumption DEF Larger
<1>5. worker["ticker"].spent \in 0..Timeout
  BY HealthAssumption DEF Inv, HealthTypes, Clock, Probe, Workers
<1> HIDE DEF l
<1>6. CASE Afresh(p)
  BY <1>1, <1>4, <1>5, <1>6, Numbers, HealthAssumption DEF Wait
<1>7. CASE ~Afresh(p) /\ p \in worker["ticker"].todo
  BY <1>1, <1>4, <1>7, Numbers, HealthAssumption DEF Wait
<1>8. CASE ~Afresh(p) /\ p \notin worker["ticker"].todo
  <2>1. Wait(p) = l + Others + Timeout
    BY <1>8 DEF Wait, l
  <2> QED BY <1>1, <1>2, <1>3, <1>4, <2>1, Numbers, HealthAssumption
<1> QED BY <1>6, <1>7, <1>8

LEMMA InitTime == HealthInit => Clock /\ \A p \in Probed : wrong[p] = 0
<1> SUFFICES ASSUME HealthInit PROVE Clock /\ \A p \in Probed : wrong[p] = 0
  OBVIOUS
<1>1. \A w \in Workers : worker[w].spent <= Timeout /\ worker[w].at \notin worker[w].todo
  <2> SUFFICES ASSUME NEW w \in Workers
               PROVE  worker[w].spent <= Timeout /\ worker[w].at \notin worker[w].todo
    OBVIOUS
  <2>1. worker[w].spent = 0 /\ worker[w].at = None
    BY DEF HealthInit, Idle
  <2>2. worker[w].todo \subseteq Probed
    BY DEF HealthInit, Idle
  <2> QED BY <2>1, <2>2, HealthAssumption
<1>2. phase \in 0..(Interval - 1)
  BY HealthAssumption DEF HealthInit
<1> QED BY <1>1, <1>2 DEF HealthInit, Clock

LEMMA ClockNext == Inv /\ Clock /\ [HealthNext]_healthVars => Clock'
<1> SUFFICES ASSUME Inv, Clock, [HealthNext]_healthVars PROVE Clock'
  OBVIOUS
<1> USE DEF Clock
<1>0. CASE UNCHANGED healthVars
  BY <1>0 DEF healthVars
<1>1. CASE \E p \in Probed : Turn(p)
  <2> PICK p \in Probed : Turn(p) BY <1>1
  <2>1. \A w \in Workers : /\ worker'[w].spent = worker[w].spent
                           /\ worker'[w].at = worker[w].at
                           /\ worker'[w].todo = worker[w].todo
    BY DEF Turn, Inv, HealthTypes, Probe
  <2>2. up' \subseteq Probed /\ wrong' \in [Probed -> Nat]
    BY DEF Turn
  <2> QED BY <2>1, <2>2 DEF Turn
<1>2. CASE CheckDue
  <2>1. \A w \in Workers : worker'[w].spent = worker[w].spent /\ worker'[w].at = worker[w].at
    BY <1>2 DEF CheckDue, Inv, HealthTypes, Probe
  <2>2. \A w \in Workers : worker'[w].at \notin worker'[w].todo
    <3> SUFFICES ASSUME NEW w \in Workers PROVE worker'[w].at \notin worker'[w].todo
      OBVIOUS
    <3>1. CASE w = "ticker"
      <4>1. worker'[w].at = None /\ worker'[w].todo \subseteq Probed
        BY <1>2, <3>1 DEF CheckDue, Idle, Due, Inv, HealthTypes, Workers
      <4> QED BY <4>1, HealthAssumption
    <3>2. CASE w # "ticker"
      BY <1>2, <3>2 DEF CheckDue, Inv, HealthTypes
    <3> QED BY <3>1, <3>2
  <2> QED BY <1>2, <2>1, <2>2 DEF CheckDue
<1>3. CASE \E w \in Workers, p \in Probed : BeginProbe(w, p)
  <2> PICK w \in Workers, p \in Probed : BeginProbe(w, p) BY <1>3
  <2>1. /\ worker'[w].spent = 0 /\ worker'[w].at \notin worker'[w].todo
        /\ \A v \in Workers : v # w => worker'[v] = worker[v]
    BY DEF BeginProbe, Inv, HealthTypes, Probe
  <2> QED BY <2>1, HealthAssumption DEF BeginProbe
<1>4. CASE \E w \in Workers, ok \in BOOLEAN : EndProbe(w, ok)
  <2> PICK w \in Workers, ok \in BOOLEAN : EndProbe(w, ok) BY <1>4
  <2>1. /\ worker'[w].spent = 0 /\ worker'[w].at = None
        /\ worker'[w].todo = worker[w].todo
        /\ \A v \in Workers : v # w => worker'[v] = worker[v]
    BY DEF EndProbe, Inv, HealthTypes, Probe, Idle
  <2>2. worker[w].todo \subseteq Probed
    BY DEF Inv, HealthTypes, Probe
  <2>3. wrong' \in [Probed -> Nat]
    BY DEF EndProbe
  <2> QED BY <2>1, <2>2, <2>3, HealthAssumption DEF EndProbe
<1>5. CASE Serve
  BY <1>5 DEF Serve
<1>6. CASE Advance
  <2>1. phase' \in 0..(Interval - 1)
    BY <1>6, HealthAssumption DEF Advance
  <2>2. wrong' \in [Probed -> Nat]
    <3> SUFFICES ASSUME NEW p \in Probed
                 PROVE  Smaller(wrong[p] + 1, Bound + 1) \in Nat
      BY <1>6 DEF Advance
    <3>1. Others \in Nat /\ Bound = Interval + Larger(Interval, Others) + Others + 2 * Timeout
      BY Counted
    <3>2. Bound \in Nat
      BY <3>1, HealthAssumption DEF Larger
    <3> HIDE DEF Bound
    <3> QED BY <3>2 DEF Smaller
  <2>3. \A w \in Workers :
           worker'[w].spent <= Timeout /\ worker'[w].at \notin worker'[w].todo
    <3> SUFFICES ASSUME NEW w \in Workers
                 PROVE  worker'[w].spent <= Timeout /\ worker'[w].at \notin worker'[w].todo
      OBVIOUS
    <3>1. CASE worker[w].at = None
      BY <1>6, <3>1 DEF Advance, Inv, HealthTypes
    <3>2. CASE worker[w].at # None
      <4>1. worker[w].spent < Timeout /\ worker[w].spent \in Nat
        BY <1>6, <3>2 DEF Advance, AtRest, Inv, HealthTypes, Probe
      <4>2. /\ worker'[w].spent = worker[w].spent + 1
            /\ worker'[w].at = worker[w].at /\ worker'[w].todo = worker[w].todo
        BY <1>6, <3>2 DEF Advance, Inv, HealthTypes, Probe
      <4> QED BY <4>1, <4>2, HealthAssumption
    <3> QED BY <3>1, <3>2
  <2>4. up' = up /\ tick' \in BOOLEAN
    BY <1>6 DEF Advance
  <2> QED BY <2>1, <2>2, <2>3, <2>4
<1> QED BY <1>0, <1>1, <1>2, <1>3, <1>4, <1>5, <1>6 DEF HealthNext

-------------------------------------------------------------------------------
\* What a step does to the time p has been taken for what it is not and to the
\* time that may still take.
NoLater(p) ==
    \/ wrong'[p] = 0
    \/ wrong'[p] = wrong[p] /\ Wait(p)' <= Wait(p)
    \/ wrong'[p] <= wrong[p] + 1 /\ Wait(p)' + 1 <= Wait(p)

NumbersOK ==
    \A p \in Probed :
        /\ Others \in Nat
        /\ Left \in Nat /\ Left <= Others + Timeout
        /\ TickIn \in Nat /\ TickIn <= Interval
        /\ OldIn(p) \in Nat
        /\ RenewedBy("boot", p) \in Nat /\ RenewedBy("ticker", p) \in Nat
        /\ AgesIn(p) \in Nat
        /\ Wait(p) \in Nat

LEMMA NumbersHold == Inv /\ Clock => NumbersOK
BY Numbers, Bounded DEF NumbersOK, WaitBounded

LEMMA NumbersNext == (Inv /\ Clock)' => NumbersOK'
BY NumbersHold, PTL

\* A step that leaves alone what Wait is made of.
LEMMA Untouched ==
    ASSUME NumbersOK, NEW p \in Probed,
           Left' = Left, TickIn' = TickIn, OldIn(p)' = OldIn(p), Afresh(p)' <=> Afresh(p),
           worker'["ticker"].spent = worker["ticker"].spent,
           worker'["ticker"].todo = worker["ticker"].todo
    PROVE  Wait(p)' <= Wait(p)
<1>1. Wait(p)' = Wait(p)
  BY DEF Wait, Listed, Others
<1> QED BY <1>1 DEF NumbersOK

LEMMA TurnInTime ==
    ASSUME Inv, Clock, NEW p \in Probed, NEW q \in Probed, Turn(q)
    PROVE  NoLater(p)
<1>1. CASE q = p
  BY <1>1 DEF Turn, NoLater, Clock
<1>2. CASE q # p
  <2>1. \A w \in Workers : /\ worker'[w].spent = worker[w].spent
                           /\ worker'[w].at = worker[w].at
                           /\ worker'[w].todo = worker[w].todo
                           /\ worker[w].at = p => worker'[w].saw = worker[w].saw
    BY <1>2 DEF Turn, Inv, HealthTypes, Probe
  <2>2. (p \in up') = (p \in up)
    BY <1>2 DEF Turn, Clock
  <2>3. \A w \in Workers : Stale(w, p)' <=> Stale(w, p)
    BY <2>1, <2>2 DEF Stale
  <2>4. \A w \in Workers : RenewedBy(w, p)' = RenewedBy(w, p)
    BY <2>1, <2>3 DEF RenewedBy
  <2>5. AgesIn(p)' = AgesIn(p) /\ TickIn' = TickIn
    BY DEF Turn, AgesIn, TickIn
  <2>6. OldIn(p)' = OldIn(p)
    BY <2>4, <2>5 DEF OldIn, Workers, Larger
  <2>7. Left' = Left
    BY <2>1 DEF Left, Workers
  <2>8. Afresh(p)' <=> Afresh(p)
    BY <2>1, <2>3 DEF Afresh, Workers
  <2>9. wrong'[p] = wrong[p]
    BY <1>2 DEF Turn
  <2>10. Wait(p)' <= Wait(p)
    BY <2>1, <2>5, <2>6, <2>7, <2>8, NumbersHold, Untouched DEF Workers
  <2> QED BY <2>9, <2>10 DEF NoLater
<1> QED BY <1>1, <1>2

LEMMA CheckInTime ==
    ASSUME Inv, Clock, NEW p \in Probed, CheckDue, Inv', Clock'
    PROVE  NoLater(p)
<1> DEFINE c == worker["ticker"]
           d == worker'["ticker"]
<1>1. c.todo = {} /\ c.at = None /\ c.spent = 0
  BY DEF CheckDue, Idle
<1>2. d.todo = Due /\ d.at = None /\ d.spent = 0 /\ worker'["boot"] = worker["boot"]
  BY <1>1 DEF CheckDue, Inv, HealthTypes, Workers, Probe
<1>3. p # None
  BY HealthAssumption
<1>4. ~Afresh(p) /\ ~Afresh(p)'
  BY <1>1, <1>2, <1>3 DEF Afresh
<1>5. RenewedBy("ticker", p) = 0 /\ RenewedBy("ticker", p)' = 0
  BY <1>1, <1>2, <1>3 DEF RenewedBy, Stale
<1>6. RenewedBy("boot", p)' = RenewedBy("boot", p)
  BY <1>2 DEF CheckDue, RenewedBy, Stale
<1>7. AgesIn(p)' = AgesIn(p)
  BY DEF CheckDue, AgesIn
<1>8. OldIn(p)' = OldIn(p)
  BY <1>5, <1>6, <1>7 DEF OldIn, Larger
<1>9. wrong'[p] = wrong[p]
  BY DEF CheckDue
<1>10. NumbersOK /\ NumbersOK'
  BY NumbersHold, NumbersNext
<1> DEFINE l == Listed(OldIn(p), TickIn, Left)
<1>11. Wait(p) = l + Others + Timeout
  BY <1>1, <1>4 DEF Wait, l
<1>12. l \in Nat
  BY <1>10, ListedInNat DEF NumbersOK, l
<1>13. CASE p \in Due
  <2>1. Wait(p)' = Left'
    BY <1>2, <1>4, <1>13 DEF Wait
  <2>2. Left' <= Others + Timeout /\ Left' \in Nat /\ Others \in Nat
    BY <1>10 DEF NumbersOK, Others
  <2> HIDE DEF l
  <2>3. Wait(p)' <= Wait(p)
    BY <1>11, <1>12, <2>1, <2>2, HealthAssumption
  <2> QED BY <1>9, <2>3 DEF NoLater
<1>14. CASE p \notin Due
  <2>1. AgesIn(p) > 0
    BY <1>14, HealthAssumption DEF Due, AgesIn, Inv, HealthTypes
  <2>2. OldIn(p) > 0 /\ OldIn(p) \in Nat
    BY <1>10, <2>1 DEF OldIn, Larger, NumbersOK
  <2>3. Left' <= Others /\ Left' \in Nat
    <3>1. Due \in SUBSET Probed
      BY DEF Due
    <3>2. Cardinality(Due) * Timeout \in Nat /\ Cardinality(Due) * Timeout <= Others
      BY <1>14, <3>1, RoundOf
    <3>3. Left' = Cardinality(Due) * Timeout + 0
      BY <1>2 DEF Left
    <3> QED BY <3>2, <3>3
  <2>4. Others \in Nat /\ TickIn' \in Nat /\ TickIn \in Nat /\ Left \in Nat
    BY <1>10 DEF NumbersOK, Others
  <2>5. Listed(OldIn(p), TickIn', Left') <= l
    BY <2>2, <2>3, <2>4, HealthAssumption DEF Listed, Larger, l
  <2>6. Wait(p)' = Listed(OldIn(p), TickIn', Left') + Others + Timeout
    BY <1>2, <1>4, <1>8, <1>14 DEF Wait, Listed, Others
  <2>7. Listed(OldIn(p), TickIn', Left') \in Nat
    BY <2>2, <2>3, <2>4, ListedInNat
  <2> HIDE DEF l
  <2>8. Wait(p)' <= Wait(p)
    BY <1>11, <1>12, <2>4, <2>5, <2>6, <2>7, HealthAssumption
  <2> QED BY <1>9, <2>8 DEF NoLater
<1> QED BY <1>13, <1>14

LEMMA BeginInTime ==
    ASSUME Inv, Clock, NEW p \in Probed, NEW w \in Workers, NEW q \in Probed,
           BeginProbe(w, q), Inv', Clock'
    PROVE  NoLater(p)
<1>1. /\ worker[w].at = None /\ q \in worker[w].todo
      /\ worker'[w].todo = worker[w].todo \ {q} /\ worker'[w].at = q
      /\ worker'[w].spent = 0 /\ worker'[w].saw = {q \in up}
      /\ \A v \in Workers : v # w => worker'[v] = worker[v]
  BY DEF BeginProbe, Inv, HealthTypes, Probe
<1>2. p # None /\ q # None
  BY HealthAssumption
<1>3. up' = up /\ wrong' = wrong /\ TickIn' = TickIn /\ AgesIn(p)' = AgesIn(p)
  BY DEF BeginProbe, TickIn, AgesIn
<1>4. ~Stale(w, p) /\ ~Stale(w, p)'
  BY <1>1, <1>2, <1>3 DEF Stale
<1>5. \A v \in Workers : RenewedBy(v, p)' = RenewedBy(v, p)
  <2> SUFFICES ASSUME NEW v \in Workers PROVE RenewedBy(v, p)' = RenewedBy(v, p)
    OBVIOUS
  <2>1. CASE v = w
    BY <1>4, <2>1 DEF RenewedBy
  <2>2. CASE v # w
    BY <1>1, <1>3, <2>2 DEF RenewedBy, Stale
  <2> QED BY <2>1, <2>2
<1>6. OldIn(p)' = OldIn(p)
  BY <1>3, <1>5 DEF OldIn, Workers, Larger
<1>7. NumbersOK /\ NumbersOK'
  BY NumbersHold, NumbersNext
<1>8. Left' = Left
  <2>1. CASE w = "ticker"
    <3>1. worker["ticker"].todo \in SUBSET Probed
      BY DEF Inv, HealthTypes, Probe, Workers
    <3> DEFINE r == Cardinality(worker["ticker"].todo \ {q}) * Timeout
    <3>2. Cardinality(worker["ticker"].todo) * Timeout = r + Timeout /\ r \in Nat
      BY <1>1, <2>1, <3>1, RoundOf
    <3>3. Left = Cardinality(worker["ticker"].todo) * Timeout + 0
      BY <1>1, <2>1 DEF Left
    <3>4. Left' = r + (Timeout - 0)
      BY <1>1, <1>2, <2>1 DEF Left
    <3> HIDE DEF r
    <3> QED BY <3>2, <3>3, <3>4, HealthAssumption
  <2>2. CASE w # "ticker"
    BY <1>1, <2>2 DEF Left, Workers
  <2> QED BY <2>1, <2>2
<1>9. CASE w = "boot"
  <2>1. worker'["ticker"] = worker["ticker"]
    BY <1>1, <1>9 DEF Workers
  <2>2. Afresh(p)' <=> Afresh(p)
    BY <1>3, <2>1 DEF Afresh, Stale
  <2>3. Wait(p)' <= Wait(p)
    BY <1>3, <1>6, <1>7, <1>8, <2>1, <2>2, Untouched
  <2> QED BY <1>3, <2>3 DEF NoLater
<1>10. CASE w = "ticker" /\ q = p
  <2>1. ~Afresh(p) /\ Afresh(p)'
    BY <1>1, <1>2, <1>4, <1>10 DEF Afresh
  <2>2. Wait(p) = Left
    BY <1>1, <1>10, <2>1 DEF Wait
  <2>3. Wait(p)' = Timeout - 0
    BY <1>1, <1>10, <2>1 DEF Wait
  <2>4. worker["ticker"].todo \in SUBSET Probed
    BY DEF Inv, HealthTypes, Probe, Workers
  <2> DEFINE r == Cardinality(worker["ticker"].todo \ {p}) * Timeout
  <2>5. Cardinality(worker["ticker"].todo) * Timeout = r + Timeout /\ r \in Nat
    BY <1>1, <1>10, <2>4, RoundOf
  <2>6. Left = Cardinality(worker["ticker"].todo) * Timeout + 0
    BY <1>1, <1>10 DEF Left
  <2> HIDE DEF r
  <2>7. Wait(p)' <= Wait(p)
    BY <2>2, <2>3, <2>5, <2>6, HealthAssumption
  <2> QED BY <1>3, <2>7 DEF NoLater
<1>11. CASE w = "ticker" /\ q # p
  <2>1. ~Afresh(p) /\ ~Afresh(p)'
    BY <1>1, <1>2, <1>11 DEF Afresh
  <2>2. p \in worker'["ticker"].todo <=> p \in worker["ticker"].todo
    BY <1>1, <1>11
  <2>3. Wait(p)' = Wait(p)
    BY <1>3, <1>6, <1>8, <2>1, <2>2 DEF Wait, Listed, Others
  <2>4. Wait(p)' <= Wait(p)
    BY <1>7, <2>3 DEF NumbersOK
  <2> QED BY <1>3, <2>4 DEF NoLater
<1> QED BY <1>9, <1>10, <1>11 DEF Workers

LEMMA EndInTime ==
    ASSUME Inv, Clock, NEW p \in Probed, NEW w \in Workers, NEW ok \in BOOLEAN,
           EndProbe(w, ok), Inv', Clock'
    PROVE  NoLater(p)
<1> DEFINE q == worker[w].at
<1>1. /\ q \in Probed /\ q # None /\ ok \in worker[w].saw
      /\ worker'[w].todo = worker[w].todo /\ worker'[w].at = None
      /\ worker'[w].spent = 0
      /\ \A v \in Workers : v # w => worker'[v] = worker[v]
  BY DEF EndProbe, Outcomes, Inv, HealthTypes, Probe, Idle
<1>2. p # None
  BY HealthAssumption
<1>3. up' = up /\ TickIn' = TickIn
  BY DEF EndProbe, TickIn
<1>4. NumbersOK /\ NumbersOK'
  BY NumbersHold, NumbersNext
<1>5. Left' <= Left
  <2>1. CASE w = "ticker"
    <3>1. worker["ticker"].todo \in SUBSET Probed /\ worker["ticker"].spent \in 0..Timeout
      BY <2>1, HealthAssumption DEF Inv, HealthTypes, Clock, Probe, Workers
    <3> DEFINE r == Cardinality(worker["ticker"].todo) * Timeout
    <3>2. r \in Nat
      BY <3>1, RoundOf
    <3>3. Left = r + (Timeout - worker["ticker"].spent)
      BY <1>1, <2>1 DEF Left
    <3>4. Left' = r + 0
      BY <1>1, <2>1 DEF Left
    <3> HIDE DEF r
    <3> QED BY <3>1, <3>2, <3>3, <3>4, HealthAssumption
  <2>2. CASE w # "ticker"
    <3>1. Left' = Left
      BY <1>1, <2>2 DEF Left, Workers
    <3> QED BY <1>4, <3>1 DEF NumbersOK
  <2> QED BY <2>1, <2>2
<1>6. \A v \in Workers : v # w => RenewedBy(v, p)' = RenewedBy(v, p)
  BY <1>1, <1>3 DEF RenewedBy, Stale
<1>7. RenewedBy(w, p)' = 0
  BY <1>1, <1>2 DEF RenewedBy, Stale
<1>8. p \in worker'["ticker"].todo <=> p \in worker["ticker"].todo
  BY <1>1 DEF Workers
<1>9. CASE q = p /\ ok = (p \in up)
  BY <1>9 DEF EndProbe, NoLater, Clock
<1>10. CASE ~(q = p /\ ok = (p \in up))
  <2>1. wrong'[p] = wrong[p]
    BY <1>10 DEF EndProbe, Clock
  <2>2. q = p => Stale(w, p)
    BY <1>1, <1>10 DEF Stale
  <2>3. Afresh(p)' <=> Afresh(p)
    <3>1. CASE w = "ticker"
      BY <1>1, <1>2, <2>2, <3>1 DEF Afresh
    <3>2. CASE w # "ticker"
      BY <1>1, <1>3, <3>2 DEF Afresh, Stale, Workers
    <3> QED BY <3>1, <3>2
  <2>4. OldIn(p)' <= OldIn(p) /\ (OldIn(p)' = 0 <=> OldIn(p) = 0)
    <3>1. CASE q = p
      <4>1. worker[w].spent \in 0..Timeout
        BY HealthAssumption DEF Inv, HealthTypes, Clock, Probe
      <4>2. RenewedBy(w, p) >= Interval /\ RenewedBy(w, p) \in Nat
        BY <2>2, <3>1, <4>1, HealthAssumption DEF RenewedBy
      <4>3. age'[p] = 0
        BY <3>1 DEF EndProbe, Inv, HealthTypes
      <4>4. AgesIn(p)' = Interval
        BY <4>3, HealthAssumption DEF AgesIn
      <4>5. AgesIn(p) \in Nat /\ \A v \in Workers : RenewedBy(v, p) \in Nat
        BY <1>4 DEF NumbersOK, Workers
      <4> QED BY <1>6, <1>7, <4>2, <4>4, <4>5, HealthAssumption DEF OldIn, Larger, Workers
    <3>2. CASE q # p
      <4>1. RenewedBy(w, p) = 0
        BY <3>2 DEF RenewedBy, Stale
      <4>2. age'[p] = age[p]
        BY <3>2 DEF EndProbe, Inv, HealthTypes
      <4>3. AgesIn(p)' = AgesIn(p)
        BY <4>2 DEF AgesIn
      <4>4. OldIn(p)' = OldIn(p)
        BY <1>6, <1>7, <4>1, <4>3 DEF OldIn, Larger, Workers
      <4> QED BY <1>4, <4>4 DEF NumbersOK
    <3> QED BY <3>1, <3>2
  <2>5. CASE Afresh(p)
    <3>1. w # "ticker"
      BY <1>1, <2>2, <2>5 DEF Afresh
    <3>2. worker'["ticker"].spent = worker["ticker"].spent
      BY <1>1, <3>1 DEF Workers
    <3>3. Wait(p)' = Wait(p)
      BY <2>3, <2>5, <3>2 DEF Wait
    <3>4. Wait(p)' <= Wait(p)
      BY <1>4, <3>3 DEF NumbersOK
    <3> QED BY <2>1, <3>4 DEF NoLater
  <2>6. CASE ~Afresh(p) /\ p \in worker["ticker"].todo
    <3>1. Wait(p) = Left /\ Wait(p)' = Left'
      BY <1>8, <2>3, <2>6 DEF Wait
    <3> QED BY <1>5, <2>1, <3>1 DEF NoLater
  <2>7. CASE ~Afresh(p) /\ p \notin worker["ticker"].todo
    <3> DEFINE l == Listed(OldIn(p), TickIn, Left)
               m == Listed(OldIn(p)', TickIn', Left')
    <3>1. Wait(p) = l + Others + Timeout /\ Wait(p)' = m + Others + Timeout
      BY <1>8, <2>3, <2>7 DEF Wait, Listed, Others
    <3>2. /\ Others \in Nat /\ OldIn(p) \in Nat /\ OldIn(p)' \in Nat
          /\ TickIn \in Nat /\ Left \in Nat /\ Left' \in Nat
      BY <1>4 DEF NumbersOK
    <3>3. l \in Nat /\ m \in Nat
      BY <1>3, <3>2, ListedInNat
    <3>4. m <= l
      BY <1>3, <1>5, <2>4, <3>2, ListedSooner
    <3> HIDE DEF l, m
    <3>5. Wait(p)' <= Wait(p)
      BY <3>1, <3>2, <3>3, <3>4, HealthAssumption
    <3> QED BY <2>1, <3>5 DEF NoLater
  <2> QED BY <2>5, <2>6, <2>7
<1> QED BY <1>9, <1>10

\* A step that changes nothing but the server or nothing at all.
LEMMA ServeInTime ==
    ASSUME Inv, Clock, NEW p \in Probed,
           UNCHANGED <<up, healthy, age, phase, tick, worker, wrong>>
    PROVE  NoLater(p)
<1>1. Wait(p)' = Wait(p)
  BY DEF Wait, Afresh, Stale, Left, TickIn, OldIn, RenewedBy, AgesIn, Listed, Others
<1>2. Wait(p)' <= Wait(p)
  BY <1>1, NumbersHold DEF NumbersOK
<1> QED BY <1>2 DEF NoLater

\* Time runs out for whatever still has to happen.
LEMMA AdvanceInTime ==
    ASSUME Inv, Clock, NEW p \in Probed, Advance, Inv', Clock'
    PROVE  NoLater(p)
<1> DEFINE c == worker["ticker"]
           d == worker'["ticker"]
<1>1. p # None
  BY HealthAssumption
<1>2. \A w \in Workers :
         /\ worker'[w].todo = worker[w].todo /\ worker'[w].at = worker[w].at
         /\ worker'[w].saw = worker[w].saw
         /\ worker[w].at = None => worker'[w].spent = worker[w].spent
         /\ worker[w].at # None => /\ worker'[w].spent = worker[w].spent + 1
                                   /\ worker[w].spent \in Nat
                                   /\ worker[w].spent + 1 <= Timeout
  <2> SUFFICES ASSUME NEW w \in Workers
               PROVE  /\ worker'[w].todo = worker[w].todo /\ worker'[w].at = worker[w].at
                      /\ worker'[w].saw = worker[w].saw
                      /\ worker[w].at = None => worker'[w].spent = worker[w].spent
                      /\ worker[w].at # None => /\ worker'[w].spent = worker[w].spent + 1
                                                /\ worker[w].spent \in Nat
                                                /\ worker[w].spent + 1 <= Timeout
    OBVIOUS
  <2>1. CASE worker[w].at = None
    BY <2>1 DEF Advance
  <2>2. CASE worker[w].at # None
    <3>1. worker[w].spent < Timeout /\ worker[w].spent \in Nat
      BY <2>2 DEF Advance, AtRest, Inv, HealthTypes, Probe
    <3>2. worker'[w] = [worker[w] EXCEPT !.spent = @ + 1]
      BY <2>2 DEF Advance
    <3>3. /\ worker'[w].todo = worker[w].todo /\ worker'[w].at = worker[w].at
          /\ worker'[w].saw = worker[w].saw /\ worker'[w].spent = worker[w].spent + 1
      BY <3>2 DEF Inv, HealthTypes, Probe
    <3> QED BY <2>2, <3>1, <3>3, HealthAssumption
  <2> QED BY <2>1, <2>2
<1>3. NumbersOK /\ NumbersOK'
  BY NumbersHold, NumbersNext
<1>4. /\ Others \in Nat /\ OldIn(p) \in Nat /\ OldIn(p)' \in Nat
      /\ TickIn \in Nat /\ TickIn' \in Nat /\ TickIn' <= Interval
      /\ Left \in Nat /\ Left' \in Nat
  BY <1>3 DEF NumbersOK
<1>5. wrong'[p] <= wrong[p] + 1
  <2>1. wrong[p] \in Nat
    BY DEF Clock
  <2>2. wrong'[p] = 0 \/ wrong'[p] = Smaller(wrong[p] + 1, Bound + 1)
    BY DEF Advance
  <2>3. Bound \in Nat
    <3>1. Bound = Interval + Larger(Interval, Others) + Others + 2 * Timeout
      BY Counted
    <3> HIDE DEF Bound
    <3> QED BY <1>4, <3>1, HealthAssumption DEF Larger
  <2> HIDE DEF Bound
  <2> QED BY <2>1, <2>2, <2>3 DEF Smaller
<1>6. \A w \in Workers : Stale(w, p)' <=> Stale(w, p)
  BY <1>2 DEF Stale, Advance
<1>7. Afresh(p)' <=> Afresh(p)
  BY <1>2, <1>6 DEF Afresh, Workers
<1>8. c.todo \in SUBSET Probed
  BY DEF Inv, HealthTypes, Probe, Workers
<1>9. IF c.at = None THEN c.todo = {} /\ Left = 0 /\ Left' = 0 ELSE Left = Left' + 1
  <2> DEFINE r == Cardinality(c.todo) * Timeout
  <2>1. r \in Nat /\ (c.todo = {} => r = 0)
    BY <1>8, RoundOf
  <2>2. CASE c.at = None
    <3>1. c.todo = {}
      BY <2>2 DEF Advance, AtRest, Workers
    <3>2. Left = r + 0 /\ Left' = r + 0
      BY <1>2, <2>2 DEF Left, Workers
    <3> HIDE DEF r
    <3> QED BY <2>1, <2>2, <3>1, <3>2
  <2>3. CASE c.at # None
    <3>1. Left = r + (Timeout - c.spent) /\ Left' = r + (Timeout - (c.spent + 1))
      BY <1>2, <2>3 DEF Left, Workers
    <3>2. c.spent \in Nat
      BY <1>2, <2>3 DEF Workers
    <3> HIDE DEF r
    <3>3. Left = Left' + 1
      BY <2>1, <3>1, <3>2, HealthAssumption
    <3> QED BY <2>3, <3>3
  <2> QED BY <2>2, <2>3
<1>10. CASE Afresh(p)
  <2>1. c.at # None
    BY <1>1, <1>10 DEF Afresh
  <2>2. Wait(p) = Timeout - c.spent /\ Wait(p)' = Timeout - (c.spent + 1)
    BY <1>2, <1>7, <1>10, <2>1 DEF Wait, Workers
  <2>3. c.spent \in Nat /\ c.spent + 1 <= Timeout
    BY <1>2, <2>1 DEF Workers
  <2> HIDE DEF c
  <2>4. Wait(p)' + 1 <= Wait(p)
    BY <2>2, <2>3, HealthAssumption
  <2> QED BY <1>5, <2>4 DEF NoLater
<1>11. CASE ~Afresh(p) /\ p \in c.todo
  <2>1. Wait(p) = Left /\ Wait(p)' = Left'
    BY <1>2, <1>7, <1>11 DEF Wait, Workers
  <2>2. Left = Left' + 1
    BY <1>9, <1>11
  <2>3. \A m, n \in Nat : n = m + 1 => m + 1 <= n
    OBVIOUS
  <2>4. Left' + 1 <= Left
    BY <1>4, <2>2, <2>3, Zenon
  <2>5. Wait(p)' + 1 <= Wait(p)
    BY <2>1, <2>4
  <2> QED BY <1>5, <2>5 DEF NoLater
<1>12. CASE ~Afresh(p) /\ p \notin c.todo
  <2>1. \A w \in Workers :
           IF Stale(w, p) THEN /\ RenewedBy(w, p) = RenewedBy(w, p)' + 1
                               /\ RenewedBy(w, p)' >= Interval
           ELSE RenewedBy(w, p) = 0 /\ RenewedBy(w, p)' = 0
    <3> SUFFICES ASSUME NEW w \in Workers
                 PROVE  IF Stale(w, p) THEN /\ RenewedBy(w, p) = RenewedBy(w, p)' + 1
                                            /\ RenewedBy(w, p)' >= Interval
                        ELSE RenewedBy(w, p) = 0 /\ RenewedBy(w, p)' = 0
      OBVIOUS
    <3>1. CASE Stale(w, p)
      <4>1. worker[w].at # None
        BY <1>1, <3>1 DEF Stale
      <4>2. /\ RenewedBy(w, p) = (Timeout - worker[w].spent) + Interval
            /\ RenewedBy(w, p)' = (Timeout - (worker[w].spent + 1)) + Interval
        BY <1>2, <1>6, <3>1, <4>1 DEF RenewedBy
      <4>3. worker[w].spent \in Nat /\ worker[w].spent + 1 <= Timeout
        BY <1>2, <4>1
      <4> QED BY <3>1, <4>2, <4>3, HealthAssumption
    <3>2. CASE ~Stale(w, p)
      BY <1>6, <3>2 DEF RenewedBy
    <3> QED BY <3>1, <3>2
  <2>2. /\ AgesIn(p) \in Nat /\ AgesIn(p)' \in Nat
        /\ AgesIn(p)' = IF AgesIn(p) = 0 THEN 0 ELSE AgesIn(p) - 1
    <3>1. age[p] \in Nat
      BY DEF Inv, HealthTypes
    <3>2. age'[p] = IF age[p] = Never THEN Never ELSE Smaller(age[p] + 1, Interval)
      BY DEF Advance
    <3> QED BY <3>1, <3>2, HealthAssumption DEF AgesIn, Smaller, Never
  <2>3. OldIn(p)' = IF OldIn(p) = 0 THEN 0 ELSE OldIn(p) - 1
    <3>1. /\ RenewedBy("boot", p) \in Nat /\ RenewedBy("ticker", p) \in Nat
          /\ RenewedBy("boot", p)' \in Nat /\ RenewedBy("ticker", p)' \in Nat
      BY <1>3 DEF NumbersOK
    <3>2. /\ RenewedBy("boot", p)' = IF RenewedBy("boot", p) = 0 THEN 0
                                     ELSE RenewedBy("boot", p) - 1
          /\ RenewedBy("ticker", p)' = IF RenewedBy("ticker", p) = 0 THEN 0
                                       ELSE RenewedBy("ticker", p) - 1
      BY <2>1, <3>1 DEF Workers
    <3> QED BY <2>2, <3>1, <3>2 DEF OldIn, Larger
  <2>4. IF c.at = None THEN TickIn >= 1 /\ TickIn' <= TickIn - 1
        ELSE TickIn' <= IF TickIn = 0 THEN 0 ELSE TickIn - 1
    <3>1. c.at = None => ~tick
      BY DEF Advance, AtRest, Workers
    <3>2. phase \in 0..(Interval - 1) /\ tick \in BOOLEAN
      BY DEF Clock
    <3>3. phase' = (phase + 1) % Interval /\ tick' = (tick \/ phase' = 0)
      BY DEF Advance
    <3>4. phase' = IF phase + 1 = Interval THEN 0 ELSE phase + 1
      BY <3>2, <3>3, HealthAssumption
    <3>5. tick => TickIn = 0 /\ TickIn' = 0
      BY <3>3 DEF TickIn
    <3>6. ~tick => TickIn >= 1 /\ TickIn' <= TickIn - 1
      <4> SUFFICES ASSUME ~tick PROVE TickIn >= 1 /\ TickIn' <= TickIn - 1
        OBVIOUS
      <4>1. TickIn = Interval - phase
        BY DEF TickIn
      <4>2. CASE phase + 1 = Interval
        <5>1. TickIn' = 0
          BY <3>3, <3>4, <4>2 DEF TickIn
        <5> QED BY <3>2, <4>1, <4>2, <5>1, HealthAssumption
      <4>3. CASE phase + 1 # Interval
        <5>1. phase' = phase + 1 /\ phase' # 0
          BY <3>2, <3>4, <4>3, HealthAssumption
        <5>2. TickIn' = Interval - (phase + 1)
          BY <3>3, <5>1 DEF TickIn
        <5> QED BY <3>2, <4>1, <5>2, HealthAssumption
      <4> QED BY <4>2, <4>3
    <3> QED BY <1>4, <3>1, <3>5, <3>6
  <2> DEFINE l == Listed(OldIn(p), TickIn, Left)
             m == Listed(OldIn(p)', TickIn', Left')
  <2>5. Wait(p) = l + Others + Timeout /\ Wait(p)' = m + Others + Timeout
    BY <1>2, <1>7, <1>12 DEF Wait, Listed, Others, Workers
  <2>6. l \in Nat /\ m \in Nat
    BY <1>4, ListedInNat
  <2>7. \/ Left = 0 /\ Left' = 0 /\ TickIn >= 1 /\ TickIn' <= TickIn - 1
        \/ Left = Left' + 1 /\ TickIn' <= IF TickIn = 0 THEN 0 ELSE TickIn - 1
    BY <1>9, <2>4
  <2>8. m + 1 <= l
    BY <1>4, <2>3, <2>7, ListedShrinks
  <2> HIDE DEF l, m
  <2>9. Wait(p)' + 1 <= Wait(p)
    BY <1>4, <2>5, <2>6, <2>8, HealthAssumption
  <2> QED BY <1>5, <2>9 DEF NoLater
<1> QED BY <1>10, <1>11, <1>12

LEMMA NextTime == Inv /\ Clock /\ [HealthNext]_healthVars => \A p \in Probed : NoLater(p)
<1> SUFFICES ASSUME Inv, Clock, [HealthNext]_healthVars, NEW p \in Probed
             PROVE  NoLater(p)
  OBVIOUS
<1>0. Inv' /\ Clock'
  BY NextInv, ClockNext
<1>1. CASE UNCHANGED healthVars
  BY <1>1, ServeInTime DEF healthVars
<1>2. CASE \E q \in Probed : Turn(q)
  BY <1>2, TurnInTime
<1>3. CASE CheckDue
  BY <1>0, <1>3, CheckInTime
<1>4. CASE \E w \in Workers, q \in Probed : BeginProbe(w, q)
  BY <1>0, <1>4, BeginInTime
<1>5. CASE \E w \in Workers, ok \in BOOLEAN : EndProbe(w, ok)
  BY <1>0, <1>5, EndInTime
<1>6. CASE Serve
  BY <1>6, ServeInTime DEF Serve
<1>7. CASE Advance
  BY <1>0, <1>7, AdvanceInTime
<1> QED BY <1>1, <1>2, <1>3, <1>4, <1>5, <1>6, <1>7 DEF HealthNext

\* Neither the order of the probes, nor a provider that hangs, nor the race of
\* the boot with the ticker keeps a verdict wrong for longer than Bound, however
\* many providers there are and whatever the interval and the timeout.
THEOREM SoonTruthfulAlways == HealthSpec => []SoonTruthful
<1> DEFINE IInv == Inv /\ Clock /\ InTime
<1>1. HealthInit => IInv
  <2> SUFFICES ASSUME HealthInit PROVE IInv
    OBVIOUS
  <2>1. Inv /\ Clock /\ \A p \in Probed : wrong[p] = 0
    BY InitInv, InitTime
  <2>2. \A p \in Probed : Wait(p) \in Nat /\ Wait(p) <= Bound
    BY <2>1, Bounded DEF WaitBounded
  <2>3. \A p \in Probed : wrong[p] + Wait(p) = Wait(p)
    BY <2>1, <2>2
  <2> QED BY <2>1, <2>2, <2>3 DEF InTime
<1>2. Inv /\ Clock /\ InTime /\ [HealthNext]_healthVars /\ Clock' /\ WaitBounded' => InTime'
  <2> SUFFICES ASSUME Inv, Clock, InTime, [HealthNext]_healthVars, Clock', WaitBounded',
                      NEW p \in Probed
               PROVE  wrong'[p] + Wait(p)' <= Bound
    BY DEF InTime, Bound
  <2>1. wrong[p] + Wait(p) <= Bound /\ wrong[p] \in Nat /\ wrong'[p] \in Nat
    BY DEF InTime, Clock
  <2>2. Wait(p)' <= Bound /\ Wait(p)' \in Nat /\ Wait(p) \in Nat
    BY Bounded DEF WaitBounded, Bound
  <2>3. NoLater(p)
    BY NextTime
  <2>4. Bound \in Nat
    <3>1. Bound = Interval + Larger(Interval, Others) + Others + 2 * Timeout /\ Others \in Nat
      BY Counted
    <3> HIDE DEF Bound
    <3> QED BY <3>1, HealthAssumption DEF Larger
  <2> HIDE DEF Bound
  <2> QED BY <2>1, <2>2, <2>3, <2>4 DEF NoLater
<1>3. IInv /\ [HealthNext]_healthVars => IInv'
  BY <1>2, NextInv, ClockNext, Bounded, PTL
<1>4. IInv => SoonTruthful
  <2> SUFFICES ASSUME Inv, Clock, InTime, NEW p \in Probed PROVE wrong[p] <= Bound
    BY DEF SoonTruthful
  <2>1. wrong[p] + Wait(p) <= Bound /\ wrong[p] \in Nat /\ Wait(p) \in Nat
    BY Bounded DEF InTime, Clock, WaitBounded
  <2>2. Bound \in Int
    <3>1. Bound = Interval + Larger(Interval, Others) + Others + 2 * Timeout /\ Others \in Nat
      BY Counted
    <3> HIDE DEF Bound
    <3> QED BY <3>1, HealthAssumption DEF Larger
  <2> HIDE DEF Bound
  <2> QED BY <2>1, <2>2
<1> QED BY <1>1, <1>3, <1>4, PTL DEF HealthSpec

-----------------------------------------------------------------------------
(***************************************************************************)
(* One process per session, in a directory nobody removes, for any number  *)
(* of requests and clients and any time to live.                           *)
(***************************************************************************)

Types ==
    /\ pc \in [Requests -> Points] /\ isNew \in [Requests -> BOOLEAN]
    /\ lock \in [Requests -> Slots]
    /\ entry \in [Clients -> Slots] /\ used \in [Clients -> Ages]
    /\ holder \in [Requests -> Slots]
    /\ sinceSweep \in Ages
    /\ dirs \subseteq Clients /\ dirAge \in [Clients -> Ages]
    /\ conversations \subseteq Clients
    /\ restarts \in 0..MaxRestarts

\* Who holds a slot looked it up and runs under it.
HoldersRun ==
    \A l \in Requests : holder[l] # NoOne => lock[holder[l]] = l /\ pc[holder[l]] \in Holding

\* Who runs holds the slot it looked up.
RunnersHold ==
    \A r \in Requests : pc[r] \in Holding => lock[r] # NoOne /\ holder[lock[r]] = r

\* The sweep's test on age covers whoever has looked up a slot but not taken it yet.
FreeIsFresh ==
    \A r \in Requests : pc[r] = "wait" =>
        lock[r] # NoOne /\ (holder[lock[r]] = NoOne => used[ClientOf[r]] = 0)

IInv == Types /\ HoldersRun /\ RunnersHold /\ FreeIsFresh /\ InFlightKeepsEntry

-----------------------------------------------------------------------------
USE SubprocessAssumption

\* The engine starts without requests.
LEMMA InitIInv == Init => IInv
    BY DEF Init, IInv, Types, HoldersRun, RunnersHold, FreeIsFresh, InFlightKeepsEntry,
       Points, Holding, Slots, Ages

\* Every step keeps the types.
LEMMA TypesStep == Types /\ [Next]_vars => Types'
  <1> SUFFICES ASSUME Types, [Next]_vars PROVE Types'
    OBVIOUS
  <1> USE DEF Types, Points, Holding, Slots, Ages, GoTo
  <1>1. ASSUME NEW r \in Requests, Resolve(r) PROVE Types'
    <2>1. CASE Sweep(r)
      <3> DEFINE left == [c \in Clients |-> IF Evictable(c) THEN NoOne ELSE entry[c]]
      <3>1. left \in [Clients -> Slots]
        OBVIOUS
      <3>2. /\ entry' = left
            /\ used' = [c \in Clients |-> IF left[c] = NoOne THEN 0 ELSE used[c]]
            /\ dirs' = dirs \ Removable(left)
            /\ dirAge' = [c \in Clients |-> IF c \in dirs' THEN dirAge[c] ELSE 0]
        BY <2>1 DEF Sweep
      <3> HIDE DEF left
      <3>3. used' \in [Clients -> Ages] /\ dirAge' \in [Clients -> Ages]
        BY <3>2
      <3> QED BY <2>1, <3>1, <3>2, <3>3 DEF Sweep
    <2>2. CASE SkipSweep(r) BY <2>2 DEF SkipSweep, map, disk
    <2>3. CASE Stat(r) BY <2>3 DEF Stat, map, disk
    <2>4. CASE Mkdir(r) BY <2>4 DEF Mkdir, map
    <2>5. CASE MkdirFails(r) BY <2>5 DEF MkdirFails, Forget, map, disk
    <2> QED BY <1>1, <2>1, <2>2, <2>3, <2>4, <2>5 DEF Resolve
  <1>2. ASSUME NEW r \in Requests, Acquire(r) PROVE Types'
    <2>1. CASE LookUp(r) BY <2>1 DEF LookUp, disk
    <2>2. CASE Take(r) BY <2>2 DEF Take, disk
    <2>3. CASE GiveUp(r) BY <2>3 DEF GiveUp, Forget, map, disk
    <2> QED BY <1>2, <2>1, <2>2, <2>3 DEF Acquire
  <1>3. ASSUME NEW r \in Requests, Execute(r) PROVE Types'
    <2>1. CASE Spawn(r) BY <2>1 DEF Spawn, map, disk
    <2>2. CASE NoProcess(r) BY <2>2 DEF NoProcess, map, disk
    <2>3. CASE Served(r) BY <2>3 DEF Served, Touches, map
    <2>4. CASE NotFound(r) BY <2>4 DEF NotFound, map, disk
    <2>5. CASE RunFails(r) BY <2>5 DEF RunFails, Touches, map
    <2> QED BY <1>3, <2>1, <2>2, <2>3, <2>4, <2>5 DEF Execute
  <1>4. ASSUME NEW r \in Requests, Release(r) PROVE Types'
    BY <1>4 DEF Release, Forget, Waiting, disk
  <1>5. CASE Restart BY <1>5 DEF Restart, disk
  <1>6. CASE Tick
    <2>1. \A n \in Ages : Older(n) \in Ages
      BY DEF Older
    <2>2. used' \in [Clients -> Ages] /\ dirAge' \in [Clients -> Ages] /\ sinceSweep' \in Ages
      BY <1>6, <2>1 DEF Tick
    <2> QED BY <1>6, <2>2 DEF Tick, request
  <1>7. CASE UNCHANGED vars
    BY <1>7 DEF vars, request, map, disk
  <1> QED
    BY <1>1, <1>2, <1>3, <1>4, <1>5, <1>6, <1>7 DEF Next, Step, Finished

\* An entry that the sweep takes is nobody's.
LEMMA EvictedIsIdle ==
    ASSUME IInv, NEW r \in Requests, pc[r] \in Holding \cup {"wait"}
    PROVE  entry[ClientOf[r]] = lock[r] /\ lock[r] \in Requests /\ ~Evictable(ClientOf[r])
  <1>1. entry[ClientOf[r]] = lock[r] /\ lock[r] \in Requests /\ ClientOf[r] \in Clients
    BY DEF IInv, Types, InFlightKeepsEntry, RunnersHold, FreeIsFresh, Slots
  <1>2. CASE pc[r] \in Holding
    BY <1>1, <1>2 DEF IInv, RunnersHold, Evictable
  <1>3. CASE pc[r] = "wait"
    BY <1>1, <1>3 DEF IInv, FreeIsFresh, Evictable
  <1> QED BY <1>1, <1>2, <1>3

\* The step of a sweep keeps the entries of all requests in flight.
LEMMA SweepStep ==
    ASSUME IInv, Types', NEW r \in Requests, Sweep(r)
    PROVE  IInv'
  <1> DEFINE left == [c \in Clients |-> IF Evictable(c) THEN NoOne ELSE entry[c]]
  <1>1. /\ pc[r] = "idle" /\ pc' = [pc EXCEPT ![r] = "stat"]
        /\ entry' = left
        /\ used' = [c \in Clients |-> IF left[c] = NoOne THEN 0 ELSE used[c]]
        /\ UNCHANGED <<lock, holder>>
    BY DEF Sweep, GoTo
  <1>2. \A q \in Requests : pc'[q] \in Holding \cup {"wait"} => pc[q] = pc'[q]
    BY <1>1 DEF IInv, Types, Holding
  <1>3. \A q \in Requests : pc'[q] \in Holding \cup {"wait"} =>
            entry'[ClientOf[q]] = lock[q] /\ used'[ClientOf[q]] \in {0, used[ClientOf[q]]}
    BY <1>1, <1>2, EvictedIsIdle
  <1>4. InFlightKeepsEntry'
    BY <1>1, <1>3 DEF InFlightKeepsEntry, Holding
  <1>5. HoldersRun' /\ RunnersHold'
    BY <1>1, <1>2 DEF IInv, Types, Slots, HoldersRun, RunnersHold, Holding
  <1>6. FreeIsFresh'
    BY <1>1, <1>2, <1>3 DEF IInv, FreeIsFresh
  <1> QED BY <1>4, <1>5, <1>6 DEF IInv

\* A request that moves outside of its wait and of its hold disturbs nobody.
LEMMA OutsideStep ==
    ASSUME IInv, Types', NEW r \in Requests, NEW p,
           pc[r] \notin Holding, p \notin Holding \cup {"wait"},
           pc' = [pc EXCEPT ![r] = p],
           \A q \in Requests \ {r} : lock'[q] = lock[q],
           UNCHANGED <<entry, used, holder>>
    PROVE  IInv'
  <1>1. \A q \in Requests : pc'[q] \in Holding \cup {"wait"} => q # r /\ pc[q] = pc'[q]
    BY DEF IInv, Types
  <1>2. \A l \in Requests : holder[l] # NoOne => holder[l] \in Requests \ {r}
    BY DEF IInv, Types, Slots, HoldersRun
  <1>3. InFlightKeepsEntry' /\ RunnersHold' /\ FreeIsFresh'
    BY <1>1 DEF IInv, InFlightKeepsEntry, RunnersHold, FreeIsFresh
  <1>4. HoldersRun'
    BY <1>2 DEF IInv, Types, HoldersRun
  <1> QED BY <1>3, <1>4 DEF IInv

\* A request that moves while it holds its slot disturbs nobody.
LEMMA HoldStep ==
    ASSUME IInv, Types', NEW r \in Requests, NEW p \in Holding,
           pc[r] \in Holding,
           pc' = [pc EXCEPT ![r] = p],
           UNCHANGED <<lock, map>>
    PROVE  IInv'
  <1> USE DEF map
  <1>1. \A q \in Requests : pc'[q] \in Holding <=> pc[q] \in Holding
    BY DEF IInv, Types
  <1>2. \A q \in Requests : pc'[q] = "wait" <=> pc[q] = "wait"
    BY DEF IInv, Types, Holding
  <1>3. InFlightKeepsEntry' /\ RunnersHold' /\ FreeIsFresh'
    BY <1>1, <1>2 DEF IInv, InFlightKeepsEntry, RunnersHold, FreeIsFresh
  <1>4. HoldersRun'
    BY <1>1 DEF IInv, Types, Slots, HoldersRun
  <1> QED BY <1>3, <1>4 DEF IInv

\* The lookup finds the slot of the requests in flight, or makes the first one.
LEMMA LookUpStep ==
    ASSUME IInv, Types', NEW r \in Requests, LookUp(r)
    PROVE  IInv'
  <1> DEFINE c == ClientOf[r]
             slot == IF entry[c] = NoOne THEN r ELSE entry[c]
  <1>1. /\ pc[r] = "look" /\ pc' = [pc EXCEPT ![r] = "wait"]
        /\ entry' = [entry EXCEPT ![c] = slot] /\ lock' = [lock EXCEPT ![r] = slot]
        /\ used' = [used EXCEPT ![c] = 0] /\ UNCHANGED holder
    BY DEF LookUp, GoTo
  <1>2. c \in Clients /\ slot \in Requests
    BY DEF IInv, Types, Slots
  <1>3. \A q \in Requests : q # r => pc'[q] = pc[q] /\ lock'[q] = lock[q]
    BY <1>1 DEF IInv, Types
  <1>4. pc'[r] = "wait" /\ lock'[r] = slot /\ entry'[c] = slot /\ used'[c] = 0
    BY <1>1, <1>2 DEF IInv, Types
  <1>5. \A q \in Requests : pc[q] \in Holding \cup {"wait"} =>
            entry[ClientOf[q]] = lock[q] /\ lock[q] \in Requests
    BY EvictedIsIdle
  <1>6. InFlightKeepsEntry'
    <2> SUFFICES ASSUME NEW q \in Requests, pc'[q] \in Holding \cup {"wait"}
                 PROVE  entry'[ClientOf[q]] = lock'[q]
      BY DEF InFlightKeepsEntry, Holding
    <2>1. CASE q = r BY <2>1, <1>4
    <2>2. CASE q # r /\ ClientOf[q] = c
      BY <2>2, <1>3, <1>4, <1>5
    <2>3. CASE q # r /\ ClientOf[q] # c
      BY <2>3, <1>1, <1>3, <1>5 DEF IInv, Types
    <2> QED BY <2>1, <2>2, <2>3
  <1>7. RunnersHold'
    BY <1>1, <1>3, <1>4 DEF IInv, RunnersHold, Holding
  <1>8. FreeIsFresh'
    <2> SUFFICES ASSUME NEW q \in Requests, pc'[q] = "wait"
                 PROVE  lock'[q] # NoOne /\ (holder'[lock'[q]] = NoOne => used'[ClientOf[q]] = 0)
      BY DEF FreeIsFresh
    <2>1. CASE q = r BY <2>1, <1>2, <1>4
    <2>2. CASE q # r
      <3>1. used'[ClientOf[q]] \in {0, used[ClientOf[q]]}
        BY <1>1, <1>2 DEF IInv, Types
      <3> QED BY <2>2, <3>1, <1>1, <1>3 DEF IInv, FreeIsFresh
    <2> QED BY <2>1, <2>2
  <1>9. HoldersRun'
    <2>1. \A l \in Requests : holder[l] # NoOne => holder[l] \in Requests \ {r}
      BY <1>1 DEF IInv, Types, Slots, HoldersRun, Holding
    <2> QED BY <1>1, <1>3, <2>1 DEF IInv, HoldersRun
  <1> QED BY <1>6, <1>7, <1>8, <1>9 DEF IInv

\* Who takes a free slot becomes its one holder.
LEMMA TakeStep ==
    ASSUME IInv, Types', NEW r \in Requests, Take(r)
    PROVE  IInv'
  <1>1. /\ pc[r] = "wait" /\ pc' = [pc EXCEPT ![r] = "spawn"]
        /\ holder[lock[r]] = NoOne /\ holder' = [holder EXCEPT ![lock[r]] = r]
        /\ UNCHANGED <<lock, entry, used>>
    BY DEF Take, GoTo
  <1>2. lock[r] \in Requests
    BY <1>1 DEF IInv, Types, Slots, FreeIsFresh
  <1>3. \A q \in Requests : q # r => pc'[q] = pc[q]
    BY <1>1 DEF IInv, Types
  <1>4. pc'[r] = "spawn" /\ holder'[lock[r]] = r
    BY <1>1, <1>2 DEF IInv, Types
  <1>5. \A l \in Requests : l # lock[r] => holder'[l] = holder[l]
    BY <1>1 DEF IInv, Types
  <1>6. InFlightKeepsEntry'
    BY <1>1, <1>3, <1>4 DEF IInv, InFlightKeepsEntry
  <1>7. RunnersHold'
    <2> SUFFICES ASSUME NEW q \in Requests, q # r, pc[q] \in Holding
                 PROVE  lock[q] # NoOne /\ holder'[lock[q]] = q
      BY <1>1, <1>2, <1>3, <1>4 DEF RunnersHold
    <2>1. lock[q] \in Requests /\ holder[lock[q]] = q
      BY DEF IInv, Types, Slots, RunnersHold
    <2> QED BY <2>1, <1>1, <1>5
  <1>8. FreeIsFresh'
    BY <1>1, <1>2, <1>3, <1>4, <1>5 DEF IInv, Types, Slots, FreeIsFresh
  <1>9. HoldersRun'
    <2> SUFFICES ASSUME NEW l \in Requests, holder'[l] # NoOne
                 PROVE  lock'[holder'[l]] = l /\ pc'[holder'[l]] \in Holding
      BY DEF HoldersRun, Holding
    <2>1. CASE l = lock[r] BY <2>1, <1>1, <1>4 DEF Holding
    <2>2. CASE l # lock[r]
      <3>1. holder'[l] = holder[l] /\ holder[l] \in Requests
        BY <2>2, <1>5 DEF IInv, Types, Slots
      <3>2. lock[holder[l]] = l /\ pc[holder[l]] \in Holding
        BY <3>1 DEF IInv, HoldersRun
      <3> QED BY <3>1, <3>2, <1>1, <1>3 DEF Holding
    <2> QED BY <2>1, <2>2
  <1> QED BY <1>6, <1>7, <1>8, <1>9 DEF IInv

\* A slot given back is free without anybody waiting, or it is the next one's.
LEMMA ReleaseStep ==
    ASSUME IInv, Types', NEW r \in Requests, Release(r)
    PROVE  IInv'
  <1>1. pc[r] = "release" /\ pc[r] \in Holding
    BY DEF Release, GoTo, Holding
  <1>2. lock[r] \in Requests /\ holder[lock[r]] = r
    BY <1>1 DEF IInv, Types, Slots, RunnersHold
  <1>3. lock' = [lock EXCEPT ![r] = NoOne] /\ UNCHANGED <<entry, used>>
    BY DEF Release, Forget
  <1>4. \A q \in Requests : q # r => lock'[q] = lock[q]
    BY <1>3 DEF IInv, Types
  <1>5. \A q \in Requests : q # r /\ pc[q] \in Holding => lock[q] \in Requests \ {lock[r]} /\ holder[lock[q]] = q
    BY <1>2 DEF IInv, Types, Slots, RunnersHold
  <1>6. CASE Waiting(lock[r]) = {}
    <2>1. pc' = [pc EXCEPT ![r] = "done"] /\ holder' = [holder EXCEPT ![lock[r]] = NoOne]
      BY <1>6 DEF Release, GoTo
    <2>2. \A q \in Requests : q # r => pc'[q] = pc[q]
      BY <2>1 DEF IInv, Types
    <2>3. pc'[r] = "done"
      BY <2>1 DEF IInv, Types
    <2>4. \A l \in Requests : l # lock[r] => holder'[l] = holder[l]
      BY <2>1 DEF IInv, Types
    <2>5. InFlightKeepsEntry'
      BY <1>3, <1>4, <2>2, <2>3 DEF IInv, InFlightKeepsEntry, Holding
    <2>6. RunnersHold'
      BY <1>4, <1>5, <2>2, <2>3, <2>4 DEF RunnersHold, Holding
    <2>7. FreeIsFresh'
      <3> SUFFICES ASSUME NEW q \in Requests, q # r, pc[q] = "wait"
                   PROVE  lock[q] # NoOne /\ (holder'[lock[q]] = NoOne => used[ClientOf[q]] = 0)
        BY <1>3, <1>4, <2>2, <2>3 DEF FreeIsFresh
      <3>1. lock[q] \in Requests /\ lock[q] # lock[r]
        BY <1>6 DEF Waiting, IInv, Types, Slots, FreeIsFresh
      <3> QED BY <3>1, <2>4 DEF IInv, FreeIsFresh
    <2>8. HoldersRun'
      <3> SUFFICES ASSUME NEW l \in Requests, holder'[l] # NoOne
                   PROVE  lock'[holder'[l]] = l /\ pc'[holder'[l]] \in Holding
        BY DEF HoldersRun, Holding
      <3>1. l # lock[r] /\ holder'[l] = holder[l] /\ holder[l] \in Requests
        BY <2>1, <2>4 DEF IInv, Types, Slots
      <3>2. lock[holder[l]] = l /\ pc[holder[l]] \in Holding
        BY <3>1 DEF IInv, HoldersRun
      <3> QED BY <3>1, <3>2, <1>4, <2>2
    <2> QED BY <2>5, <2>6, <2>7, <2>8 DEF IInv
  <1>7. CASE Waiting(lock[r]) # {}
    <2>1. PICK w \in Waiting(lock[r]) :
              /\ pc' = [pc EXCEPT ![r] = "done", ![w] = "spawn"]
              /\ holder' = [holder EXCEPT ![lock[r]] = w]
      BY <1>7 DEF Release
    <2>2. w \in Requests /\ w # r /\ pc[w] = "wait" /\ lock[w] = lock[r] /\ w # NoOne
      BY <1>1, <2>1 DEF Waiting
    <2>3. \A q \in Requests : q # r /\ q # w => pc'[q] = pc[q]
      BY <2>1 DEF IInv, Types
    <2>4. pc'[r] = "done" /\ pc'[w] = "spawn"
      BY <2>1, <2>2 DEF IInv, Types
    <2>5. \A l \in Requests : l # lock[r] => holder'[l] = holder[l]
      BY <2>1 DEF IInv, Types
    <2>6. holder'[lock[r]] = w
      BY <1>2, <2>1 DEF IInv, Types
    <2>7. InFlightKeepsEntry'
      BY <1>3, <1>4, <2>2, <2>3, <2>4 DEF IInv, InFlightKeepsEntry, Holding
    <2>8. RunnersHold'
      BY <1>2, <1>4, <1>5, <2>2, <2>3, <2>4, <2>5, <2>6 DEF RunnersHold, Holding
    <2>9. FreeIsFresh'
      <3> SUFFICES ASSUME NEW q \in Requests, q # r, q # w, pc[q] = "wait"
                   PROVE  lock[q] # NoOne /\ (holder'[lock[q]] = NoOne => used[ClientOf[q]] = 0)
        BY <1>3, <1>4, <2>2, <2>3, <2>4 DEF FreeIsFresh
      <3>1. lock[q] \in Requests
        BY DEF IInv, Types, Slots, FreeIsFresh
      <3> QED BY <3>1, <2>2, <2>5, <2>6 DEF IInv, FreeIsFresh
    <2>10. HoldersRun'
      <3> SUFFICES ASSUME NEW l \in Requests, holder'[l] # NoOne
                   PROVE  lock'[holder'[l]] = l /\ pc'[holder'[l]] \in Holding
        BY DEF HoldersRun, Holding
      <3>1. CASE l = lock[r]
        BY <3>1, <1>4, <2>2, <2>4, <2>6 DEF Holding
      <3>2. CASE l # lock[r]
        <4>1. holder'[l] = holder[l] /\ holder[l] \in Requests
          BY <3>2, <2>5 DEF IInv, Types, Slots
        <4>2. lock[holder[l]] = l /\ pc[holder[l]] \in Holding
          BY <4>1 DEF IInv, HoldersRun
        <4>3. holder[l] # r /\ holder[l] # w
          BY <3>2, <4>2, <2>2
        <4> QED BY <4>1, <4>2, <4>3, <1>4, <2>3
      <3> QED BY <3>1, <3>2
    <2> QED BY <2>7, <2>8, <2>9, <2>10 DEF IInv
  <1> QED BY <1>6, <1>7

\* Time passes only where nobody is about to take a free slot.
LEMMA TickStep ==
    ASSUME IInv, Types', Tick
    PROVE  IInv'
  <1>1. /\ \A r \in Requests : pc[r] = "wait" => holder[lock[r]] # NoOne
        /\ UNCHANGED <<pc, lock, entry, holder>>
    BY DEF Tick, request
  <1> QED BY <1>1 DEF IInv, HoldersRun, RunnersHold, FreeIsFresh, InFlightKeepsEntry, Holding

\* The strengthening is inductive.
LEMMA NextIInv == IInv /\ [Next]_vars => IInv'
  <1> SUFFICES ASSUME IInv, [Next]_vars PROVE IInv'
    OBVIOUS
  <1>1. Types'
    BY TypesStep DEF IInv
  <1>2. ASSUME NEW r \in Requests, Resolve(r) PROVE IInv'
    <2>1. CASE Sweep(r) BY <1>1, <2>1, SweepStep
    <2>2. CASE SkipSweep(r)
      BY <1>1, <2>2, OutsideStep DEF SkipSweep, GoTo, map, Holding
    <2>3. CASE Stat(r)
      BY <1>1, <2>3, OutsideStep DEF Stat, GoTo, map, Holding
    <2>4. CASE Mkdir(r)
      BY <1>1, <2>4, OutsideStep DEF Mkdir, GoTo, map, Holding
    <2>5. CASE MkdirFails(r)
      <3>1. \A q \in Requests \ {r} : lock'[q] = lock[q]
        BY <2>5 DEF MkdirFails, Forget, IInv, Types
      <3> QED BY <1>1, <2>5, <3>1, OutsideStep DEF MkdirFails, GoTo, map, Holding
    <2> QED BY <1>2, <2>1, <2>2, <2>3, <2>4, <2>5 DEF Resolve
  <1>3. ASSUME NEW r \in Requests, Acquire(r) PROVE IInv'
    <2>1. CASE LookUp(r) BY <1>1, <2>1, LookUpStep
    <2>2. CASE Take(r) BY <1>1, <2>2, TakeStep
    <2>3. CASE GiveUp(r)
      <3>1. \A q \in Requests \ {r} : lock'[q] = lock[q]
        BY <2>3 DEF GiveUp, Forget, IInv, Types
      <3> QED BY <1>1, <2>3, <3>1, OutsideStep DEF GiveUp, GoTo, map, Holding
    <2> QED BY <1>3, <2>1, <2>2, <2>3 DEF Acquire
  <1>4. ASSUME NEW r \in Requests, Execute(r) PROVE IInv'
    <2>1. PICK p \in Holding :
              pc[r] \in Holding /\ pc' = [pc EXCEPT ![r] = p] /\ UNCHANGED <<lock, map>>
      BY <1>4 DEF Execute, Spawn, NoProcess, Served, NotFound, RunFails, GoTo, Holding
    <2> QED BY <1>1, <2>1, HoldStep
  <1>5. ASSUME NEW r \in Requests, Release(r) PROVE IInv'
    BY <1>1, <1>5, ReleaseStep
  <1>6. CASE Restart
    BY <1>1, <1>6 DEF Restart, IInv, Types, HoldersRun, RunnersHold, FreeIsFresh,
       InFlightKeepsEntry, Holding
  <1>7. CASE Tick BY <1>1, <1>7, TickStep
  <1>8. CASE UNCHANGED vars
    BY <1>1, <1>8 DEF vars, request, map, disk, IInv, HoldersRun, RunnersHold, FreeIsFresh,
       InFlightKeepsEntry, Holding
  <1> QED
    BY <1>2, <1>3, <1>4, <1>5, <1>6, <1>7, <1>8 DEF Next, Step, Finished

\* The invariant holds of every behaviour.
THEOREM Inductive == Spec => []IInv
  BY InitIInv, NextIInv, PTL DEF Spec

\* Type correctness, and every slot is held by the one request that runs under it.
THEOREM TypeCorrect == Spec => []TypeOK
  <1>1. IInv => TypeOK
    BY DEF IInv, Types, HoldersRun, TypeOK
  <1> QED BY <1>1, Inductive, PTL

\* The entry of a request in flight stays in the lock map, so that every later
\* request of the session meets it there.
THEOREM EntryKept == Spec => []InFlightKeepsEntry
  <1>1. IInv => InFlightKeepsEntry
    BY DEF IInv
  <1> QED BY <1>1, Inductive, PTL

\* Two processes of one session never run at once: both would hold the slot of
\* the one entry of their client.
THEOREM OneProcessEver == Spec => []OneProcess
  <1>1. IInv => OneProcess
    <2> SUFFICES ASSUME IInv, NEW r \in Requests, NEW q \in Requests,
                        pc[r] = "run", pc[q] = "run", ClientOf[r] = ClientOf[q]
                 PROVE  r = q
      BY DEF OneProcess
    <2>1. lock[r] = lock[q]
      BY DEF IInv, InFlightKeepsEntry, Holding
    <2> QED BY <2>1 DEF IInv, RunnersHold, Holding
  <1> QED BY <1>1, Inductive, PTL

\* No sweep removes the directory of a running process: its entry is in the map,
\* and the sweep that evicts entries first leaves it there.
THEOREM DirKept == Spec => RunningKeepsDir
  <1>1. IInv /\ [Next]_vars =>
            [\A r \in Requests : pc[r] = "run" /\ pc'[r] = "run" /\ ClientOf[r] \in dirs
                                    => ClientOf[r] \in dirs']_vars
    <2> SUFFICES ASSUME IInv, Next, NEW r \in Requests, pc[r] = "run", ClientOf[r] \in dirs
                 PROVE  ClientOf[r] \in dirs'
      OBVIOUS
    <2>1. ASSUME NEW q \in Requests, Sweep(q) PROVE ClientOf[r] \in dirs'
      <3> DEFINE left == [c \in Clients |-> IF Evictable(c) THEN NoOne ELSE entry[c]]
      <3>1. dirs' = dirs \ Removable(left)
        BY <2>1 DEF Sweep
      <3>2. left[ClientOf[r]] # NoOne
        BY EvictedIsIdle DEF Holding
      <3> QED BY <3>1, <3>2 DEF Removable
    <2>2. ASSUME NEW q \in Requests, Step(q), ~Sweep(q) PROVE dirs \subseteq dirs'
      <3>1. CASE Resolve(q)
        BY <2>2, <3>1 DEF Resolve, SkipSweep, Stat, Mkdir, MkdirFails, disk
      <3>2. CASE Acquire(q)
        BY <3>2 DEF Acquire, LookUp, Take, GiveUp, disk
      <3>3. CASE Execute(q)
        BY <3>3 DEF Execute, Spawn, NoProcess, Served, NotFound, RunFails, disk
      <3>4. CASE Release(q)
        BY <3>4 DEF Release, disk
      <3> QED BY <2>2, <3>1, <3>2, <3>3, <3>4 DEF Step
    <2>3. CASE Restart \/ Tick \/ Finished
      BY <2>3 DEF Restart, Tick, Finished, vars, disk
    <2> QED BY <2>1, <2>2, <2>3 DEF Next
  <1> QED BY <1>1, Inductive, PTL DEF Spec, RunningKeepsDir

=============================================================================
