---------------------------- MODULE MCAccounting ----------------------------
(***************************************************************************)
(* Instances of Accounting for TLC.                                        *)
(***************************************************************************)
EXTENDS Accounting

CONSTANTS c1, c2, r1, r2, r3, s1, s2, s3

ThirdOther == [r \in Requests |-> IF r = r3 THEN c2 ELSE c1]

OneSessionEach == [r \in Requests |-> IF r = r1 THEN s1 ELSE IF r = r2 THEN s2 ELSE s3]

\* The limit is lowered between two lives, below the default.
Lowered == [n \in 0..MaxStops |-> IF n = 0 THEN 3 ELSE 1]

\* A bound: the clock goes on once, between the first request that left a record of
\* its session and the others, before any save.  No fairness is asked of the clock,
\* so that this hides no progress.
ClockBetween ==
    now' # now => /\ saves = 0 /\ stops = 0
                  /\ DOMAIN sessions # {}
                  /\ Cardinality({r \in Requests : pc[r] # "idle"}) = 1
                  /\ InFlight = {}

=============================================================================
