---------------------------- MODULE MCAdmission ----------------------------
(***************************************************************************)
(* Instances of Admission for TLC.                                         *)
(***************************************************************************)
EXTENDS Admission, TLC

CONSTANTS c1, c2, r1, r2, r3, r4, a1

\* Two requests of each client.
TwoEach == [r \in Requests |-> IF r \in {r1, r2} THEN c1 ELSE c2]
OneClient == [r \in Requests |-> c1]

\* The second request names no agent; every client stands for agent a1.
NamedAndNot == [r \in Requests |-> IF r = r2 THEN NoAgent ELSE a1]
SameAgent == [r \in Requests |-> a1]
FirstAgent == [c \in Clients |-> a1]

OneEach == [c \in Clients |-> 1]
Unlimited == [c \in Clients |-> 0]
OnlyFirst == [c \in Clients |-> IF c = c1 THEN 1 ELSE 0]
OnlySecond == [c \in Clients |-> IF c = c2 THEN 1 ELSE 0]

=============================================================================
