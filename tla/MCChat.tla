------------------------------- MODULE MCChat -------------------------------
(***************************************************************************)
(* Instances of Chat for TLC.                                              *)
(***************************************************************************)
EXTENDS Chat, TLC

CONSTANTS c1, c2, r1, r2, r3, r4, r5, b1, b2, p1, p2

\* The third request is of another client.
ThirdIsAnothers == [r \in Requests |-> IF r = r3 THEN c2 ELSE c1]
OneClient == [r \in Requests |-> c1]

SameBody == [r \in Requests |-> b1]

\* The bodies of the first client differ only in the order of their keys.
TwoBodies == [r \in Requests |-> IF r = r2 THEN b2 ELSE b1]
Levels == [b \in Bodies |-> b1]
Keeps == [b \in Bodies |-> b]

\* A provider of its own for each client.
OwnProvider == [c \in Clients |-> IF c = c1 THEN {p1} ELSE {p2}]
OnlyFirst == [c \in Clients |-> {p1}]

TwoSlots == [c \in Clients |-> 2]
NoBudget == [c \in Clients |-> 0]
AllCodes == {"model_not_found", "all_providers_down", "degraded_limit", "chain_exhausted",
             "upstream_unavailable", "upstream_error"}

OneUnit == [c \in Clients |-> 1]

=============================================================================
