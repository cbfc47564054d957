------------------------------ MODULE MCRouter ------------------------------
(***************************************************************************)
(* Instances of Router for TLC.  Requests, clients, keys and URLs are      *)
(* model values; the configurations choose one definition per constant.    *)
(***************************************************************************)
EXTENDS Router, TLC

CONSTANTS c1, c2, r1, r2, r3, k1, k2, u1, u2

\* Requests: the first is of c1, the others of c2.
TwoClients == [r \in Requests |-> IF r = r1 THEN c1 ELSE c2]

SameKey == [r \in Requests |-> k1]
OwnKeys == [r \in Requests |-> IF r = r1 THEN k1 ELSE IF r = r2 THEN k2 ELSE NoKey]

\* Every request may use every provider of the chain.
ServeAll == [r \in Requests |-> Providers]

\* The second request may use the last provider only, the third none.
FewServe == [r \in Requests |-> IF r = r1 THEN Providers ELSE IF r = r2 THEN {N} ELSE {}]

Unrestricted == [i \in Providers |-> {}]
\* The last provider admits only c2.
LastIsPrivate == [i \in Providers |-> IF i = N THEN {c2} ELSE {}]

SharedURL == [i \in Providers |-> u1]
\* The first two providers share an endpoint, the others do not say theirs.
FirstTwoShare == [i \in Providers |-> IF i <= 2 THEN u1 ELSE NoURL]

OneTry == [i \in Providers |-> 1]
FirstRetries == [i \in Providers |-> IF i = 1 THEN 2 ELSE 1]

\* Jittered cooldowns; 0 is a jitter larger than the cooldown itself.
CoolJitter == [i \in Providers |-> {0, 1}]
CoolOneOrTwo == [i \in Providers |-> {1, 2}]

=============================================================================
