--------------------------- MODULE RouterPromise ---------------------------
(***************************************************************************)
(* What the fallback chain promises to the caller of the router, without   *)
(* saying how a provider is chosen: a request tries eligible providers one *)
(* after the other, none twice and at most Budget of them, and it is       *)
(* answered once, either by the provider it is trying or with a failure.   *)
(* A failure before the chain is exhausted needs a reason: nothing was     *)
(* tried, or the client is gone.                                           *)
(***************************************************************************)
EXTENDS Integers, FiniteSets

CONSTANTS
    Requests,
    Usable,     \* the providers each request may be sent to
    Budget      \* visits per request

VARIABLES
    chain,      \* candidates fixed for the request when its walk starts
    tried,      \* providers sent the request
    current,    \* provider holding the request, 0 = none
    gone,       \* the client disconnected
    answer      \* "none", "ok" or a failure

vars == <<chain, tried, current, gone, answer>>

Init ==
    /\ chain = [r \in Requests |-> {}]
    /\ tried = [r \in Requests |-> {}]
    /\ current = [r \in Requests |-> 0]
    /\ gone = [r \in Requests |-> FALSE]
    /\ answer = [r \in Requests |-> "none"]

Pending(r) == answer[r] = "none"

Start(r) ==
    /\ Pending(r) /\ chain[r] = {}
    /\ \E s \in (SUBSET Usable[r]) \ {{}} : chain' = [chain EXCEPT ![r] = s]
    /\ UNCHANGED <<tried, current, gone, answer>>

Try(r) ==
    /\ Pending(r)
    /\ Cardinality(tried[r]) < Budget
    /\ \E p \in chain[r] \ tried[r] :
         /\ tried' = [tried EXCEPT ![r] = @ \cup {p}]
         /\ current' = [current EXCEPT ![r] = p]
    /\ UNCHANGED <<chain, gone, answer>>

Serve(r) ==
    /\ Pending(r) /\ current[r] # 0
    /\ answer' = [answer EXCEPT ![r] = "ok"]
    /\ UNCHANGED <<chain, tried, current, gone>>

Fail(r) ==
    /\ Pending(r)
    /\ \/ chain[r] = {}
       \/ gone[r]
       \/ tried[r] = chain[r]
       \/ Cardinality(tried[r]) = Budget
    /\ answer' = [answer EXCEPT ![r] = "failed"]
    /\ UNCHANGED <<chain, tried, current, gone>>

Leave(r) ==
    /\ Pending(r) /\ ~gone[r]
    /\ gone' = [gone EXCEPT ![r] = TRUE]
    /\ UNCHANGED <<chain, tried, current, answer>>

Next == \E r \in Requests : Start(r) \/ Try(r) \/ Serve(r) \/ Fail(r) \/ Leave(r)

Spec == Init /\ [][Next]_vars

=============================================================================
