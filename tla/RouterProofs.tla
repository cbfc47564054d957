---------------------------- MODULE RouterProofs ----------------------------
(***************************************************************************)
(* Proofs about the fallback chain, for any number of providers, requests, *)
(* clients and keys and any assignment of the constants.                   *)
(***************************************************************************)
EXTENDS Router, TLAPS, FiniteSetTheorems

-----------------------------------------------------------------------------
(* Lemmas about the helpers of the chain. *)

\* The cyclic position is a position.
LEMMA ModRange ==
    ASSUME NEW a \in Nat, NEW n \in Nat, n > 0
    PROVE  a % n \in 0..(n - 1)
  OBVIOUS

LEMMA ModSmall ==
    ASSUME NEW a \in Nat, NEW n \in Nat, a < n
    PROVE  a % n = a
  OBVIOUS

\* Moving an element to the front keeps a sequence over the same set.
LEMMA MoveToFrontType ==
    ASSUME NEW S, NEW s \in Seq(S), NEW k \in 1..Len(s)
    PROVE  /\ MoveToFront(s, k) \in Seq(S)
           /\ Len(MoveToFront(s, k)) = Len(s)
           /\ \A i \in 1..Len(s) : MoveToFront(s, k)[i] =
                 IF i = 1 THEN s[k] ELSE IF i <= k THEN s[i-1] ELSE s[i]
  <1> DEFINE n == Len(s)
             f == [i \in 1..n |-> IF i = 1 THEN s[k]
                                  ELSE IF i <= k THEN s[i-1] ELSE s[i]]
  <1>1. n \in Nat /\ \A i \in 1..n : s[i] \in S
    OBVIOUS
  <1>2. f \in [1..n -> S]
    <2> SUFFICES ASSUME NEW i \in 1..n
                 PROVE  (IF i = 1 THEN s[k]
                         ELSE IF i <= k THEN s[i-1] ELSE s[i]) \in S
      OBVIOUS
    <2>1. i # 1 => i - 1 \in 1..n
      BY <1>1
    <2>2. QED BY <1>1, <2>1
  <1>3. f \in Seq(S) /\ Len(f) = n
    BY <1>1, <1>2
  <1>4. QED BY <1>3 DEF MoveToFront

\* The sticky reorder permutes the chain.
LEMMA StickyReorderType ==
    ASSUME NEW r \in Requests, NEW s \in Seq(Providers), Injective(s)
    PROVE  /\ StickyReorder(r, s) \in Seq(Providers)
           /\ Len(StickyReorder(r, s)) = Len(s)
           /\ Injective(StickyReorder(r, s))
           /\ \A i \in 1..Len(s) : \E j \in 1..Len(s) : StickyReorder(r, s)[i] = s[j]
  <1> DEFINE pref == IF StickyKey[r] = NoKey THEN 0 ELSE affinity[StickyKey[r]]
             k == CHOOSE k \in 1..Len(s) : s[k] = pref
             t == StickyReorder(r, s)
  <1>1. CASE \E j \in 1..Len(s) : s[j] = pref
    <2>1. k \in 1..Len(s)
      BY <1>1
    <2>2. t = MoveToFront(s, k)
      BY <1>1 DEF StickyReorder
    <2>3. /\ t \in Seq(Providers)
          /\ Len(t) = Len(s)
          /\ \A i \in 1..Len(s) : t[i] =
                IF i = 1 THEN s[k] ELSE IF i <= k THEN s[i-1] ELSE s[i]
      <3> HIDE DEF k
      <3>1. /\ MoveToFront(s, k) \in Seq(Providers)
            /\ Len(MoveToFront(s, k)) = Len(s)
            /\ \A i \in 1..Len(s) : MoveToFront(s, k)[i] =
                  IF i = 1 THEN s[k] ELSE IF i <= k THEN s[i-1] ELSE s[i]
        BY <2>1, MoveToFrontType
      <3> HIDE DEF t
      <3>2. QED BY <2>2, <3>1
    <2>4. \A i \in 1..Len(s) : \E j \in 1..Len(s) : t[i] = s[j]
      <3> HIDE DEF t, k
      <3> QED BY <2>1, <2>3
    <2>5. Injective(t)
      <3> HIDE DEF t, k
      <3> QED BY <2>1, <2>3 DEF Injective
    <2>6. QED BY <2>3, <2>4, <2>5
  <1>2. CASE ~\E j \in 1..Len(s) : s[j] = pref
    BY <1>2 DEF StickyReorder
  <1>3. QED BY <1>1, <1>2

-----------------------------------------------------------------------------
(* The next candidate of a walking request. *)

\* While fewer visits are closed than there are candidates, the cyclic scan of
\* nextCyclicCandidate starts at a candidate that is open: the next of the chain.
LEMMA NextInChain ==
    ASSUME Inductive, NEW r \in Requests, pc[r] = "loop",
           attempts[r] < Len(ready[r])
    PROVE  Open(r) # {} /\ NextCyclic(r) = ready[r][attempts[r] + 1]
  <1> DEFINE n == Len(ready[r])  a == attempts[r]
             least == CHOOSE k \in Open(r) : \A j \in Open(r) : k <= j
  <1>1. ChainInv(r) /\ TypeOK
    BY DEF Inductive
  <1>2. n \in Nat /\ a \in 0..(n - 1) /\ ready[r] \in Seq(Providers)
    BY <1>1 DEF TypeOK, ChainInv, WalkInv, Resolving
  <1>3. a % n = a
    <2>1. a \in Nat /\ a < n
      BY <1>2
    <2>2. QED BY <1>2, <2>1, ModSmall
  <1>4. Cyclic(r, 0) = ready[r][a + 1]
    <2>1. a + 0 = a
      BY <1>2
    <2>2. QED BY <1>3, <2>1 DEF Cyclic
  <1>5. ready[r][a + 1] \in Providers
    BY <1>2
  <1>6. ready[r][a + 1] \notin excluded[r]
    <2>1. Injective(ready[r]) /\ ~Resolving(r) /\ WalkInv(r)
      BY <1>1 DEF ChainInv, Resolving
    <2>2. Closed(r) = a
      BY DEF Closed, InVisit
    <2>3. \A i \in Providers : i \in excluded[r] <=> \E k \in 1..a : ready[r][k] = i
      BY <2>1, <2>2 DEF WalkInv
    <2>4. QED BY <1>2, <1>5, <2>1, <2>3 DEF Injective
  <1>7. 0 \in Open(r)
    BY <1>2, <1>4, <1>6 DEF Open
  <1>8. \A j \in Open(r) : j \in Nat
    BY <1>2 DEF Open
  <1>9. least = 0
    BY <1>7, <1>8
  <1>10. QED BY <1>4, <1>7, <1>9 DEF NextCyclic

\* Once as many visits are closed as there are candidates, none is open.
LEMMA ChainSpent ==
    ASSUME Inductive, NEW r \in Requests, pc[r] = "loop",
           ~(attempts[r] < Len(ready[r]))
    PROVE  Open(r) = {} /\ attempts[r] = Len(ready[r])
  <1> DEFINE n == Len(ready[r])
  <1>1. ChainInv(r) /\ TypeOK
    BY DEF Inductive
  <1>2. n \in Nat \ {0} /\ attempts[r] = n /\ ready[r] \in Seq(Providers)
    BY <1>1 DEF TypeOK, ChainInv, WalkInv, Resolving
  <1>3. ASSUME NEW k \in 0..(n - 1) PROVE Cyclic(r, k) \in excluded[r]
    <2>1. (attempts[r] + k) % n \in 0..(n - 1)
      <3>1. attempts[r] + k \in Nat /\ n \in Nat /\ n > 0
        BY <1>2
      <3>2. QED BY <3>1, ModRange
    <2>2. PICK j \in 1..n : Cyclic(r, k) = ready[r][j]
      BY <1>2, <2>1 DEF Cyclic
    <2>3. ready[r][j] \in Providers
      BY <1>2
    <2>4. QED
      BY <1>1, <1>2, <2>2, <2>3
      DEF ChainInv, WalkInv, Resolving, InVisit, Closed
  <1>4. QED BY <1>2, <1>3 DEF Open

-----------------------------------------------------------------------------
(* One step of a request leaves the others alone. *)

Frame(q) == /\ pc'[q] = pc[q] /\ pos'[q] = pos[q]
            /\ ready'[q] = ready[q] /\ soft'[q] = soft[q]
            /\ attempts'[q] = attempts[q] /\ excluded'[q] = excluded[q]
            /\ cur'[q] = cur[q] /\ events'[q] = events[q] /\ result'[q] = result[q]

\* ChainInv of a request reads nothing but the variables Frame lists.
LEMMA FrameLemma ==
    ASSUME NEW q \in Requests, ChainInv(q), Frame(q)
    PROVE  ChainInv(q)'
  <1>1. /\ Resolving(q)' <=> Resolving(q)
        /\ InVisit(q)' <=> InVisit(q)
        /\ Eligible(q)' = Eligible(q)
    BY DEF Frame, Resolving, InVisit, Eligible
  <1>2. Closed(q)' = Closed(q)
    BY <1>1 DEF Frame, Closed
  <1>3. ScanInv(q) => ScanInv(q)'
    BY <1>1 DEF Frame, ScanInv, Increasing
  <1>4. WalkInv(q) => WalkInv(q)'
    BY <1>1, <1>2 DEF Frame, WalkInv
  <1>5. QED
    BY <1>1, <1>3, <1>4 DEF Frame, ChainInv, Injective

\* A request that leaves with any answer but an exhausted chain keeps ChainInv.
LEMMA LeaveLemma ==
    ASSUME NEW r \in Requests, ChainInv(r), pc'[r] = "done",
           result'[r] \notin {"exhausted", "raw4xx"},
           UNCHANGED <<ready, events, cur>>
    PROVE  ChainInv(r)'
  BY DEF ChainInv, Resolving, Injective, Eligible

\* A step of r preserves the invariant if it keeps the types, changes no other
\* request and establishes ChainInv of r.
LEMMA StepOf ==
    ASSUME Inductive, NEW r \in Requests, TypeOK',
           \A q \in Requests \ {r} : Frame(q), ChainInv(r)'
    PROVE  Inductive'
  BY FrameLemma DEF Inductive

-----------------------------------------------------------------------------
(* The steps of resolution. *)

LEMMA ArriveStep ==
    ASSUME Inductive, NEW r \in Requests, Arrive(r)
    PROVE  Inductive'
  <1>1. TypeOK /\ ChainInv(r)
    BY DEF Inductive
  <1>2. TypeOK'
    BY <1>1 DEF TypeOK, Arrive, GoTo, Points, sharedVars, scanVars, chainVars
  <1>3. \A q \in Requests \ {r} : Frame(q)
    BY <1>1 DEF TypeOK, Arrive, GoTo, Frame, scanVars, chainVars
  <1>4. ChainInv(r)'
    BY <1>1 DEF TypeOK, Arrive, GoTo, scanVars, chainVars, ChainInv, ScanInv, Resolving,
                Injective, Increasing, Eligible
  <1>5. QED BY <1>2, <1>3, <1>4, StepOf

\* Appending a larger provider keeps a scan list a scan list.
LEMMA ScanListGrows ==
    ASSUME NEW r \in Requests, NEW s \in Seq(Providers), NEW i \in Eligible(r), i \in Providers,
           Increasing(s), \A k \in 1..Len(s) : s[k] \in Eligible(r) /\ s[k] < i
    PROVE  /\ Append(s, i) \in Seq(Providers)
           /\ Increasing(Append(s, i))
           /\ \A k \in 1..Len(Append(s, i)) :
                 Append(s, i)[k] \in Eligible(r) /\ Append(s, i)[k] < i + 1
  <1> DEFINE t == Append(s, i)
  <1>0. N \in Nat /\ i \in 1..N /\ \A k \in 1..Len(s) : s[k] \in 1..N
    <2>1. \A k \in 1..Len(s) : s[k] \in Providers
      OBVIOUS
    <2>2. QED BY <2>1, RouterAssumption DEF Providers
  <1>1. /\ t \in Seq(Providers) /\ Len(t) = Len(s) + 1 /\ t[Len(s) + 1] = i
        /\ \A k \in 1..Len(s) : t[k] = s[k]
    OBVIOUS
  <1>2. Len(s) \in Nat
    OBVIOUS
  <1> HIDE DEF t
  <1>3. Increasing(t)
    BY <1>0, <1>1, <1>2 DEF Increasing
  <1>4. \A k \in 1..Len(t) : t[k] \in Eligible(r) /\ t[k] < i + 1
    BY <1>0, <1>1, <1>2
  <1>5. QED BY <1>1, <1>3, <1>4 DEF t

LEMMA IncreasingInjective ==
    ASSUME NEW s \in Seq(Providers), Increasing(s)
    PROVE  Injective(s)
  <1>1. \A k \in 1..Len(s) : s[k] \in Int
    BY SMTT(30), RouterAssumption DEF Providers
  <1>2. QED BY <1>1 DEF Increasing, Injective

LEMMA ScanProviderStep ==
    ASSUME Inductive, NEW r \in Requests, ScanProvider(r)
    PROVE  Inductive'
  <1> DEFINE i == pos[r]
  <1>1. TypeOK /\ ChainInv(r) /\ ScanInv(r) /\ N \in Nat
    BY RouterAssumption DEF Inductive, ScanProvider, ChainInv, Resolving
  <1>2. i \in Providers
    BY <1>1 DEF TypeOK, ScanProvider, Providers
  <1>3. /\ ready' = ready \/ (i \in Eligible(r) /\ ready' = [ready EXCEPT ![r] = Append(@, i)])
        /\ soft' = soft \/ (i \in Eligible(r) /\ soft' = [soft EXCEPT ![r] = Append(@, i)])
        /\ pos' = [pos EXCEPT ![r] = i + 1]
    BY DEF ScanProvider
  <1>4. /\ Append(ready[r], i) \in Seq(Providers) /\ Append(soft[r], i) \in Seq(Providers)
        /\ i + 1 \in 1..(N + 1)
    <2>1. ready[r] \in Seq(Providers) /\ soft[r] \in Seq(Providers)
      BY <1>1 DEF TypeOK
    <2>2. i + 1 \in 1..(N + 1)
      BY <1>1, <1>2 DEF Providers
    <2>3. QED BY <1>2, <2>1, <2>2
  <1>5. TypeOK'
    <2>1. ready' \in [Requests -> Seq(Providers)]
      BY <1>1, <1>3, <1>4 DEF TypeOK
    <2>2. soft' \in [Requests -> Seq(Providers)]
      BY <1>1, <1>3, <1>4 DEF TypeOK
    <2>3. pos' \in [Requests -> 1..(N + 1)]
      BY <1>1, <1>3, <1>4 DEF TypeOK
    <2>4. QED
      BY <1>1, <2>1, <2>2, <2>3 DEF TypeOK, ScanProvider, sharedVars, chainVars
  <1>6. \A q \in Requests \ {r} : Frame(q)
    BY <1>1, <1>3 DEF TypeOK, ScanProvider, Frame, chainVars
  <1>7. /\ ready'[r] = ready[r] \/ (i \in Eligible(r) /\ ready'[r] = Append(ready[r], i))
        /\ soft'[r] = soft[r] \/ (i \in Eligible(r) /\ soft'[r] = Append(soft[r], i))
        /\ pos'[r] = i + 1
    BY <1>1, <1>3 DEF TypeOK
  <1>8. ASSUME NEW s \in Seq(Providers), NEW t, t = s \/ (i \in Eligible(r) /\ t = Append(s, i)),
               Increasing(s), \A k \in 1..Len(s) : s[k] \in Eligible(r) /\ s[k] < i
        PROVE  Increasing(t) /\ \A k \in 1..Len(t) : t[k] \in Eligible(r) /\ t[k] < i + 1
    <2>1. CASE t = s
      <3>1. \A k \in 1..Len(s) : s[k] \in Int /\ i \in Int
        BY <1>1, <1>2 DEF Providers
      <3>2. QED BY <1>8, <2>1, <3>1
    <2>2. CASE i \in Eligible(r) /\ t = Append(s, i)
      BY <1>2, <1>8, <2>2, ScanListGrows
    <2>3. QED BY <1>8, <2>1, <2>2
  <1>9. /\ Increasing(ready'[r]) /\ Increasing(soft'[r])
        /\ \A k \in 1..Len(ready'[r]) : ready'[r][k] \in Eligible(r) /\ ready'[r][k] < pos'[r]
        /\ \A k \in 1..Len(soft'[r]) : soft'[r][k] \in Eligible(r) /\ soft'[r][k] < pos'[r]
    <2>1. ready[r] \in Seq(Providers) /\ soft[r] \in Seq(Providers)
      BY <1>1 DEF TypeOK
    <2>2. /\ Increasing(ready[r]) /\ Increasing(soft[r])
          /\ \A k \in 1..Len(ready[r]) : ready[r][k] \in Eligible(r) /\ ready[r][k] < i
          /\ \A k \in 1..Len(soft[r]) : soft[r][k] \in Eligible(r) /\ soft[r][k] < i
      BY <1>1 DEF ScanInv
    <2>3. /\ Increasing(ready'[r])
          /\ \A k \in 1..Len(ready'[r]) : ready'[r][k] \in Eligible(r) /\ ready'[r][k] < i + 1
      BY <1>7, <1>8, <2>1, <2>2
    <2>4. /\ Increasing(soft'[r])
          /\ \A k \in 1..Len(soft'[r]) : soft'[r][k] \in Eligible(r) /\ soft'[r][k] < i + 1
      BY <1>7, <1>8, <2>1, <2>2
    <2>5. QED BY <1>7, <2>3, <2>4
  <1>10. Injective(ready'[r])
    <2>1. ready'[r] \in Seq(Providers)
      BY <1>5 DEF TypeOK
    <2>2. QED BY <1>9, <2>1, IncreasingInjective
  <1>11. ChainInv(r)'
    <2>1. /\ pc[r] = "scan" /\ pc' = pc /\ result' = result /\ attempts' = attempts
          /\ cur' = cur /\ excluded' = excluded /\ events' = events
      BY DEF ScanProvider, chainVars
    <2>2. Eligible(r)' = Eligible(r)
      BY DEF Eligible
    <2>3. ScanInv(r)'
      BY <1>1, <1>9, <2>1, <2>2 DEF ScanInv, Increasing
    <2>4. QED
      BY <1>1, <1>9, <1>10, <2>1, <2>2, <2>3 DEF ChainInv, ScanInv, Resolving, Injective
  <1>12. QED BY <1>5, <1>6, <1>11, StepOf

LEMMA StartChainStep ==
    ASSUME Inductive, NEW r \in Requests, StartChain(r)
    PROVE  Inductive'
  <1> DEFINE s == Scanned(r)
             t == StickyReorder(r, s)
  <1>1. TypeOK /\ ChainInv(r) /\ ScanInv(r)
    BY DEF Inductive, StartChain, ScanDone, ChainInv, Resolving
  <1>2. s \in Seq(Providers) /\ s # <<>> /\ Increasing(s)
        /\ \A k \in 1..Len(s) : s[k] \in Eligible(r)
    BY <1>1 DEF TypeOK, StartChain, Scanned, ScanInv
  <1>3. Injective(s)
    BY <1>2, IncreasingInjective
  <1> HIDE DEF s
  <1>4. /\ t \in Seq(Providers) /\ Len(t) = Len(s) /\ Injective(t)
        /\ \A i \in 1..Len(s) : \E j \in 1..Len(s) : t[i] = s[j]
    BY <1>2, <1>3, StickyReorderType
  <1>5. ready' = [ready EXCEPT ![r] = t] /\ pc[r] = "scan" /\ pc' = [pc EXCEPT ![r] = "loop"]
        /\ UNCHANGED <<cool, healthy, affinity, degraded, pos, soft, graced, wait, attempts,
                       excluded, cur, tries, prev, last, events, cancelled, result>>
    BY DEF StartChain, GoTo, s, sharedVars, chainVars
  <1> HIDE DEF t
  <1>6. TypeOK'
    BY <1>1, <1>4, <1>5 DEF TypeOK, Points
  <1>7. \A q \in Requests \ {r} : Frame(q)
    BY <1>1, <1>5 DEF TypeOK, Frame
  <1>8. ready'[r] = t /\ pc'[r] = "loop"
    BY <1>1, <1>5 DEF TypeOK
  <1>9. Len(t) \in Nat /\ Len(t) > 0
    BY <1>2, <1>4
  <1>10. \A k \in 1..Len(t) : t[k] \in Eligible(r)
    BY <1>2, <1>4
  <1>11. WalkInv(r)'
    BY <1>1, <1>5, <1>8, <1>9, RouterAssumption DEF ScanInv, WalkInv, InVisit, Closed
  <1>12. ChainInv(r)'
    BY <1>1, <1>4, <1>5, <1>8, <1>10, <1>11
    DEF ChainInv, ScanInv, Resolving, Injective, Eligible
  <1>13. QED BY <1>6, <1>7, <1>12, StepOf

LEMMA NotFoundStep ==
    ASSUME Inductive, NEW r \in Requests, NotFound(r)
    PROVE  Inductive'
  <1>1. TypeOK /\ ChainInv(r)
    BY DEF Inductive
  <1>2. TypeOK'
    BY <1>1 DEF TypeOK, NotFound, GoTo, Answer, Points, Failures, sharedVars, scanVars, chainVars, ScanDone
  <1>3. \A q \in Requests \ {r} : Frame(q)
    BY <1>1 DEF TypeOK, NotFound, GoTo, Answer, Frame, scanVars, chainVars, ScanDone
  <1>4. ChainInv(r)'
    BY <1>1 DEF TypeOK, NotFound, GoTo, Answer, scanVars, chainVars, ChainInv, ScanInv, WalkInv,
                Resolving, InVisit, Closed, Injective, Increasing, Eligible, ScanDone
  <1>5. QED BY <1>2, <1>3, <1>4, StepOf

LEMMA StartGraceStep ==
    ASSUME Inductive, NEW r \in Requests, StartGrace(r)
    PROVE  Inductive'
  <1>1. TypeOK /\ ChainInv(r)
    BY DEF Inductive
  <1>2. TypeOK'
    BY <1>1 DEF TypeOK, StartGrace, GoTo, Answer, Points, Failures, sharedVars, scanVars, chainVars, NoCandidate, ScanDone, GraceApplies, Scanned
  <1>3. \A q \in Requests \ {r} : Frame(q)
    BY <1>1 DEF TypeOK, StartGrace, GoTo, Answer, Frame, scanVars, chainVars, NoCandidate, ScanDone, GraceApplies, Scanned
  <1>4. ChainInv(r)'
    BY <1>1 DEF TypeOK, StartGrace, GoTo, Answer, scanVars, chainVars, ChainInv, ScanInv, WalkInv,
                Resolving, InVisit, Closed, Injective, Increasing, Eligible, NoCandidate, ScanDone, GraceApplies, Scanned
  <1>5. QED BY <1>2, <1>3, <1>4, StepOf

LEMMA GraceElapsedStep ==
    ASSUME Inductive, NEW r \in Requests, GraceElapsed(r)
    PROVE  Inductive'
  <1>1. TypeOK /\ ChainInv(r)
    BY DEF Inductive
  <1>2. TypeOK'
    BY <1>1, RouterAssumption DEF TypeOK, GraceElapsed, GoTo, Answer, Points, Failures, sharedVars, scanVars, chainVars
  <1>3. \A q \in Requests \ {r} : Frame(q)
    BY <1>1 DEF TypeOK, GraceElapsed, GoTo, Answer, Frame, scanVars, chainVars
  <1>4. ChainInv(r)'
    BY <1>1 DEF TypeOK, GraceElapsed, GoTo, Answer, scanVars, chainVars, ChainInv, ScanInv, WalkInv,
                Resolving, InVisit, Closed, Injective, Increasing, Eligible
  <1>5. QED BY <1>2, <1>3, <1>4, StepOf

LEMMA FastFailStep ==
    ASSUME Inductive, NEW r \in Requests, FastFail(r)
    PROVE  Inductive'
  <1>1. TypeOK /\ ChainInv(r)
    BY DEF Inductive
  <1>2. TypeOK'
    BY SMTT(30), <1>1 DEF TypeOK, FastFail, GoTo, Answer, Points, Failures, sharedVars, scanVars, chainVars, NoCandidate, ScanDone
  <1>3. \A q \in Requests \ {r} : Frame(q)
    BY <1>1 DEF TypeOK, FastFail, GoTo, Answer, Frame, scanVars, chainVars, NoCandidate, ScanDone
  <1>4. ChainInv(r)'
    <2>1. /\ pc'[r] = "done" /\ result'[r] \in {"degraded_limit", "all_down"}
          /\ UNCHANGED <<ready, events, cur>>
      BY <1>1 DEF TypeOK, FastFail, Answer, scanVars, chainVars
    <2>2. QED BY <1>1, <2>1, LeaveLemma
  <1>5. QED BY <1>2, <1>3, <1>4, StepOf

-----------------------------------------------------------------------------
(* The steps of the walk. *)

LEMMA ExhaustStep ==
    ASSUME Inductive, NEW r \in Requests, Exhaust(r)
    PROVE  Inductive'
  <1>1. TypeOK /\ ChainInv(r)
    BY DEF Inductive
  <1>2. TypeOK'
    BY <1>1 DEF TypeOK, Exhaust, GoTo, Answer, Points, Failures, sharedVars, scanVars, chainVars, ExhaustedResult
  <1>3. \A q \in Requests \ {r} : Frame(q)
    BY <1>1 DEF TypeOK, Exhaust, GoTo, Answer, Frame, scanVars, chainVars, ExhaustedResult
  <1>4. Len(events[r]) = Len(ready[r]) \/ Len(events[r]) = MaxAttempts
    <2>1. pc[r] = "loop" /\ (~(attempts[r] < MaxAttempts) \/ Open(r) = {})
      BY DEF Exhaust, GoTo, BudgetLeft
    <2>2. /\ Len(events[r]) = attempts[r] /\ attempts[r] <= MaxAttempts
          /\ attempts[r] \in Nat /\ MaxAttempts \in Nat
      BY <1>1, <2>1, RouterAssumption
      DEF ChainInv, WalkInv, Resolving, InVisit, Closed, TypeOK
    <2>3. CASE ~(attempts[r] < MaxAttempts)
      BY <2>2, <2>3
    <2>4. CASE Open(r) = {}
      BY <2>1, <2>2, <2>4, NextInChain, ChainSpent
    <2>5. QED BY <2>1, <2>3, <2>4
  <1>5. /\ pc[r] = "loop" /\ pc'[r] = "done" /\ UNCHANGED <<scanVars, chainVars>>
    BY <1>1 DEF Exhaust, GoTo, TypeOK
  <1>6. ChainInv(r)'
    BY <1>1, <1>4, <1>5
    DEF scanVars, chainVars, ChainInv, Resolving, Injective, Eligible
  <1>7. QED BY <1>2, <1>3, <1>6, StepOf

LEMMA DelayElapsedStep ==
    ASSUME Inductive, NEW r \in Requests, DelayElapsed(r)
    PROVE  Inductive'
  <1>1. TypeOK /\ ChainInv(r)
    BY DEF Inductive
  <1>2. TypeOK'
    BY <1>1 DEF TypeOK, DelayElapsed, GoTo, Answer, Points, Failures, sharedVars, scanVars, chainVars
  <1>3. \A q \in Requests \ {r} : Frame(q)
    BY <1>1 DEF TypeOK, DelayElapsed, GoTo, Answer, Frame, scanVars, chainVars
  <1>4. ChainInv(r)'
    BY SMTT(30), <1>1 DEF TypeOK, DelayElapsed, GoTo, Answer, scanVars, chainVars, ChainInv, ScanInv, WalkInv,
                Resolving, InVisit, Closed, Injective, Increasing, Eligible
  <1>5. QED BY <1>2, <1>3, <1>4, StepOf

LEMMA SleepCancelledStep ==
    ASSUME Inductive, NEW r \in Requests, SleepCancelled(r)
    PROVE  Inductive'
  <1>1. TypeOK /\ ChainInv(r)
    BY DEF Inductive
  <1>2. TypeOK'
    BY <1>1 DEF TypeOK, SleepCancelled, GoTo, Answer, Points, Failures, sharedVars, scanVars, chainVars
  <1>3. \A q \in Requests \ {r} : Frame(q)
    BY <1>1 DEF TypeOK, SleepCancelled, GoTo, Answer, Frame, scanVars, chainVars
  <1>4. ChainInv(r)'
    <2>1. /\ pc'[r] = "done" /\ result'[r] = "cancelled"
          /\ UNCHANGED <<ready, events, cur>>
      BY <1>1 DEF TypeOK, SleepCancelled, Answer, scanVars, chainVars
    <2>2. QED BY <1>1, <2>1, LeaveLemma
  <1>5. QED BY <1>2, <1>3, <1>4, StepOf

LEMMA CallRetriedStep ==
    ASSUME Inductive, NEW r \in Requests, CallRetried(r)
    PROVE  Inductive'
  <1>1. TypeOK /\ ChainInv(r)
    BY DEF Inductive
  <1>2. TypeOK'
    BY SMTT(30), <1>1 DEF TypeOK, CallRetried, GoTo, Answer, Points, Failures, sharedVars, scanVars, chainVars, Kept, Errors
  <1>3. \A q \in Requests \ {r} : Frame(q)
    BY <1>1 DEF TypeOK, CallRetried, GoTo, Answer, Frame, scanVars, chainVars, Kept, Errors
  <1>4. ChainInv(r)'
    BY SMTT(30), <1>1 DEF TypeOK, CallRetried, GoTo, Answer, scanVars, chainVars, ChainInv, ScanInv, WalkInv,
                Resolving, InVisit, Closed, Injective, Increasing, Eligible, Kept, Errors
  <1>5. QED BY <1>2, <1>3, <1>4, StepOf

LEMMA BackoffElapsedStep ==
    ASSUME Inductive, NEW r \in Requests, BackoffElapsed(r)
    PROVE  Inductive'
  <1>1. TypeOK /\ ChainInv(r)
    BY DEF Inductive
  <1>2. TypeOK'
    BY <1>1 DEF TypeOK, BackoffElapsed, GoTo, Answer, Points, Failures, sharedVars, scanVars, chainVars
  <1>3. \A q \in Requests \ {r} : Frame(q)
    BY <1>1 DEF TypeOK, BackoffElapsed, GoTo, Answer, Frame, scanVars, chainVars
  <1>4. ChainInv(r)'
    BY SMTT(30), <1>1 DEF TypeOK, BackoffElapsed, GoTo, Answer, scanVars, chainVars, ChainInv, ScanInv, WalkInv,
                Resolving, InVisit, Closed, Injective, Increasing, Eligible
  <1>5. QED BY <1>2, <1>3, <1>4, StepOf

LEMMA SettleStep ==
    ASSUME Inductive, NEW r \in Requests, Settle(r)
    PROVE  Inductive'
  <1>1. TypeOK /\ ChainInv(r)
    BY DEF Inductive
  <1>2. TypeOK'
    BY <1>1 DEF TypeOK, Settle, GoTo, Answer, Points, Failures, sharedVars, scanVars, chainVars
  <1>3. \A q \in Requests \ {r} : Frame(q)
    BY <1>1 DEF TypeOK, Settle, GoTo, Answer, Frame, scanVars, chainVars
  <1>4. ChainInv(r)'
    BY <1>1 DEF TypeOK, Settle, GoTo, Answer, scanVars, chainVars, ChainInv, ScanInv, WalkInv,
                Resolving, InVisit, Closed, Injective, Increasing, Eligible
  <1>5. QED BY <1>2, <1>3, <1>4, StepOf

LEMMA CancelStep ==
    ASSUME Inductive, NEW r \in Requests, Cancel(r)
    PROVE  Inductive'
  <1>1. TypeOK /\ ChainInv(r)
    BY DEF Inductive
  <1>2. TypeOK'
    BY <1>1 DEF TypeOK, Cancel, GoTo, Answer, Points, Failures, sharedVars, scanVars, chainVars
  <1>3. \A q \in Requests \ {r} : Frame(q)
    BY <1>1 DEF TypeOK, Cancel, GoTo, Answer, Frame, scanVars, chainVars
  <1>4. ChainInv(r)'
    <2>1. Frame(r)
      BY DEF Cancel, Frame, scanVars, chainVars
    <2>2. QED BY <1>1, <2>1, FrameLemma
  <1>5. QED BY <1>2, <1>3, <1>4, StepOf

LEMMA VisitStep ==
    ASSUME Inductive, NEW r \in Requests, Visit(r)
    PROVE  Inductive'
  <1> DEFINE i == NextCyclic(r)  a == attempts[r]  n == Len(ready[r])
  <1>1. TypeOK /\ ChainInv(r) /\ pc[r] = "loop" /\ a < MaxAttempts /\ Open(r) # {}
    BY DEF Inductive, Visit, BudgetLeft
  <1>2. /\ a \in Nat /\ n \in Nat /\ MaxAttempts \in Nat
        /\ ready[r] \in Seq(Providers)
    BY <1>1, RouterAssumption DEF TypeOK
  <1>3. a < n
    BY <1>1, ChainSpent
  <1>4. i = ready[r][a + 1]
    BY <1>1, <1>3, NextInChain
  <1> HIDE DEF i
  <1>5. i \in Providers
    BY <1>2, <1>3, <1>4
  <1>6. /\ cur' = [cur EXCEPT ![r] = i] /\ attempts' = [attempts EXCEPT ![r] = a + 1]
        /\ tries' = [tries EXCEPT ![r] = 1]
        /\ pc' = [pc EXCEPT ![r] = "delay"] \/ pc' = [pc EXCEPT ![r] = "call"]
        /\ UNCHANGED <<cool, healthy, affinity, degraded, pos, ready, soft, graced, wait,
                       excluded, prev, last, events, cancelled, result>>
    BY DEF Visit, GoTo, i, sharedVars, scanVars
  <1>7. TypeOK'
    <2>1. pc' \in [Requests -> Points]
      <3>1. pc \in [Requests -> Points] /\ {"delay", "call"} \subseteq Points
        BY <1>1 DEF TypeOK, Points
      <3>2. QED BY <1>6, <3>1
    <2>2. cur' \in [Requests -> Providers \cup {0}]
      BY <1>1, <1>5, <1>6 DEF TypeOK
    <2>3. attempts' \in [Requests -> Nat] /\ tries' \in [Requests -> Nat]
      BY <1>1, <1>2, <1>6 DEF TypeOK
    <2>4. QED BY <1>1, <1>6, <2>1, <2>2, <2>3 DEF TypeOK
  <1>8. \A q \in Requests \ {r} : Frame(q)
    BY <1>1, <1>6 DEF TypeOK, Frame
  <1>9. /\ cur'[r] = i /\ attempts'[r] = a + 1 /\ pc'[r] \in {"delay", "call"}
    BY <1>1, <1>6 DEF TypeOK
  <1>10. WalkInv(r) /\ ~Resolving(r)
    BY <1>1 DEF ChainInv, Resolving
  <1>11. Closed(r) = a /\ Closed(r)' = a
    BY <1>1, <1>2, <1>9 DEF Closed, InVisit
  <1>12. WalkInv(r)'
    BY <1>1, <1>2, <1>3, <1>4, <1>6, <1>9, <1>10, <1>11 DEF WalkInv
  <1>13. i \in Eligible(r)
    BY <1>1, <1>2, <1>3, <1>4 DEF ChainInv
  <1>14. ChainInv(r)'
    BY <1>1, <1>6, <1>9, <1>12, <1>13 DEF ChainInv, Resolving, Injective, Eligible
  <1>15. QED BY <1>7, <1>8, <1>14, StepOf

\* What closing a visit does to the request, whatever the cause of the failure.
LEMMA CloseVisitStep ==
    ASSUME Inductive, NEW r \in Requests, NEW e \in Errors, NEW kept \in Errors,
           CloseVisit(r, e, kept),
           UNCHANGED <<healthy, affinity, degraded, scanVars, cancelled, result>>,
           cool' \in [Providers -> Nat]
    PROVE  Inductive'
  <1> DEFINE a == attempts[r]  n == Len(ready[r])
             ev == [prov |-> cur[r], outcome |-> "fallback", cause |-> e]
  <1>1. TypeOK /\ ChainInv(r) /\ pc[r] = "call"
    BY DEF Inductive, CloseVisit, GoTo
  <1>2. WalkInv(r) /\ ~Resolving(r) /\ InVisit(r)
    BY <1>1 DEF ChainInv, Resolving, InVisit
  <1>3. /\ a \in Nat \ {0} /\ n \in Nat /\ a <= n /\ ready[r] \in Seq(Providers)
        /\ cur[r] = ready[r][a] /\ Len(events[r]) = a - 1
        /\ events[r] \in Seq(Event) /\ Closed(r) = a - 1
    BY <1>1, <1>2 DEF TypeOK, WalkInv, Closed
  <1>4. cur[r] \in Providers
    BY <1>3
  <1>5. ev \in Event
    BY <1>4 DEF Event, Errors
  <1> HIDE DEF ev
  <1>6. /\ excluded' = [excluded EXCEPT ![r] = @ \cup {cur[r]}]
        /\ last' = [last EXCEPT ![r] = kept]
        /\ prev' = [prev EXCEPT ![r] = cur[r]] \/ prev' = [prev EXCEPT ![r] = 0]
        /\ events' = [events EXCEPT ![r] = Append(@, ev)]
        /\ pc' = [pc EXCEPT ![r] = "loop"]
        /\ UNCHANGED <<healthy, affinity, degraded, pos, ready, soft, graced, wait,
                       attempts, cur, tries, cancelled, result>>
    BY DEF CloseVisit, GoTo, Emit, Exclude, ev, scanVars
  <1>7. events' \in [Requests -> Seq(Event)]
    BY <1>1, <1>3, <1>5, <1>6 DEF TypeOK
  <1>8. TypeOK'
    <2>1. pc' \in [Requests -> Points]
      BY <1>1, <1>6 DEF TypeOK, Points
    <2>2. prev' \in [Requests -> Providers \cup {0}]
      BY <1>1, <1>4, <1>6 DEF TypeOK
    <2>3. excluded' \in [Requests -> SUBSET Providers]
      BY <1>1, <1>4, <1>6 DEF TypeOK
    <2>4. last' \in [Requests -> Errors \cup {"none"}]
      BY <1>1, <1>6 DEF TypeOK
    <2>5. QED BY <1>1, <1>6, <1>7, <2>1, <2>2, <2>3, <2>4 DEF TypeOK
  <1>9. \A q \in Requests \ {r} : Frame(q)
    BY <1>1, <1>6 DEF TypeOK, Frame
  <1>10. /\ excluded'[r] = excluded[r] \cup {cur[r]} /\ pc'[r] = "loop"
         /\ events'[r] = Append(events[r], ev)
    BY <1>1, <1>6 DEF TypeOK
  <1>11. /\ Len(events'[r]) = a /\ events'[r][a] = ev
         /\ \A k \in 1..(a - 1) : events'[r][k] = events[r][k]
    BY <1>3, <1>5, <1>10
  <1>12. ev.prov = ready[r][a]
    BY <1>3 DEF ev
  <1>13. \A k \in 1..a : events'[r][k].prov = ready[r][k]
    <2>1. \A k \in 1..(a - 1) : events[r][k].prov = ready[r][k]
      BY <1>1, <1>3 DEF ChainInv
    <2>2. \A k \in 1..a : k = a \/ k \in 1..(a - 1)
      BY <1>3
    <2>3. QED BY <1>3, <1>11, <1>12, <2>1, <2>2
  <1>14. Closed(r)' = a
    BY <1>6, <1>10 DEF Closed, InVisit
  <1>15. \A i \in Providers :
           i \in excluded'[r] <=> \E k \in 1..a : ready[r][k] = i
    <2>1. \A i \in Providers :
            i \in excluded[r] <=> \E k \in 1..(a - 1) : ready[r][k] = i
      BY <1>1, <1>2, <1>3 DEF WalkInv
    <2>2. \A k \in 1..a : k = a \/ k \in 1..(a - 1)
      BY <1>3
    <2>3. QED BY SMTT(30), <1>3, <1>10, <2>1, <2>2
  <1>16. WalkInv(r)'
    BY <1>2, <1>3, <1>6, <1>10, <1>11, <1>14, <1>15 DEF WalkInv
  <1>17. ChainInv(r)'
    <2>1. \A k \in 1..Len(events'[r]) :
            k <= Len(ready'[r]) /\ events'[r][k].prov = ready'[r][k]
      <3>1. ready'[r] = ready[r] /\ \A k \in 1..a : k <= Len(ready[r])
        BY <1>3, <1>6
      <3>2. QED BY <1>11, <1>13, <3>1
    <2>2. ~Resolving(r)' /\ result'[r] \notin {"exhausted", "raw4xx"}
      BY <1>1, <1>6, <1>10 DEF ChainInv, Resolving
    <2>3. /\ Injective(ready'[r]) /\ (cur'[r] # 0 => cur'[r] \in Eligible(r))
          /\ \A k \in 1..Len(ready'[r]) : ready'[r][k] \in Eligible(r)
      BY <1>1, <1>6 DEF ChainInv
    <2>4. Eligible(r)' = Eligible(r)
      BY DEF Eligible
    <2>5. QED BY <1>16, <2>1, <2>2, <2>3, <2>4 DEF ChainInv, Injective
  <1>18. QED BY <1>8, <1>9, <1>17, StepOf

\* A jittered cooldown keeps the cooldown store typed.
LEMMA CooldownType ==
    ASSUME TypeOK, NEW i \in Providers, Cooldown(i)
    PROVE  cool' \in [Providers -> Nat]
  <1>1. CoolTimes[i] \subseteq Nat
    BY RouterAssumption
  <1>2. PICK d \in CoolTimes[i] : cool' = [cool EXCEPT ![i] = d]
    BY DEF Cooldown
  <1>3. QED BY <1>1, <1>2 DEF TypeOK

LEMMA FailureStep ==
    ASSUME Inductive, NEW r \in Requests,
           CallRefused(r) \/ CallFailed(r) \/ PrepareFailed(r)
    PROVE  Inductive'
  <1>1. TypeOK /\ pc[r] = "call"
    BY DEF Inductive, CallRefused, CallFailed, PrepareFailed, CloseVisit, GoTo
  <1>2. cur[r] \in Providers
    <2>1. WalkInv(r)
      BY <1>1 DEF Inductive, ChainInv, Resolving
    <2>2. /\ cur[r] = ready[r][attempts[r]] /\ attempts[r] \in 1..Len(ready[r])
          /\ ready[r] \in Seq(Providers)
      BY <1>1, <2>1 DEF WalkInv, TypeOK
    <2>3. QED BY <2>2
  <1>3. /\ UNCHANGED <<healthy, affinity, degraded, scanVars, cancelled, result>>
        /\ cool' \in [Providers -> Nat]
    <2>1. CASE CallRefused(r)
      BY <1>1, <2>1 DEF CallRefused, sharedVars, TypeOK
    <2>2. CASE CallFailed(r) \/ PrepareFailed(r)
      BY <1>1, <1>2, <2>2, CooldownType DEF CallFailed, PrepareFailed
    <2>3. QED BY <2>1, <2>2
  <1>4. PICK e \in Errors, kept \in Errors : CloseVisit(r, e, kept)
    BY DEF CallRefused, CallFailed, PrepareFailed, Kept, Errors
  <1>5. QED BY <1>3, <1>4, CloseVisitStep

LEMMA CallOkStep ==
    ASSUME Inductive, NEW r \in Requests, CallOk(r)
    PROVE  Inductive'
  <1> DEFINE a == attempts[r]
             ev == [prov |-> cur[r], outcome |-> "ok", cause |-> "none"]
  <1>1. TypeOK /\ ChainInv(r) /\ pc[r] = "call"
    BY DEF Inductive, CallOk, GoTo
  <1>2. WalkInv(r) /\ ~Resolving(r) /\ InVisit(r)
    BY <1>1 DEF ChainInv, Resolving, InVisit
  <1>3. /\ a \in Nat \ {0} /\ Len(ready[r]) \in Nat /\ a <= Len(ready[r])
        /\ ready[r] \in Seq(Providers) /\ cur[r] = ready[r][a]
        /\ Len(events[r]) = a - 1 /\ events[r] \in Seq(Event)
    BY <1>1, <1>2 DEF TypeOK, WalkInv, Closed
  <1>4. cur[r] \in Providers
    BY <1>3
  <1>5. ev \in Event
    BY <1>4 DEF Event
  <1> HIDE DEF ev
  <1>6. /\ events' = [events EXCEPT ![r] = Append(@, ev)]
        /\ pc' = [pc EXCEPT ![r] = "served"]
        /\ result' = [result EXCEPT ![r] = "ok"] /\ degraded' = 0
        /\ UNCHANGED <<cool, healthy, affinity, pos, ready, soft, graced, wait, attempts,
                       excluded, cur, tries, prev, last, cancelled>>
    BY DEF CallOk, GoTo, Emit, Answer, ev, scanVars
  <1>7. events' \in [Requests -> Seq(Event)]
    BY <1>1, <1>3, <1>5, <1>6 DEF TypeOK
  <1>8. TypeOK'
    BY <1>1, <1>6, <1>7 DEF TypeOK, Points, Failures
  <1>9. \A q \in Requests \ {r} : Frame(q)
    BY <1>1, <1>6 DEF TypeOK, Frame
  <1>10. /\ pc'[r] = "served" /\ result'[r] = "ok"
         /\ events'[r] = Append(events[r], ev)
    BY <1>1, <1>6 DEF TypeOK
  <1>11. /\ Len(events'[r]) = a /\ events'[r][a] = ev
         /\ \A k \in 1..(a - 1) : events'[r][k] = events[r][k]
    BY <1>3, <1>5, <1>10
  <1>12. ev.prov = ready[r][a]
    BY <1>3 DEF ev
  <1>13. \A k \in 1..a : events'[r][k].prov = ready[r][k]
    <2>1. \A k \in 1..(a - 1) : events[r][k].prov = ready[r][k]
      BY <1>1, <1>3 DEF ChainInv
    <2>2. \A k \in 1..a : k = a \/ k \in 1..(a - 1)
      BY <1>3
    <2>3. QED BY <1>3, <1>11, <1>12, <2>1, <2>2
  <1>14. Closed(r)' = a
    BY <1>6, <1>10 DEF Closed, InVisit
  <1>15. WalkInv(r)'
    BY <1>2, <1>3, <1>6, <1>10, <1>11, <1>14 DEF WalkInv
  <1>16. ChainInv(r)'
    <2>1. \A k \in 1..Len(events'[r]) :
            k <= Len(ready'[r]) /\ events'[r][k].prov = ready'[r][k]
      BY <1>3, <1>6, <1>11, <1>13
    <2>2. ~Resolving(r)'
      BY <1>10 DEF Resolving
    <2>3. /\ Injective(ready'[r]) /\ (cur'[r] # 0 => cur'[r] \in Eligible(r))
          /\ \A k \in 1..Len(ready'[r]) : ready'[r][k] \in Eligible(r)
      BY <1>1, <1>6 DEF ChainInv
    <2>4. Eligible(r)' = Eligible(r)
      BY DEF Eligible
    <2>5. QED BY <1>10, <1>15, <2>1, <2>2, <2>3, <2>4 DEF ChainInv, Injective
  <1>17. QED BY <1>8, <1>9, <1>16, StepOf

-----------------------------------------------------------------------------
(* The environment and the invariant. *)

LEMMA EnvironmentStep ==
    ASSUME Inductive,
           Tick \/ (\E i \in Providers : HealthFlip(i)) \/ UNCHANGED vars
    PROVE  Inductive'
  <1>1. TypeOK /\ \A q \in Requests : ChainInv(q)
    BY DEF Inductive
  <1>2. \A q \in Requests : Frame(q)
    BY DEF Frame, Tick, HealthFlip, vars, sharedVars, scanVars, chainVars
  <1>3. TypeOK'
    <2>1. CASE Tick
      <3>1. /\ cool' = [i \in Providers |-> Less(cool[i])]
            /\ wait' = [r \in Requests |-> Less(wait[r])]
            /\ UNCHANGED <<healthy, affinity, degraded, pc, pos, ready, soft, graced,
                           chainVars, cancelled, result>>
        BY <2>1 DEF Tick
      <3>2. cool' \in [Providers -> Nat] /\ wait' \in [Requests -> Nat]
        BY <1>1, <3>1 DEF TypeOK, Less
      <3>3. QED BY <1>1, <3>1, <3>2 DEF TypeOK, chainVars
    <2>2. CASE \E i \in Providers : HealthFlip(i)
      BY <1>1, <2>2 DEF TypeOK, HealthFlip, scanVars, chainVars
    <2>3. CASE UNCHANGED vars
      BY <1>1, <2>3 DEF TypeOK, vars, sharedVars, scanVars, chainVars
    <2>4. QED BY <2>1, <2>2, <2>3
  <1>4. \A q \in Requests : ChainInv(q)'
    BY <1>1, <1>2, FrameLemma
  <1>5. QED BY <1>3, <1>4 DEF Inductive

LEMMA InitInductive == Init => Inductive
  <1> SUFFICES ASSUME Init PROVE Inductive
    OBVIOUS
  <1>1. TypeOK
    <2>1. healthy \in [Providers -> BOOLEAN]
      BY DEF Init
    <2>2. pos \in [Requests -> 1..(N + 1)]
      BY RouterAssumption DEF Init
    <2>3. /\ ready \in [Requests -> Seq(Providers)] /\ soft \in [Requests -> Seq(Providers)]
          /\ events \in [Requests -> Seq(Event)]
      BY DEF Init
    <2>4. QED BY <2>1, <2>2, <2>3 DEF Init, TypeOK, Points
  <1>2. \A r \in Requests : ChainInv(r)
    BY DEF Init, ChainInv, ScanInv, Resolving, Injective, Increasing
  <1>3. QED BY <1>1, <1>2 DEF Inductive

LEMMA NextInductive == Inductive /\ [Next]_vars => Inductive'
  <1> SUFFICES ASSUME Inductive, [Next]_vars PROVE Inductive'
    OBVIOUS
  <1>1. ASSUME NEW r \in Requests, Resolve(r) PROVE Inductive'
    BY <1>1, ArriveStep, ScanProviderStep, StartChainStep, NotFoundStep,
       StartGraceStep, GraceElapsedStep, FastFailStep DEF Resolve
  <1>2. ASSUME NEW r \in Requests, Walk(r) PROVE Inductive'
    BY <1>2, VisitStep, ExhaustStep, DelayElapsedStep, SleepCancelledStep, CallOkStep,
       FailureStep, CallRetriedStep, BackoffElapsedStep, SettleStep DEF Walk
  <1>3. ASSUME NEW r \in Requests, Cancel(r) PROVE Inductive'
    BY <1>3, CancelStep
  <1>4. CASE Tick \/ (\E i \in Providers : HealthFlip(i)) \/ Finished \/ UNCHANGED vars
    BY <1>4, EnvironmentStep DEF Finished
  <1>5. QED BY <1>1, <1>2, <1>3, <1>4 DEF Next

\* Every reachable state satisfies the strengthening.
THEOREM ChainInvariant == Spec => []Inductive
  BY InitInductive, NextInductive, PTL DEF Spec

\* Type correctness of the router, for any chain and any number of requests.
THEOREM TypeCorrect == Spec => []TypeOK
  <1>1. Inductive => TypeOK
    BY DEF Inductive
  <1>2. QED BY <1>1, ChainInvariant, PTL

\* One visit per provider and request, in chain order: the registry of a
\* request lists the first candidates of its chain, none twice, whatever the
\* other requests, the health checks and the clock do meanwhile.
THEOREM VisitsOnceInOrder == Spec => []VisitsFollowChain
  <1>1. Inductive => VisitsFollowChain
    BY DEF Inductive, ChainInv, VisitsFollowChain
  <1>2. QED BY <1>1, ChainInvariant, PTL

\* No request is ever sent to a provider that does not serve its model or does
\* not admit its client, sticky affinity included.
THEOREM EligibleOnly == Spec => []OnlyEligibleVisited
  <1>1. Inductive => OnlyEligibleVisited
    BY DEF Inductive, ChainInv, OnlyEligibleVisited, Elements
  <1>2. QED BY <1>1, ChainInvariant, PTL

\* A request is told that the chain is exhausted only when every candidate was
\* visited or the visit budget is spent.
THEOREM ExhaustedForReal == Spec => []ExhaustionIsReal
  <1>1. Inductive => ExhaustionIsReal
    BY DEF Inductive, ChainInv, ExhaustionIsReal
  <1>2. QED BY <1>1, ChainInvariant, PTL

-----------------------------------------------------------------------------
(* What the first invariant leaves out: the answer, the last failure and   *)
(* the providers kept as a last resort.                                    *)

\* No answer before the end; between two visits the last provider is remembered.
Unanswered(r) ==
    /\ pc[r] \notin {"served", "done"} => result[r] = "none"
    /\ pc[r] = "loop" => cur[r] = IF attempts[r] = 0 THEN 0 ELSE ready[r][attempts[r]]

\* lastChain is the cause of the last event, of a request that does not stream.
LastKept(r) ==
    r \notin Streaming =>
        /\ pc[r] = "loop" /\ events[r] # <<>> => last[r] = events[r][Len(events[r])].cause
        /\ result[r] = "exhausted" => events[r][Len(events[r])].cause # "s4xx"

Apart(s, t) == \A a \in 1..Len(s), b \in 1..Len(t) : s[a] # t[b]
Within(s, t) == \A a \in 1..Len(s) : \E b \in 1..Len(t) : s[a] = t[b]

\* The scan puts a provider in one list; the chain is made of one of them.
LastResort(r) ==
    /\ Resolving(r) => Apart(ready[r], soft[r])
    /\ pc[r] = "grace" => soft[r] = <<>>
    /\ Within(ready[r], soft[r]) \/ Apart(ready[r], soft[r])
    /\ result[r] \in {"all_down", "degraded_limit"} => soft[r] = <<>>

Notes(r) == Unanswered(r) /\ LastKept(r) /\ LastResort(r)

Annotated == Inductive /\ \A r \in Requests : Notes(r)

\* What Notes and the promise read of a request.
Untouched(q) == Frame(q) /\ last'[q] = last[q] /\ cancelled'[q] = cancelled[q]

Steps(r) == Resolve(r) \/ Walk(r) \/ Cancel(r)

\* A step of a request touches no other.
LEMMA OthersUntouched ==
    ASSUME TypeOK, NEW r \in Requests, Steps(r), NEW q \in Requests \ {r}
    PROVE  Untouched(q)
  <1> USE DEF TypeOK, Untouched, Frame, GoTo, Answer, scanVars, chainVars, sharedVars
  <1>1. CASE Arrive(r) \/ ScanProvider(r) \/ StartChain(r) \/ NotFound(r)
    BY <1>1 DEF Arrive, ScanProvider, StartChain, NotFound
  <1>2. CASE StartGrace(r) \/ GraceElapsed(r) \/ FastFail(r)
    BY <1>2 DEF StartGrace, GraceElapsed, FastFail
  <1>3. CASE Visit(r) \/ Exhaust(r) \/ DelayElapsed(r) \/ SleepCancelled(r)
    BY <1>3 DEF Visit, Exhaust, DelayElapsed, SleepCancelled
  <1>4. CASE CallOk(r)
    BY <1>4 DEF CallOk, Emit
  <1>5. CASE CallRefused(r) \/ CallFailed(r) \/ PrepareFailed(r)
    <2>1. PICK e, kept : CloseVisit(r, e, kept) /\ UNCHANGED <<scanVars, cancelled, result>>
      BY <1>5 DEF CallRefused, CallFailed, PrepareFailed
    <2>2. QED BY <2>1 DEF CloseVisit, Exclude, Emit
  <1>6. CASE CallRetried(r) \/ BackoffElapsed(r) \/ Settle(r) \/ Cancel(r)
    BY <1>6 DEF CallRetried, BackoffElapsed, Settle, Cancel
  <1>7. QED BY <1>1, <1>2, <1>3, <1>4, <1>5, <1>6 DEF Steps, Resolve, Walk

\* What is said of a request holds as long as nothing touches it.
LEMMA UntouchedNotes ==
    ASSUME NEW q \in Requests, Notes(q), Untouched(q)
    PROVE  Notes(q)'
  BY DEF Notes, Unanswered, LastKept, LastResort, Apart, Within, Resolving, Untouched, Frame

\* The steps of resolution keep the notes.
LEMMA ResolveNotes ==
    ASSUME Inductive, NEW r \in Requests, Notes(r), Resolve(r)
    PROVE  Notes(r)'
  <1>1. TypeOK /\ ChainInv(r)
    BY DEF Inductive
  <1> USE DEF Notes, Unanswered, LastKept, LastResort, Resolving
  <1>2. CASE Arrive(r)
    BY <1>1, <1>2 DEF Arrive, TypeOK, GoTo, scanVars, chainVars, Apart, Within
  <1>3. CASE ScanProvider(r)
    <2> DEFINE i == pos[r]
    <2>1. /\ pc' = pc /\ pc[r] = "scan" /\ result' = result
          /\ \/ ready' = ready /\ soft' = soft
             \/ ready' = [ready EXCEPT ![r] = Append(@, i)] /\ soft' = soft
             \/ ready' = ready /\ soft' = [soft EXCEPT ![r] = Append(@, i)]
      BY <1>3 DEF ScanProvider
    <2>2. /\ ready[r] \in Seq(Providers) /\ soft[r] \in Seq(Providers)
          /\ \A k \in 1..Len(ready[r]) : ready[r][k] # i
          /\ \A k \in 1..Len(soft[r]) : soft[r][k] # i
      <3>1. ready[r] \in Seq(Providers) /\ soft[r] \in Seq(Providers) /\ i \in 1..(N + 1) /\ N \in Nat
        BY <1>1, RouterAssumption DEF TypeOK
      <3>2. /\ \A k \in 1..Len(ready[r]) : ready[r][k] < i
            /\ \A k \in 1..Len(soft[r]) : soft[r][k] < i
        BY <1>1, <2>1 DEF ChainInv, ScanInv
      <3>3. \A n \in 1..N : n < i => n # i
        BY <3>1
      <3>4. ASSUME NEW s \in Seq(Providers), NEW k \in 1..Len(s) PROVE s[k] \in 1..N
        <4>1. s[k] \in Providers
          OBVIOUS
        <4>2. QED BY <4>1 DEF Providers
      <3>5. QED BY <3>1, <3>2, <3>3, <3>4
    <2>3. \/ ready'[r] = ready[r] /\ soft'[r] = soft[r]
          \/ ready'[r] = Append(ready[r], i) /\ soft'[r] = soft[r]
          \/ ready'[r] = ready[r] /\ soft'[r] = Append(soft[r], i)
      BY <1>1, <2>1 DEF TypeOK
    <2>4. ASSUME NEW s \in Seq(Providers) PROVE Len(s) \in Nat /\ Len(Append(s, i)) = Len(s) + 1
                 /\ Append(s, i)[Len(s) + 1] = i /\ \A k \in 1..Len(s) : Append(s, i)[k] = s[k]
      OBVIOUS
    <2>5. Apart(ready[r], soft[r])
      BY <2>1
    <2> HIDE DEF i
    <2>6. Apart(ready'[r], soft'[r])
      <3>1. CASE ready'[r] = ready[r] /\ soft'[r] = soft[r]
        BY <2>5, <3>1
      <3>2. ASSUME NEW s \in Seq(Providers), NEW t \in Seq(Providers), Apart(s, t),
                   \A k \in 1..Len(t) : t[k] # i
            PROVE  Apart(Append(s, i), t) /\ Apart(t, Append(s, i))
        <4>1. \A k \in 1..Len(Append(s, i)) : k \in 1..Len(s) \/ k = Len(s) + 1
          BY <2>4
        <4>2. QED BY <2>4, <3>2, <4>1 DEF Apart
      <3>3. Apart(soft[r], ready[r])
        BY <2>5 DEF Apart
      <3>4. CASE ready'[r] = Append(ready[r], i) /\ soft'[r] = soft[r]
        BY <2>2, <2>5, <3>2, <3>4
      <3>5. CASE ready'[r] = ready[r] /\ soft'[r] = Append(soft[r], i)
        BY <2>2, <3>2, <3>3, <3>5
      <3>6. QED BY <2>3, <3>1, <3>4, <3>5
    <2>7. QED BY <1>3, <2>1, <2>6 DEF ScanProvider, chainVars, Apart
  <1>4. CASE StartChain(r)
    <2> DEFINE s == Scanned(r)
    <2>1. pc[r] = "scan" /\ pc'[r] = "loop" /\ ready'[r] = StickyReorder(r, s)
          /\ UNCHANGED <<soft, result, attempts, cur, events, last>>
      BY <1>1, <1>4 DEF StartChain, GoTo, TypeOK, chainVars
    <2>2. ScanInv(r)
      BY <1>1, <2>1 DEF ChainInv
    <2>3. s \in Seq(Providers) /\ Increasing(s) /\ (s = soft[r] \/ s = ready[r])
      BY <1>1, <2>2 DEF Scanned, TypeOK, ScanInv
    <2> HIDE DEF s
    <2>4. /\ Len(ready'[r]) = Len(s)
          /\ \A i \in 1..Len(s) : \E j \in 1..Len(s) : ready'[r][i] = s[j]
      BY <2>1, <2>3, StickyReorderType, IncreasingInjective
    <2>5. Within(ready'[r], soft'[r]) \/ Apart(ready'[r], soft'[r])
      <3>1. CASE s = soft[r]
        BY <2>1, <2>4, <3>1 DEF Within
      <3>2. CASE s = ready[r]
        <4>1. Apart(ready[r], soft[r])
          BY <2>1
        <4>2. QED BY <2>1, <2>4, <3>2, <4>1 DEF Apart
      <3>3. QED BY <2>3, <3>1, <3>2
    <2>6. attempts[r] = 0 /\ cur[r] = 0 /\ events[r] = <<>>
      BY <2>2 DEF ScanInv
    <2>7. QED BY <2>1, <2>5, <2>6 DEF Within, Apart
  <1>5. CASE NotFound(r)
    BY <1>1, <1>5 DEF NotFound, ScanDone, TypeOK, GoTo, Answer, scanVars, chainVars, Apart, Within
  <1>6. CASE StartGrace(r)
    <2>1. soft[r] = <<>>
      BY <1>6 DEF StartGrace, NoCandidate, Scanned
    <2>2. QED BY <1>1, <1>6, <2>1 DEF StartGrace, TypeOK, GoTo, chainVars, Apart, Within
  <1>7. CASE GraceElapsed(r)
    <2>1. ready'[r] = ready[r] /\ soft'[r] = <<>> /\ pc'[r] = "scan" /\ pc[r] = "grace" /\ result' = result
      BY <1>1, <1>7 DEF GraceElapsed, TypeOK, GoTo
    <2>2. Apart(ready'[r], soft'[r])
      BY <2>1 DEF Apart
    <2>3. QED BY <1>7, <2>1, <2>2 DEF GraceElapsed, chainVars, Apart
  <1>8. CASE FastFail(r)
    <2>1. soft[r] = <<>>
      BY <1>8 DEF FastFail, NoCandidate, Scanned
    <2>2. pc'[r] = "done" /\ result'[r] \in {"all_down", "degraded_limit"} /\ soft' = soft /\ ready' = ready
      BY <1>1, <1>8 DEF FastFail, TypeOK, Answer, scanVars
    <2>3. QED BY <2>1, <2>2 DEF Apart
  <1>9. QED BY <1>2, <1>3, <1>4, <1>5, <1>6, <1>7, <1>8 DEF Resolve

\* The steps of the walk keep the notes.
LEMMA WalkNotes ==
    ASSUME Inductive, Inductive', NEW r \in Requests, Notes(r), Walk(r) \/ Cancel(r)
    PROVE  Notes(r)'
  <1>1. TypeOK /\ ChainInv(r)
    BY DEF Inductive
  <1>2. CASE Visit(r) \/ DelayElapsed(r) \/ SleepCancelled(r) \/ CallOk(r) \/ CallRetried(r)
             \/ BackoffElapsed(r)
    <2>1. /\ pc[r] \in {"loop", "delay", "call", "backoff"} /\ ready' = ready /\ soft' = soft
          /\ \/ pc'[r] \in {"delay", "call", "backoff"} /\ result' = result
             \/ pc'[r] = "served" /\ result'[r] = "ok"
             \/ pc'[r] = "done" /\ result'[r] = "cancelled"
      BY <1>1, <1>2 DEF Visit, DelayElapsed, SleepCancelled, CallOk, CallRetried, BackoffElapsed,
                        TypeOK, GoTo, Answer, scanVars
    <2>2. QED BY <2>1 DEF Notes, Unanswered, LastKept, LastResort, Resolving, Apart, Within
  <1>3. CASE CallRefused(r) \/ CallFailed(r) \/ PrepareFailed(r)
    <2>1. PICK e, kept : /\ CloseVisit(r, e, kept) /\ (r \notin Streaming => kept = e)
                         /\ UNCHANGED <<scanVars, cancelled, result>>
      BY <1>3 DEF CallRefused, CallFailed, PrepareFailed, Kept
    <2>2. /\ pc[r] = "call" /\ pc'[r] = "loop" /\ last'[r] = kept /\ result' = result
          /\ ready' = ready /\ soft' = soft /\ attempts' = attempts /\ cur' = cur
          /\ events'[r] = Append(events[r], [prov |-> cur[r], outcome |-> "fallback", cause |-> e])
      BY <1>1, <2>1 DEF CloseVisit, GoTo, TypeOK, Emit, scanVars
    <2>3. events'[r][Len(events'[r])].cause = e
      <3>1. events[r] \in Seq(Event)
        BY <1>1 DEF TypeOK
      <3>2. QED BY <2>2, <3>1
    <2>4. attempts[r] > 0 /\ cur[r] = ready[r][attempts[r]] /\ attempts[r] \in Nat
      BY <1>1, <2>2 DEF ChainInv, WalkInv, Resolving, TypeOK
    <2>5. result[r] = "none"
      BY <2>2 DEF Notes, Unanswered
    <2>6. events'[r] # <<>>
      <3>1. events[r] \in Seq(Event)
        BY <1>1 DEF TypeOK
      <3>2. QED BY <2>2, <3>1
    <2>7. Unanswered(r)'
      BY <2>2, <2>4, <2>5 DEF Unanswered
    <2>8. LastKept(r)'
      BY <2>1, <2>2, <2>3, <2>5, <2>6 DEF LastKept
    <2>9. LastResort(r)'
      <3>1. ~Resolving(r) /\ ~Resolving(r)' /\ pc'[r] # "grace"
        BY <2>2 DEF Resolving
      <3>2. Within(ready[r], soft[r]) \/ Apart(ready[r], soft[r])
        BY DEF Notes, LastResort
      <3>3. Within(ready[r], soft[r])' \/ Apart(ready[r], soft[r])'
        BY <2>2, <3>2 DEF Apart, Within
      <3>4. QED BY <2>2, <2>5, <3>1, <3>3 DEF LastResort
    <2>10. QED BY <2>7, <2>8, <2>9 DEF Notes
  <1>4. CASE Exhaust(r)
    <2>1. /\ pc[r] = "loop" /\ pc'[r] = "done" /\ result'[r] = ExhaustedResult(r)
          /\ ready' = ready /\ soft' = soft /\ events' = events
      BY <1>1, <1>4 DEF Exhaust, GoTo, Answer, TypeOK, scanVars, chainVars
    <2>2. events[r] # <<>>
      <3>1. WalkInv(r) /\ Closed(r) = attempts[r] /\ attempts[r] \in Nat
        BY <1>1, <2>1 DEF ChainInv, Resolving, Closed, InVisit, TypeOK
      <3>2. attempts[r] # 0
        <4>1. CASE attempts[r] < Len(ready[r])
          <5>1. Open(r) # {}
            BY <2>1, <4>1, NextInChain
          <5>2. QED BY <1>4, <3>1, <5>1, RouterAssumption DEF Exhaust, BudgetLeft
        <4>2. CASE ~(attempts[r] < Len(ready[r]))
          BY <3>1, <4>2 DEF WalkInv
        <4>3. QED BY <4>1, <4>2
      <3>3. QED BY <3>1, <3>2 DEF WalkInv
    <2>3. QED BY <2>1, <2>2 DEF ExhaustedResult, Notes, Unanswered, LastKept, LastResort, Resolving, Apart, Within
  <1>5. CASE Settle(r) \/ Cancel(r)
    <2>1. /\ UNCHANGED <<ready, soft, events, last, attempts, cur, result>>
          /\ pc' = pc \/ (pc[r] = "served" /\ pc'[r] = "done")
      BY <1>1, <1>5 DEF Settle, Cancel, GoTo, TypeOK, scanVars, chainVars
    <2>2. QED BY <2>1 DEF Notes, Unanswered, LastKept, LastResort, Resolving, Apart, Within
  <1>6. QED BY <1>2, <1>3, <1>4, <1>5 DEF Walk

\* Every step keeps both invariants.
LEMMA NextAnnotated == Annotated /\ [Next]_vars => Annotated'
  <1> SUFFICES ASSUME Annotated, [Next]_vars PROVE Annotated'
    OBVIOUS
  <1>1. Inductive /\ Inductive' /\ TypeOK /\ \A q \in Requests : Notes(q)
    BY NextInductive DEF Annotated, Inductive
  <1>2. ASSUME NEW r \in Requests, Steps(r) PROVE \A q \in Requests : Notes(q)'
    <2>1. Notes(r)'
      BY <1>1, <1>2, ResolveNotes, WalkNotes DEF Steps
    <2>2. \A q \in Requests \ {r} : Notes(q)'
      BY <1>1, <1>2, OthersUntouched, UntouchedNotes
    <2>3. QED BY <2>1, <2>2
  <1>3. CASE Tick \/ (\E i \in Providers : HealthFlip(i)) \/ Finished \/ UNCHANGED vars
    <2>1. \A q \in Requests : Untouched(q)
      BY <1>3 DEF Tick, HealthFlip, Finished, vars, Untouched, Frame, sharedVars, scanVars, chainVars
    <2>2. QED BY <1>1, <2>1, UntouchedNotes DEF Annotated
  <1>4. QED BY <1>1, <1>2, <1>3 DEF Next, Steps, Annotated

\* Both hold in every reachable state.
LEMMA AnnotatedAlways == Spec => []Annotated
  <1>1. Init => Annotated
    <2>1. Init => \A r \in Requests : Notes(r)
      BY DEF Init, Notes, Unanswered, LastKept, LastResort, Resolving, Apart, Within
    <2>2. QED BY <2>1, InitInductive DEF Annotated
  <1>2. QED BY <1>1, NextAnnotated, PTL DEF Spec

\* D1 of 021-001 (exhaustedChain): a caller that does not stream, whose chain ended with a
\* 4xx of the last provider, is told that 4xx, whatever retries and failures came before.
THEOREM RefusalReachesCaller == Spec => []Last4xxReachesCaller
  <1>1. Annotated => Last4xxReachesCaller
    BY DEF Annotated, Notes, LastKept, Last4xxReachesCaller
  <1>2. QED BY <1>1, AnnotatedAlways, PTL

\* candidates puts unhealthy providers in a chain only when no healthy one was met, and
\* nobody fails fast while one is left, whatever the health store and the clock do during
\* the scan.
THEOREM LastResortOnly == Spec => []UnhealthyIsLastResort
  <1>1. Annotated => UnhealthyIsLastResort
    BY DEF Annotated, Notes, LastResort, UnhealthyIsLastResort, Apart, Within, Elements
  <1>2. QED BY <1>1, AnnotatedAlways, PTL

-----------------------------------------------------------------------------
(* The counter of degraded requests.                                       *)

AnsweredWith(res) == {r \in Requests : result[r] = res}

\* As many requests as the counter says were told "all_down", up to the limit, and
\* before the first success no others.
Counted ==
    /\ IsFiniteSet(AnsweredWith("all_down"))
    /\ OverLimit(degraded) \/ degraded <= Cardinality(AnsweredWith("all_down"))
    /\ OverLimit(degraded) \/ AnsweredWith("degraded_limit") # {}
          => MaxDegraded <= Cardinality(AnsweredWith("all_down"))
    /\ AnsweredWith("ok") = {} => /\ Cardinality(AnsweredWith("all_down")) <= degraded
                         /\ ~OverLimit(Cardinality(AnsweredWith("all_down")))

\* An answer is given once, and only fastFail and a success touch the counter.
LEMMA StepAnswers ==
    ASSUME Annotated, NEW r \in Requests, Steps(r)
    PROVE  /\ \A q \in Requests \ {r} : result'[q] = result[q]
           /\ \/ result'[r] = result[r] /\ degraded' = degraded
              \/ result[r] = "none" /\ result'[r] = "ok" /\ degraded' = 0
              \/ /\ result[r] = "none" /\ degraded' = degraded
                 /\ result'[r] \in {"not_found", "exhausted", "raw4xx", "cancelled"}
              \/ /\ result[r] = "none" /\ degraded' = degraded + 1
                 /\ result'[r] = IF OverLimit(degraded + 1) THEN "degraded_limit" ELSE "all_down"
  <1>1. TypeOK /\ Unanswered(r)
    BY DEF Annotated, Inductive, Notes
  <1>2. \A q \in Requests \ {r} : result'[q] = result[q]
    BY <1>1, OthersUntouched DEF Untouched, Frame
  <1>3. CASE FastFail(r)
    BY <1>1, <1>3 DEF FastFail, NoCandidate, ScanDone, Answer, TypeOK, Unanswered
  <1>4. CASE CallOk(r)
    BY <1>1, <1>4 DEF CallOk, GoTo, Answer, TypeOK, Unanswered
  <1>5. CASE NotFound(r) \/ SleepCancelled(r)
    BY <1>1, <1>5 DEF NotFound, SleepCancelled, ScanDone, GoTo, Answer, TypeOK, Unanswered, sharedVars
  <1>6. CASE Exhaust(r)
    BY <1>1, <1>6 DEF Exhaust, ExhaustedResult, GoTo, Answer, TypeOK, Unanswered, sharedVars
  <1>7. CASE ~(FastFail(r) \/ CallOk(r) \/ NotFound(r) \/ SleepCancelled(r) \/ Exhaust(r))
    <2>1. result' = result /\ degraded' = degraded
      BY <1>7 DEF Steps, Resolve, Walk, Arrive, ScanProvider, StartChain, StartGrace, GraceElapsed, Visit,
                  DelayElapsed, CallRefused, CallRetried, BackoffElapsed, CallFailed, PrepareFailed,
                  Settle, Cancel, sharedVars
    <2>2. QED BY <1>2, <2>1
  <1>8. QED BY <1>2, <1>3, <1>4, <1>5, <1>6, <1>7

\* The sets of answers after such a step.
LEMMA StepCounted ==
    ASSUME Annotated, Counted, NEW r \in Requests, Steps(r)
    PROVE  Counted'
  <1> DEFINE down == AnsweredWith("all_down")
             limit == AnsweredWith("degraded_limit")
             oks == AnsweredWith("ok")
  <1>1. /\ degraded \in Nat /\ MaxDegraded \in Nat
        /\ IsFiniteSet(down) /\ Cardinality(down) \in Nat
    BY RouterAssumption, FS_CardinalityType DEF Annotated, Inductive, TypeOK, Counted
  <1>2. CASE result'[r] = result[r] /\ degraded' = degraded
    <2>1. down' = down /\ limit' = limit /\ oks' = oks
      BY <1>2, StepAnswers DEF AnsweredWith
    <2>2. QED BY <1>2, <2>1 DEF Counted, OverLimit
  <1>3. CASE result[r] = "none" /\ result'[r] = "ok" /\ degraded' = 0
    <2>1. down' = down /\ limit' = limit /\ oks' # {}
      BY <1>3, StepAnswers DEF AnsweredWith
    <2>2. ~OverLimit(0)
      BY <1>1 DEF OverLimit
    <2> HIDE DEF down, limit, oks
    <2>3. QED BY <1>1, <1>3, <2>1, <2>2 DEF Counted, OverLimit, down, limit, oks
  <1>4. CASE /\ result[r] = "none" /\ degraded' = degraded
             /\ result'[r] \in {"not_found", "exhausted", "raw4xx", "cancelled"}
    <2>1. down' = down /\ limit' = limit /\ oks' = oks
      BY <1>4, StepAnswers DEF AnsweredWith
    <2>2. QED BY <1>4, <2>1 DEF Counted, OverLimit
  <1>5. CASE /\ result[r] = "none" /\ degraded' = degraded + 1
             /\ result'[r] = IF OverLimit(degraded + 1) THEN "degraded_limit" ELSE "all_down"
    <2>1. CASE OverLimit(degraded + 1)
      <3>1. down' = down /\ limit' # {} /\ oks' = oks
        BY <1>5, <2>1, StepAnswers DEF AnsweredWith
      <3>2. MaxDegraded <= Cardinality(down)
        BY <1>1, <2>1 DEF Counted, OverLimit
      <3>3. QED BY <1>1, <1>5, <2>1, <3>1, <3>2 DEF Counted, OverLimit
    <2>2. CASE ~OverLimit(degraded + 1)
      <3>1. down' = down \cup {r} /\ r \notin down /\ limit' = limit /\ oks' = oks
        BY <1>5, <2>2, StepAnswers DEF AnsweredWith
      <3>2. IsFiniteSet(down') /\ Cardinality(down') = Cardinality(down) + 1
        BY <1>1, <3>1, FS_AddElement
      <3>3. ~OverLimit(degraded)
        BY <1>1, <2>2 DEF OverLimit
      <3>4. QED BY <1>1, <1>5, <2>2, <3>1, <3>2, <3>3 DEF Counted, OverLimit
    <2>3. QED BY <2>1, <2>2
  <1>6. QED BY <1>2, <1>3, <1>4, <1>5, StepAnswers

\* fastFail and resetDegraded: nobody is told the limit before it is used up, and until a
\* success nobody beyond it is told anything else, for any limit and number of requests.
THEOREM DegradedIsEarnedAlways == Spec => []DegradedIsEarned
  <1>1. Init => Counted
    <2>1. IsFiniteSet({}) /\ Cardinality({}) = 0
      BY FS_EmptySet
    <2>2. Init => degraded = 0 /\ AnsweredWith("all_down") = {} /\ AnsweredWith("degraded_limit") = {}
      BY DEF Init, AnsweredWith
    <2>3. ~OverLimit(0)
      BY RouterAssumption DEF OverLimit, RouterAssumption
    <2>4. MaxDegraded \in Nat
      BY RouterAssumption DEF RouterAssumption
    <2>5. QED BY <2>1, <2>2, <2>3, <2>4 DEF Counted
  <1>2. Annotated /\ Counted /\ [Next]_vars => Counted'
    <2> SUFFICES ASSUME Annotated, Counted, [Next]_vars PROVE Counted'
      OBVIOUS
    <2>1. ASSUME NEW r \in Requests, Steps(r) PROVE Counted'
      BY <2>1, StepCounted
    <2>2. CASE Tick \/ (\E i \in Providers : HealthFlip(i)) \/ Finished \/ UNCHANGED vars
      <3>1. UNCHANGED <<result, degraded>>
        BY <2>2 DEF Tick, HealthFlip, Finished, vars, sharedVars
      <3>2. QED BY <3>1 DEF Counted, AnsweredWith, OverLimit
    <2>3. QED BY <2>1, <2>2 DEF Next, Steps
  <1>3. Annotated /\ Counted => DegradedIsEarned
    <2> SUFFICES ASSUME Annotated, Counted PROVE DegradedIsEarned
      OBVIOUS
    <2> DEFINE down == {r \in Requests : result[r] = "all_down"}
    <2>1. Cardinality(down) \in Nat
      BY FS_CardinalityType DEF Counted, AnsweredWith
    <2>2. (\E r \in Requests : result[r] = "degraded_limit") => MaxDegraded <= Cardinality(down)
      BY DEF Counted, AnsweredWith
    <2>3. MaxDegraded > 0 /\ (\A r \in Requests : result[r] # "ok") => Cardinality(down) <= MaxDegraded
      BY <2>1, RouterAssumption DEF Counted, AnsweredWith, OverLimit
    <2>4. QED BY <2>1, <2>2, <2>3, RouterAssumption DEF DegradedIsEarned
  <1>4. QED BY <1>1, <1>2, <1>3, AnnotatedAlways, PTL DEF Spec

-----------------------------------------------------------------------------
(* The chain keeps its promise.                                            *)

\* The state of the promise for one request.
ChainOf(r) == IF Started(r) THEN Elements(ready[r]) ELSE {}
TriedOf(r) == excluded[r] \cup (IF cur[r] = 0 THEN {} ELSE {cur[r]})
Told(r) == IF result[r] \in {"none", "ok"} THEN result[r] ELSE "failed"

Same(q) == ChainOf(q)' = ChainOf(q) /\ TriedOf(q)' = TriedOf(q) /\ Told(q)' = Told(q)

ChainMap == [r \in Requests |-> ChainOf(r)]
TriedMap == [r \in Requests |-> TriedOf(r)]
ToldMap == [r \in Requests |-> Told(r)]

\* The Cardinality of RouterPromise is the one of this module.
LEMMA SameCardinality == ASSUME NEW S PROVE Promise!Cardinality(S) = Cardinality(S)
  BY DEF Promise!Cardinality, Cardinality

\* The steps of the promise, under the mapping.
LEMMA Unfolded ==
    ASSUME NEW r \in Requests
    PROVE  /\ Promise!Start(r) <=>
                /\ ToldMap[r] = "none" /\ ChainMap[r] = {}
                /\ \E s \in (SUBSET [q \in Requests |-> Eligible(q)][r]) \ {{}} :
                      ChainMap' = [ChainMap EXCEPT ![r] = s]
                /\ UNCHANGED <<TriedMap, cur, cancelled, ToldMap>>
           /\ Promise!Try(r) <=>
                /\ ToldMap[r] = "none" /\ Cardinality(TriedMap[r]) < MaxAttempts
                /\ \E p \in ChainMap[r] \ TriedMap[r] :
                      /\ TriedMap' = [TriedMap EXCEPT ![r] = @ \cup {p}]
                      /\ cur' = [cur EXCEPT ![r] = p]
                /\ UNCHANGED <<ChainMap, cancelled, ToldMap>>
           /\ Promise!Serve(r) <=>
                /\ ToldMap[r] = "none" /\ cur[r] # 0
                /\ ToldMap' = [ToldMap EXCEPT ![r] = "ok"]
                /\ UNCHANGED <<ChainMap, TriedMap, cur, cancelled>>
           /\ Promise!Fail(r) <=>
                /\ ToldMap[r] = "none"
                /\ \/ ChainMap[r] = {} \/ cancelled[r] \/ TriedMap[r] = ChainMap[r]
                   \/ Cardinality(TriedMap[r]) = MaxAttempts
                /\ ToldMap' = [ToldMap EXCEPT ![r] = "failed"]
                /\ UNCHANGED <<ChainMap, TriedMap, cur, cancelled>>
           /\ Promise!Leave(r) <=>
                /\ ToldMap[r] = "none" /\ ~cancelled[r]
                /\ cancelled' = [cancelled EXCEPT ![r] = TRUE]
                /\ UNCHANGED <<ChainMap, TriedMap, cur, ToldMap>>
  <1> USE DEF ChainMap, TriedMap, ToldMap, ChainOf, TriedOf, Told, Promise!Pending
  <1>1. Promise!Start(r) <=>
         /\ ToldMap[r] = "none" /\ ChainMap[r] = {}
         /\ \E s \in (SUBSET [q \in Requests |-> Eligible(q)][r]) \ {{}} :
               ChainMap' = [ChainMap EXCEPT ![r] = s]
         /\ UNCHANGED <<TriedMap, cur, cancelled, ToldMap>>
    BY DEF Promise!Start
  <1>2. Promise!Try(r) <=>
         /\ ToldMap[r] = "none" /\ Cardinality(TriedMap[r]) < MaxAttempts
         /\ \E p \in ChainMap[r] \ TriedMap[r] :
               /\ TriedMap' = [TriedMap EXCEPT ![r] = @ \cup {p}]
               /\ cur' = [cur EXCEPT ![r] = p]
         /\ UNCHANGED <<ChainMap, cancelled, ToldMap>>
    BY SameCardinality DEF Promise!Try
  <1>3. Promise!Serve(r) <=>
         /\ ToldMap[r] = "none" /\ cur[r] # 0
         /\ ToldMap' = [ToldMap EXCEPT ![r] = "ok"]
         /\ UNCHANGED <<ChainMap, TriedMap, cur, cancelled>>
    BY DEF Promise!Serve
  <1>4. Promise!Fail(r) <=>
         /\ ToldMap[r] = "none"
         /\ \/ ChainMap[r] = {} \/ cancelled[r] \/ TriedMap[r] = ChainMap[r]
            \/ Cardinality(TriedMap[r]) = MaxAttempts
         /\ ToldMap' = [ToldMap EXCEPT ![r] = "failed"]
         /\ UNCHANGED <<ChainMap, TriedMap, cur, cancelled>>
    BY SameCardinality DEF Promise!Fail
  <1>5. Promise!Leave(r) <=>
         /\ ToldMap[r] = "none" /\ ~cancelled[r]
         /\ cancelled' = [cancelled EXCEPT ![r] = TRUE]
         /\ UNCHANGED <<ChainMap, TriedMap, cur, ToldMap>>
    BY DEF Promise!Leave
  <1>6. QED BY <1>1, <1>2, <1>3, <1>4, <1>5

\* The first n providers of the chain.
First(s, n) == {s[k] : k \in 1..n}

\* They are as many as their positions.
LEMMA FirstCount ==
    ASSUME NEW s \in Seq(Providers), Injective(s), NEW n \in 0..Len(s)
    PROVE  Cardinality(First(s, n)) = n
  <1> DEFINE f == [k \in 1..n |-> s[k]]
  <1>1. n \in Nat /\ \A k \in 1..n : k \in 1..Len(s)
    OBVIOUS
  <1>2. f \in Bijection(1..n, First(s, n))
    <2>1. f \in [1..n -> First(s, n)]
      BY DEF First
    <2>2. \A a, b \in 1..n : f[a] = f[b] => a = b
      BY <1>1 DEF Injective
    <2>3. \A t \in First(s, n) : \E k \in 1..n : f[k] = t
      BY DEF First
    <2> HIDE DEF f
    <2>4. QED BY <2>1, <2>2, <2>3 DEF Bijection, Injection, IsInjective, Surjection
  <1>3. ExistsBijection(1..n, First(s, n))
    BY <1>2 DEF ExistsBijection
  <1>4. IsFiniteSet(1..n) /\ Cardinality(1..n) = n
    BY <1>1, FS_Interval
  <1>5. QED BY <1>3, <1>4, FS_Bijection

\* During the walk the tried providers are the first of the chain.
LEMMA TriedIsFirst ==
    ASSUME Annotated, NEW r \in Requests, pc[r] \in {"loop", "delay", "call", "backoff"}
    PROVE  /\ TriedOf(r) = First(ready[r], attempts[r])
           /\ Cardinality(TriedOf(r)) = attempts[r]
           /\ attempts[r] \in 0..Len(ready[r]) /\ Len(ready[r]) \in Nat /\ ready[r] \in Seq(Providers)
           /\ Injective(ready[r])
           /\ ChainOf(r) = Elements(ready[r]) /\ Told(r) = "none"
  <1>1. TypeOK /\ ChainInv(r) /\ WalkInv(r) /\ Unanswered(r)
    BY DEF Annotated, Inductive, Notes, ChainInv, Resolving
  <1>2. /\ ready[r] \in Seq(Providers) /\ Len(ready[r]) \in Nat /\ attempts[r] \in 0..Len(ready[r])
        /\ Injective(ready[r]) /\ Len(ready[r]) > 0 /\ excluded[r] \subseteq Providers
    BY <1>1 DEF TypeOK, WalkInv, ChainInv
  <1>3. cur[r] = IF attempts[r] = 0 THEN 0 ELSE ready[r][attempts[r]]
    BY <1>1, <1>2 DEF WalkInv, Unanswered
  <1>4. /\ Closed(r) = attempts[r] \/ (Closed(r) = attempts[r] - 1 /\ attempts[r] > 0)
        /\ \A i \in Providers : i \in excluded[r] <=> \E k \in 1..Closed(r) : ready[r][k] = i
    BY <1>1 DEF Closed, InVisit, WalkInv
  <1>5. \A k \in 1..Len(ready[r]) : ready[r][k] \in Providers /\ ready[r][k] # 0
    <2>1. 0 \notin Providers
      BY DEF Providers
    <2>2. QED BY <1>2, <2>1
  <1>6. excluded[r] = First(ready[r], Closed(r))
    BY <1>2, <1>4, <1>5 DEF First
  <1>7. TriedOf(r) = First(ready[r], attempts[r])
    <2>1. CASE attempts[r] = 0
      BY <1>2, <1>3, <1>4, <1>6, <2>1 DEF TriedOf, First
    <2>2. CASE attempts[r] # 0
      <3>1. \A k : k \in 1..attempts[r] <=> (k \in 1..(attempts[r] - 1) \/ k = attempts[r])
        BY <1>2, <2>2
      <3>2. First(ready[r], attempts[r]) = First(ready[r], attempts[r] - 1) \cup {ready[r][attempts[r]]}
        BY <3>1 DEF First
      <3>3. cur[r] = ready[r][attempts[r]] /\ cur[r] # 0
        BY <1>2, <1>3, <1>5, <2>2
      <3>4. QED BY <1>4, <1>6, <3>2, <3>3 DEF TriedOf
    <2>3. QED BY <2>1, <2>2
  <1>8. ChainOf(r) = Elements(ready[r]) /\ Told(r) = "none"
    BY <1>1, <1>2 DEF ChainOf, Started, Unanswered, Told
  <1>9. QED BY <1>2, <1>7, <1>8, FirstCount

\* The promise sees a step of one request as one of that request.
LEMMA OthersSame ==
    ASSUME TypeOK, NEW r \in Requests, Steps(r), NEW q \in Requests \ {r}
    PROVE  Same(q)
  <1>1. Untouched(q)
    BY OthersUntouched
  <1>2. QED BY <1>1 DEF Untouched, Frame, Same, ChainOf, TriedOf, Told, Started, Elements

\* A step that changes nothing the promise speaks of.
LEMMA Stutter ==
    ASSUME \A q \in Requests : Same(q), cur' = cur, cancelled' = cancelled
    PROVE  UNCHANGED Promise!vars
  BY DEF Same, ChainOf, TriedOf, Told, Promise!vars

\* Fixing the chain of candidates is the Start of the promise.
LEMMA StartKept ==
    ASSUME Annotated, Inductive', NEW r \in Requests, StartChain(r)
    PROVE  Promise!Start(r)
  <1>1. TypeOK /\ ChainInv(r) /\ ChainInv(r)' /\ Unanswered(r) /\ \A q \in Requests \ {r} : Same(q)
    BY OthersSame DEF Annotated, Inductive, Notes, Steps, Resolve
  <1>2. /\ pc[r] = "scan" /\ pc'[r] = "loop" /\ UNCHANGED <<cur, cancelled, result, excluded>>
    BY <1>1 DEF StartChain, GoTo, TypeOK, chainVars
  <1>3. Told(r) = "none" /\ ChainOf(r) = {} /\ TriedOf(r)' = TriedOf(r) /\ Told(r)' = Told(r)
    BY <1>1, <1>2 DEF Unanswered, Told, ChainOf, Started, TriedOf
  <1>4. ready'[r] # <<>> /\ Len(ready'[r]) > 0 /\ ready'[r] \in Seq(Providers)
    BY <1>1, <1>2 DEF ChainInv, WalkInv, Resolving, Inductive, TypeOK
  <1>5. ChainOf(r)' \in (SUBSET Eligible(r)) \ {{}}
    <2>1. ChainOf(r)' = Elements(ready'[r])
      BY <1>2, <1>4 DEF ChainOf, Started, Elements
    <2>2. Eligible(r)' = Eligible(r)
      BY DEF Eligible
    <2>3. Elements(ready'[r]) \subseteq Eligible(r)
      BY <1>1, <2>2 DEF ChainInv, Elements
    <2>4. ready'[r][1] \in Elements(ready'[r])
      BY <1>4 DEF Elements
    <2>5. QED BY <2>1, <2>3, <2>4
  <1>6. [q \in Requests |-> ChainOf(q)'] = [[q \in Requests |-> ChainOf(q)] EXCEPT ![r] = ChainOf(r)']
    BY <1>1 DEF Same
  <1>7. \A q \in Requests : TriedOf(q)' = TriedOf(q) /\ Told(q)' = Told(q)
    BY <1>1, <1>3 DEF Same
  <1>8. QED BY Unfolded, <1>2, <1>3, <1>5, <1>6, <1>7 DEF ChainMap, TriedMap, ToldMap

\* The next visit is a Try of a provider of the chain that was not tried.
LEMMA TryKept ==
    ASSUME Annotated, NEW r \in Requests, Visit(r)
    PROVE  Promise!Try(r)
  <1> DEFINE i == ready[r][attempts[r] + 1]
  <1>1. TypeOK /\ \A q \in Requests \ {r} : Same(q)
    BY OthersSame DEF Annotated, Inductive, Steps, Walk
  <1>2. pc[r] = "loop" /\ pc'[r] \in {"delay", "call"} /\ attempts[r] < MaxAttempts /\ Open(r) # {}
        /\ cur' = [cur EXCEPT ![r] = NextCyclic(r)] /\ UNCHANGED <<ready, excluded, cancelled, result>>
    BY <1>1 DEF Visit, GoTo, BudgetLeft, TypeOK, scanVars
  <1>3. /\ TriedOf(r) = First(ready[r], attempts[r]) /\ Cardinality(TriedOf(r)) = attempts[r]
        /\ attempts[r] \in 0..Len(ready[r]) /\ Len(ready[r]) \in Nat /\ ready[r] \in Seq(Providers)
        /\ Injective(ready[r]) /\ ChainOf(r) = Elements(ready[r]) /\ Told(r) = "none"
    BY <1>2, TriedIsFirst
  <1>4. attempts[r] < Len(ready[r]) /\ NextCyclic(r) = i
    BY <1>2, <1>3, NextInChain, ChainSpent DEF Annotated
  <1>5. i \in Providers /\ i # 0 /\ i \in ChainOf(r) \ TriedOf(r)
    <2>1. attempts[r] + 1 \in 1..Len(ready[r]) /\ \A k \in 1..attempts[r] : k \in 1..Len(ready[r]) /\ k # attempts[r] + 1
      BY <1>3, <1>4
    <2>2. i \in Elements(ready[r]) /\ i \notin First(ready[r], attempts[r])
      BY <2>1, <1>3 DEF Elements, First, Injective
    <2>3. i \in Providers /\ 0 \notin Providers
      <3>1. 0 \notin Providers
        BY DEF Providers
      <3>2. QED BY <1>3, <2>1, <3>1
    <2>4. QED BY <1>3, <2>2, <2>3
  <1>6. cur'[r] = i
    BY <1>1, <1>2, <1>4 DEF TypeOK
  <1>7. TriedOf(r)' = TriedOf(r) \cup {i}
    <2>1. TriedOf(r)' = excluded[r] \cup {i}
      BY <1>2, <1>5, <1>6 DEF TriedOf
    <2>2. CASE cur[r] = 0
      BY <2>1, <2>2 DEF TriedOf
    <2>3. CASE cur[r] # 0
      <3>1. /\ WalkInv(r) /\ Closed(r) = attempts[r] /\ Unanswered(r)
        BY <1>2 DEF Annotated, Inductive, ChainInv, Resolving, Closed, InVisit, Notes
      <3>2. attempts[r] # 0 /\ cur[r] = ready[r][attempts[r]]
        BY <1>2, <2>3, <3>1 DEF Unanswered
      <3>3. cur[r] \in Providers /\ attempts[r] \in 1..Closed(r)
        BY <1>3, <3>1, <3>2
      <3>4. cur[r] \in excluded[r]
        BY <1>2, <3>1, <3>2, <3>3 DEF WalkInv
      <3>5. QED BY <2>1, <2>3, <3>4 DEF TriedOf
    <2>4. QED BY <2>2, <2>3
  <1>8. ChainOf(r)' = ChainOf(r) /\ Told(r)' = Told(r)
    BY <1>2 DEF ChainOf, Started, Told, Elements
  <1>9. [q \in Requests |-> TriedOf(q)'] = [[q \in Requests |-> TriedOf(q)] EXCEPT ![r] = @ \cup {i}]
    BY <1>1, <1>7 DEF Same
  <1>10. \A q \in Requests : ChainOf(q)' = ChainOf(q) /\ Told(q)' = Told(q)
    BY <1>1, <1>8 DEF Same
  <1>11. cur' = [cur EXCEPT ![r] = i]
    BY <1>2, <1>4
  <1> HIDE DEF i
  <1>12. QED BY Unfolded, <1>2, <1>3, <1>5, <1>9, <1>10, <1>11 DEF ChainMap, TriedMap, ToldMap

\* An answer leaves everything else of the promise as it was.
LEMMA Answering ==
    ASSUME NEW r \in Requests, \A q \in Requests \ {r} : Same(q), Told(r) = "none",
           ChainOf(r)' = ChainOf(r), TriedOf(r)' = TriedOf(r), cur' = cur, cancelled' = cancelled
    PROVE  /\ Told(r)' = "ok" /\ cur[r] # 0 => Promise!Serve(r)
           /\ /\ Told(r)' = "failed"
              /\ \/ ChainOf(r) = {} \/ cancelled[r] \/ TriedOf(r) = ChainOf(r)
                 \/ Cardinality(TriedOf(r)) = MaxAttempts
              => Promise!Fail(r)
  <1>1. \A q \in Requests : ChainOf(q)' = ChainOf(q) /\ TriedOf(q)' = TriedOf(q)
    BY DEF Same
  <1>2. [q \in Requests |-> Told(q)'] = [[q \in Requests |-> Told(q)] EXCEPT ![r] = Told(r)']
    BY DEF Same
  <1>3. QED BY Unfolded, <1>1, <1>2 DEF ChainMap, TriedMap, ToldMap

\* The steps of resolution start a chain, fail without one or show nothing.
LEMMA ResolveKept ==
    ASSUME Annotated, Inductive', NEW r \in Requests, Resolve(r)
    PROVE  [Promise!Next]_Promise!vars
  <1>1. /\ TypeOK /\ ChainInv(r) /\ Unanswered(r) /\ \A q \in Requests \ {r} : Same(q)
    BY OthersSame DEF Annotated, Inductive, Notes, Steps
  <1>2. CASE StartChain(r)
    BY <1>2, StartKept DEF Promise!Next
  <1>3. CASE Arrive(r) \/ ScanProvider(r) \/ StartGrace(r) \/ GraceElapsed(r)
    <2>1. /\ pc[r] \in {"idle", "scan", "grace"} /\ pc'[r] \in {"idle", "scan", "grace"}
          /\ UNCHANGED <<excluded, cur, result, cancelled>>
      BY <1>1, <1>3 DEF Arrive, ScanProvider, StartGrace, GraceElapsed, GoTo, TypeOK, chainVars
    <2>2. Same(r)
      BY <2>1 DEF Same, ChainOf, TriedOf, Told, Started
    <2>3. QED BY <1>1, <2>1, <2>2, Stutter
  <1>4. CASE NotFound(r) \/ FastFail(r)
    <2>1. /\ Resolving(r) /\ pc'[r] = "done" /\ UNCHANGED <<ready, excluded, cur, cancelled>>
          /\ result'[r] \in {"not_found", "degraded_limit", "all_down"}
      BY <1>1, <1>4 DEF NotFound, FastFail, NoCandidate, ScanDone, GoTo, Answer, TypeOK, Resolving,
                        scanVars, chainVars
    <2>2. ready[r] = <<>>
      <3>1. ready[r] \in Seq(Providers) /\ ScanInv(r)
        BY <1>1, <2>1 DEF TypeOK, ChainInv
      <3>2. CASE NotFound(r)
        BY <3>1, <3>2 DEF NotFound, ScanInv
      <3>3. CASE FastFail(r)
        BY <3>1, <3>3 DEF FastFail, NoCandidate, Scanned, ScanInv
      <3>4. QED BY <1>4, <3>2, <3>3
    <2>3. /\ Told(r) = "none" /\ Told(r)' = "failed" /\ ChainOf(r) = {} /\ ChainOf(r)' = {}
          /\ TriedOf(r)' = TriedOf(r)
      BY <1>1, <2>1, <2>2 DEF Unanswered, Told, ChainOf, Started, TriedOf, Resolving
    <2>4. Promise!Fail(r)
      BY <1>1, <2>1, <2>3, Answering
    <2>5. QED BY <2>4 DEF Promise!Next
  <1>5. QED BY <1>2, <1>3, <1>4 DEF Resolve

\* A visit has a provider.
LEMMA Visiting ==
    ASSUME TypeOK, NEW r \in Requests, ChainInv(r), pc[r] = "call"
    PROVE  cur[r] # 0
  <1>1. /\ ready[r] \in Seq(Providers) /\ attempts[r] \in 1..Len(ready[r])
        /\ cur[r] = ready[r][attempts[r]]
    BY DEF TypeOK, ChainInv, WalkInv, Resolving
  <1>2. cur[r] \in Providers /\ 0 \notin Providers
    <2>1. 0 \notin Providers
      BY DEF Providers
    <2>2. QED BY <1>1, <2>1
  <1>3. QED BY <1>2

\* The steps of the walk try a provider, answer the request or show nothing.
LEMMA WalkKept ==
    ASSUME Annotated, NEW r \in Requests, Walk(r) \/ Cancel(r)
    PROVE  [Promise!Next]_Promise!vars
  <1>1. /\ TypeOK /\ ChainInv(r) /\ Unanswered(r) /\ \A q \in Requests \ {r} : Same(q)
    BY OthersSame DEF Annotated, Inductive, Notes, Steps
  <1>2. CASE Visit(r)
    BY <1>2, TryKept DEF Promise!Next
  <1>3. CASE DelayElapsed(r) \/ CallRetried(r) \/ BackoffElapsed(r) \/ Settle(r)
    <2>1. /\ pc[r] \in {"delay", "call", "backoff", "served"}
          /\ pc'[r] \in {"delay", "call", "backoff", "done"}
          /\ UNCHANGED <<ready, excluded, cur, result, cancelled>>
      BY <1>1, <1>3 DEF DelayElapsed, CallRetried, BackoffElapsed, Settle, GoTo, TypeOK, scanVars, chainVars
    <2>2. Same(r)
      BY <2>1 DEF Same, ChainOf, TriedOf, Told, Started, Elements
    <2>3. QED BY <1>1, <2>1, <2>2, Stutter
  <1>4. CASE CallRefused(r) \/ CallFailed(r) \/ PrepareFailed(r)
    <2>1. PICK e, kept : CloseVisit(r, e, kept) /\ UNCHANGED <<scanVars, cancelled, result>>
      BY <1>4 DEF CallRefused, CallFailed, PrepareFailed
    <2>2. /\ pc[r] = "call" /\ pc'[r] = "loop" /\ excluded'[r] = excluded[r] \cup {cur[r]}
          /\ UNCHANGED <<ready, cur, cancelled, result>>
      BY <1>1, <2>1 DEF CloseVisit, Exclude, GoTo, TypeOK, scanVars
    <2>3. cur[r] # 0
      BY <1>1, <2>2, Visiting
    <2>4. Same(r)
      BY <2>2, <2>3 DEF Same, ChainOf, TriedOf, Told, Started, Elements
    <2>5. QED BY <1>1, <2>2, <2>4, Stutter
  <1>5. CASE CallOk(r) \/ SleepCancelled(r) \/ Exhaust(r)
    <2>1. /\ pc[r] \in {"loop", "delay", "call", "backoff"} /\ pc'[r] \in {"served", "done"}
          /\ UNCHANGED <<ready, excluded, cur, cancelled>>
      BY <1>1, <1>5 DEF CallOk, SleepCancelled, Exhaust, GoTo, TypeOK, scanVars, chainVars
    <2>2. Told(r) = "none" /\ ChainOf(r)' = ChainOf(r) /\ TriedOf(r)' = TriedOf(r)
      BY <2>1, TriedIsFirst DEF ChainOf, TriedOf, Started, Elements
    <2>3. CASE CallOk(r)
      <3>1. Told(r)' = "ok" /\ pc[r] = "call"
        BY <1>1, <2>3 DEF CallOk, Answer, TypeOK, Told, GoTo
      <3>2. cur[r] # 0
        BY <1>1, <3>1, Visiting
      <3>3. Promise!Serve(r)
        BY <1>1, <2>1, <2>2, <3>1, <3>2, Answering
      <3>4. QED BY <3>3 DEF Promise!Next
    <2>4. CASE SleepCancelled(r)
      <3>1. Told(r)' = "failed" /\ cancelled[r]
        BY <1>1, <2>4 DEF SleepCancelled, Answer, TypeOK, Told
      <3>2. Promise!Fail(r)
        BY <1>1, <2>1, <2>2, <3>1, Answering
      <3>3. QED BY <3>2 DEF Promise!Next
    <2>5. CASE Exhaust(r)
      <3>1. Told(r)' = "failed" /\ pc[r] = "loop" /\ (~BudgetLeft(r) \/ Open(r) = {})
        BY <1>1, <2>5 DEF Exhaust, ExhaustedResult, Answer, GoTo, TypeOK, Told
      <3>2. /\ TriedOf(r) = First(ready[r], attempts[r]) /\ Cardinality(TriedOf(r)) = attempts[r]
            /\ attempts[r] \in 0..Len(ready[r]) /\ Len(ready[r]) \in Nat /\ ChainOf(r) = Elements(ready[r])
            /\ attempts[r] <= MaxAttempts /\ MaxAttempts \in Nat
        BY <1>1, <3>1, TriedIsFirst, RouterAssumption DEF ChainInv, WalkInv, Resolving
      <3>3. attempts[r] = Len(ready[r]) \/ attempts[r] = MaxAttempts
        <4>1. CASE ~BudgetLeft(r)
          BY <3>2, <4>1 DEF BudgetLeft
        <4>2. CASE Open(r) = {}
          BY <3>1, <3>2, <4>2, NextInChain DEF Annotated
        <4>3. QED BY <3>1, <4>1, <4>2
      <3>4. TriedOf(r) = ChainOf(r) \/ Cardinality(TriedOf(r)) = MaxAttempts
        BY <3>2, <3>3 DEF First, Elements
      <3>5. Promise!Fail(r)
        BY <1>1, <2>1, <2>2, <3>1, <3>4, Answering
      <3>6. QED BY <3>5 DEF Promise!Next
    <2>6. QED BY <1>5, <2>3, <2>4, <2>5
  <1>6. CASE Cancel(r)
    <2>1. /\ pc' = pc /\ pc[r] \notin {"idle", "served", "done"} /\ ~cancelled[r]
          /\ cancelled' = [cancelled EXCEPT ![r] = TRUE] /\ UNCHANGED <<ready, excluded, cur, result>>
      BY <1>6 DEF Cancel, scanVars, chainVars
    <2>2. \A q \in Requests : Same(q)
      BY <2>1 DEF Same, ChainOf, TriedOf, Told, Started, Elements
    <2>3. Told(r) = "none"
      BY <1>1, <2>1 DEF Unanswered, Told
    <2>4. ToldMap[r] = "none" /\ UNCHANGED <<ChainMap, TriedMap, cur, ToldMap>>
      BY <2>1, <2>2, <2>3 DEF Same, ChainMap, TriedMap, ToldMap
    <2>5. Promise!Leave(r)
      BY Unfolded, <2>1, <2>4
    <2>6. QED BY <2>5 DEF Promise!Next
  <1>7. QED BY <1>2, <1>3, <1>4, <1>5, <1>6 DEF Walk

\* Router implements RouterPromise: with any number of requests and providers, every
\* request is sent to eligible providers one after the other, none twice and no more than
\* the budget, and is answered once, with a failure only for one of the reasons there.
THEOREM PromiseKept == Spec => RefinesPromise
  <1>1. Init => Promise!Init
    BY DEF Init, Promise!Init, Started
  <1>2. Annotated /\ [Next]_vars => [Promise!Next]_Promise!vars
    <2> SUFFICES ASSUME Annotated, [Next]_vars PROVE [Promise!Next]_Promise!vars
      OBVIOUS
    <2>1. Inductive'
      BY NextInductive DEF Annotated
    <2>2. CASE \E r \in Requests : Resolve(r) \/ Walk(r) \/ Cancel(r)
      BY <2>1, <2>2, ResolveKept, WalkKept
    <2>3. CASE Tick \/ (\E i \in Providers : HealthFlip(i)) \/ Finished \/ UNCHANGED vars
      <3>1. UNCHANGED <<pc, ready, excluded, cur, result, cancelled>>
        BY <2>3 DEF Tick, HealthFlip, Finished, vars, scanVars, chainVars
      <3>2. \A q \in Requests : Same(q)
        BY <3>1 DEF Same, ChainOf, TriedOf, Told, Started, Elements
      <3>3. QED BY <3>1, <3>2, Stutter
    <2>4. QED BY <2>2, <2>3 DEF Next
  <1>3. QED BY <1>1, <1>2, AnnotatedAlways, PTL DEF Spec, RefinesPromise, Promise!Spec

=============================================================================
