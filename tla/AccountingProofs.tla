-------------------------- MODULE AccountingProofs --------------------------
(***************************************************************************)
(* Proofs about Accounting, for any clients, sessions, requests, limits of *)
(* retention in each life, and number of stops and saves: what a completed *)
(* save held is lost to memory only where a boot could not read the file,  *)
(* and to the file only where such a process has overwritten it; nothing   *)
(* is counted twice, and the record of a client covers its sessions.       *)
(*                                                                         *)
(* What a book counts is bounded from below by the requests that certainly *)
(* reached it and from above by those that may have, in memory, in the     *)
(* images under way and in the file; AccountInv says so of all three.      *)
(***************************************************************************)
EXTENDS Accounting, FiniteSetTheorems, SequenceTheorems, TLAPS

SessionRecord == [requests : Nat, last : Nat]
ContextRecord == [requests : Nat, actual : Nat, last : Nat, history : Seq(Requests)]

\* Some records, one for each of a finite set of keys.
Books(Record) == UNION {[D -> Record] : D \in {K \in SUBSET Keys : IsFiniteSet(K)}}

Images == [usage : [Clients -> Nat], cost : [Clients -> Nat],
           sessions : Books(SessionRecord), contexts : Books(ContextRecord),
           done : SUBSET Requests]

BooksTyped ==
    /\ process \in {"down", "up", "draining", "closing", "stopping"}
    /\ stops \in 0..MaxStops /\ saves \in Nat /\ now \in Nat /\ retained \in Nat \ {0}
    /\ pc \in [Requests -> Points]
    /\ usage \in [Clients -> Nat] /\ cost \in [Clients -> Nat]
    /\ sessions \in Books(SessionRecord) /\ contexts \in Books(ContextRecord)
    /\ saving \in [Savers -> {"off", "usage", "cost", "sessions", "contexts", "rename"}]
    /\ image \in [Savers -> Images] /\ file \in Images
    /\ safe \in SUBSET Requests /\ gone \in SUBSET Requests /\ erased \in SUBSET Requests

DoneRequests == {r \in Requests : pc[r] = "done"}

\* One saver at a time, and what is safe stays done.
Savings ==
    /\ saving["ticker"] # "off" => process \in {"up", "draining", "closing"}
    /\ saving["final"] # "off" => process = "stopping"
    /\ safe \subseteq DoneRequests
    /\ \A w \in Savers : image[w].done \subseteq DoneRequests
    /\ \A w \in Savers : saving[w] # "off" => safe \subseteq image[w].done
    /\ process = "down" => InFlight = {} /\ DoneRequests \subseteq safe

Charged == {r \in Requests : pc[r] \in {"cost", "session", "actual", "done"}}
Paid == {r \in Requests : pc[r] \in {"session", "actual", "done"}}
PaidOrLost == {r \in Requests : pc[r] \in {"session", "actual", "done", "lost"}}

Between(low, book, high) ==
    \A c \in Clients : Of(c, low) <= book[c] /\ book[c] <= Of(c, high)

LedgersRight ==
    Running => Between(Charged \ gone, usage, Billed) /\ Between(Paid \ gone, cost, PaidOrLost)

ImagesRight ==
    \A w \in Savers :
       /\ saving[w] \in {"cost", "sessions", "contexts", "rename"}
             => Between(image[w].done \ gone, image[w].usage, Billed)
       /\ saving[w] \in {"sessions", "contexts", "rename"}
             => Between(image[w].done \ gone, image[w].cost, PaidOrLost)

FileRight ==
    Between(safe \ erased, file.usage, Billed) /\ Between(safe \ erased, file.cost, PaidOrLost)

Has(h, r) == \E i \in 1..Len(h) : h[i] = r

Started == {r \in Requests : pc[r] # "idle"}

\* A book of contexts whose histories know only requests that have begun.
Sound(f, started) ==
    /\ \A k \in SessionKeys(f) :
          /\ <<k[1], NoSession>> \in DOMAIN f
          /\ f[k].requests <= f[<<k[1], NoSession>>].requests
    /\ \A k \in DOMAIN f : f[k].actual <= f[k].requests
    /\ \A k \in DOMAIN f, r \in Requests : Has(f[k].history, r) => r \in started

\* What retention lets through in this life.
Room == Larger(retained, DefaultRetained)

Pending(h, flying) == {r \in flying : Has(h, r)}

\* What a record has counted in full and what it may still count of the requests in
\* its history are no more than it has counted at all.
ContextsRight ==
    /\ Sound(contexts, Started) /\ Cardinality(SessionKeys(contexts)) <= Room
    /\ \A k \in DOMAIN contexts :
          contexts[k].actual + Cardinality(Pending(contexts[k].history, InFlight))
             <= contexts[k].requests

SavedContextsRight ==
    Sound(file.contexts, Started) /\ \A w \in Savers : Sound(image[w].contexts, Started)

SessionsRight == Cardinality(DOMAIN sessions) <= Room

AccountInv ==
    /\ BooksTyped /\ Savings /\ LedgersRight /\ ImagesRight /\ FileRight
    /\ ContextsRight /\ SavedContextsRight /\ SessionsRight

-----------------------------------------------------------------------------
\* Counting requests: a count grows with its set, and by one with one request.
LEMMA Counts ==
    ASSUME NEW S \in SUBSET Requests, NEW T \in SUBSET Requests, S \subseteq T
    PROVE  \A c : Of(c, S) \in Nat /\ Of(c, T) \in Nat /\ Of(c, S) <= Of(c, T)
<1> TAKE c
<1> DEFINE M == {r \in S : ClientOf[r] = c}
           N == {r \in T : ClientOf[r] = c}
<1>1. M \subseteq N /\ N \subseteq Requests
    OBVIOUS
<1>2. IsFiniteSet(N) /\ IsFiniteSet(M)
    BY <1>1, FS_Subset, AccountingAssumption DEF AccountingAssumption
<1>3. Cardinality(M) \in Nat /\ Cardinality(N) \in Nat /\ Cardinality(M) <= Cardinality(N)
    BY <1>1, <1>2, FS_Subset, FS_CardinalityType
<1> QED BY <1>3 DEF Of

LEMMA CountsOneMore ==
    ASSUME NEW S \in SUBSET Requests, NEW r \in Requests, r \notin S
    PROVE  \A c : Of(c, S \cup {r}) = Of(c, S) + (IF ClientOf[r] = c THEN 1 ELSE 0)
<1> TAKE c
<1> DEFINE M == {q \in S : ClientOf[q] = c}
           N == {q \in S \cup {r} : ClientOf[q] = c}
<1>1. IsFiniteSet(M)
    BY FS_Subset, AccountingAssumption DEF AccountingAssumption
<1>2. CASE ClientOf[r] = c
  <2>1. N = M \cup {r} /\ r \notin M
      BY <1>2
  <2>2. Cardinality(N) = Cardinality(M) + 1
      BY <1>1, <2>1, FS_AddElement
  <2> QED BY <1>2, <2>2 DEF Of
<1>3. CASE ClientOf[r] # c
  <2>1. N = M
      BY <1>3
  <2>2. Of(c, S \cup {r}) = Of(c, S)
      BY <2>1 DEF Of
  <2>3. Of(c, S) \in Nat
      BY Counts
  <2> QED BY <1>3, <2>2, <2>3
<1> QED BY <1>2, <1>3

\* A book between two counts stays there when the lower set shrinks or the higher
\* one grows.
LEMMA BetweenWider ==
    ASSUME NEW low \in SUBSET Requests, NEW less \in SUBSET low,
           NEW more \in SUBSET Requests, NEW high \in SUBSET more,
           NEW book \in [Clients -> Nat], Between(low, book, high)
    PROVE  Between(less, book, more)
<1> SUFFICES ASSUME NEW c \in Clients
             PROVE  Of(c, less) <= book[c] /\ book[c] <= Of(c, more)
    BY DEF Between
<1>1. Of(c, low) <= book[c] /\ book[c] <= Of(c, high)
    BY DEF Between
<1>2. Of(c, less) \in Nat /\ Of(c, low) \in Nat /\ Of(c, less) <= Of(c, low)
    BY Counts
<1>3. Of(c, high) \in Nat /\ Of(c, more) \in Nat /\ Of(c, high) <= Of(c, more)
    BY Counts
<1>4. book[c] \in Nat
    OBVIOUS
<1> QED BY <1>1, <1>2, <1>3, <1>4

\* The book of a client takes one unit for one more of its requests.
LEMMA BetweenOneMore ==
    ASSUME NEW low \in SUBSET Requests, NEW high \in SUBSET Requests,
           NEW r \in Requests, r \notin low, r \notin high,
           NEW book \in [Clients -> Nat], Between(low, book, high)
    PROVE  Between(low \cup {r}, [book EXCEPT ![ClientOf[r]] = @ + 1], high \cup {r})
<1> DEFINE new == [book EXCEPT ![ClientOf[r]] = @ + 1]
<1> SUFFICES ASSUME NEW c \in Clients
             PROVE  /\ Of(c, low \cup {r}) <= new[c]
                    /\ new[c] <= Of(c, high \cup {r})
    BY DEF Between
<1> DEFINE one == IF ClientOf[r] = c THEN 1 ELSE 0
<1>1. Of(c, low) <= book[c] /\ book[c] <= Of(c, high)
    BY DEF Between
<1>2. Of(c, low) \in Nat /\ Of(c, high) \in Nat
    BY Counts
<1>3. Of(c, low \cup {r}) = Of(c, low) + one /\ Of(c, high \cup {r}) = Of(c, high) + one
    BY CountsOneMore
<1>4. new[c] = book[c] + one /\ one \in Nat /\ book[c] \in Nat
    BY AccountingAssumption DEF AccountingAssumption
<1> QED BY <1>1, <1>2, <1>3, <1>4

-----------------------------------------------------------------------------
\* Books of records: what dropping, adding and changing a record leave.
LEMMA BookFacts ==
    ASSUME NEW R, NEW f
    PROVE  f \in Books(R) <=> /\ DOMAIN f \subseteq Keys /\ IsFiniteSet(DOMAIN f)
                              /\ f \in [DOMAIN f -> R]
    BY DEF Books

LEMMA EmptyBook ==
    ASSUME NEW R
    PROVE  <<>> \in Books(R) /\ DOMAIN <<>> = {} /\ Cardinality(DOMAIN <<>>) = 0
<1>1. DOMAIN <<>> = {} /\ <<>> \in [{} -> R]
    OBVIOUS
<1>2. IsFiniteSet({}) /\ Cardinality({}) = 0
    BY FS_EmptySet
<1> QED BY <1>1, <1>2, BookFacts

LEMMA Dropped ==
    ASSUME NEW R, NEW f \in Books(R), NEW C \in SUBSET DOMAIN f, NEW n \in Nat,
           NEW g \in DropOldest(f, C, n)
    PROVE  /\ g \in Books(R)
           /\ \E D \in SUBSET C : /\ \A k : k \in DOMAIN g <=> k \in DOMAIN f /\ k \notin D
                                 /\ IsFiniteSet(D) /\ Cardinality(D) = n
           /\ \A k \in DOMAIN g : k \in DOMAIN f /\ g[k] = f[k]
<1>1. PICK D \in SUBSET C : Cardinality(D) = n /\ g = Only(f, DOMAIN f \ D)
    BY DEF DropOldest
<1>2. DOMAIN f \subseteq Keys /\ IsFiniteSet(DOMAIN f) /\ f \in [DOMAIN f -> R]
    BY BookFacts
<1>3. DOMAIN g = DOMAIN f \ D /\ \A k \in DOMAIN g : g[k] = f[k]
    BY <1>1 DEF Only
<1>4. IsFiniteSet(D) /\ IsFiniteSet(DOMAIN g)
    BY <1>2, <1>3, FS_Subset
<1>5. g \in [DOMAIN g -> R]
    BY <1>1, <1>2, <1>3 DEF Only
<1>6. g \in Books(R)
    BY <1>2, <1>3, <1>4, <1>5, BookFacts
<1> QED BY <1>1, <1>3, <1>4, <1>6

LEMMA DroppedKeeps ==
    ASSUME NEW R, NEW f \in Books(R), NEW C \in SUBSET DOMAIN f, NEW n \in Nat,
           NEW g \in DropOldest(f, C, n)
    PROVE  \A k \in DOMAIN f \ C : k \in DOMAIN g
BY DEF DropOldest, Only

LEMMA Added ==
    ASSUME NEW R, NEW f \in Books(R), NEW key \in Keys, NEW v \in R
    PROVE  /\ With(f, key, v) \in Books(R)
           /\ \A k : k \in DOMAIN With(f, key, v) <=> k \in DOMAIN f \/ k = key
           /\ With(f, key, v)[key] = v
           /\ \A k \in DOMAIN f \ {key} : With(f, key, v)[k] = f[k]
<1>1. DOMAIN f \subseteq Keys /\ IsFiniteSet(DOMAIN f) /\ f \in [DOMAIN f -> R]
    BY BookFacts
<1>2. IsFiniteSet(DOMAIN f \cup {key})
    BY <1>1, FS_AddElement
<1>3. /\ DOMAIN With(f, key, v) = DOMAIN f \cup {key}
      /\ With(f, key, v) \in [DOMAIN f \cup {key} -> R]
    BY <1>1 DEF With
<1>4. With(f, key, v) \in Books(R)
    BY <1>1, <1>2, <1>3, BookFacts
<1> QED BY <1>3, <1>4 DEF With

LEMMA Changed ==
    ASSUME NEW R, NEW f \in Books(R), NEW key, NEW v \in R
    PROVE  /\ [f EXCEPT ![key] = v] \in Books(R)
           /\ DOMAIN [f EXCEPT ![key] = v] = DOMAIN f
           /\ key \in DOMAIN f => [f EXCEPT ![key] = v][key] = v
           /\ \A k \in DOMAIN f \ {key} : [f EXCEPT ![key] = v][k] = f[k]
<1>1. DOMAIN f \subseteq Keys /\ IsFiniteSet(DOMAIN f) /\ f \in [DOMAIN f -> R]
    BY BookFacts
<1>2. /\ DOMAIN [f EXCEPT ![key] = v] = DOMAIN f
      /\ [f EXCEPT ![key] = v] \in [DOMAIN f -> R]
    BY <1>1
<1>3. [f EXCEPT ![key] = v] \in Books(R)
    BY <1>1, <1>2, BookFacts
<1> QED BY <1>1, <1>2, <1>3

\* The size of a book after an insertion and the eviction it calls for.
LEMMA SessionsOf ==
    ASSUME NEW R, NEW f \in Books(R)
    PROVE  /\ SessionKeys(f) \subseteq DOMAIN f /\ IsFiniteSet(SessionKeys(f))
           /\ Cardinality(SessionKeys(f)) \in Nat
           /\ IsFiniteSet(DOMAIN f) /\ Cardinality(DOMAIN f) \in Nat
<1>1. SessionKeys(f) \subseteq DOMAIN f /\ IsFiniteSet(DOMAIN f)
    BY BookFacts DEF SessionKeys
<1>2. IsFiniteSet(SessionKeys(f))
    BY <1>1, FS_Subset
<1> QED BY <1>1, <1>2, FS_CardinalityType

LEMMA SizeWithout ==
    ASSUME NEW S, IsFiniteSet(S), NEW D \in SUBSET S
    PROVE  Cardinality(S \ D) = Cardinality(S) - Cardinality(D)
<1>1. S \cap D = D
    OBVIOUS
<1> QED BY <1>1, FS_Difference

-----------------------------------------------------------------------------
\* The newest request comes first in a history, and the oldest may fall off.
LEMMA NewestFirst ==
    ASSUME NEW h \in Seq(Requests), NEW r \in Requests
    PROVE  LET new == SubSeq(<<r>> \o h, 1, Smaller(HistoryCap, Len(h) + 1))
           IN  new \in Seq(Requests) /\ \A q : Has(new, q) => q = r \/ Has(h, q)
<1> DEFINE all == <<r>> \o h
           n == Smaller(HistoryCap, Len(h) + 1)
           new == SubSeq(all, 1, n)
<1>1. <<r>> \in Seq(Requests) /\ Len(<<r>>) = 1 /\ <<r>>[1] = r /\ Len(h) \in Nat
    OBVIOUS
<1>2. /\ all \in Seq(Requests) /\ Len(all) = Len(h) + 1
      /\ \A i \in 1..Len(all) : all[i] = IF i = 1 THEN r ELSE h[i - 1]
    BY <1>1, ConcatProperties
<1>3. n \in Nat /\ n <= Len(all)
    BY <1>1, <1>2, AccountingAssumption DEF AccountingAssumption, Smaller
<1>4. new \in Seq(Requests) /\ Len(new) = n /\ \A i \in 1..n : new[i] = all[i]
    BY <1>2, <1>3, SubSeqProperties
<1>5. ASSUME NEW q, Has(new, q), q # r
      PROVE  Has(h, q)
  <2>1. PICK i \in 1..n : new[i] = q
      BY <1>4, <1>5 DEF Has
  <2>2. i \in 1..Len(all) /\ all[i] = q
      BY <1>2, <1>3, <1>4, <2>1
  <2>3. i # 1
      BY <1>2, <1>5, <2>2
  <2>4. i - 1 \in 1..Len(h) /\ h[i - 1] = q
      BY <1>1, <1>2, <2>2, <2>3
  <2> QED BY <2>4 DEF Has
<1> QED BY <1>4, <1>5

\* The oldest entries of a history are cut at boot.
LEMMA HistoryCut ==
    ASSUME NEW h \in Seq(Requests)
    PROVE  LET cut == SubSeq(h, 1, Smaller(DefaultHistory, Len(h)))
           IN  cut \in Seq(Requests) /\ \A q : Has(cut, q) => Has(h, q)
<1> DEFINE n == Smaller(DefaultHistory, Len(h))
           cut == SubSeq(h, 1, n)
<1>1. n \in Nat /\ n <= Len(h) /\ Len(h) \in Nat
    BY AccountingAssumption DEF AccountingAssumption, Smaller
<1>2. cut \in Seq(Requests) /\ Len(cut) = n /\ \A i \in 1..n : cut[i] = h[i]
    BY <1>1, SubSeqProperties
<1>3. ASSUME NEW q, Has(cut, q)
      PROVE  Has(h, q)
  <2>1. PICK i \in 1..n : cut[i] = q
      BY <1>2, <1>3 DEF Has
  <2>2. i \in 1..Len(h) /\ h[i] = q
      BY <1>1, <1>2, <2>1
  <2> QED BY <2>2 DEF Has
<1> QED BY <1>2, <1>3

LEMMA NewContextTyped ==
    ASSUME NEW t \in Nat
    PROVE  /\ NewContext(t) \in ContextRecord
           /\ NewContext(t).requests = 0 /\ NewContext(t).actual = 0
           /\ \A q : ~Has(NewContext(t).history, q)
<1>1. <<>> \in Seq(Requests) /\ 1..Len(<<>>) = {}
    OBVIOUS
<1> QED BY <1>1 DEF NewContext, ContextRecord, Has

\* A request is counted once in a record it is added to, and is now in its history.
LEMMA ComposedFacts ==
    ASSUME NEW f \in Books(ContextRecord), NEW key, NEW r \in Requests, now \in Nat
    PROVE  LET g == Composed(f, key, r)
           IN  /\ g \in Books(ContextRecord) /\ DOMAIN g = DOMAIN f
               /\ \A k \in DOMAIN f \ {key} : g[k] = f[k]
               /\ key \in DOMAIN f =>
                    /\ g[key].requests = f[key].requests + 1
                    /\ g[key].actual = f[key].actual
                    /\ \A q : Has(g[key].history, q) => q = r \/ Has(f[key].history, q)
<1>1. CASE key \notin DOMAIN f
    BY <1>1 DEF Composed
<1>2. CASE key \in DOMAIN f
  <2> DEFINE hist == f[key].history
             new == SubSeq(<<r>> \o hist, 1, Smaller(HistoryCap, Len(hist) + 1))
             v == [requests |-> f[key].requests + 1, actual |-> f[key].actual, last |-> now,
                   history |-> new]
  <2>1. f \in [DOMAIN f -> ContextRecord]
      BY BookFacts
  <2>2. f[key] \in ContextRecord
      BY <1>2, <2>1
  <2>3. hist \in Seq(Requests) /\ f[key].requests \in Nat /\ f[key].actual \in Nat
      BY <2>2 DEF ContextRecord
  <2>4. new \in Seq(Requests) /\ \A q : Has(new, q) => q = r \/ Has(hist, q)
      BY <2>3, NewestFirst
  <2> HIDE DEF new, hist
  <2>5. v \in ContextRecord
      BY <2>3, <2>4 DEF ContextRecord
  <2>6. Composed(f, key, r) = [f EXCEPT ![key] = v]
      BY <1>2 DEF Composed, new, hist
  <2>7. v.requests = f[key].requests + 1 /\ v.actual = f[key].actual /\ v.history = new
      OBVIOUS
  <2> HIDE DEF v
  <2>8. /\ [f EXCEPT ![key] = v] \in Books(ContextRecord)
        /\ DOMAIN [f EXCEPT ![key] = v] = DOMAIN f
        /\ [f EXCEPT ![key] = v][key] = v
        /\ \A k \in DOMAIN f \ {key} : [f EXCEPT ![key] = v][k] = f[k]
      BY <1>2, <2>5, Changed
  <2> QED BY <2>4, <2>6, <2>7, <2>8 DEF hist
<1> QED BY <1>1, <1>2

\* recordContextLocked creates the record of a key that has none, and changes no other.
LEMMA WithContextFacts ==
    ASSUME NEW f \in Books(ContextRecord), NEW key \in Keys, NEW t \in Nat
    PROVE  LET g == WithContext(f, key, t)
           IN  /\ g \in Books(ContextRecord)
               /\ \A k : k \in DOMAIN g <=> k \in DOMAIN f \/ k = key
               /\ \A k \in DOMAIN f : g[k] = f[k]
               /\ key \notin DOMAIN f => g[key] = NewContext(t)
<1>1. CASE key \in DOMAIN f
    BY <1>1 DEF WithContext
<1>2. CASE key \notin DOMAIN f
  <2>1. WithContext(f, key, t) = With(f, key, NewContext(t))
      BY <1>2 DEF WithContext
  <2>2. NewContext(t) \in ContextRecord
      BY NewContextTyped
  <2>3. /\ With(f, key, NewContext(t)) \in Books(ContextRecord)
        /\ \A k : k \in DOMAIN With(f, key, NewContext(t)) <=> k \in DOMAIN f \/ k = key
        /\ With(f, key, NewContext(t))[key] = NewContext(t)
        /\ \A k \in DOMAIN f \ {key} : With(f, key, NewContext(t))[k] = f[k]
      BY <2>2, Added
  <2> QED BY <1>2, <2>1, <2>3
<1> QED BY <1>1, <1>2

\* The second phase counts a request in a record whose history still has it.
LEMMA UpdatedFacts ==
    ASSUME NEW f \in Books(ContextRecord), NEW key, NEW r \in Requests
    PROVE  LET g == Updated(f, key, r)
           IN  /\ g \in Books(ContextRecord) /\ DOMAIN g = DOMAIN f
               /\ \A k \in DOMAIN f :
                    /\ g[k].requests = f[k].requests /\ g[k].history = f[k].history
                    /\ g[k].actual = f[k].actual
                         + (IF k = key /\ Has(f[k].history, r) THEN 1 ELSE 0)
<1>1. f \in [DOMAIN f -> ContextRecord]
    BY BookFacts
<1>2. \A k \in DOMAIN f : f[k].actual \in Nat
    BY <1>1 DEF ContextRecord
<1>3. CASE ~(key \in DOMAIN f /\ Has(f[key].history, r))
    BY <1>2, <1>3 DEF Updated, Has
<1>4. CASE key \in DOMAIN f /\ Has(f[key].history, r)
  <2> DEFINE v == [f[key] EXCEPT !.actual = @ + 1]
  <2>1. f[key] \in ContextRecord
      BY <1>1, <1>4
  <2>2. /\ v \in ContextRecord /\ v.requests = f[key].requests
        /\ v.history = f[key].history /\ v.actual = f[key].actual + 1
      BY <2>1 DEF ContextRecord
  <2>3. Updated(f, key, r) = [f EXCEPT ![key] = v]
      BY <1>4 DEF Updated, Has
  <2> HIDE DEF v
  <2>4. /\ [f EXCEPT ![key] = v] \in Books(ContextRecord)
        /\ DOMAIN [f EXCEPT ![key] = v] = DOMAIN f
        /\ [f EXCEPT ![key] = v][key] = v
        /\ \A k \in DOMAIN f \ {key} : [f EXCEPT ![key] = v][k] = f[k]
      BY <1>4, <2>2, Changed
  <2>5. \A k \in DOMAIN f \ {key} : f[k].actual = f[k].actual + 0
      BY <1>2
  <2> QED BY <1>4, <2>2, <2>3, <2>4, <2>5
<1> QED BY <1>3, <1>4

-----------------------------------------------------------------------------
(* The types.                                                              *)

LEMMA KeysOf ==
    ASSUME NEW r \in Requests
    PROVE  /\ ClientOf[r] \in Clients /\ <<ClientOf[r], SessionOf[r]>> \in Keys
           /\ <<ClientOf[r], NoSession>> \in Keys
BY AccountingAssumption DEF AccountingAssumption, Keys

LEMMA EmptyTyped == Empty \in Images
<1>1. <<>> \in Books(SessionRecord) /\ <<>> \in Books(ContextRecord)
    BY EmptyBook
<1> QED BY <1>1 DEF Empty, Images

LEMMA InitTyped == Init => BooksTyped
<1> SUFFICES ASSUME Init PROVE BooksTyped
    OBVIOUS
<1>1. <<>> \in Books(SessionRecord) /\ <<>> \in Books(ContextRecord)
    BY EmptyBook
<1>2. usage \in [Clients -> Nat] /\ cost \in [Clients -> Nat]
    BY DEF Init, Empty
<1>3. file \in Images /\ image \in [Savers -> Images]
    BY EmptyTyped DEF Init
<1>4. stops \in 0..MaxStops /\ retained \in Nat \ {0}
    BY AccountingAssumption DEF Init, AccountingAssumption
<1> QED BY <1>1, <1>2, <1>3, <1>4 DEF Init, BooksTyped, Points

\* The limit in force and the one of the boot.
LEMMA RoomTyped ==
    ASSUME BooksTyped
    PROVE  /\ Room \in Nat /\ retained \in Nat \ {0} /\ DefaultRetained \in Nat \ {0}
           /\ retained <= Room /\ DefaultRetained <= Room
BY AccountingAssumption DEF BooksTyped, AccountingAssumption, Room, Larger

LEMMA RoomTypedNext ==
    ASSUME BooksTyped'
    PROVE  Room' \in Nat /\ DefaultRetained \in Nat /\ DefaultRetained <= Room'
BY AccountingAssumption DEF BooksTyped, AccountingAssumption, Room, Larger

\* What SessionRoom and ContextRoom may leave is a book.
LEMMA SessionsRecorded ==
    ASSUME BooksTyped, NEW r \in Requests, RecordSession(r)
    PROVE  /\ sessions' \in Books(SessionRecord)
           /\ Cardinality(DOMAIN sessions) <= Room => Cardinality(DOMAIN sessions') <= Room
<1> DEFINE key == <<ClientOf[r], SessionOf[r]>>
           fresh == key \notin DOMAIN sessions
           zero == [requests |-> 0, last |-> 0]
           inserted == IF fresh THEN With(sessions, key, zero) ELSE sessions
<1>1. CASE SessionOf[r] = NoSession
    BY <1>1 DEF RecordSession, BooksTyped
<1>2. CASE SessionOf[r] # NoSession
  <2>1. PICK f \in SessionRoom(inserted, fresh) :
            sessions' = IF key \notin DOMAIN f THEN f
                        ELSE [f EXCEPT ![key] = [requests |-> @.requests + 1, last |-> now]]
      BY <1>2 DEF RecordSession
  <2>2. key \in Keys /\ zero \in SessionRecord /\ sessions \in Books(SessionRecord)
      BY KeysOf DEF SessionRecord, BooksTyped
  <2>3. /\ inserted \in Books(SessionRecord)
        /\ fresh => \A k : k \in DOMAIN inserted <=> k \in DOMAIN sessions \/ k = key
      BY <2>2, Added
  <2> HIDE DEF inserted
  <2>4. Room \in Nat /\ retained \in Nat \ {0} /\ retained <= Room
      BY RoomTyped
  <2>5. IsFiniteSet(DOMAIN sessions) /\ Cardinality(DOMAIN sessions) \in Nat
      BY <2>2, SessionsOf
  <2>6. /\ f \in Books(SessionRecord)
        /\ Cardinality(DOMAIN sessions) <= Room => Cardinality(DOMAIN f) <= Room
    <3>1. CASE fresh
      <4> DEFINE n == IF Cardinality(DOMAIN inserted) > retained THEN 1 ELSE 0
      <4>1. f \in DropOldest(inserted, DOMAIN inserted, n) /\ n \in Nat
          BY <2>1, <3>1 DEF SessionRoom
      <4>2. PICK D \in SUBSET DOMAIN inserted :
                /\ \A k : k \in DOMAIN f <=> k \in DOMAIN inserted /\ k \notin D
                /\ Cardinality(D) = n
          BY <2>3, <4>1, Dropped
      <4>3. Cardinality(DOMAIN inserted) = Cardinality(DOMAIN sessions) + 1
        <5>1. DOMAIN inserted = DOMAIN sessions \cup {key}
            BY <2>3, <3>1
        <5> QED BY <2>5, <3>1, <5>1, FS_AddElement
      <4>4. Cardinality(DOMAIN f) = Cardinality(DOMAIN inserted) - n
        <5>1. DOMAIN f = DOMAIN inserted \ D
            BY <4>2
        <5> QED BY <2>3, <4>2, <5>1, SizeWithout, SessionsOf
      <4>5. f \in Books(SessionRecord)
          BY <2>3, <4>1, Dropped
      <4> QED BY <2>4, <2>5, <4>3, <4>4, <4>5
    <3>2. CASE ~fresh
        BY <2>1, <2>3, <3>2 DEF SessionRoom, inserted
    <3> QED BY <3>1, <3>2
  <2>7. CASE key \notin DOMAIN f
      BY <2>1, <2>6, <2>7
  <2>8. CASE key \in DOMAIN f
    <3> DEFINE v == [requests |-> f[key].requests + 1, last |-> now]
    <3>1. f \in [DOMAIN f -> SessionRecord]
        BY <2>6, BookFacts
    <3>2. v \in SessionRecord
        BY <2>8, <3>1 DEF SessionRecord, BooksTyped
    <3>3. sessions' = [f EXCEPT ![key] = v]
        BY <2>1, <2>8
    <3> HIDE DEF v
    <3> QED BY <2>6, <3>2, <3>3, Changed
  <2> QED BY <2>7, <2>8
<1> QED BY <1>1, <1>2

LEMMA RoomIsBook ==
    ASSUME NEW f \in Books(ContextRecord), NEW key, NEW g \in ContextRoom(f, key)
    PROVE  /\ g \in Books(ContextRecord)
           /\ DOMAIN g \subseteq DOMAIN f /\ DOMAIN f \ SessionKeys(f) \subseteq DOMAIN g
           /\ \A k \in DOMAIN g : g[k] = f[k]
           /\ key \notin DOMAIN contexts /\ key[2] # NoSession =>
                Cardinality(SessionKeys(g))
                  = Cardinality(SessionKeys(f))
                    - (IF Cardinality(SessionKeys(f)) > retained THEN 1 ELSE 0)
<1>1. CASE key \in DOMAIN contexts \/ key[2] = NoSession
    BY <1>1 DEF ContextRoom
<1>2. CASE ~(key \in DOMAIN contexts \/ key[2] = NoSession)
  <2> DEFINE n == IF Cardinality(SessionKeys(f)) > retained THEN 1 ELSE 0
  <2>1. g \in DropOldest(f, SessionKeys(f), n) /\ n \in Nat
      BY <1>2 DEF ContextRoom
  <2> HIDE DEF n
  <2>2. SessionKeys(f) \in SUBSET DOMAIN f /\ IsFiniteSet(SessionKeys(f))
      BY SessionsOf
  <2>3. PICK D \in SUBSET SessionKeys(f) :
            /\ \A k : k \in DOMAIN g <=> k \in DOMAIN f /\ k \notin D
            /\ Cardinality(D) = n
      BY <2>1, <2>2, Dropped
  <2>4. SessionKeys(g) = SessionKeys(f) \ D
      BY <2>3 DEF SessionKeys
  <2>5. Cardinality(SessionKeys(g)) = Cardinality(SessionKeys(f)) - n
      BY <2>2, <2>3, <2>4, SizeWithout
  <2>6. g \in Books(ContextRecord) /\ \A k \in DOMAIN g : g[k] = f[k]
      BY <2>1, <2>2, Dropped
  <2>7. DOMAIN g \subseteq DOMAIN f /\ DOMAIN f \ SessionKeys(f) \subseteq DOMAIN g
      BY <2>3
  <2> QED BY <2>5, <2>6, <2>7 DEF n
<1> QED BY <1>1, <1>2

\* What the first phase leaves of the contexts: the request is counted in the record
\* of its client, which is kept, and in the one of its session unless it is evicted.
Prior(k) == IF k \in DOMAIN contexts THEN contexts[k] ELSE NewContext(now)

LEMMA ContextsRecorded ==
    ASSUME BooksTyped, NEW r \in Requests, RecordContext(r),
           NEW own, own = <<ClientOf[r], NoSession>>,
           NEW ses, ses = <<ClientOf[r], SessionOf[r]>>
    PROVE  /\ contexts' \in Books(ContextRecord)
           /\ own \in DOMAIN contexts'
           /\ \A k \in DOMAIN contexts \ SessionKeys(contexts) : k \in DOMAIN contexts'
           /\ \A k \in DOMAIN contexts' :
                 /\ k \notin {own, ses} => k \in DOMAIN contexts /\ contexts'[k] = contexts[k]
                 /\ k \in {own, ses} =>
                       /\ contexts'[k].requests = Prior(k).requests + 1
                       /\ contexts'[k].actual = Prior(k).actual
                       /\ \A q : Has(contexts'[k].history, q) => q = r \/ Has(Prior(k).history, q)
           /\ Cardinality(SessionKeys(contexts)) <= Room
                => Cardinality(SessionKeys(contexts')) <= Room
<1> DEFINE first == Composed(WithContext(contexts, own, now), own, r)
<1>1. /\ contexts \in Books(ContextRecord) /\ now \in Nat
      /\ own \in Keys /\ ses \in Keys
    BY KeysOf DEF BooksTyped
<1>2. own[2] = NoSession /\ ses[2] = SessionOf[r]
    OBVIOUS
<1>3. Room \in Nat /\ retained \in Nat \ {0} /\ retained <= Room
    BY RoomTyped
<1>4. /\ WithContext(contexts, own, now) \in Books(ContextRecord)
      /\ \A k : k \in DOMAIN WithContext(contexts, own, now) <=> k \in DOMAIN contexts \/ k = own
      /\ \A k \in DOMAIN contexts : WithContext(contexts, own, now)[k] = contexts[k]
      /\ own \notin DOMAIN contexts => WithContext(contexts, own, now)[own] = NewContext(now)
    BY <1>1, WithContextFacts
<1>5. /\ first \in Books(ContextRecord)
      /\ DOMAIN first = DOMAIN WithContext(contexts, own, now)
      /\ \A k \in DOMAIN WithContext(contexts, own, now) \ {own} :
            first[k] = WithContext(contexts, own, now)[k]
      /\ first[own].requests = WithContext(contexts, own, now)[own].requests + 1
      /\ first[own].actual = WithContext(contexts, own, now)[own].actual
      /\ \A q : Has(first[own].history, q)
                  => q = r \/ Has(WithContext(contexts, own, now)[own].history, q)
    BY <1>1, <1>4, ComposedFacts
<1>6. WithContext(contexts, own, now)[own] = Prior(own)
    BY <1>4 DEF Prior
<1>7. /\ first \in Books(ContextRecord)
      /\ \A k : k \in DOMAIN first <=> k \in DOMAIN contexts \/ k = own
      /\ \A k \in DOMAIN contexts \ {own} : first[k] = contexts[k]
      /\ first[own].requests = Prior(own).requests + 1
      /\ first[own].actual = Prior(own).actual
      /\ \A q : Has(first[own].history, q) => q = r \/ Has(Prior(own).history, q)
    BY <1>4, <1>5, <1>6
<1>8. SessionKeys(first) = SessionKeys(contexts)
    BY <1>2, <1>7 DEF SessionKeys
<1>9. CASE SessionOf[r] = NoSession
  <2>1. contexts' = first
      BY <1>9 DEF RecordContext
  <2>2. ses = own
      BY <1>9
  <2> HIDE DEF first
  <2> QED BY <1>7, <1>8, <2>1, <2>2
<1>10. CASE SessionOf[r] # NoSession
  <2> DEFINE both == WithContext(first, ses, now)
  <2>1. PICK g \in ContextRoom(both, ses) : contexts' = Composed(g, ses, r)
      BY <1>10 DEF RecordContext
  <2> HIDE DEF first
  <2>2. ses # own /\ (ses \in DOMAIN first <=> ses \in DOMAIN contexts)
      BY <1>2, <1>7, <1>10
  <2>3. /\ both \in Books(ContextRecord)
        /\ \A k : k \in DOMAIN both <=> k \in DOMAIN first \/ k = ses
        /\ \A k \in DOMAIN first : both[k] = first[k]
        /\ ses \notin DOMAIN first => both[ses] = NewContext(now)
      BY <1>1, <1>7, WithContextFacts
  <2> HIDE DEF both
  <2>4. both[ses] = Prior(ses)
      BY <1>7, <2>2, <2>3 DEF Prior
  <2>5. /\ g \in Books(ContextRecord)
        /\ DOMAIN g \subseteq DOMAIN both /\ DOMAIN both \ SessionKeys(both) \subseteq DOMAIN g
        /\ \A k \in DOMAIN g : g[k] = both[k]
        /\ ses \notin DOMAIN contexts =>
              Cardinality(SessionKeys(g))
                = Cardinality(SessionKeys(both))
                  - (IF Cardinality(SessionKeys(both)) > retained THEN 1 ELSE 0)
      BY <1>2, <1>10, <2>1, <2>3, RoomIsBook
  <2>6. /\ contexts' \in Books(ContextRecord) /\ DOMAIN contexts' = DOMAIN g
        /\ \A k \in DOMAIN g \ {ses} : contexts'[k] = g[k]
        /\ ses \in DOMAIN g =>
              /\ contexts'[ses].requests = g[ses].requests + 1
              /\ contexts'[ses].actual = g[ses].actual
              /\ \A q : Has(contexts'[ses].history, q) => q = r \/ Has(g[ses].history, q)
      BY <1>1, <2>1, <2>5, ComposedFacts
  <2>7. own \in DOMAIN g /\ \A k \in DOMAIN contexts \ SessionKeys(contexts) : k \in DOMAIN g
      BY <1>2, <1>7, <2>3, <2>5 DEF SessionKeys
  <2>8. ASSUME Cardinality(SessionKeys(contexts)) <= Room
        PROVE  Cardinality(SessionKeys(contexts')) <= Room
    <3>1. SessionKeys(contexts') = SessionKeys(g)
        BY <2>6 DEF SessionKeys
    <3>2. /\ IsFiniteSet(SessionKeys(contexts)) /\ Cardinality(SessionKeys(contexts)) \in Nat
          /\ IsFiniteSet(SessionKeys(both)) /\ Cardinality(SessionKeys(both)) \in Nat
        BY <1>1, <2>3, SessionsOf
    <3>3. CASE ses \in DOMAIN contexts
      <4>1. SessionKeys(g) \subseteq SessionKeys(contexts)
          BY <1>2, <1>7, <2>3, <2>5, <3>3 DEF SessionKeys
      <4>2. Cardinality(SessionKeys(g)) \in Nat
            /\ Cardinality(SessionKeys(g)) <= Cardinality(SessionKeys(contexts))
          BY <3>2, <4>1, FS_Subset, FS_CardinalityType
      <4> QED BY <1>3, <2>8, <3>1, <3>2, <4>2
    <3>4. CASE ses \notin DOMAIN contexts
      <4>1. SessionKeys(both) = SessionKeys(contexts) \cup {ses} /\ ses \notin SessionKeys(contexts)
          BY <1>2, <1>7, <1>10, <2>3, <3>4 DEF SessionKeys
      <4>2. Cardinality(SessionKeys(both)) = Cardinality(SessionKeys(contexts)) + 1
          BY <3>2, <4>1, FS_AddElement
      <4> QED BY <1>3, <2>5, <2>8, <3>1, <3>2, <3>4, <4>2
    <3> QED BY <3>3, <3>4
  <2>9. ASSUME NEW k \in DOMAIN contexts'
        PROVE  /\ k \notin {own, ses} => k \in DOMAIN contexts /\ contexts'[k] = contexts[k]
               /\ k \in {own, ses} =>
                     /\ contexts'[k].requests = Prior(k).requests + 1
                     /\ contexts'[k].actual = Prior(k).actual
                     /\ \A q : Has(contexts'[k].history, q) => q = r \/ Has(Prior(k).history, q)
    <3>1. k \in DOMAIN g /\ k \in DOMAIN both /\ g[k] = both[k]
        BY <2>5, <2>6
    <3>2. CASE k = ses
        BY <2>4, <2>6, <3>1, <3>2
    <3>3. CASE k # ses
      <4>1. contexts'[k] = first[k] /\ k \in DOMAIN first
          BY <2>3, <2>6, <3>1, <3>3
      <4> QED BY <1>7, <3>3, <4>1
    <3> QED BY <3>2, <3>3
  <2> QED BY <2>6, <2>7, <2>8, <2>9
<1> QED BY <1>9, <1>10

\* The second phase, for the session and then for the client.
LEMMA ContextsUpdated ==
    ASSUME BooksTyped, NEW r \in Requests, UpdateContextUsage(r)
    PROVE  /\ contexts' \in Books(ContextRecord) /\ DOMAIN contexts' = DOMAIN contexts
           /\ \A k \in DOMAIN contexts :
                 /\ contexts'[k].requests = contexts[k].requests
                 /\ contexts'[k].history = contexts[k].history
                 /\ \/ contexts'[k].actual = contexts[k].actual
                    \/ /\ Has(contexts[k].history, r)
                       /\ contexts'[k].actual = contexts[k].actual + 1
<1> DEFINE own == <<ClientOf[r], NoSession>>
           ses == <<ClientOf[r], SessionOf[r]>>
           first == IF SessionOf[r] = NoSession THEN contexts ELSE Updated(contexts, ses, r)
<1>1. contexts \in Books(ContextRecord)
    BY DEF BooksTyped
<1>2. contexts \in [DOMAIN contexts -> ContextRecord]
    BY <1>1, BookFacts
<1>3. \A k \in DOMAIN contexts : contexts[k].actual \in Nat
    BY <1>2 DEF ContextRecord
<1>4. contexts' = Updated(first, own, r)
    BY DEF UpdateContextUsage
<1>5. /\ first \in Books(ContextRecord) /\ DOMAIN first = DOMAIN contexts
      /\ \A k \in DOMAIN contexts :
            /\ first[k].requests = contexts[k].requests
            /\ first[k].history = contexts[k].history
            /\ first[k].actual = contexts[k].actual
                 + (IF SessionOf[r] # NoSession /\ k = ses /\ Has(contexts[k].history, r)
                    THEN 1 ELSE 0)
  <2>1. CASE SessionOf[r] = NoSession
      BY <1>1, <1>3, <2>1
  <2>2. CASE SessionOf[r] # NoSession
      BY <1>1, <2>2, UpdatedFacts
  <2> QED BY <2>1, <2>2
<1> HIDE DEF first
<1>6. /\ contexts' \in Books(ContextRecord) /\ DOMAIN contexts' = DOMAIN first
      /\ \A k \in DOMAIN first :
            /\ contexts'[k].requests = first[k].requests
            /\ contexts'[k].history = first[k].history
            /\ contexts'[k].actual = first[k].actual
                 + (IF k = own /\ Has(first[k].history, r) THEN 1 ELSE 0)
    BY <1>4, <1>5, UpdatedFacts
<1>7. SessionOf[r] # NoSession => own # ses
    OBVIOUS
<1> HIDE DEF own, ses
<1>8. ASSUME NEW k \in DOMAIN contexts
      PROVE  /\ contexts'[k].requests = contexts[k].requests
             /\ contexts'[k].history = contexts[k].history
             /\ \/ contexts'[k].actual = contexts[k].actual
                \/ /\ Has(contexts[k].history, r)
                   /\ contexts'[k].actual = contexts[k].actual + 1
  <2>1. contexts[k].actual \in Nat
      BY <1>3
  <2> QED BY <1>5, <1>6, <1>7, <2>1
<1> QED BY <1>5, <1>6, <1>8

\* The contexts restored at boot are those of the file, but for the sessions that
\* are evicted and for the ends of the histories.
LEMMA ContextsRestored ==
    ASSUME NEW f \in Books(ContextRecord), NEW g \in RestoredContexts(f)
    PROVE  /\ g \in Books(ContextRecord)
           /\ \A k \in DOMAIN f \ SessionKeys(f) : k \in DOMAIN g
           /\ \A k \in DOMAIN g :
                 /\ k \in DOMAIN f
                 /\ g[k].requests = f[k].requests /\ g[k].actual = f[k].actual
                 /\ \A q : Has(g[k].history, q) => Has(f[k].history, q)
           /\ Cardinality(SessionKeys(g)) <= DefaultRetained
<1> DEFINE less(k) == SubSeq(f[k].history, 1, Smaller(DefaultHistory, Len(f[k].history)))
           cut == [k \in DOMAIN f |-> [f[k] EXCEPT !.history = less(k)]]
           n == Over(Cardinality(SessionKeys(cut)), DefaultRetained)
<1>1. /\ DOMAIN f \subseteq Keys /\ IsFiniteSet(DOMAIN f)
      /\ f \in [DOMAIN f -> ContextRecord]
    BY BookFacts
<1>2. g \in DropOldest(cut, SessionKeys(cut), n)
    BY DEF RestoredContexts
<1>3. \A k \in DOMAIN f : less(k) \in Seq(Requests)
                          /\ \A q : Has(less(k), q) => Has(f[k].history, q)
  <2> TAKE k \in DOMAIN f
  <2>1. f[k].history \in Seq(Requests)
      BY <1>1 DEF ContextRecord
  <2> QED BY <2>1, HistoryCut
<1> HIDE DEF less
<1>4. DOMAIN cut = DOMAIN f /\ \A k \in DOMAIN f :
          /\ cut[k] \in ContextRecord
          /\ cut[k].requests = f[k].requests /\ cut[k].actual = f[k].actual
          /\ cut[k].history = less(k)
    BY <1>1, <1>3 DEF ContextRecord
<1>5. cut \in [DOMAIN cut -> ContextRecord]
    BY <1>4
<1> HIDE DEF cut
<1>6. cut \in Books(ContextRecord)
    BY <1>1, <1>4, <1>5, BookFacts
<1>7. /\ SessionKeys(cut) \in SUBSET DOMAIN cut /\ IsFiniteSet(SessionKeys(cut))
      /\ Cardinality(SessionKeys(cut)) \in Nat
    BY <1>6, SessionsOf
<1>8. n \in Nat /\ Cardinality(SessionKeys(cut)) - n <= DefaultRetained
    BY <1>7, AccountingAssumption DEF AccountingAssumption, Over
<1> HIDE DEF n
<1>9. \A k \in DOMAIN cut \ SessionKeys(cut) : k \in DOMAIN g
    BY <1>2, <1>6, <1>7, <1>8, DroppedKeeps
<1>10. g \in Books(ContextRecord) /\ \A k \in DOMAIN g : k \in DOMAIN cut /\ g[k] = cut[k]
    BY <1>2, <1>6, <1>7, <1>8, Dropped
<1>11. SessionKeys(cut) = SessionKeys(f)
    BY <1>4 DEF SessionKeys
<1>12. Cardinality(SessionKeys(g)) <= DefaultRetained
  <2>1. PICK D \in SUBSET SessionKeys(cut) :
            /\ \A k : k \in DOMAIN g <=> k \in DOMAIN cut /\ k \notin D
            /\ Cardinality(D) = n
      BY <1>2, <1>6, <1>7, <1>8, Dropped
  <2>2. SessionKeys(g) = SessionKeys(cut) \ D
      BY <2>1 DEF SessionKeys
  <2>3. Cardinality(SessionKeys(g)) = Cardinality(SessionKeys(cut)) - n
      BY <1>7, <2>1, <2>2, SizeWithout
  <2> QED BY <1>8, <2>3
<1>13. \A k \in DOMAIN f \ SessionKeys(f) : k \in DOMAIN g
    BY <1>4, <1>9, <1>11
<1>14. \A k \in DOMAIN g :
          /\ k \in DOMAIN f
          /\ g[k].requests = f[k].requests /\ g[k].actual = f[k].actual
          /\ \A q : Has(g[k].history, q) => Has(f[k].history, q)
    BY <1>3, <1>4, <1>10
<1> QED BY <1>10, <1>12, <1>13, <1>14

LEMMA SessionsRestored ==
    ASSUME NEW f \in Books(SessionRecord),
           NEW g \in DropOldest(f, DOMAIN f, Over(Cardinality(DOMAIN f), DefaultRetained))
    PROVE  /\ g \in Books(SessionRecord)
           /\ Cardinality(DOMAIN g) <= DefaultRetained
<1> DEFINE n == Over(Cardinality(DOMAIN f), DefaultRetained)
<1>1. IsFiniteSet(DOMAIN f) /\ Cardinality(DOMAIN f) \in Nat
    BY SessionsOf
<1>2. n \in Nat /\ Cardinality(DOMAIN f) - n <= DefaultRetained
    BY <1>1, AccountingAssumption DEF AccountingAssumption, Over
<1> HIDE DEF n
<1> DEFINE C == DOMAIN f
<1>3. g \in DropOldest(f, C, n) /\ C \in SUBSET DOMAIN f
    BY DEF n
<1> HIDE DEF C
<1>4. g \in Books(SessionRecord)
    BY <1>2, <1>3, Dropped
<1>5. PICK D \in SUBSET C : /\ \A k : k \in DOMAIN g <=> k \in DOMAIN f /\ k \notin D
                           /\ IsFiniteSet(D) /\ Cardinality(D) = n
    BY <1>2, <1>3, Dropped
<1>6. DOMAIN g = DOMAIN f \ D /\ D \in SUBSET DOMAIN f
    BY <1>3, <1>5
<1>7. Cardinality(DOMAIN g) = Cardinality(DOMAIN f) - n
    BY <1>1, <1>5, <1>6, SizeWithout
<1> QED BY <1>2, <1>4, <1>7

-----------------------------------------------------------------------------
(* The actions that leave parts of the state alone.                        *)

\* What a request does between its first and its last record.
LEMMA WorkTyped ==
    ASSUME BooksTyped, NEW r \in Requests, Work(r)
    PROVE  BooksTyped'
<1>1. ClientOf[r] \in Clients
    BY KeysOf
<1>2. CASE RecordContext(r)
  <2>1. contexts' \in Books(ContextRecord)
      BY <1>2, ContextsRecorded
  <2> QED BY <1>2, <2>1 DEF RecordContext, GoTo, BooksTyped, Points, savers
<1>3. CASE Fail(r)
    BY <1>3 DEF Fail, GoTo, BooksTyped, Points, savers, books
<1>4. CASE IncUsage(r)
    BY <1>1, <1>4 DEF IncUsage, GoTo, BooksTyped, Points, savers
<1>5. CASE IncCost(r)
    BY <1>1, <1>5 DEF IncCost, GoTo, BooksTyped, Points, savers
<1>6. CASE RecordSession(r)
  <2>1. sessions' \in Books(SessionRecord)
      BY <1>6, SessionsRecorded
  <2> QED BY <1>6, <2>1 DEF RecordSession, GoTo, BooksTyped, Points, savers
<1>7. CASE UpdateContextUsage(r)
  <2>1. contexts' \in Books(ContextRecord)
      BY <1>7, ContextsUpdated
  <2> QED BY <1>7, <2>1 DEF UpdateContextUsage, GoTo, BooksTyped, Points, savers
<1> QED BY <1>2, <1>3, <1>4, <1>5, <1>6, <1>7 DEF Work

\* The image a saver begins with.
Begun == [Empty EXCEPT !.done = DoneRequests]

LEMMA BegunTyped == BooksTyped => Begun \in Images
<1>1. DoneRequests \in SUBSET Requests
    BY DEF DoneRequests
<1> QED BY <1>1, EmptyTyped DEF Begun, Images

LEMMA SaveTyped ==
    ASSUME BooksTyped, TickerFires \/ FinalSave \/ \E w \in Savers : SaveStep(w)
    PROVE  BooksTyped'
<1>1. Empty \in Images /\ Begun \in Images /\ "ticker" \in Savers /\ "final" \in Savers
    BY EmptyTyped, BegunTyped DEF Savers
<1>2. CASE TickerFires
  <2>1. image' = [image EXCEPT !["ticker"] = Begun]
      BY <1>2 DEF TickerFires, Begun, DoneRequests
  <2>2. image' \in [Savers -> Images]
      BY <1>1, <2>1 DEF BooksTyped
  <2> QED BY <1>1, <1>2, <2>2 DEF TickerFires, Save, BooksTyped, books
<1>3. CASE FinalSave
  <2>1. image' = [image EXCEPT !["final"] = Begun]
      BY <1>3 DEF FinalSave, Begun, DoneRequests
  <2>2. image' \in [Savers -> Images]
      BY <1>1, <2>1 DEF BooksTyped
  <2> QED BY <1>1, <1>3, <2>2 DEF FinalSave, Save, BooksTyped, books
<1>4. ASSUME NEW w \in Savers, SaveStep(w)
      PROVE  BooksTyped'
  <2>1. image[w] \in Images
      BY DEF BooksTyped
  <2>2. CASE CaptureUsage(w)
    <3>1. [image[w] EXCEPT !.usage = usage] \in Images
        BY <2>1 DEF BooksTyped, Images
    <3>2. image' = [image EXCEPT ![w] = [image[w] EXCEPT !.usage = usage]]
        BY <2>2 DEF CaptureUsage
    <3>3. image' \in [Savers -> Images]
        BY <3>1, <3>2 DEF BooksTyped
    <3> QED BY <2>2, <3>3 DEF CaptureUsage, Save, BooksTyped, books
  <2>3. CASE CaptureCost(w)
    <3>1. [image[w] EXCEPT !.cost = cost] \in Images
        BY <2>1 DEF BooksTyped, Images
    <3>2. image' = [image EXCEPT ![w] = [image[w] EXCEPT !.cost = cost]]
        BY <2>3 DEF CaptureCost
    <3>3. image' \in [Savers -> Images]
        BY <3>1, <3>2 DEF BooksTyped
    <3> QED BY <2>3, <3>3 DEF CaptureCost, Save, BooksTyped, books
  <2>4. CASE CaptureSessions(w)
    <3>1. [image[w] EXCEPT !.sessions = sessions] \in Images
        BY <2>1 DEF BooksTyped, Images
    <3>2. image' = [image EXCEPT ![w] = [image[w] EXCEPT !.sessions = sessions]]
        BY <2>4 DEF CaptureSessions
    <3>3. image' \in [Savers -> Images]
        BY <3>1, <3>2 DEF BooksTyped
    <3> QED BY <2>4, <3>3 DEF CaptureSessions, Save, BooksTyped, books
  <2>5. CASE CaptureContexts(w)
    <3>1. [image[w] EXCEPT !.contexts = contexts] \in Images
        BY <2>1 DEF BooksTyped, Images
    <3>2. image' = [image EXCEPT ![w] = [image[w] EXCEPT !.contexts = contexts]]
        BY <2>5 DEF CaptureContexts
    <3>3. image' \in [Savers -> Images]
        BY <3>1, <3>2 DEF BooksTyped
    <3> QED BY <2>5, <3>3 DEF CaptureContexts, Save, BooksTyped, books
  <2>6. CASE Rename(w)
    <3>1. file' \in Images /\ safe' \in SUBSET Requests /\ erased' \in SUBSET Requests
        BY <2>1, <2>6 DEF Rename, BooksTyped, Images
    <3>2. image' \in [Savers -> Images]
        BY <1>1, <2>6 DEF Rename, BooksTyped
    <3> QED BY <2>6, <3>1, <3>2 DEF Rename, Save, BooksTyped, books
  <2>7. CASE WriteFails(w)
    <3>1. image' \in [Savers -> Images]
        BY <1>1, <2>7 DEF WriteFails, BooksTyped
    <3> QED BY <2>7, <3>1 DEF WriteFails, Save, BooksTyped, books
  <2> QED BY <1>4, <2>2, <2>3, <2>4, <2>5, <2>6, <2>7 DEF SaveStep
<1> QED BY <1>2, <1>3, <1>4

LEMMA GoneTyped ==
    ASSUME BooksTyped, Gone, stops' \in 0..MaxStops
    PROVE  BooksTyped'
<1>1. Empty \in Images /\ <<>> \in Books(SessionRecord) /\ <<>> \in Books(ContextRecord)
    BY EmptyTyped, EmptyBook
<1>2. /\ usage' \in [Clients -> Nat] /\ cost' \in [Clients -> Nat]
      /\ sessions' = <<>> /\ contexts' = <<>>
    BY DEF Gone, CleanBooks, Empty
<1>3. pc' \in [Requests -> Points]
    BY DEF Gone, BooksTyped, Points
<1>4. /\ saving' \in [Savers -> {"off", "usage", "cost", "sessions", "contexts", "rename"}]
      /\ image' \in [Savers -> Images]
    BY <1>1 DEF Gone
<1>5. retained' \in Nat \ {0}
    BY AccountingAssumption DEF Gone, AccountingAssumption
<1> QED BY <1>1, <1>2, <1>3, <1>4, <1>5 DEF Gone, BooksTyped

LEMMA NextTyped == BooksTyped /\ [Next]_vars => BooksTyped'
<1> SUFFICES ASSUME BooksTyped, [Next]_vars PROVE BooksTyped'
    OBVIOUS
<1>1. ASSUME NEW r \in Requests, Work(r)
      PROVE  BooksTyped'
    BY <1>1, WorkTyped
<1>2. CASE TickerFires \/ FinalSave \/ \E w \in Savers : SaveStep(w)
    BY <1>2, SaveTyped
<1>3. CASE Boot
  <2>1. file \in Images
      BY DEF BooksTyped
  <2>2. /\ file.usage \in [Clients -> Nat] /\ file.cost \in [Clients -> Nat]
        /\ file.sessions \in Books(SessionRecord) /\ file.contexts \in Books(ContextRecord)
      BY <2>1 DEF Images
  <2>3. sessions' \in Books(SessionRecord)
      BY <1>3, <2>2, SessionsRestored DEF Boot
  <2>4. contexts' \in Books(ContextRecord)
      BY <1>3, <2>2, ContextsRestored DEF Boot
  <2>5. retained' \in Nat \ {0}
      BY <1>3, AccountingAssumption DEF Boot, BooksTyped, AccountingAssumption
  <2> QED BY <1>3, <2>2, <2>3, <2>4, <2>5 DEF Boot, BooksTyped, savers
<1>4. CASE BootClean
  <2>1. <<>> \in Books(SessionRecord) /\ <<>> \in Books(ContextRecord)
      BY EmptyBook
  <2>2. /\ usage' \in [Clients -> Nat] /\ cost' \in [Clients -> Nat]
        /\ sessions' \in Books(SessionRecord) /\ contexts' \in Books(ContextRecord)
      BY <1>4, <2>1 DEF BootClean, CleanBooks, Empty
  <2>3. retained' \in Nat \ {0}
      BY <1>4, AccountingAssumption DEF BootClean, BooksTyped, AccountingAssumption
  <2> QED BY <1>4, <2>2, <2>3 DEF BootClean, BooksTyped
<1>5. CASE Terminate
  <2>1. stops' \in 0..MaxStops
      BY <1>5, AccountingAssumption DEF Terminate, BooksTyped, AccountingAssumption
  <2> QED BY <1>5, <2>1 DEF Terminate, BooksTyped, books, savers
<1>6. CASE Close
    BY <1>6 DEF Close, BooksTyped, books, savers
<1>7. CASE Exit \/ Crash
  <2>1. Gone /\ stops' \in 0..MaxStops
      BY <1>7, AccountingAssumption DEF Exit, Crash, BooksTyped, AccountingAssumption
  <2> QED BY <2>1, GoneTyped
<1>8. CASE Tick
    BY <1>8 DEF Tick, BooksTyped, books, savers
<1>9. CASE Finished \/ UNCHANGED vars
    BY <1>9 DEF Finished, vars, BooksTyped, books, savers
<1> QED BY <1>1, <1>2, <1>3, <1>4, <1>5, <1>6, <1>7, <1>8, <1>9 DEF Next

-----------------------------------------------------------------------------
(* One saver at a time, and what is safe stays done.                       *)

\* A request only moves on, while the process runs, and the savers stand still.
LEMMA WorkMoves ==
    ASSUME BooksTyped, Savings, NEW r \in Requests, Work(r)
    PROVE  /\ Running /\ process' = process /\ UNCHANGED savers
           /\ pc[r] \in {"idle", "call", "cost", "session", "actual"}
           /\ pc'[r] \in {"call", "cost", "session", "actual", "done", "failed"}
           /\ \A q \in Requests : q # r => pc'[q] = pc[q]
<1>1. \E from, to : GoTo(r, from, to) /\ from \in {"idle", "call", "cost", "session", "actual"}
                    /\ to \in {"call", "cost", "session", "actual", "done", "failed"}
    BY DEF Work, RecordContext, Fail, IncUsage, IncCost, RecordSession, UpdateContextUsage
<1>2. /\ pc[r] \in {"idle", "call", "cost", "session", "actual"}
      /\ pc'[r] \in {"call", "cost", "session", "actual", "done", "failed"}
      /\ \A q \in Requests : q # r => pc'[q] = pc[q]
    BY <1>1 DEF GoTo, BooksTyped
<1>3. process' = process /\ UNCHANGED savers
    BY DEF Work, RecordContext, Fail, IncUsage, IncCost, RecordSession, UpdateContextUsage
<1>4. CASE RecordContext(r)
    BY <1>2, <1>3, <1>4 DEF RecordContext, Running
<1>5. CASE ~RecordContext(r)
  <2>1. pc[r] \in {"call", "cost", "session", "actual"}
      BY <1>5 DEF Work, Fail, IncUsage, IncCost, RecordSession, UpdateContextUsage, GoTo
  <2>2. r \in InFlight
      BY <2>1 DEF InFlight
  <2> QED BY <1>2, <1>3, <2>2 DEF Savings, Running
<1> QED BY <1>4, <1>5

LEMMA InitSavings == Init => Savings
BY DEF Init, Savings, Empty, Savers, InFlight, DoneRequests

LEMMA NextSavings == BooksTyped /\ Savings /\ [Next]_vars => Savings'
<1> SUFFICES ASSUME BooksTyped, Savings, [Next]_vars PROVE Savings'
    OBVIOUS
<1> USE DEF Savers
<1>1. ASSUME NEW r \in Requests, Work(r)
      PROVE  Savings'
  <2>1. DoneRequests \subseteq DoneRequests'
      BY <1>1, WorkMoves DEF DoneRequests
  <2>2. Running /\ process' = process /\ UNCHANGED savers
      BY <1>1, WorkMoves
  <2> QED BY <2>1, <2>2 DEF Savings, savers, Running
<1>2. CASE TickerFires
  <2>1. /\ saving["ticker"] = "off" /\ saving' = [saving EXCEPT !["ticker"] = "usage"]
        /\ image' = [image EXCEPT !["ticker"] = Begun]
        /\ process \in {"up", "draining"} /\ UNCHANGED <<process, pc, safe>>
      BY <1>2 DEF TickerFires, Save, Begun, DoneRequests
  <2>2. Begun.done = DoneRequests /\ DoneRequests' = DoneRequests /\ InFlight' = InFlight
      BY <2>1 DEF Begun, Empty, DoneRequests, InFlight
  <2>3. \A w \in Savers : /\ saving'[w] = IF w = "ticker" THEN "usage" ELSE saving[w]
                          /\ image'[w] = IF w = "ticker" THEN Begun ELSE image[w]
      BY <2>1 DEF BooksTyped
  <2> QED BY <2>1, <2>2, <2>3 DEF Savings
<1>3. CASE FinalSave
  <2>1. /\ saving["ticker"] = "off" /\ saving' = [saving EXCEPT !["final"] = "usage"]
        /\ image' = [image EXCEPT !["final"] = Begun]
        /\ process' = "stopping" /\ UNCHANGED <<pc, safe>>
      BY <1>3 DEF FinalSave, TickerGone, Save, Begun, DoneRequests
  <2>2. Begun.done = DoneRequests /\ DoneRequests' = DoneRequests /\ InFlight' = InFlight
      BY <2>1 DEF Begun, Empty, DoneRequests, InFlight
  <2>3. \A w \in Savers : /\ saving'[w] = IF w = "final" THEN "usage" ELSE saving[w]
                          /\ image'[w] = IF w = "final" THEN Begun ELSE image[w]
      BY <2>1 DEF BooksTyped
  <2> QED BY <2>1, <2>2, <2>3 DEF Savings
<1>4. ASSUME NEW w \in Savers, SaveStep(w)
      PROVE  Savings'
  <2>1. UNCHANGED <<process, pc>>
      BY <1>4 DEF SaveStep, CaptureUsage, CaptureCost, CaptureSessions, CaptureContexts,
                  Rename, WriteFails
  <2>2. DoneRequests' = DoneRequests /\ InFlight' = InFlight
      BY <2>1 DEF DoneRequests, InFlight
  <2>3. \A v \in Savers \ {w} : saving'[v] = saving[v] /\ image'[v] = image[v]
      BY <1>4 DEF SaveStep, CaptureUsage, CaptureCost, CaptureSessions, CaptureContexts,
                  Rename, WriteFails, Save, BooksTyped
  <2>4. saving[w] # "off" /\ \A v \in Savers \ {w} : saving[v] = "off"
      BY <1>4 DEF SaveStep, CaptureUsage, CaptureCost, CaptureSessions, CaptureContexts,
                  Rename, WriteFails, Save, Savings
  <2>5. CASE CaptureUsage(w) \/ CaptureCost(w) \/ CaptureSessions(w) \/ CaptureContexts(w)
    <3>1. image'[w].done = image[w].done /\ safe' = safe
        BY <2>5 DEF CaptureUsage, CaptureCost, CaptureSessions, CaptureContexts, BooksTyped, Images
    <3> QED BY <2>1, <2>2, <2>3, <2>4, <3>1 DEF Savings
  <2>6. CASE Rename(w) \/ WriteFails(w)
    <3>1. saving'[w] = "off" /\ image'[w].done = {}
        BY <2>6 DEF Rename, WriteFails, Save, BooksTyped, Empty
    <3>2. safe \subseteq safe' /\ safe' \subseteq DoneRequests
        BY <2>6 DEF Rename, WriteFails, Savings
    <3> QED BY <2>1, <2>2, <2>3, <2>4, <3>1, <3>2 DEF Savings
  <2> QED BY <1>4, <2>5, <2>6 DEF SaveStep
<1>5. CASE Boot \/ BootClean \/ Terminate \/ Close \/ Tick \/ Finished \/ UNCHANGED vars
  <2>1. UNCHANGED <<pc, saving, image, safe>>
      BY <1>5 DEF Boot, BootClean, Terminate, Close, Tick, Finished, vars, savers
  <2>2. DoneRequests' = DoneRequests /\ InFlight' = InFlight
      BY <2>1 DEF DoneRequests, InFlight
  <2> QED BY <1>5, <2>1, <2>2
          DEF Boot, BootClean, Terminate, Close, Tick, Finished, vars, Savings
<1>6. CASE Exit \/ Crash
  <2>1. Gone
      BY <1>6 DEF Exit, Crash
  <2>2. \A r \in Requests : pc'[r] \in {"idle", "done", "failed", "lost"}
      BY <2>1 DEF Gone, InFlight, BooksTyped
  <2>3. \A r \in Requests : pc'[r] = "done" <=> pc[r] = "done" /\ r \in safe
      BY <2>1 DEF Gone, InFlight
  <2>4. InFlight' = {} /\ DoneRequests' = safe /\ safe' = safe
      BY <2>1, <2>2, <2>3 DEF Gone, InFlight, DoneRequests, Savings
  <2>5. \A w \in Savers : saving'[w] = "off" /\ image'[w].done = {}
      BY <2>1 DEF Gone, Empty
  <2> QED BY <2>4, <2>5 DEF Savings
<1> QED BY <1>1, <1>2, <1>3, <1>4, <1>5, <1>6 DEF Next

-----------------------------------------------------------------------------
(* The ledgers: what a client is charged, in memory, in an image and in    *)
(* the file.                                                               *)

LEMMA Stages ==
    /\ DoneRequests \subseteq Paid /\ Paid \subseteq Charged
    /\ Charged \in SUBSET Requests /\ Paid \in SUBSET Requests
    /\ Billed \in SUBSET Requests /\ PaidOrLost \in SUBSET Requests
    /\ DoneRequests \in SUBSET Requests /\ PaidOrLost \subseteq Billed
BY DEF DoneRequests, Paid, Charged, Billed, PaidOrLost

LEMMA StagesNext ==
    /\ Billed' \in SUBSET Requests /\ PaidOrLost' \in SUBSET Requests
BY DEF Billed, PaidOrLost

LEMMA LedgerTypes ==
    ASSUME BooksTyped
    PROVE  /\ usage \in [Clients -> Nat] /\ cost \in [Clients -> Nat]
           /\ file.usage \in [Clients -> Nat] /\ file.cost \in [Clients -> Nat]
           /\ \A w \in Savers : /\ image[w].usage \in [Clients -> Nat]
                                /\ image[w].cost \in [Clients -> Nat]
           /\ safe \in SUBSET Requests /\ gone \in SUBSET Requests
           /\ erased \in SUBSET Requests
BY DEF BooksTyped, Images

\* What is saved stays right while more requests are charged.
LEMMA SavedKept ==
    ASSUME BooksTyped, Savings, FileRight, UNCHANGED <<file, safe, erased>>,
           Billed \subseteq Billed', PaidOrLost \subseteq PaidOrLost'
    PROVE  FileRight'
<1>1. /\ Between(safe \ erased, file.usage, Billed')
      /\ Between(safe \ erased, file.cost, PaidOrLost')
    BY LedgerTypes, Stages, StagesNext, BetweenWider DEF FileRight
<1>2. file' = file /\ safe' = safe /\ erased' = erased
    OBVIOUS
<1> QED BY <1>1, <1>2 DEF FileRight, Between

LEMMA ImageKept ==
    ASSUME BooksTyped, Savings, ImagesRight, NEW w \in Savers,
           saving'[w] \in {saving[w], "off"},
           (image'[w] = image[w] /\ gone' = gone) \/ saving'[w] = "off",
           Billed \subseteq Billed', PaidOrLost \subseteq PaidOrLost'
    PROVE  /\ saving'[w] \in {"cost", "sessions", "contexts", "rename"}
                => Between(image'[w].done \ gone', image'[w].usage, Billed')
           /\ saving'[w] \in {"sessions", "contexts", "rename"}
                => Between(image'[w].done \ gone', image'[w].cost, PaidOrLost')
<1>1. image[w].done \ gone \in SUBSET Requests
      /\ image[w].done \ gone \in SUBSET (image[w].done \ gone)
    BY DEF BooksTyped, Images
<1>2. ASSUME saving[w] \in {"cost", "sessions", "contexts", "rename"}
      PROVE  Between(image[w].done \ gone, image[w].usage, Billed')
  <2>1. Between(image[w].done \ gone, image[w].usage, Billed)
      BY <1>2 DEF ImagesRight
  <2> QED BY <1>1, <2>1, LedgerTypes, Stages, StagesNext, BetweenWider
<1>3. ASSUME saving[w] \in {"sessions", "contexts", "rename"}
      PROVE  Between(image[w].done \ gone, image[w].cost, PaidOrLost')
  <2>1. Between(image[w].done \ gone, image[w].cost, PaidOrLost)
      BY <1>3 DEF ImagesRight
  <2> QED BY <1>1, <2>1, LedgerTypes, Stages, StagesNext, BetweenWider
<1> QED BY <1>2, <1>3

LEMMA InitLedgers == Init => LedgersRight /\ ImagesRight /\ FileRight
<1> SUFFICES ASSUME Init PROVE LedgersRight /\ ImagesRight /\ FileRight
    OBVIOUS
<1>1. ~Running /\ \A w \in Savers : saving[w] = "off"
    BY DEF Init, Running
<1>2. \A c \in Clients : Of(c, {}) = 0 /\ Of(c, Billed) \in Nat /\ Of(c, PaidOrLost) \in Nat
    BY Counts, Stages, FS_EmptySet DEF Of
<1>3. /\ safe \ erased = {}
      /\ file.usage = [c \in Clients |-> 0] /\ file.cost = [c \in Clients |-> 0]
    BY DEF Init, Empty
<1> QED BY <1>1, <1>2, <1>3 DEF LedgersRight, ImagesRight, FileRight, Between

LEMMA WorkLedgers ==
    ASSUME BooksTyped, Savings, LedgersRight, NEW r \in Requests, Work(r)
    PROVE  LedgersRight' /\ Billed \subseteq Billed' /\ PaidOrLost \subseteq PaidOrLost'
<1>1. Between(Charged \ gone, usage, Billed) /\ Between(Paid \ gone, cost, PaidOrLost)
    BY WorkMoves DEF LedgersRight
<1>2. /\ Charged \in SUBSET Requests /\ Billed \in SUBSET Requests
      /\ Paid \in SUBSET Requests /\ PaidOrLost \in SUBSET Requests
      /\ Charged \ gone \in SUBSET Requests /\ Paid \ gone \in SUBSET Requests
    BY Stages
<1>3. gone' = gone
    BY WorkMoves DEF savers
<1>4. CASE RecordContext(r) \/ Fail(r) \/ RecordSession(r) \/ UpdateContextUsage(r)
  <2>1. UNCHANGED <<usage, cost>>
      BY <1>4 DEF RecordContext, Fail, RecordSession, UpdateContextUsage, books
  <2>2. \A q \in Requests :
          /\ pc'[q] \in {"cost", "session", "actual", "done"}
               <=> pc[q] \in {"cost", "session", "actual", "done"}
          /\ pc'[q] \in {"session", "actual", "done"} <=> pc[q] \in {"session", "actual", "done"}
          /\ pc'[q] = "lost" <=> pc[q] = "lost"
      BY <1>4 DEF RecordContext, Fail, RecordSession, UpdateContextUsage, GoTo, BooksTyped
  <2>3. /\ Charged' = Charged /\ Billed' = Billed /\ Paid' = Paid /\ PaidOrLost' = PaidOrLost
      BY <2>2 DEF Charged, Billed, Paid, PaidOrLost
  <2>4. Between(Charged' \ gone', usage', Billed') /\ Between(Paid' \ gone', cost', PaidOrLost')
      BY <1>1, <1>3, <2>1, <2>3
  <2> QED BY <2>3, <2>4 DEF LedgersRight, Between
<1>5. CASE IncUsage(r)
  <2>1. pc[r] = "call" /\ \A q \in Requests : pc'[q] = IF q = r THEN "cost" ELSE pc[q]
      BY <1>5 DEF IncUsage, GoTo, BooksTyped
  <2>2. /\ Charged' = Charged \cup {r} /\ Billed' = Billed \cup {r}
        /\ Paid' = Paid /\ PaidOrLost' = PaidOrLost
        /\ r \notin Charged /\ r \notin Billed
      BY <2>1 DEF Charged, Billed, Paid, PaidOrLost
  <2>3. usage' = [usage EXCEPT ![ClientOf[r]] = @ + 1] /\ cost' = cost
      BY <1>5 DEF IncUsage
  <2>4. /\ Between((Charged \ gone) \cup {r}, usage', Billed \cup {r})
        /\ usage' \in [Clients -> Nat]
    <3>1. r \notin Charged \ gone /\ ClientOf[r] \in Clients /\ usage \in [Clients -> Nat]
        BY <2>2, KeysOf, LedgerTypes
    <3>2. Between((Charged \ gone) \cup {r}, [usage EXCEPT ![ClientOf[r]] = @ + 1], Billed \cup {r})
        BY <1>1, <1>2, <2>2, <3>1, BetweenOneMore
    <3>3. [usage EXCEPT ![ClientOf[r]] = @ + 1] \in [Clients -> Nat]
        BY <3>1
    <3> QED BY <2>3, <3>2, <3>3
  <2>5. Between((Charged \cup {r}) \ gone, usage', Billed \cup {r})
    <3>1. /\ (Charged \ gone) \cup {r} \in SUBSET Requests
          /\ (Charged \cup {r}) \ gone \in SUBSET ((Charged \ gone) \cup {r})
          /\ Billed \cup {r} \in SUBSET Requests
        BY <1>2
    <3> QED BY <2>4, <3>1, BetweenWider
  <2>6. Between(Charged' \ gone', usage', Billed') /\ Between(Paid' \ gone', cost', PaidOrLost')
      BY <1>1, <1>3, <2>2, <2>3, <2>5
  <2> QED BY <2>2, <2>6 DEF LedgersRight, Between
<1>6. CASE IncCost(r)
  <2>1. pc[r] = "cost" /\ \A q \in Requests : pc'[q] = IF q = r THEN "session" ELSE pc[q]
      BY <1>6 DEF IncCost, GoTo, BooksTyped
  <2>2. /\ Paid' = Paid \cup {r} /\ PaidOrLost' = PaidOrLost \cup {r}
        /\ Charged' = Charged /\ Billed' = Billed
        /\ r \notin Paid /\ r \notin PaidOrLost
      BY <2>1 DEF Charged, Billed, Paid, PaidOrLost
  <2>3. cost' = [cost EXCEPT ![ClientOf[r]] = @ + 1] /\ usage' = usage
      BY <1>6 DEF IncCost
  <2>4. /\ Between((Paid \ gone) \cup {r}, cost', PaidOrLost \cup {r})
        /\ cost' \in [Clients -> Nat]
    <3>1. r \notin Paid \ gone /\ ClientOf[r] \in Clients /\ cost \in [Clients -> Nat]
        BY <2>2, KeysOf, LedgerTypes
    <3>2. Between((Paid \ gone) \cup {r}, [cost EXCEPT ![ClientOf[r]] = @ + 1], PaidOrLost \cup {r})
        BY <1>1, <1>2, <2>2, <3>1, BetweenOneMore
    <3>3. [cost EXCEPT ![ClientOf[r]] = @ + 1] \in [Clients -> Nat]
        BY <3>1
    <3> QED BY <2>3, <3>2, <3>3
  <2>5. Between((Paid \cup {r}) \ gone, cost', PaidOrLost \cup {r})
    <3>1. /\ (Paid \ gone) \cup {r} \in SUBSET Requests
          /\ (Paid \cup {r}) \ gone \in SUBSET ((Paid \ gone) \cup {r})
          /\ PaidOrLost \cup {r} \in SUBSET Requests
        BY <1>2
    <3> QED BY <2>4, <3>1, BetweenWider
  <2>6. Between(Charged' \ gone', usage', Billed') /\ Between(Paid' \ gone', cost', PaidOrLost')
      BY <1>1, <1>3, <2>2, <2>3, <2>5
  <2> QED BY <2>2, <2>6 DEF LedgersRight, Between
<1> QED BY <1>4, <1>5, <1>6 DEF Work

LEMMA SaveLedgers ==
    ASSUME BooksTyped, Savings, LedgersRight, ImagesRight, FileRight,
           NEW w \in Savers, SaveStep(w)
    PROVE  LedgersRight' /\ ImagesRight' /\ FileRight'
<1>1. UNCHANGED <<process, pc, usage, cost, gone>>
    BY DEF SaveStep, CaptureUsage, CaptureCost, CaptureSessions, CaptureContexts,
           Rename, WriteFails, books
<1>2. /\ Charged' = Charged /\ Billed' = Billed /\ Paid' = Paid /\ PaidOrLost' = PaidOrLost
    BY <1>1 DEF Charged, Billed, Paid, PaidOrLost
<1>3. LedgersRight'
  <2>1. Running => /\ Between(Charged' \ gone', usage', Billed')
                   /\ Between(Paid' \ gone', cost', PaidOrLost')
      BY <1>1, <1>2 DEF LedgersRight
  <2>2. Running' = Running
      BY <1>1 DEF Running
  <2> QED BY <2>1, <2>2 DEF LedgersRight, Between
<1>4. \A v \in Savers \ {w} : saving'[v] = saving[v] /\ image'[v] = image[v]
    BY DEF SaveStep, CaptureUsage, CaptureCost, CaptureSessions, CaptureContexts,
           Rename, WriteFails, Save, BooksTyped
<1>5. saving[w] # "off" /\ Running
    BY DEF SaveStep, CaptureUsage, CaptureCost, CaptureSessions, CaptureContexts,
           Rename, WriteFails, Save, Savings, Savers, Running
<1>6. /\ image[w].done \subseteq DoneRequests /\ safe \subseteq image[w].done
      /\ image[w] \in Images /\ image[w].done \in SUBSET Requests
    BY <1>5 DEF Savings, BooksTyped, Images
<1>7. /\ Between(image[w].done \ gone, usage, Billed)
      /\ Between(image[w].done \ gone, cost, PaidOrLost)
  <2>1. /\ image[w].done \ gone \in SUBSET (Charged \ gone)
        /\ image[w].done \ gone \in SUBSET (Paid \ gone)
        /\ Charged \ gone \in SUBSET Requests /\ Paid \ gone \in SUBSET Requests
      BY <1>6, Stages
  <2> QED BY <1>5, <2>1, Stages, LedgerTypes, BetweenWider DEF LedgersRight
<1> DEFINE Right(v) ==
       /\ saving'[v] \in {"cost", "sessions", "contexts", "rename"}
             => Between(image'[v].done \ gone', image'[v].usage, Billed')
       /\ saving'[v] \in {"sessions", "contexts", "rename"}
             => Between(image'[v].done \ gone', image'[v].cost, PaidOrLost')
<1>8. \A v \in Savers \ {w} : Right(v)
    BY <1>1, <1>2, <1>4, ImageKept
<1>9. CASE CaptureUsage(w) \/ CaptureCost(w) \/ CaptureSessions(w) \/ CaptureContexts(w)
  <2>1. UNCHANGED <<file, safe, erased>>
      BY <1>9 DEF CaptureUsage, CaptureCost, CaptureSessions, CaptureContexts
  <2>2. FileRight'
      BY <1>2, <2>1, SavedKept
  <2>3. ASSUME CaptureUsage(w)
        PROVE  Right(w)
    <3>1. /\ saving'[w] = "cost" /\ image'[w].usage = usage /\ image'[w].done = image[w].done
        BY <1>6, <2>3 DEF CaptureUsage, Save, BooksTyped, Images
    <3> QED BY <1>1, <1>2, <1>7, <3>1
  <2>4. ASSUME CaptureCost(w)
        PROVE  Right(w)
    <3>1. /\ saving[w] = "cost" /\ saving'[w] = "sessions" /\ image'[w].cost = cost
          /\ image'[w].done = image[w].done /\ image'[w].usage = image[w].usage
        BY <1>6, <2>4 DEF CaptureCost, Save, BooksTyped, Images
    <3>2. Between(image[w].done \ gone, image[w].usage, Billed)
        BY <3>1 DEF ImagesRight
    <3> QED BY <1>1, <1>2, <1>7, <3>1, <3>2
  <2>5. ASSUME CaptureSessions(w) \/ CaptureContexts(w)
        PROVE  Right(w)
    <3>1. /\ saving[w] \in {"sessions", "contexts"}
          /\ image'[w].done = image[w].done /\ image'[w].usage = image[w].usage
          /\ image'[w].cost = image[w].cost
        BY <1>6, <2>5 DEF CaptureSessions, CaptureContexts, Save, BooksTyped, Images
    <3>2. /\ Between(image[w].done \ gone, image[w].usage, Billed)
          /\ Between(image[w].done \ gone, image[w].cost, PaidOrLost)
        BY <3>1 DEF ImagesRight
    <3> QED BY <1>1, <1>2, <3>1, <3>2
  <2>6. Right(w)
      BY <1>9, <2>3, <2>4, <2>5
  <2>7. ImagesRight'
      BY <1>8, <2>6 DEF ImagesRight, Between
  <2> QED BY <1>3, <2>2, <2>7
<1>10. CASE WriteFails(w)
  <2>1. saving'[w] = "off" /\ UNCHANGED <<file, safe, erased>>
      BY <1>10 DEF WriteFails, Save, BooksTyped
  <2>2. FileRight'
      BY <1>2, <2>1, SavedKept
  <2>3. ImagesRight'
      BY <1>8, <2>1 DEF ImagesRight, Between
  <2> QED BY <1>3, <2>2, <2>3
<1>11. CASE Rename(w)
  <2>1. /\ saving[w] = "rename" /\ saving'[w] = "off"
        /\ file'.usage = image[w].usage /\ file'.cost = image[w].cost
        /\ safe' = safe \cup image[w].done /\ erased' = gone
      BY <1>6, <1>11 DEF Rename, Save, BooksTyped, Images
  <2>2. safe' = image[w].done
      BY <1>6, <2>1
  <2>3. /\ Between(image[w].done \ gone, image[w].usage, Billed)
        /\ Between(image[w].done \ gone, image[w].cost, PaidOrLost)
      BY <2>1 DEF ImagesRight
  <2>4. /\ Between(safe' \ erased', file'.usage, Billed')
        /\ Between(safe' \ erased', file'.cost, PaidOrLost')
      BY <1>2, <2>1, <2>2, <2>3
  <2>5. FileRight'
      BY <2>4 DEF FileRight, Between
  <2>6. ImagesRight'
      BY <1>8, <2>1 DEF ImagesRight, Between
  <2> QED BY <1>3, <2>5, <2>6
<1> QED BY <1>9, <1>10, <1>11 DEF SaveStep

LEMMA NextLedgers ==
    ASSUME BooksTyped, Savings, LedgersRight, ImagesRight, FileRight, [Next]_vars
    PROVE  LedgersRight' /\ ImagesRight' /\ FileRight'
<1>1. ASSUME NEW r \in Requests, Work(r)
      PROVE  LedgersRight' /\ ImagesRight' /\ FileRight'
  <2>1. LedgersRight' /\ Billed \subseteq Billed' /\ PaidOrLost \subseteq PaidOrLost'
      BY <1>1, WorkLedgers
  <2>2. UNCHANGED <<saving, image, file, safe, gone, erased>>
      BY <1>1, WorkMoves DEF savers
  <2>3. FileRight'
      BY <2>1, <2>2, SavedKept
  <2>4. ImagesRight'
      BY <2>1, <2>2, ImageKept DEF ImagesRight, Between
  <2> QED BY <2>1, <2>3, <2>4
<1>2. ASSUME NEW w \in Savers, SaveStep(w)
      PROVE  LedgersRight' /\ ImagesRight' /\ FileRight'
    BY <1>2, SaveLedgers
<1>3. CASE TickerFires \/ FinalSave
  <2>1. UNCHANGED <<pc, usage, cost, file, safe, gone, erased>> /\ Running
      BY <1>3 DEF TickerFires, FinalSave, TickerGone, books, Running
  <2>2. /\ Charged' = Charged /\ Billed' = Billed /\ Paid' = Paid /\ PaidOrLost' = PaidOrLost
      BY <2>1 DEF Charged, Billed, Paid, PaidOrLost
  <2>3. /\ Between(Charged' \ gone', usage', Billed')
        /\ Between(Paid' \ gone', cost', PaidOrLost')
      BY <2>1, <2>2 DEF LedgersRight
  <2>4. LedgersRight'
      BY <2>3 DEF LedgersRight, Between
  <2>5. FileRight'
      BY <2>1, <2>2, SavedKept
  <2>6. PICK w \in Savers : /\ saving' = [saving EXCEPT ![w] = "usage"]
                            /\ \A v \in Savers \ {w} : image'[v] = image[v]
      BY <1>3 DEF TickerFires, FinalSave, Save, Savers, BooksTyped
  <2>7. /\ saving'[w] = "usage"
        /\ \A v \in Savers \ {w} : saving'[v] = saving[v] /\ image'[v] = image[v]
      BY <2>6 DEF BooksTyped
  <2>8. ImagesRight'
      BY <2>1, <2>2, <2>7, ImageKept DEF ImagesRight, Between
  <2> QED BY <2>4, <2>5, <2>8
<1>4. CASE Terminate \/ Close \/ Tick \/ Finished \/ UNCHANGED vars
  <2>1. UNCHANGED <<pc, usage, cost, saving, image, file, safe, gone, erased>>
      BY <1>4 DEF Terminate, Close, Tick, Finished, vars, books, savers
  <2>2. /\ Charged' = Charged /\ Billed' = Billed /\ Paid' = Paid /\ PaidOrLost' = PaidOrLost
      BY <2>1 DEF Charged, Billed, Paid, PaidOrLost
  <2>3. FileRight' /\ ImagesRight'
      BY <2>1, <2>2, SavedKept, ImageKept DEF ImagesRight, Between
  <2>4. Running' = Running
      BY <1>4 DEF Terminate, Close, Tick, Finished, vars, Running
  <2>5. Running => /\ Between(Charged' \ gone', usage', Billed')
                   /\ Between(Paid' \ gone', cost', PaidOrLost')
      BY <2>1, <2>2 DEF LedgersRight
  <2> QED BY <2>3, <2>4, <2>5 DEF LedgersRight, Between
<1>5. CASE Boot \/ BootClean
  <2>1. UNCHANGED <<pc, saving, image, file, safe, erased>> /\ ~Running
      BY <1>5 DEF Boot, BootClean, Running
  <2>2. /\ Charged' = Charged /\ Billed' = Billed /\ Paid' = Paid /\ PaidOrLost' = PaidOrLost
      BY <2>1 DEF Charged, Billed, Paid, PaidOrLost
  <2>3. FileRight'
      BY <2>1, <2>2, SavedKept
  <2>4. \A w \in Savers : saving'[w] = "off"
      BY <2>1 DEF Savings, Savers, Running
  <2>5. ImagesRight'
      BY <2>4 DEF ImagesRight
  <2>6. Charged \subseteq safe /\ Paid \subseteq safe
      BY <2>1 DEF Savings, Running, InFlight, DoneRequests, Charged, Paid
  <2>7. CASE Boot
    <3>1. usage' = file.usage /\ cost' = file.cost /\ gone' = erased
        BY <2>7 DEF Boot
    <3>2. /\ Charged \ erased \in SUBSET (safe \ erased)
          /\ Paid \ erased \in SUBSET (safe \ erased) /\ safe \ erased \in SUBSET Requests
        BY <2>6, LedgerTypes
    <3>3. /\ Between(Charged \ erased, file.usage, Billed)
          /\ Between(Paid \ erased, file.cost, PaidOrLost)
        BY <3>2, LedgerTypes, Stages, BetweenWider DEF FileRight
    <3>4. /\ Between(Charged' \ gone', usage', Billed')
          /\ Between(Paid' \ gone', cost', PaidOrLost')
        BY <2>2, <3>1, <3>3
    <3> QED BY <2>3, <2>5, <3>4 DEF LedgersRight, Between
  <2>8. CASE BootClean
    <3>1. /\ \A c \in Clients : usage'[c] = 0 /\ cost'[c] = 0
          /\ Charged' \ gone' = {} /\ Paid' \ gone' = {}
        BY <2>2, <2>6, <2>8 DEF BootClean, CleanBooks, Empty
    <3>2. \A c \in Clients : Of(c, {}) = 0 /\ Of(c, Billed) \in Nat /\ Of(c, PaidOrLost) \in Nat
        BY Counts, Stages, FS_EmptySet DEF Of
    <3>3. /\ Between(Charged' \ gone', usage', Billed')
          /\ Between(Paid' \ gone', cost', PaidOrLost')
        BY <2>2, <3>1, <3>2 DEF Between
    <3> QED BY <2>3, <2>5, <3>3 DEF LedgersRight, Between
  <2> QED BY <1>5, <2>7, <2>8
<1>6. CASE Exit \/ Crash
  <2>1. Gone
      BY <1>6 DEF Exit, Crash
  <2>2. UNCHANGED <<file, safe, erased>> /\ ~Running' /\ \A w \in Savers : saving'[w] = "off"
      BY <2>1 DEF Gone, Running
  <2>3. \A r \in Requests : /\ pc[r] = "lost" => pc'[r] = "lost"
                            /\ pc[r] = "done" => pc'[r] \in {"done", "lost"}
                            /\ r \in InFlight => pc'[r] = "lost"
      BY <2>1 DEF Gone, InFlight
  <2>4. Billed \subseteq Billed' /\ PaidOrLost \subseteq PaidOrLost'
      BY <2>3 DEF Billed, PaidOrLost, InFlight
  <2>5. FileRight'
      BY <2>2, <2>4, SavedKept
  <2> QED BY <2>2, <2>5 DEF LedgersRight, ImagesRight
<1> QED BY <1>1, <1>2, <1>3, <1>4, <1>5, <1>6 DEF Next

-----------------------------------------------------------------------------
(* The records of sessions and contexts.                                   *)

LEMMA RecordTypes ==
    ASSUME BooksTyped
    PROVE  /\ contexts \in Books(ContextRecord) /\ sessions \in Books(SessionRecord)
           /\ file.contexts \in Books(ContextRecord) /\ file.sessions \in Books(SessionRecord)
           /\ \A w \in Savers : /\ image[w].contexts \in Books(ContextRecord)
                                /\ image[w].sessions \in Books(SessionRecord)
BY DEF BooksTyped, Images

LEMMA NumbersOf ==
    ASSUME NEW f \in Books(ContextRecord), NEW k \in DOMAIN f
    PROVE  f[k].requests \in Nat /\ f[k].actual \in Nat
<1>1. f \in [DOMAIN f -> ContextRecord]
    BY BookFacts
<1> QED BY <1>1 DEF ContextRecord

LEMMA EmptySound ==
    ASSUME NEW f, DOMAIN f = {}, NEW S
    PROVE  Sound(f, S) /\ Cardinality(SessionKeys(f)) = 0
<1>1. SessionKeys(f) = {} /\ Cardinality({}) = 0
    BY FS_EmptySet DEF SessionKeys
<1> QED BY <1>1 DEF Sound

\* A book of contexts stays sound while requests begin.
LEMMA SoundKept ==
    ASSUME NEW f, NEW S, NEW T, S \subseteq T, Sound(f, S)
    PROVE  Sound(f, T)
BY DEF Sound

LEMMA SoundRestored ==
    ASSUME NEW f \in Books(ContextRecord), NEW g \in RestoredContexts(f), NEW S, Sound(f, S)
    PROVE  Sound(g, S)
<1>1. /\ g \in Books(ContextRecord)
      /\ \A k \in DOMAIN f \ SessionKeys(f) : k \in DOMAIN g
      /\ \A k \in DOMAIN g :
            /\ k \in DOMAIN f
            /\ g[k].requests = f[k].requests /\ g[k].actual = f[k].actual
            /\ \A q : Has(g[k].history, q) => Has(f[k].history, q)
    BY ContextsRestored
<1>2. ASSUME NEW k \in SessionKeys(g)
      PROVE  /\ <<k[1], NoSession>> \in DOMAIN g
             /\ g[k].requests <= g[<<k[1], NoSession>>].requests
  <2>1. k \in SessionKeys(f) /\ k \in DOMAIN g
      BY <1>1 DEF SessionKeys
  <2>2. /\ <<k[1], NoSession>> \in DOMAIN f /\ <<k[1], NoSession>> \notin SessionKeys(f)
        /\ f[k].requests <= f[<<k[1], NoSession>>].requests
      BY <2>1 DEF Sound, SessionKeys
  <2> QED BY <1>1, <2>1, <2>2
<1> QED BY <1>1, <1>2 DEF Sound

LEMMA PendingFacts ==
    ASSUME NEW h, NEW S \in SUBSET Requests
    PROVE  /\ IsFiniteSet(Pending(h, S)) /\ Cardinality(Pending(h, S)) \in Nat
           /\ Pending(h, S) \subseteq Requests
<1>1. Pending(h, S) \subseteq Requests
    BY DEF Pending
<1>2. IsFiniteSet(Pending(h, S))
    BY <1>1, FS_Subset, AccountingAssumption DEF AccountingAssumption
<1> QED BY <1>1, <1>2, FS_CardinalityType

LEMMA PendingFewer ==
    ASSUME NEW h, NEW g, NEW S \in SUBSET Requests, NEW T \in SUBSET S,
           \A r \in T : Has(g, r) => Has(h, r)
    PROVE  Cardinality(Pending(g, T)) <= Cardinality(Pending(h, S))
<1>1. Pending(g, T) \subseteq Pending(h, S)
    BY DEF Pending
<1> QED BY <1>1, PendingFacts, FS_Subset

LEMMA PendingOneMore ==
    ASSUME NEW h, NEW g, NEW S \in SUBSET Requests, NEW r \in Requests,
           \A q \in S : Has(g, q) => q = r \/ Has(h, q)
    PROVE  Cardinality(Pending(g, S \cup {r})) <= Cardinality(Pending(h, S)) + 1
<1>1. Pending(g, S \cup {r}) \subseteq Pending(h, S) \cup {r}
    BY DEF Pending
<1>2. IsFiniteSet(Pending(h, S)) /\ Cardinality(Pending(h, S)) \in Nat
    BY PendingFacts
<1>3. /\ IsFiniteSet(Pending(h, S) \cup {r})
      /\ Cardinality(Pending(h, S) \cup {r}) \in {Cardinality(Pending(h, S)),
                                                  Cardinality(Pending(h, S)) + 1}
  <2>1. CASE r \in Pending(h, S)
    <3>1. Pending(h, S) \cup {r} = Pending(h, S)
        BY <2>1
    <3> QED BY <1>2, <3>1
  <2>2. CASE r \notin Pending(h, S)
      BY <1>2, <2>2, FS_AddElement
  <2> QED BY <2>1, <2>2
<1>4. /\ Cardinality(Pending(g, S \cup {r})) \in Nat
      /\ Cardinality(Pending(g, S \cup {r})) <= Cardinality(Pending(h, S) \cup {r})
    BY <1>1, <1>3, FS_Subset, FS_CardinalityType
<1> QED BY <1>2, <1>3, <1>4

LEMMA PendingOneLess ==
    ASSUME NEW h, NEW S \in SUBSET Requests, NEW r \in S, Has(h, r)
    PROVE  Cardinality(Pending(h, S \ {r})) + 1 = Cardinality(Pending(h, S))
<1>1. Pending(h, S \ {r}) = Pending(h, S) \ {r} /\ r \in Pending(h, S)
    BY DEF Pending
<1>2. IsFiniteSet(Pending(h, S)) /\ Cardinality(Pending(h, S)) \in Nat
    BY PendingFacts
<1>3. Cardinality(Pending(h, S) \ {r}) = Cardinality(Pending(h, S)) - 1
    BY <1>1, <1>2, FS_RemoveElement
<1>4. Cardinality(Pending(h, S \ {r})) = Cardinality(Pending(h, S)) - 1
    BY <1>1, <1>3
<1> HIDE DEF Pending
<1> QED BY <1>2, <1>4

\* The first phase: the request is new to every history.
LEMMA RecordContextRight ==
    ASSUME BooksTyped, Savings, ContextsRight, NEW r \in Requests, RecordContext(r)
    PROVE  ContextsRight'
<1> DEFINE own == <<ClientOf[r], NoSession>>
           ses == <<ClientOf[r], SessionOf[r]>>
<1>1. /\ contexts' \in Books(ContextRecord)
      /\ own \in DOMAIN contexts'
      /\ \A k \in DOMAIN contexts \ SessionKeys(contexts) : k \in DOMAIN contexts'
      /\ \A k \in DOMAIN contexts' :
            /\ k \notin {own, ses} => k \in DOMAIN contexts /\ contexts'[k] = contexts[k]
            /\ k \in {own, ses} =>
                  /\ contexts'[k].requests = Prior(k).requests + 1
                  /\ contexts'[k].actual = Prior(k).actual
                  /\ \A q : Has(contexts'[k].history, q) => q = r \/ Has(Prior(k).history, q)
      /\ Cardinality(SessionKeys(contexts)) <= Room => Cardinality(SessionKeys(contexts')) <= Room
    BY ContextsRecorded
<1>2. own[1] = ses[1] /\ own[2] = NoSession /\ (ses[2] = NoSession => ses = own)
    OBVIOUS
<1>3. \A k : <<k[1], NoSession>>[2] = NoSession
    OBVIOUS
<1>4. \A k : k[1] = own[1] => <<k[1], NoSession>> = own
    OBVIOUS
<1>5. \A k : <<k[1], NoSession>> = own => k[1] = own[1]
    OBVIOUS
<1> HIDE DEF own, ses
<1>6. pc[r] = "idle" /\ \A q \in Requests : pc'[q] = IF q = r THEN "call" ELSE pc[q]
    BY DEF RecordContext, GoTo, BooksTyped
<1>7. /\ InFlight' = InFlight \cup {r} /\ Started' = Started \cup {r} /\ r \notin Started
      /\ InFlight \in SUBSET Requests
    BY <1>6 DEF InFlight, Started
<1>8. Sound(contexts, Started) /\ contexts \in Books(ContextRecord) /\ now \in Nat
    BY DEF ContextsRight, BooksTyped
<1>9. ASSUME NEW k
      PROVE  /\ Prior(k).requests \in Nat /\ Prior(k).actual \in Nat
             /\ Prior(k).actual + Cardinality(Pending(Prior(k).history, InFlight))
                   <= Prior(k).requests
             /\ \A q \in Requests : Has(Prior(k).history, q) => q \in Started
  <2>1. CASE k \in DOMAIN contexts
      BY <1>8, <2>1, NumbersOf DEF Prior, ContextsRight, Sound
  <2>2. CASE k \notin DOMAIN contexts
    <3>1. Prior(k) = NewContext(now)
        BY <2>2 DEF Prior
    <3>2. /\ NewContext(now).requests = 0 /\ NewContext(now).actual = 0
          /\ \A q : ~Has(NewContext(now).history, q)
        BY <1>8, NewContextTyped
    <3>3. Pending(NewContext(now).history, InFlight) = {}
        BY <3>2 DEF Pending
    <3> QED BY <3>1, <3>2, <3>3, FS_EmptySet
  <2> QED BY <2>1, <2>2
<1>10. ASSUME NEW k \in DOMAIN contexts'
       PROVE  /\ contexts'[k].actual
                   + Cardinality(Pending(contexts'[k].history, InFlight \cup {r}))
                     <= contexts'[k].requests
              /\ \A q \in Requests : Has(contexts'[k].history, q) => q \in Started \cup {r}
  <2>1. CASE k \in {own, ses}
    <3>1. /\ contexts'[k].requests = Prior(k).requests + 1
          /\ contexts'[k].actual = Prior(k).actual
          /\ \A q : Has(contexts'[k].history, q) => q = r \/ Has(Prior(k).history, q)
        BY <1>1, <2>1
    <3>2. /\ Cardinality(Pending(contexts'[k].history, InFlight \cup {r}))
                <= Cardinality(Pending(Prior(k).history, InFlight)) + 1
        BY <1>7, <3>1, PendingOneMore
    <3>3. /\ Cardinality(Pending(contexts'[k].history, InFlight \cup {r})) \in Nat
          /\ Cardinality(Pending(Prior(k).history, InFlight)) \in Nat
      <4>1. InFlight \cup {r} \in SUBSET Requests
          BY <1>7
      <4> QED BY <1>7, <4>1, PendingFacts
    <3>4. \A q \in Requests : Has(contexts'[k].history, q) => q \in Started \cup {r}
        BY <1>9, <3>1
    <3>5. /\ Prior(k).requests \in Nat /\ Prior(k).actual \in Nat
          /\ Prior(k).actual + Cardinality(Pending(Prior(k).history, InFlight))
                <= Prior(k).requests
        BY <1>9
    <3>6. contexts'[k].actual + Cardinality(Pending(contexts'[k].history, InFlight \cup {r}))
            <= contexts'[k].requests
        BY <3>1, <3>2, <3>3, <3>5
    <3> QED BY <3>4, <3>6
  <2>2. CASE k \notin {own, ses}
    <3>1. k \in DOMAIN contexts /\ contexts'[k] = contexts[k]
        BY <1>1, <2>2
    <3>2. \A q \in Requests : Has(contexts[k].history, q) => q \in Started
        BY <1>8, <3>1 DEF Sound
    <3>3. Pending(contexts[k].history, InFlight \cup {r})
            = Pending(contexts[k].history, InFlight)
        BY <1>7, <3>2 DEF Pending
    <3>4. contexts[k].actual + Cardinality(Pending(contexts[k].history, InFlight))
            <= contexts[k].requests
        BY <3>1 DEF ContextsRight
    <3> QED BY <3>1, <3>2, <3>3, <3>4
  <2> QED BY <2>1, <2>2
<1>11. \A k \in DOMAIN contexts' : contexts'[k].actual <= contexts'[k].requests
  <2> TAKE k \in DOMAIN contexts'
  <2>1. InFlight \cup {r} \in SUBSET Requests
      BY <1>7
  <2>2. Cardinality(Pending(contexts'[k].history, InFlight \cup {r})) \in Nat
      BY <2>1, PendingFacts
  <2>3. contexts'[k].actual \in Nat /\ contexts'[k].requests \in Nat
      BY <1>1, NumbersOf
  <2> QED BY <1>10, <2>2, <2>3
<1>12. ASSUME NEW k \in SessionKeys(contexts')
       PROVE  /\ <<k[1], NoSession>> \in DOMAIN contexts'
              /\ contexts'[k].requests <= contexts'[<<k[1], NoSession>>].requests
  <2> DEFINE mine == <<k[1], NoSession>>
  <2>1. k \in DOMAIN contexts' /\ k[2] # NoSession /\ mine[2] = NoSession
      BY <1>3 DEF SessionKeys
  <2>2. k # own
      BY <1>2, <2>1
  <2>3. k \in DOMAIN contexts =>
            /\ mine \in DOMAIN contexts /\ mine \in DOMAIN contexts'
            /\ contexts[k].requests <= contexts[mine].requests
      BY <1>1, <1>8, <2>1 DEF Sound, SessionKeys
  <2>4. CASE k[1] = own[1]
    <3>1. mine = own
        BY <1>4, <2>4
    <3>2. contexts'[own].requests = Prior(own).requests + 1
        BY <1>1
    <3>3. CASE k = ses
      <4>1. contexts'[k].requests = Prior(k).requests + 1
          BY <1>1, <2>1, <3>3
      <4>2. Prior(k).requests <= Prior(own).requests
        <5>1. CASE k \in DOMAIN contexts
            BY <2>3, <3>1, <5>1 DEF Prior
        <5>2. CASE k \notin DOMAIN contexts
          <6>1. Prior(k).requests = 0
              BY <1>8, <5>2, NewContextTyped DEF Prior
          <6> QED BY <1>9, <6>1
        <5> QED BY <5>1, <5>2
      <4> QED BY <1>1, <1>9, <3>1, <3>2, <4>1, <4>2
    <3>4. CASE k # ses
      <4>1. k \in DOMAIN contexts /\ contexts'[k] = contexts[k]
          BY <1>1, <2>1, <2>2, <3>4
      <4>2. contexts[k].requests <= Prior(own).requests
          BY <2>3, <3>1, <4>1 DEF Prior
      <4>3. contexts[k].requests \in Nat
          BY <1>8, <4>1, NumbersOf
      <4> QED BY <1>1, <1>9, <3>1, <3>2, <4>1, <4>2, <4>3
    <3> QED BY <3>3, <3>4
  <2>5. CASE k[1] # own[1]
    <3>1. k # ses /\ mine # own
        BY <1>2, <1>5, <2>5
    <3>2. mine # ses
        BY <1>2, <2>1, <3>1
    <3>3. k \in DOMAIN contexts /\ contexts'[k] = contexts[k]
        BY <1>1, <2>1, <2>2, <3>1
    <3>4. contexts'[mine] = contexts[mine]
        BY <1>1, <2>3, <3>1, <3>2, <3>3
    <3> QED BY <2>3, <3>3, <3>4
  <2> QED BY <2>4, <2>5
<1>13. Sound(contexts', Started \cup {r})
    BY <1>10, <1>11, <1>12 DEF Sound
<1>14. Cardinality(SessionKeys(contexts')) <= Room /\ Room' = Room
    BY <1>1 DEF ContextsRight, RecordContext, Room
<1> QED BY <1>7, <1>10, <1>13, <1>14 DEF ContextsRight

\* Requests in flight that end leave less to count.
LEMMA ContextsKept ==
    ASSUME BooksTyped, ContextsRight, UNCHANGED <<contexts, retained>>,
           InFlight' \subseteq InFlight, Started \subseteq Started'
    PROVE  ContextsRight'
<1>1. Sound(contexts', Started')
    BY SoundKept DEF ContextsRight
<1>2. Cardinality(SessionKeys(contexts')) <= Room'
    BY DEF ContextsRight, Room
<1>3. InFlight \in SUBSET Requests /\ InFlight' \in SUBSET InFlight
    BY DEF InFlight
<1>4. ASSUME NEW k \in DOMAIN contexts
      PROVE  contexts[k].actual + Cardinality(Pending(contexts[k].history, InFlight'))
                <= contexts[k].requests
  <2>1. Cardinality(Pending(contexts[k].history, InFlight'))
          <= Cardinality(Pending(contexts[k].history, InFlight))
      BY <1>3, PendingFewer
  <2>2. /\ Cardinality(Pending(contexts[k].history, InFlight')) \in Nat
        /\ Cardinality(Pending(contexts[k].history, InFlight)) \in Nat
      BY <1>3, PendingFacts
  <2>3. contexts[k].actual \in Nat /\ contexts[k].requests \in Nat
      BY NumbersOf DEF BooksTyped
  <2>4. contexts[k].actual + Cardinality(Pending(contexts[k].history, InFlight))
          <= contexts[k].requests
      BY DEF ContextsRight
  <2> QED BY <2>1, <2>2, <2>3, <2>4
<1> QED BY <1>1, <1>2, <1>4 DEF ContextsRight

\* The second phase: what is counted in full was pending until now.
LEMMA UpdateUsageRight ==
    ASSUME BooksTyped, ContextsRight, NEW r \in Requests, UpdateContextUsage(r)
    PROVE  ContextsRight'
<1>1. /\ contexts' \in Books(ContextRecord) /\ DOMAIN contexts' = DOMAIN contexts
      /\ \A k \in DOMAIN contexts :
            /\ contexts'[k].requests = contexts[k].requests
            /\ contexts'[k].history = contexts[k].history
            /\ \/ contexts'[k].actual = contexts[k].actual
               \/ /\ Has(contexts[k].history, r)
                  /\ contexts'[k].actual = contexts[k].actual + 1
    BY ContextsUpdated
<1>2. pc[r] = "actual" /\ \A q \in Requests : pc'[q] = IF q = r THEN "done" ELSE pc[q]
    BY DEF UpdateContextUsage, GoTo, BooksTyped
<1>3. /\ InFlight' = InFlight \ {r} /\ r \in InFlight /\ Started' = Started
      /\ InFlight \in SUBSET Requests /\ InFlight \ {r} \in SUBSET InFlight
      /\ InFlight \ {r} \in SUBSET Requests
    BY <1>2 DEF InFlight, Started
<1>4. contexts \in Books(ContextRecord)
    BY DEF BooksTyped
<1>5. ASSUME NEW k \in DOMAIN contexts
      PROVE  /\ contexts'[k].actual
                  + Cardinality(Pending(contexts'[k].history, InFlight \ {r}))
                    <= contexts'[k].requests
             /\ contexts'[k].actual <= contexts'[k].requests
  <2> DEFINE before == Cardinality(Pending(contexts[k].history, InFlight))
             after == Cardinality(Pending(contexts[k].history, InFlight \ {r}))
  <2>1. before \in Nat /\ after \in Nat
      BY <1>3, PendingFacts
  <2>2. contexts[k].actual \in Nat /\ contexts[k].requests \in Nat
      BY <1>4, NumbersOf
  <2>3. contexts[k].actual + before <= contexts[k].requests
      BY DEF ContextsRight
  <2>4. after <= before
      BY <1>3, PendingFewer
  <2>5. Has(contexts[k].history, r) => after + 1 = before
      BY <1>3, PendingOneLess
  <2>6. /\ contexts'[k].history = contexts[k].history
        /\ contexts'[k].requests = contexts[k].requests
        /\ \/ contexts'[k].actual = contexts[k].actual
           \/ /\ Has(contexts[k].history, r)
              /\ contexts'[k].actual = contexts[k].actual + 1
      BY <1>1
  <2>7. Cardinality(Pending(contexts'[k].history, InFlight \ {r})) = after
      BY <2>6
  <2> HIDE DEF before, after
  <2> QED BY <2>1, <2>2, <2>3, <2>4, <2>5, <2>6, <2>7
<1>6. SessionKeys(contexts') = SessionKeys(contexts)
    BY <1>1 DEF SessionKeys
<1>7. Sound(contexts, Started)
    BY DEF ContextsRight
<1>8. ASSUME NEW k \in SessionKeys(contexts')
      PROVE  /\ <<k[1], NoSession>> \in DOMAIN contexts'
             /\ contexts'[k].requests <= contexts'[<<k[1], NoSession>>].requests
  <2>1. /\ k \in DOMAIN contexts /\ <<k[1], NoSession>> \in DOMAIN contexts
        /\ contexts[k].requests <= contexts[<<k[1], NoSession>>].requests
      BY <1>6, <1>7 DEF Sound, SessionKeys
  <2> QED BY <1>1, <2>1
<1>9. \A k \in DOMAIN contexts', q \in Requests : Has(contexts'[k].history, q) => q \in Started
    BY <1>1, <1>7 DEF Sound
<1>10. Sound(contexts', Started)
    BY <1>1, <1>5, <1>6, <1>7, <1>8, <1>9 DEF Sound
<1>11. Cardinality(SessionKeys(contexts')) <= Room'
    BY <1>6 DEF ContextsRight, UpdateContextUsage, Room
<1> QED BY <1>1, <1>3, <1>5, <1>10, <1>11 DEF ContextsRight

LEMMA InitRecords == Init => ContextsRight /\ SavedContextsRight /\ SessionsRight
<1> SUFFICES ASSUME Init PROVE ContextsRight /\ SavedContextsRight /\ SessionsRight
    OBVIOUS
<1>1. /\ contexts = <<>> /\ sessions = <<>> /\ file.contexts = <<>>
      /\ \A w \in Savers : image[w].contexts = <<>>
    BY DEF Init, Empty
<1>2. DOMAIN <<>> = {} /\ Cardinality(DOMAIN <<>>) = 0
    BY EmptyBook
<1>3. Sound(<<>>, Started) /\ Cardinality(SessionKeys(<<>>)) = 0
    BY <1>2, EmptySound
<1>4. DOMAIN contexts = {}
    BY <1>1, <1>2
<1>5. 0 <= Room
    BY InitTyped, RoomTyped
<1> QED BY <1>1, <1>2, <1>3, <1>4, <1>5 DEF ContextsRight, SavedContextsRight, SessionsRight

LEMMA NextContexts ==
    ASSUME BooksTyped, Savings, ContextsRight, SavedContextsRight, [Next]_vars
    PROVE  ContextsRight'
<1>1. ASSUME NEW r \in Requests, Work(r)
      PROVE  ContextsRight'
  <2>1. CASE RecordContext(r)
      BY <2>1, RecordContextRight
  <2>2. CASE UpdateContextUsage(r)
      BY <2>2, UpdateUsageRight
  <2>3. CASE Fail(r) \/ IncUsage(r) \/ IncCost(r) \/ RecordSession(r)
    <3>1. UNCHANGED <<contexts, retained>>
        BY <2>3 DEF Fail, IncUsage, IncCost, RecordSession, books
    <3>2. /\ pc[r] \in {"call", "cost", "session"}
          /\ \A q \in Requests : q # r => pc'[q] = pc[q]
          /\ pc'[r] # "idle"
        BY <2>3 DEF Fail, IncUsage, IncCost, RecordSession, GoTo, BooksTyped
    <3>3. InFlight' \subseteq InFlight /\ Started \subseteq Started'
        BY <3>2 DEF InFlight, Started
    <3> QED BY <3>1, <3>3, ContextsKept
  <2> QED BY <1>1, <2>1, <2>2, <2>3 DEF Work
<1>2. CASE Boot
  <2>1. UNCHANGED pc /\ contexts' \in RestoredContexts(file.contexts) /\ InFlight = {}
      BY <1>2 DEF Boot, Savings
  <2>2. Sound(contexts', Started)
      BY <2>1, RecordTypes, SoundRestored DEF SavedContextsRight
  <2>3. InFlight' = {} /\ Started' = Started
      BY <2>1 DEF InFlight, Started
  <2>4. contexts' \in Books(ContextRecord)
      BY <2>1, RecordTypes, ContextsRestored
  <2>5. ASSUME NEW k \in DOMAIN contexts'
        PROVE  contexts'[k].actual + Cardinality(Pending(contexts'[k].history, {}))
                 <= contexts'[k].requests
    <3>1. Pending(contexts'[k].history, {}) = {}
        BY DEF Pending
    <3>2. Cardinality(Pending(contexts'[k].history, {})) = 0
        BY <3>1, FS_EmptySet
    <3>3. contexts'[k].actual \in Nat
        BY <2>4, NumbersOf
    <3>4. contexts'[k].actual <= contexts'[k].requests
        BY <2>2 DEF Sound
    <3> QED BY <3>2, <3>3, <3>4
  <2>6. Cardinality(SessionKeys(contexts')) <= Room'
    <3>1. Cardinality(SessionKeys(contexts')) <= DefaultRetained
        BY <2>1, RecordTypes, ContextsRestored
    <3>2. Cardinality(SessionKeys(contexts')) \in Nat
        BY <2>4, SessionsOf
    <3>3. BooksTyped'
        BY NextTyped
    <3>4. DefaultRetained \in Nat /\ Room' \in Nat /\ DefaultRetained <= Room'
        BY <3>3, RoomTypedNext
    <3> QED BY <3>1, <3>2, <3>4
  <2> QED BY <2>2, <2>3, <2>5, <2>6 DEF ContextsRight
<1>3. CASE BootClean \/ Exit \/ Crash
  <2>1. contexts' = <<>>
      BY <1>3 DEF BootClean, Exit, Crash, Gone, CleanBooks
  <2>2. DOMAIN <<>> = {}
      BY EmptyBook
  <2>3. DOMAIN contexts' = {}
      BY <2>1, <2>2
  <2>4. Sound(contexts', Started') /\ Cardinality(SessionKeys(contexts')) = 0
      BY <2>3, EmptySound
  <2>5. BooksTyped'
      BY NextTyped
  <2>6. 0 <= Room'
      BY <2>5, RoomTypedNext
  <2> QED BY <2>3, <2>4, <2>6 DEF ContextsRight
<1>4. CASE \/ TickerFires \/ FinalSave \/ Terminate \/ Close \/ Tick \/ Finished
           \/ UNCHANGED vars \/ \E w \in Savers : SaveStep(w)
  <2>1. UNCHANGED <<pc, contexts, retained>>
      BY <1>4 DEF TickerFires, FinalSave, Terminate, Close, Tick, Finished, vars, books, SaveStep,
                  CaptureUsage, CaptureCost, CaptureSessions, CaptureContexts, Rename, WriteFails
  <2>2. InFlight' = InFlight /\ Started' = Started
      BY <2>1 DEF InFlight, Started
  <2> QED BY <2>1, <2>2, ContextsKept
<1> QED BY <1>1, <1>2, <1>3, <1>4 DEF Next

\* No request becomes idle again.
LEMMA StartedGrows ==
    ASSUME BooksTyped, Savings, [Next]_vars
    PROVE  Started \subseteq Started'
<1>1. ASSUME NEW r \in Requests, Work(r)
      PROVE  Started \subseteq Started'
    BY <1>1, WorkMoves DEF Started
<1>2. CASE Exit \/ Crash
    BY <1>2 DEF Exit, Crash, Gone, Started
<1>3. CASE ~(Exit \/ Crash \/ \E r \in Requests : Work(r))
  <2>1. UNCHANGED pc
      BY <1>3 DEF Next, TickerFires, FinalSave, Boot, BootClean, Terminate, Close, Tick, Finished,
                  vars, SaveStep, CaptureUsage, CaptureCost, CaptureSessions, CaptureContexts,
                  Rename, WriteFails
  <2> QED BY <2>1 DEF Started
<1> QED BY <1>1, <1>2, <1>3

\* Where the contexts of an image and of the file come from.
LEMMA ImagesFrom ==
    ASSUME BooksTyped, [Next]_vars, NEW w \in Savers
    PROVE  image'[w].contexts \in {image[w].contexts, contexts, <<>>}
<1>1. Empty.contexts = <<>> /\ Begun.contexts = <<>>
    BY DEF Empty, Begun
<1>2. CASE \E v \in Savers : SaveStep(v)
  <2>1. PICK v \in Savers : SaveStep(v)
      BY <1>2
  <2>2. v # w => image'[w] = image[w]
      BY <2>1 DEF SaveStep, CaptureUsage, CaptureCost, CaptureSessions, CaptureContexts, Rename,
                  WriteFails, BooksTyped
  <2>3. v = w => image'[w].contexts \in {image[w].contexts, contexts, Empty.contexts}
      BY <2>1 DEF SaveStep, CaptureUsage, CaptureCost, CaptureSessions, CaptureContexts, Rename,
                  WriteFails, BooksTyped, Images
  <2> QED BY <1>1, <2>2, <2>3
<1>3. CASE TickerFires \/ FinalSave
  <2>1. \E v \in Savers : image' = [image EXCEPT ![v] = Begun]
      BY <1>3 DEF TickerFires, FinalSave, Savers, Begun, DoneRequests
  <2>2. image'[w] = image[w] \/ image'[w] = Begun
      BY <2>1 DEF BooksTyped
  <2> QED BY <1>1, <2>2
<1>4. CASE Exit \/ Crash
    BY <1>1, <1>4 DEF Exit, Crash, Gone
<1>5. CASE ~(TickerFires \/ FinalSave \/ Exit \/ Crash \/ \E v \in Savers : SaveStep(v))
  <2>1. UNCHANGED image
      BY <1>5 DEF Next, Work, RecordContext, Fail, IncUsage, IncCost, RecordSession,
                  UpdateContextUsage, Boot, BootClean, Terminate, Close, Tick, Finished, vars, savers
  <2> QED BY <2>1
<1> QED BY <1>2, <1>3, <1>4, <1>5

LEMMA FileFrom ==
    ASSUME BooksTyped, [Next]_vars
    PROVE  \/ file'.contexts = file.contexts
           \/ \E w \in Savers : file'.contexts = image[w].contexts
<1>1. CASE \E w \in Savers : Rename(w)
    BY <1>1 DEF Rename, BooksTyped, Images
<1>2. CASE ~\E w \in Savers : Rename(w)
  <2>1. UNCHANGED file
      BY <1>2 DEF Next, Work, RecordContext, Fail, IncUsage, IncCost, RecordSession,
                  UpdateContextUsage, TickerFires, FinalSave, Boot, BootClean, Terminate, Close, Exit,
                  Crash, Gone, Tick, Finished, vars, savers, SaveStep, CaptureUsage, CaptureCost,
                  CaptureSessions, CaptureContexts, WriteFails
  <2> QED BY <2>1
<1> QED BY <1>1, <1>2

LEMMA NextSavedContexts ==
    ASSUME BooksTyped, Savings, ContextsRight, SavedContextsRight, [Next]_vars
    PROVE  SavedContextsRight'
<1>1. Started \subseteq Started'
    BY StartedGrows
<1>2. /\ Sound(contexts, Started') /\ Sound(file.contexts, Started')
      /\ \A w \in Savers : Sound(image[w].contexts, Started')
    BY <1>1, SoundKept DEF ContextsRight, SavedContextsRight
<1>3. Sound(<<>>, Started')
    BY EmptyBook, EmptySound
<1>4. Sound(file'.contexts, Started')
    BY <1>2, FileFrom
<1>5. \A w \in Savers : Sound(image'[w].contexts, Started')
    BY <1>2, <1>3, ImagesFrom
<1> QED BY <1>4, <1>5 DEF SavedContextsRight

LEMMA NextSessions ==
    ASSUME BooksTyped, SessionsRight, [Next]_vars
    PROVE  SessionsRight'
<1>1. BooksTyped'
    BY NextTyped
<1>2. Room' \in Nat /\ DefaultRetained \in Nat /\ DefaultRetained <= Room'
    BY <1>1, RoomTypedNext
<1>3. CASE \E r \in Requests : RecordSession(r)
    BY <1>3, SessionsRecorded DEF SessionsRight, RecordSession, Room
<1>4. CASE Boot
  <2>1. sessions' \in Books(SessionRecord) /\ Cardinality(DOMAIN sessions') <= DefaultRetained
      BY <1>4, RecordTypes, SessionsRestored DEF Boot
  <2>2. Cardinality(DOMAIN sessions') \in Nat
      BY <2>1, SessionsOf
  <2> QED BY <1>2, <2>1, <2>2 DEF SessionsRight
<1>5. CASE BootClean \/ Exit \/ Crash
  <2>1. sessions' = <<>>
      BY <1>5 DEF BootClean, Exit, Crash, Gone, CleanBooks
  <2>2. Cardinality(DOMAIN sessions') = 0
      BY <2>1, EmptyBook
  <2> QED BY <1>2, <2>2 DEF SessionsRight
<1>6. CASE ~(Boot \/ BootClean \/ Exit \/ Crash \/ \E r \in Requests : RecordSession(r))
  <2>1. UNCHANGED <<sessions, retained>>
      BY <1>6 DEF Next, Work, RecordContext, Fail, IncUsage, IncCost, UpdateContextUsage,
                  TickerFires, FinalSave, Terminate, Close, Tick, Finished, vars, books, SaveStep,
                  CaptureUsage, CaptureCost, CaptureSessions, CaptureContexts, Rename, WriteFails
  <2> QED BY <2>1 DEF SessionsRight, Room
<1> QED BY <1>3, <1>4, <1>5, <1>6

-----------------------------------------------------------------------------
(* The theorems.                                                           *)

LEMMA InitAccount == Init => AccountInv
BY InitTyped, InitSavings, InitLedgers, InitRecords DEF AccountInv

LEMMA NextAccount == AccountInv /\ [Next]_vars => AccountInv'
<1> SUFFICES ASSUME AccountInv, [Next]_vars PROVE AccountInv'
    OBVIOUS
<1> USE DEF AccountInv
<1>1. BooksTyped' /\ Savings'
    BY NextTyped, NextSavings
<1>2. LedgersRight' /\ ImagesRight' /\ FileRight'
    BY NextLedgers
<1>3. ContextsRight' /\ SavedContextsRight' /\ SessionsRight'
    BY NextContexts, NextSavedContexts, NextSessions
<1> QED BY <1>1, <1>2, <1>3

\* The records have their types and the inductive invariant holds, whatever is saved,
\* lost and restored.
THEOREM AccountInvAlways == Spec => []AccountInv
<1>1. Init => AccountInv
    BY InitAccount
<1>2. AccountInv /\ [Next]_vars => AccountInv'
    BY NextAccount
<1> QED BY <1>1, <1>2, PTL DEF Spec

\* No request that a save began with is lost to the ledgers, but where a boot could not
\* read the file, nor to the file, but where such a process has overwritten it; and none
\* is charged twice.
THEOREM SavedNeverLostAlways == Spec => []SavedNeverLost
<1>1. AccountInv => SavedNeverLost
  <2> SUFFICES ASSUME AccountInv PROVE SavedNeverLost
      OBVIOUS
  <2> USE DEF AccountInv
  <2>1. ASSUME Running
        PROVE  Between(safe \ gone, usage, Billed) /\ Between(safe \ gone, cost, Billed)
    <3>1. /\ safe \ gone \in SUBSET (Charged \ gone) /\ safe \ gone \in SUBSET (Paid \ gone)
          /\ Charged \ gone \in SUBSET Requests /\ Paid \ gone \in SUBSET Requests
        BY Stages DEF Savings
    <3> QED BY <2>1, <3>1, Stages, LedgerTypes, BetweenWider DEF LedgersRight
  <2>2. Between(safe \ erased, file.usage, Billed) /\ Between(safe \ erased, file.cost, Billed)
    <3>1. safe \ erased \in SUBSET (safe \ erased) /\ safe \ erased \in SUBSET Requests
        BY LedgerTypes
    <3> QED BY <3>1, Stages, LedgerTypes, BetweenWider DEF FileRight
  <2> QED BY <2>1, <2>2 DEF SavedNeverLost, Between
<1> QED BY <1>1, AccountInvAlways, PTL

\* Retention holds, within the limit in force or the one of the boot, and the record of
\* a client covers those of its sessions, after evictions, torn saves and restarts.
THEOREM ClientRecordCompleteAlways == Spec => []ClientRecordComplete
<1>1. AccountInv => ClientRecordComplete
    BY DEF AccountInv, ContextsRight, SessionsRight, Room, Sound, ClientRecordComplete, OfSession
<1> QED BY <1>1, AccountInvAlways, PTL

=============================================================================
