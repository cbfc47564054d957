--------------------------- MODULE CatalogsProofs ---------------------------
(***************************************************************************)
(* Proofs about the catalogs: what mofgw-sync makes of a file and an       *)
(* upstream catalog (SyncPlan), what the gateway then sends of it (Wire),  *)
(* what the clients are told of it (ClientConfig), and the file it is      *)
(* computed from (ModelsCache).                                            *)
(*                                                                         *)
(* The first part is about the operators those modules are built from:     *)
(* the extremes and the ascending order of a finite set of integers, from  *)
(* least elements among its subsets and from the pigeonhole principle.     *)
(* The second is the invariant of the synchronised file, for any catalog,  *)
(* any models and any number of runs.  The third follows one body to each  *)
(* attempt of its chain, and the fourth compares that with what the        *)
(* generators tell a client.  The last is the models cache, for any number *)
(* of runs at once, any TTL and any failures.                              *)
(***************************************************************************)
EXTENDS ClientConfig, ModelsCache, FiniteSetTheorems, WellFoundedInduction, TLAPS

-----------------------------------------------------------------------------
(* Finite sets of integers.                                                *)

\* Of the subsets of a finite set, some one of each family has none below it.
LEMMA SmallestSubset ==
    ASSUME NEW S, IsFiniteSet(S), NEW T \in SUBSET (SUBSET S), T # {}
    PROVE  \E x \in T : \A y \in T : ~(y \subseteq x /\ y # x)
<1>1. IsWellFoundedOn(StrictSubsetOrdering(S), SUBSET S)
    BY FS_StrictSubsetOrderingWellFounded, FS_FiniteSubsetsOfFinite
<1>2. \E x \in T : \A y \in T : ~(<<y, x>> \in StrictSubsetOrdering(S))
    BY <1>1, WFMin
<1> QED BY <1>2 DEF StrictSubsetOrdering

\* So some member of a finite set has the smallest of the subsets its members stand for.
LEMMA SmallestOf ==
    ASSUME NEW S, IsFiniteSet(S), S # {}, NEW f \in [S -> SUBSET S]
    PROVE  \E x \in S : \A y \in S : ~(f[y] \subseteq f[x] /\ f[y] # f[x])
<1> DEFINE T == {f[x] : x \in S}
<1>1. T \in SUBSET (SUBSET S) /\ T # {}
    OBVIOUS
<1>2. \E t \in T : \A u \in T : ~(u \subseteq t /\ u # t)
  <2> HIDE DEF T
  <2> QED BY <1>1, SmallestSubset
<1> QED BY <1>2

\* A finite set of integers has a least member.
LEMMA MinIsLeast ==
    ASSUME NEW S, IsFiniteSet(S), \A z \in S : z \in Int, S # {}
    PROVE  Min(S) \in S /\ \A y \in S : Min(S) <= y
<1> DEFINE Upto(x) == {y \in S : y <= x}
           f == [x \in S |-> Upto(x)]
<1>1. f \in [S -> SUBSET S]
    OBVIOUS
<1>2. \E x \in S : \A y \in S : ~(f[y] \subseteq f[x] /\ f[y] # f[x])
  <2> HIDE DEF f
  <2> QED BY <1>1, SmallestOf
<1>3. PICK x \in S : \A y \in S : ~(Upto(y) \subseteq Upto(x) /\ Upto(y) # Upto(x))
    BY <1>2
<1>4. \A y \in S : x <= y
  <2> SUFFICES ASSUME NEW y \in S, ~(x <= y)
               PROVE  FALSE
      OBVIOUS
  <2>1. y < x /\ x \notin Upto(y) /\ x \in Upto(x)
      OBVIOUS
  <2>2. \A z \in S : z <= y => z <= x
      BY <2>1
  <2>3. Upto(y) \subseteq Upto(x)
      BY <2>2
  <2> QED BY <1>3, <2>1, <2>3
<1> QED BY <1>4 DEF Min

\* And a greatest one.
LEMMA MaxIsGreatest ==
    ASSUME NEW S, IsFiniteSet(S), \A z \in S : z \in Int, S # {}
    PROVE  Max(S) \in S /\ \A y \in S : Max(S) >= y
<1> DEFINE From(x) == {y \in S : y >= x}
           f == [x \in S |-> From(x)]
<1>1. f \in [S -> SUBSET S]
    OBVIOUS
<1>2. \E x \in S : \A y \in S : ~(f[y] \subseteq f[x] /\ f[y] # f[x])
  <2> HIDE DEF f
  <2> QED BY <1>1, SmallestOf
<1>3. PICK x \in S : \A y \in S : ~(From(y) \subseteq From(x) /\ From(y) # From(x))
    BY <1>2
<1>4. \A y \in S : x >= y
  <2> SUFFICES ASSUME NEW y \in S, ~(x >= y)
               PROVE  FALSE
      OBVIOUS
  <2>1. y > x /\ x \notin From(y) /\ x \in From(x)
      OBVIOUS
  <2>2. \A z \in S : z >= y => z >= x
      BY <2>1
  <2>3. From(y) \subseteq From(x)
      BY <2>2
  <2> QED BY <1>3, <2>1, <2>3
<1> QED BY <1>4 DEF Max

\* The least member is the only one below all.
LEMMA MinIs ==
    ASSUME NEW S, \A z \in S : z \in Int, NEW x \in S, \A y \in S : x <= y
    PROVE  Min(S) = x
<1>1. \A z \in S : (\A y \in S : z <= y) => z = x
    OBVIOUS
<1> QED BY <1>1 DEF Min

\* The smaller of two numbers.
LEMMA MinOfTwo ==
    ASSUME NEW a \in Int, NEW z \in Int
    PROVE  Min({a, z}) = IF a <= z THEN a ELSE z
<1> DEFINE S == {a, z}
           v == IF a <= z THEN a ELSE z
<1>1. (\A x \in S : x \in Int /\ v <= x) /\ v \in S
    OBVIOUS
<1> HIDE DEF S, v
<1>2. Min(S) = v
    BY <1>1, MinIs
<1> QED BY <1>2 DEF S, v

Rank(S, x) == Cardinality({y \in S : y <= x})

\* Members are counted from one, and no two have the same place.
LEMMA RankInjective ==
    ASSUME NEW S, IsFiniteSet(S), S \subseteq Int
    PROVE  /\ \A x \in S : Rank(S, x) \in 1..Cardinality(S)
           /\ \A x, y \in S : Rank(S, x) = Rank(S, y) => x = y
<1> DEFINE Upto(x) == {y \in S : y <= x}
<1>1. ASSUME NEW x \in S
      PROVE  /\ IsFiniteSet(Upto(x)) /\ Cardinality(Upto(x)) \in Nat
             /\ Cardinality(Upto(x)) <= Cardinality(S)
             /\ Cardinality(S) \in Nat /\ Cardinality(Upto(x)) # 0
  <2>1. Upto(x) \in SUBSET S /\ x \in Upto(x)
      OBVIOUS
  <2> HIDE DEF Upto
  <2> QED BY <2>1, FS_Subset, FS_CardinalityType, FS_EmptySet
<1>2. ASSUME NEW x \in S, NEW y \in S, x < y
      PROVE  Cardinality(Upto(x)) # Cardinality(Upto(y))
  <2>a. x \in Int /\ y \in Int /\ \A z \in S : z \in Int
      OBVIOUS
  <2>b. \A z \in S : z <= x => z <= y
      BY <1>2, <2>a
  <2>c. ~(y <= x) /\ y <= y
      BY <1>2, <2>a
  <2>1. Upto(x) \in SUBSET Upto(y) /\ y \in Upto(y) /\ y \notin Upto(x)
      BY <2>b, <2>c
  <2>2. IsFiniteSet(Upto(y))
      BY <1>1
  <2> HIDE DEF Upto
  <2> QED BY <2>1, <2>2, FS_Subset
<1>3. \A x \in S : Rank(S, x) \in 1..Cardinality(S)
    BY <1>1 DEF Rank
<1>4. ASSUME NEW x \in S, NEW y \in S, Rank(S, x) = Rank(S, y)
      PROVE  x = y
    BY <1>2, <1>4 DEF Rank
<1> QED BY <1>3, <1>4

\* So every place is somebody's.
LEMMA RankSurjective ==
    ASSUME NEW S, IsFiniteSet(S), S \subseteq Int, NEW n \in 1..Cardinality(S)
    PROVE  \E x \in S : Rank(S, x) = n
<1> SUFFICES ASSUME \A x \in S : Rank(S, x) # n
             PROVE  FALSE
    OBVIOUS
<1> DEFINE N == 1..Cardinality(S)
           T == N \ {n}
           f == [x \in S |-> Rank(S, x)]
<1>1. Cardinality(S) \in Nat
    BY FS_CardinalityType
<1>2. IsFiniteSet(N) /\ Cardinality(N) = Cardinality(S)
    BY <1>1, FS_Interval
<1>3. IsFiniteSet(T) /\ Cardinality(T) = Cardinality(N) - 1
    BY <1>2, FS_RemoveElement
<1>4. f \in [S -> T]
  <2>1. \A x \in S : Rank(S, x) \in N /\ Rank(S, x) # n
      BY RankInjective
  <2> QED BY <2>1
<1>5. \A x, y \in S : f[x] = f[y] => x = y
    BY RankInjective
<1>6. Cardinality(T) < Cardinality(S)
    BY <1>1, <1>2, <1>3
<1> HIDE DEF f, T, N
<1>7. \E x, y \in S : x # y /\ f[x] = f[y]
    BY <1>3, <1>4, <1>6, FS_PigeonHole, Zenon
<1> QED BY <1>5, <1>7

\* A set and its members in their order.
LEMMA AscendingLists ==
    ASSUME NEW S, IsFiniteSet(S), S \subseteq Int
    PROVE  /\ DOMAIN Ascending(S) = 1..Cardinality(S) /\ Cardinality(S) \in Nat
           /\ Ascending(S) \in Seq(S)
           /\ \A n \in DOMAIN Ascending(S) : Ascending(S)[n] \in S
           /\ ToSet(Ascending(S)) = S
           /\ S # {} => Ascending(S) # <<>>
<1>1. Cardinality(S) \in Nat /\ (Cardinality(S) = 0 <=> S = {})
    BY FS_CardinalityType, FS_EmptySet
<1>2. ASSUME NEW n \in 1..Cardinality(S)
      PROVE  Nth(S, n) \in S /\ Rank(S, Nth(S, n)) = n
  <2>1. \E x \in S : Rank(S, x) = n
      BY RankSurjective
  <2> QED BY <2>1 DEF Nth, Rank
<1>3. Ascending(S) \in [1..Cardinality(S) -> S]
    BY <1>2 DEF Ascending
<1>4. Ascending(S) \in Seq(S)
    BY <1>1, <1>3
<1>5. ASSUME NEW x \in S
      PROVE  \E n \in 1..Cardinality(S) : Ascending(S)[n] = x
  <2>1. Rank(S, x) \in 1..Cardinality(S)
      BY RankInjective
  <2>2. Nth(S, Rank(S, x)) \in S /\ Rank(S, Nth(S, Rank(S, x))) = Rank(S, x)
      BY <1>2, <2>1
  <2>3. Nth(S, Rank(S, x)) = x
      BY <2>2, RankInjective
  <2> QED BY <2>1, <2>3 DEF Ascending
<1>6. ToSet(Ascending(S)) = S
    BY <1>3, <1>5 DEF ToSet
<1>7. ASSUME S # {} PROVE Ascending(S) # <<>>
  <2>1. Cardinality(S) \in Nat /\ Cardinality(S) # 0
      BY <1>1, <1>7
  <2>2. 1 \in 1..Cardinality(S) /\ DOMAIN Ascending(S) = 1..Cardinality(S)
      BY <2>1, <1>3
  <2>3. Ascending(S) # <<>>
    <3> SUFFICES ASSUME Ascending(S) = <<>>
                 PROVE  FALSE
        OBVIOUS
    <3>1. DOMAIN Ascending(S) = DOMAIN <<>>
        OBVIOUS
    <3>2. DOMAIN <<>> = 1..0
        OBVIOUS
    <3> QED BY <2>2, <3>1, <3>2
  <2> QED BY <2>3
<1> QED BY <1>1, <1>3, <1>4, <1>6, <1>7

-----------------------------------------------------------------------------
(* What a candidate is made of.                                            *)

\* Providers and models are finitely many numbers.
LEMMA Numbered ==
    /\ IsFiniteSet(Providers) /\ \A p \in Providers : p \in Int
    /\ IsFiniteSet(Models) /\ \A m \in Models : m \in Int
<1>1. Providers \subseteq Nat /\ Models \subseteq Nat /\ IsFiniteSet(Providers) /\ IsFiniteSet(Models)
    BY SyncPlanAssumption
<1> QED BY <1>1

\* A model that models.dev lists is described by somebody who lists it.
LEMMA ListerLists ==
    ASSUME NEW s \in Catalogs, NEW p, NEW k, Listing(s, k) # {}
    PROVE  Lister(p, s, k) \in Listing(s, k)
<1>1. IsFiniteSet(DOMAIN s.dev.providers) /\ \A d \in DOMAIN s.dev.providers : d \in Int
    BY SyncPlanAssumption DEF Parsed
<1>2. Listing(s, k) \in SUBSET (DOMAIN s.dev.providers) /\ Priced(s, k) \in SUBSET Listing(s, k)
    BY DEF Listing, Priced
<1>3. IsFiniteSet(Listing(s, k)) /\ \A d \in Listing(s, k) : d \in Int
    BY <1>1, <1>2, FS_Subset
<1>4. IsFiniteSet(Priced(s, k)) /\ \A d \in Priced(s, k) : d \in Int
    BY <1>2, <1>3, FS_Subset
<1>5. Min(Listing(s, k)) \in Listing(s, k)
    BY <1>3, MinIsLeast
<1>6. Priced(s, k) # {} => Min(Priced(s, k)) \in Priced(s, k)
    BY <1>4, MinIsLeast
<1> QED BY <1>2, <1>5, <1>6 DEF Lister

\* What models.dev says is a number, and not negative where it is sane.
LEMMA DevNumbers ==
    ASSUME NEW s \in Catalogs, NEW p, NEW m, NEW f \in Fields
    PROVE  FromDev(p, s, m)[f] \in Int /\ (Sane(s) => FromDev(p, s, m)[f] >= 0)
<1> DEFINE k == ShortKey(p, s, m)
           d == Lister(p, s, k)
<1>1. CASE Listing(s, k) = {}
    BY <1>1 DEF FromDev
<1>2. CASE Listing(s, k) # {}
  <2>1. d \in DOMAIN s.dev.providers /\ k \in DOMAIN s.dev.providers[d]
      BY <1>2, ListerLists DEF Listing
  <2>2. FromDev(p, s, m)[f] = s.dev.providers[d][k][f]
      BY <1>2 DEF FromDev
  <2> HIDE DEF k, d
  <2>3. s.dev.providers[d][k][f] \in Int
      BY <2>1, SyncPlanAssumption DEF Parsed
  <2>4. Sane(s) => s.dev.providers[d][k][f] >= 0
      BY <2>1 DEF Sane
  <2> QED BY <2>2, <2>3, <2>4
<1> QED BY <1>1, <1>2

\* So is what openrouter says.
LEMMA OrNumbers ==
    ASSUME NEW s \in Catalogs, NEW m, NEW f \in OrFields, Or(s, m).found
    PROVE  Or(s, m)[f] \in Int /\ (Sane(s) => Or(s, m)[f] >= 0)
<1>1. s.or.found /\ m \in DOMAIN s.or.models /\ Or(s, m) = s.or.models[m]
    BY DEF Or, Missing
<1>2. s.or.models[m][f] \in Int
    BY <1>1, SyncPlanAssumption DEF Parsed
<1>3. Sane(s) => s.or.models[m][f] >= 0
    BY <1>1 DEF Sane
<1> QED BY <1>1, <1>2, <1>3

\* And what the plan says.
LEMMA GivenNumbers ==
    ASSUME NEW s \in Catalogs, NEW p, NEW m, NEW f \in Fields
    PROVE  Given(p, s, m, f) \in Int /\ (Sane(s) => Given(p, s, m, f) >= 0)
<1> DEFINE o == IF Source(p) = "openrouter" THEN Or(s, m) ELSE Missing
           x == FromDev(p, s, m)
<1>1. x[f] \in Int /\ (Sane(s) => x[f] >= 0)
    BY DevNumbers
<1>2. ASSUME o.found, f \in OrFields
      PROVE  o[f] \in Int /\ (Sane(s) => o[f] >= 0)
  <2>1. Source(p) = "openrouter" /\ o = Or(s, m)
      BY <1>2 DEF Missing
  <2> QED BY <1>2, <2>1, OrNumbers
<1>3. Given(p, s, m, f) = CASE f = "supported_parameters" /\ Source(p) = "openrouter" -> IF o.found THEN o[f] ELSE 0
          [] f \in {"max_output", "modality"} /\ x[f] = 0 /\ o.found -> o[f]
          [] OTHER -> x[f]
    BY DEF Given
<1> HIDE DEF o, x
<1>4. CASE f = "supported_parameters" /\ Source(p) = "openrouter"
    BY <1>2, <1>3, <1>4 DEF OrFields
<1>5. CASE f \in {"max_output", "modality"} /\ x[f] = 0 /\ o.found
    BY <1>2, <1>3, <1>5 DEF OrFields
<1>6. CASE /\ ~(f = "supported_parameters" /\ Source(p) = "openrouter")
           /\ ~(f \in {"max_output", "modality"} /\ x[f] = 0 /\ o.found)
    BY <1>1, <1>3, <1>6
<1> QED BY <1>4, <1>5, <1>6

\* The winner is one of those who give the field.
LEMMA WinnerGives ==
    ASSUME NEW s \in Catalogs, NEW c \in Files, NEW m, NEW f, Givers(c, s, m, f) # {}
    PROVE  Winner(c, Givers(c, s, m, f)) \in Givers(c, s, m, f)
<1> DEFINE g == Givers(c, s, m, f)
<1>1. g \in SUBSET Providers
    BY DEF Givers
<1>2. IsFiniteSet(g)
    BY <1>1, Numbered, FS_Subset
<1>3. \A p \in g : p \in Int
    BY <1>1, Numbered
<1> HIDE DEF g
<1>4. g # {} => Max(g) \in g
    BY <1>2, <1>3, MaxIsGreatest
<1> QED BY <1>4 DEF Winner, g

\* The levels a plan gives are a list of levels.
LEMMA GivenLevels ==
    ASSUME NEW s \in Catalogs, NEW p, NEW m
    PROVE  Given(p, s, m, "thinking") \in DOMAIN LevelsOf
<1> DEFINE k == ShortKey(p, s, m)
           d == Lister(p, s, k)
<1>1. Given(p, s, m, "thinking") = FromDev(p, s, m)["thinking"]
    BY DEF Given
<1>2. CASE Listing(s, k) = {}
  <2>1. FromDev(p, s, m)["thinking"] = 0
      BY <1>2 DEF FromDev, Fields, MetaFields
  <2> QED BY <1>1, <2>1, SyncPlanAssumption
<1>3. CASE Listing(s, k) # {}
  <2>1. d \in DOMAIN s.dev.providers /\ k \in DOMAIN s.dev.providers[d]
      BY <1>3, ListerLists DEF Listing
  <2>2. FromDev(p, s, m)["thinking"] = s.dev.providers[d][k]["thinking"]
      BY <1>3 DEF FromDev
  <2> HIDE DEF k, d
  <2>3. s.dev.providers[d][k]["thinking"] \in DOMAIN LevelsOf
      BY <2>1, SyncPlanAssumption DEF Parsed
  <2> QED BY <1>1, <2>2, <2>3
<1> QED BY <1>2, <1>3

\* The parts of a file.
LEMMA FileParts ==
    ASSUME NEW c \in Files
    PROVE  /\ c = [order |-> c.order, models |-> c.models, entry |-> c.entry, default |-> c.default]
           /\ c.order \in Seq(Providers)
           /\ c.models \in [Providers -> Seq(Models)]
           /\ c.entry \in [Models -> Entries]
           /\ c.default \in [Models -> Levels \cup {NoLevel}]
    BY DEF Files

\* A field of a file is a number, and its levels are a list of levels.
LEMMA EntryNumbers ==
    ASSUME NEW c \in Files, NEW m \in Models
    PROVE  /\ c.entry[m] \in [Fields -> Int]
           /\ \A f \in Fields : c.entry[m][f] \in Int
           /\ c.entry[m]["thinking"] \in DOMAIN LevelsOf
<1>1. c.entry[m] \in Entries
    BY DEF Files
<1> QED BY <1>1 DEF Entries

\* A field that is written is a number: a given one is not zero, and an absent one leaves
\* the operator's.
LEMMA WrittenNumbers ==
    ASSUME NEW s \in Catalogs, NEW c \in Files, NEW m \in Models, NEW f \in Fields
    PROVE  /\ Written(c, s, m, f) \in Int
           /\ Givers(c, s, m, f) # {} =>
                 Written(c, s, m, f) # 0 /\ (Sane(s) => Written(c, s, m, f) >= 0)
           /\ Givers(c, s, m, f) = {} => Written(c, s, m, f) = c.entry[m][f]
           /\ f = "thinking" => Written(c, s, m, f) \in DOMAIN LevelsOf
<1>1. CASE Givers(c, s, m, f) = {}
  <2>1. Written(c, s, m, f) = c.entry[m][f]
      BY <1>1 DEF Written
  <2> QED BY <1>1, <2>1, EntryNumbers
<1>2. CASE Givers(c, s, m, f) # {}
  <2>1. PICK p \in Givers(c, s, m, f) : Written(c, s, m, f) = Given(p, s, m, f)
      BY <1>2, WinnerGives DEF Written
  <2>2. Given(p, s, m, f) # 0
      BY <2>1 DEF Givers
  <2> QED BY <1>2, <2>1, <2>2, GivenNumbers, GivenLevels
<1> QED BY <1>1, <1>2

\* The plan of a provider has only models of the file.
LEMMA PlanFromFile ==
    ASSUME NEW s, NEW c \in Files, NEW p \in Providers
    PROVE  /\ PlannedModels(c, p, s) \subseteq ToSet(c.models[p])
           /\ ToSet(c.models[p]) \subseteq Models
           /\ IsFiniteSet(PlannedModels(c, p, s))
           /\ PlannedModels(c, p, s) \subseteq Int
<1>1. c.models[p] \in Seq(Models)
    BY DEF Files
<1>2. ToSet(c.models[p]) \subseteq Models
    BY <1>1 DEF ToSet
<1>3. PlannedModels(c, p, s) \subseteq ToSet(c.models[p])
    BY DEF PlannedModels, Access
<1>4. PlannedModels(c, p, s) \in SUBSET Models
    BY <1>2, <1>3
<1>5. IsFiniteSet(PlannedModels(c, p, s))
    BY <1>4, Numbered, FS_Subset
<1>6. PlannedModels(c, p, s) \subseteq Int
    BY <1>4, Numbered
<1> QED BY <1>2, <1>3, <1>5, <1>6

\* The list a provider gets: the plan's, or its own where there is none.
LEMMA NewModelsAre ==
    ASSUME NEW s, NEW c \in Files, NEW p \in Providers
    PROVE  /\ NewModels(c, p, s) \in Seq(Models)
           /\ PlannedModels(c, p, s) = {} => NewModels(c, p, s) = c.models[p]
           /\ PlannedModels(c, p, s) # {} =>
                 /\ NewModels(c, p, s) = Ascending(PlannedModels(c, p, s))
                 /\ ToSet(NewModels(c, p, s)) = PlannedModels(c, p, s)
                 /\ NewModels(c, p, s) # <<>>
<1>1. c.models[p] \in Seq(Models)
    BY DEF Files
<1>2. CASE PlannedModels(c, p, s) = {}
    BY <1>1, <1>2 DEF NewModels
<1>3. CASE PlannedModels(c, p, s) # {}
  <2> DEFINE S == PlannedModels(c, p, s)
  <2>1. IsFiniteSet(S) /\ S \subseteq Int /\ S \subseteq Models
      BY PlanFromFile
  <2>2. NewModels(c, p, s) = Ascending(S)
      BY <1>3 DEF NewModels
  <2> HIDE DEF S
  <2>3. Ascending(S) \in Seq(S) /\ ToSet(Ascending(S)) = S /\ (S # {} => Ascending(S) # <<>>)
      BY <2>1, AscendingLists
  <2>4. Ascending(S) \in Seq(Models)
    <3>1. \A x \in S : x \in Models
        BY <2>1
    <3>2. Ascending(S) \in [1..Len(Ascending(S)) -> S] /\ Len(Ascending(S)) \in Nat
        BY <2>3
    <3> QED BY <3>1, <3>2
  <2> QED BY <1>3, <2>2, <2>3, <2>4 DEF S
<1> QED BY <1>2, <1>3

\* With some source, the candidate has the new lists, fields and defaults and the old order.
LEMMA CandidateIs ==
    ASSUME NEW s \in Catalogs, NEW c \in Files, ~NoSource(s)
    PROVE  /\ Candidate(c, s).order = c.order
           /\ \A p \in Providers : Candidate(c, s).models[p] = NewModels(c, p, s)
           /\ \A m \in Models : \A f \in Fields : Candidate(c, s).entry[m][f] = Written(c, s, m, f)
           /\ \A m \in Models : Candidate(c, s).default[m] = Default(c, s, m)
<1>1. /\ Candidate(c, s).order = c.order
      /\ Candidate(c, s).models = [p \in Providers |-> NewModels(c, p, s)]
      /\ Candidate(c, s).entry = [m \in Models |-> [f \in Fields |-> Written(c, s, m, f)]]
      /\ Candidate(c, s).default = [m \in Models |-> Default(c, s, m)]
    BY DEF Candidate, Files
<1> QED BY <1>1

\* A candidate is a file again.
LEMMA CandidateTyped ==
    ASSUME NEW s \in Catalogs, NEW c \in Files
    PROVE  Candidate(c, s) \in Files
<1>1. CASE NoSource(s)
    BY <1>1 DEF Candidate
<1>2. CASE ~NoSource(s)
  <2>1. c.order \in Seq(Providers)
      BY DEF Files
  <2>2. [p \in Providers |-> NewModels(c, p, s)] \in [Providers -> Seq(Models)]
      BY NewModelsAre
  <2>3. [m \in Models |-> [f \in Fields |-> Written(c, s, m, f)]] \in [Models -> Entries]
    <3> SUFFICES ASSUME NEW m \in Models
                 PROVE  [f \in Fields |-> Written(c, s, m, f)] \in Entries
        OBVIOUS
    <3>1. "thinking" \in Fields
        BY DEF Fields, MetaFields
    <3>2. \A f \in Fields : Written(c, s, m, f) \in Int
        BY WrittenNumbers
    <3>3. Written(c, s, m, "thinking") \in DOMAIN LevelsOf
        BY <3>1, WrittenNumbers
    <3> QED BY <3>1, <3>2, <3>3 DEF Entries
  <2>4. [m \in Models |-> Default(c, s, m)] \in [Models -> Levels \cup {NoLevel}]
    <3>1. c.default \in [Models -> Levels \cup {NoLevel}]
        BY DEF Files
    <3>2. \A m \in Models : c.default[m] \in Levels \cup {NoLevel}
        BY <3>1
    <3>3. \A m \in Models : Default(c, s, m) \in {c.default[m], NoLevel}
        BY DEF Default
    <3> QED BY <3>2, <3>3
  <2>5. Candidate(c, s) = [order |-> c.order,
                           models |-> [p \in Providers |-> NewModels(c, p, s)],
                           entry |-> [m \in Models |-> [f \in Fields |-> Written(c, s, m, f)]],
                           default |-> [m \in Models |-> Default(c, s, m)]]
      BY <1>2 DEF Candidate, Files
  <2> QED BY <2>1, <2>2, <2>3, <2>4, <2>5 DEF Files
<1> QED BY <1>1, <1>2

\* The default of a candidate is the operator's or none, and one that stays is a level.
LEMMA DefaultStays ==
    ASSUME NEW s \in Catalogs, NEW c \in Files, NEW m \in Models
    PROVE  /\ Default(c, s, m) \in {c.default[m], NoLevel}
           /\ Default(c, s, m) # c.default[m] =>
                 c.default[m] \notin ToSet(LevelsOf[Written(c, s, m, "thinking")])
           /\ Valid(c) /\ Default(c, s, m) # NoLevel =>
                 Default(c, s, m) \in ToSet(LevelsOf[Written(c, s, m, "thinking")])
<1>1. CASE Givers(c, s, m, "thinking") = {}
  <2>1. Written(c, s, m, "thinking") = c.entry[m]["thinking"]
      BY <1>1 DEF Written
  <2>2. Default(c, s, m) = c.default[m]
      BY <1>1 DEF Default
  <2> QED BY <2>1, <2>2 DEF Valid
<1>2. CASE Givers(c, s, m, "thinking") # {}
    BY <1>2 DEF Default
<1> QED BY <1>1, <1>2

\* The merge makes no valid file invalid, unless a catalog offers a negative number.
LEMMA CandidateValid ==
    ASSUME NEW s \in Catalogs, NEW c \in Files, Valid(c), Sane(s)
    PROVE  Valid(Candidate(c, s))
<1>1. CASE NoSource(s)
    BY <1>1 DEF Candidate
<1>2. CASE ~NoSource(s)
  <2>1. ASSUME NEW p \in Providers
        PROVE  Candidate(c, s).models[p] # <<>>
    <3>1. c.models[p] # <<>>
        BY DEF Valid
    <3>2. NewModels(c, p, s) # <<>>
        BY <3>1, NewModelsAre
    <3> QED BY <1>2, <3>2, CandidateIs
  <2>2. ASSUME NEW m \in Models
        PROVE  Candidate(c, s).default[m] # NoLevel =>
                  Candidate(c, s).default[m] \in ToSet(LevelsOf[Candidate(c, s).entry[m]["thinking"]])
    <3>1. Candidate(c, s).default[m] = Default(c, s, m)
        BY <1>2, CandidateIs
    <3>2. Candidate(c, s).entry[m]["thinking"] = Written(c, s, m, "thinking")
        BY <1>2, CandidateIs DEF Fields, MetaFields
    <3> QED BY <3>1, <3>2, DefaultStays
  <2>3. ASSUME NEW m \in Models, NEW f \in Fields
        PROVE  Candidate(c, s).entry[m][f] >= 0
    <3>1. Candidate(c, s).entry[m][f] = Written(c, s, m, f)
        BY <1>2, CandidateIs
    <3>2. c.entry[m][f] >= 0
        BY DEF Valid
    <3> QED BY <3>1, <3>2, WrittenNumbers
  <2> QED BY <2>1, <2>2, <2>3 DEF Valid
<1> QED BY <1>1, <1>2

-----------------------------------------------------------------------------
\* The file is always one that the gateway accepts, and the only defaults are the
\* operator's.
FileInv ==
    /\ config \in Files /\ Valid(config)
    /\ \A m \in Models : config.default[m] = NoLevel \/ \E c \in Configs : config.default[m] = c.default[m]

\* Every run keeps the file valid.
THEOREM FileInvAlways == SyncSpec => []FileInv
<1>1. SyncInit => FileInv
    BY SyncPlanAssumption DEF SyncInit, FileInv
<1>2. FileInv /\ [SyncNext]_config => FileInv'
  <2> SUFFICES ASSUME FileInv, [SyncNext]_config
               PROVE  FileInv'
      OBVIOUS
  <2>1. CASE UNCHANGED config
      BY <2>1 DEF FileInv, Valid
  <2>2. ASSUME NEW s \in Catalogs, Run(s)
        PROVE  FileInv'
    <3>1. config' = Candidate(config, s) /\ Valid(Candidate(config, s)) /\ config \in Files
        BY <2>2 DEF Run, FileInv
    <3>2. config' \in Files
        BY <3>1, CandidateTyped
    <3>3. Valid(config)'
        BY <3>1 DEF Valid
    <3>4. ASSUME NEW m \in Models
          PROVE  config'.default[m] = NoLevel \/ \E c \in Configs : config'.default[m] = c.default[m]
      <4>1. config'.default[m] \in {config.default[m], NoLevel}
        <5>1. CASE NoSource(s)
            BY <3>1, <5>1 DEF Candidate
        <5>2. CASE ~NoSource(s)
          <6>1. config'.default[m] = Default(config, s, m)
              BY <3>1, <5>2, CandidateIs
          <6> QED BY <3>1, <6>1, DefaultStays
        <5> QED BY <5>1, <5>2
      <4> QED BY <4>1 DEF FileInv
    <3> QED BY <3>2, <3>3, <3>4 DEF FileInv
  <2>3. ASSUME NEW s \in Catalogs, Reject(s)
        PROVE  FileInv'
      BY <2>3 DEF Reject, FileInv, Valid
  <2> QED BY <2>1, <2>2, <2>3 DEF SyncNext
<1> QED BY <1>1, <1>2, PTL DEF SyncSpec

\* A run fails loud only for what a catalog says, whatever the files and catalogs are.
THEOREM StaysValidAlways == SyncSpec => []StaysValid
<1>1. FileInv => StaysValid
    BY CandidateValid DEF FileInv, StaysValid
<1> QED BY <1>1, FileInvAlways, PTL

-----------------------------------------------------------------------------
(* A second run over the same catalogs.                                    *)

\* What a run leaves of the models of a provider it would plan again.
LEMMA PlannedAgain ==
    ASSUME NEW s \in Catalogs, NEW c \in Files, NEW p \in Providers, ~NoSource(s)
    PROVE  PlannedModels(Candidate(c, s), p, s) = PlannedModels(c, p, s)
<1> DEFINE d == Candidate(c, s)
<1>1. d.models[p] = NewModels(c, p, s)
    BY CandidateIs
<1> HIDE DEF d
<1>2. CASE PlannedModels(c, p, s) = {}
  <2>1. d.models[p] = c.models[p]
      BY <1>1, <1>2, NewModelsAre
  <2> QED BY <2>1 DEF PlannedModels, Access, d
<1>3. CASE PlannedModels(c, p, s) # {}
  <2>1. ToSet(d.models[p]) = PlannedModels(c, p, s)
      BY <1>1, <1>3, NewModelsAre
  <2>2. ~Degraded(p, s) /\ PlannedModels(c, p, s) = Access(c, p, s)
      BY <1>3 DEF PlannedModels
  <2>3. Access(d, p, s) = Access(c, p, s)
      BY <2>1, <2>2 DEF Access
  <2> QED BY <2>2, <2>3 DEF PlannedModels, d
<1> QED BY <1>2, <1>3

\* So the same providers give the same fields.
LEMMA GiversAgain ==
    ASSUME NEW s \in Catalogs, NEW c \in Files, ~NoSource(s), NEW m \in Models, NEW f \in Fields
    PROVE  /\ Givers(Candidate(c, s), s, m, f) = Givers(c, s, m, f)
           /\ Written(Candidate(c, s), s, m, f) = Written(c, s, m, f)
<1> DEFINE d == Candidate(c, s)
<1>1. \A p \in Providers : PlannedModels(d, p, s) = PlannedModels(c, p, s)
    BY PlannedAgain
<1>2. d.entry[m][f] = Written(c, s, m, f)
    BY CandidateIs
<1> HIDE DEF d
<1>3. Givers(d, s, m, f) = Givers(c, s, m, f)
    BY <1>1 DEF Givers
<1>4. Written(d, s, m, f) = Written(c, s, m, f)
    BY <1>2, <1>3 DEF Written, Winner
<1> QED BY <1>3, <1>4 DEF d

\* A run over a file that a run with the same catalogs left changes nothing.
LEMMA SecondRun ==
    ASSUME NEW s \in Catalogs, NEW c \in Files
    PROVE  Candidate(Candidate(c, s), s) = Candidate(c, s)
<1>1. CASE NoSource(s)
    BY <1>1 DEF Candidate
<1>2. CASE ~NoSource(s)
  <2> DEFINE d == Candidate(c, s)
  <2>1. d \in Files
      BY CandidateTyped
  <2>2. \A p \in Providers : NewModels(d, p, s) = d.models[p]
    <3> SUFFICES ASSUME NEW p \in Providers
                 PROVE  NewModels(d, p, s) = d.models[p]
        OBVIOUS
    <3>1. PlannedModels(d, p, s) = PlannedModels(c, p, s)
        BY <1>2, PlannedAgain
    <3>2. d.models[p] = NewModels(c, p, s)
        BY <1>2, CandidateIs
    <3> HIDE DEF d
    <3> QED BY <3>1, <3>2 DEF NewModels
  <2>3. \A m \in Models : \A f \in Fields : Written(d, s, m, f) = d.entry[m][f]
    <3>1. \A m \in Models : \A f \in Fields : Written(d, s, m, f) = Written(c, s, m, f)
        BY <1>2, GiversAgain
    <3>2. \A m \in Models : \A f \in Fields : d.entry[m][f] = Written(c, s, m, f)
        BY <1>2, CandidateIs
    <3> HIDE DEF d
    <3> QED BY <3>1, <3>2
  <2>4. \A m \in Models : Default(d, s, m) = d.default[m]
    <3> SUFFICES ASSUME NEW m \in Models
                 PROVE  Default(d, s, m) = d.default[m]
        OBVIOUS
    <3> DEFINE g == Givers(c, s, m, "thinking")
               w == Written(c, s, m, "thinking")
    <3>1. "thinking" \in Fields
        BY DEF Fields, MetaFields
    <3>2. Givers(d, s, m, "thinking") = g /\ Written(d, s, m, "thinking") = w
        BY <1>2, <3>1, GiversAgain
    <3>3. d.default[m] = IF g # {} /\ c.default[m] \notin ToSet(LevelsOf[w]) THEN NoLevel ELSE c.default[m]
        BY <1>2, CandidateIs DEF Default
    <3> HIDE DEF d, g, w
    <3>4. Default(d, s, m) = IF g # {} /\ d.default[m] \notin ToSet(LevelsOf[w]) THEN NoLevel ELSE d.default[m]
        BY <3>2 DEF Default
    <3> QED BY <3>3, <3>4
  <2>5. Candidate(d, s) = [order |-> d.order,
                           models |-> [p \in Providers |-> NewModels(d, p, s)],
                           entry |-> [m \in Models |-> [f \in Fields |-> Written(d, s, m, f)]],
                           default |-> [m \in Models |-> Default(d, s, m)]]
    <3> HIDE DEF d
    <3> QED BY <1>2, <2>1 DEF Candidate, Files
  <2>6. d = [order |-> d.order, models |-> [p \in Providers |-> d.models[p]],
             entry |-> [m \in Models |-> [f \in Fields |-> d.entry[m][f]]],
             default |-> [m \in Models |-> d.default[m]]]
    <3> HIDE DEF d
    <3>1. d = [order |-> d.order, models |-> d.models, entry |-> d.entry, default |-> d.default]
        BY <2>1, FileParts
    <3>2. d.models = [p \in Providers |-> d.models[p]] /\ d.default = [m \in Models |-> d.default[m]]
        BY <2>1, FileParts
    <3>3. d.entry = [m \in Models |-> d.entry[m]]
        BY <2>1, FileParts
    <3>4. \A m \in Models : d.entry[m] = [f \in Fields |-> d.entry[m][f]]
        BY <2>1, EntryNumbers
    <3>5. d.entry = [m \in Models |-> [f \in Fields |-> d.entry[m][f]]]
        BY <3>3, <3>4
    <3> QED BY <3>1, <3>2, <3>5
  <2> HIDE DEF d
  <2>7. [p \in Providers |-> NewModels(d, p, s)] = [p \in Providers |-> d.models[p]]
      BY <2>2
  <2>8. [m \in Models |-> [f \in Fields |-> Written(d, s, m, f)]] = [m \in Models |-> [f \in Fields |-> d.entry[m][f]]]
      BY <2>3
  <2>9. [m \in Models |-> Default(d, s, m)] = [m \in Models |-> d.default[m]]
      BY <2>4
  <2> QED BY <2>5, <2>6, <2>7, <2>8, <2>9 DEF d
<1> QED BY <1>1, <1>2

\* A second run over the same catalogs changes nothing, whatever they say.
THEOREM FixpointAlways == SyncSpec => []Fixpoint
<1>1. FileInv => Fixpoint
    BY SecondRun DEF FileInv, Fixpoint
<1> QED BY <1>1, FileInvAlways, PTL

-----------------------------------------------------------------------------
(* What a run leaves alone.                                                *)

\* The models of a provider are those it had, but for aliases without a target.
LEMMA ModelsLeft ==
    ASSUME NEW s \in Catalogs, NEW c \in Files, ~NoSource(s), NEW p \in Providers
    PROVE  LET new == Candidate(c, s).models[p]
           IN  /\ ToSet(new) \subseteq ToSet(c.models[p])
               /\ Degraded(p, s) => new = c.models[p]
               /\ \A m \in ToSet(c.models[p]) \ Aliases : m \in ToSet(new)
<1> DEFINE new == Candidate(c, s).models[p]
           plan == PlannedModels(c, p, s)
<1>1. new = NewModels(c, p, s)
    BY CandidateIs
<1> HIDE DEF new
<1>2. CASE plan = {}
  <2>1. new = c.models[p]
      BY <1>1, <1>2, NewModelsAre
  <2> QED BY <2>1 DEF new
<1>3. CASE plan # {}
  <2>1. ToSet(new) = plan
      BY <1>1, <1>3, NewModelsAre
  <2>2. ~Degraded(p, s) /\ plan = Access(c, p, s)
      BY <1>3 DEF PlannedModels
  <2> HIDE DEF plan
  <2> QED BY <2>1, <2>2 DEF new, Access
<1> QED BY <1>2, <1>3

\* A model that no provider has keeps its entry and its default.
LEMMA UncoveredLeft ==
    ASSUME NEW s \in Catalogs, NEW c \in Files, ~NoSource(s), NEW m \in Models,
           \A p \in Providers : m \notin ToSet(c.models[p])
    PROVE  Candidate(c, s).entry[m] = c.entry[m] /\ Candidate(c, s).default[m] = c.default[m]
<1>1. \A f : Givers(c, s, m, f) = {}
    BY PlanFromFile DEF Givers
<1>2. \A f \in Fields : Written(c, s, m, f) = c.entry[m][f]
    BY <1>1 DEF Written
<1>3. Candidate(c, s).entry[m] \in [Fields -> Int] /\ c.entry[m] \in [Fields -> Int]
    BY CandidateTyped, EntryNumbers
<1>4. \A f \in Fields : Candidate(c, s).entry[m][f] = c.entry[m][f]
    BY <1>2, CandidateIs
<1>5. Candidate(c, s).entry[m] = c.entry[m]
    BY <1>3, <1>4
<1>6. Candidate(c, s).default[m] = Default(c, s, m)
    BY CandidateIs
<1>7. Default(c, s, m) = c.default[m]
    BY <1>1 DEF Default
<1> QED BY <1>5, <1>6, <1>7

\* What no catalog covers, and all it does not give, survives every run.
THEOREM NothingElseTouchedAlways == SyncSpec => []NothingElseTouched
<1>1. FileInv => NothingElseTouched
  <2> SUFFICES ASSUME config \in Files, NEW s \in Catalogs
               PROVE  LET c == Candidate(config, s)
                      IN  /\ c.order = config.order
                          /\ \A p \in Providers :
                                /\ ToSet(c.models[p]) \subseteq ToSet(config.models[p])
                                /\ Degraded(p, s) => c.models[p] = config.models[p]
                                /\ \A m \in ToSet(config.models[p]) \ Aliases : m \in ToSet(c.models[p])
                          /\ \A m \in Models :
                                /\ \A f \in Fields : config.entry[m][f] # 0 => c.entry[m][f] # 0
                                /\ c.default[m] # config.default[m] =>
                                      /\ c.default[m] = NoLevel
                                      /\ config.default[m] \notin ToSet(LevelsOf[c.entry[m]["thinking"]])
                                /\ (\A p \in Providers : m \notin ToSet(config.models[p])) =>
                                      c.entry[m] = config.entry[m] /\ c.default[m] = config.default[m]
      BY DEF FileInv, NothingElseTouched
  <2>1. CASE NoSource(s)
      BY <2>1 DEF Candidate
  <2>2. CASE ~NoSource(s)
    <3> DEFINE c == Candidate(config, s)
    <3>1. c.order = config.order
        BY <2>2, CandidateIs
    <3>2. \A p \in Providers :
             /\ ToSet(c.models[p]) \subseteq ToSet(config.models[p])
             /\ Degraded(p, s) => c.models[p] = config.models[p]
             /\ \A m \in ToSet(config.models[p]) \ Aliases : m \in ToSet(c.models[p])
        BY <2>2, ModelsLeft
    <3>3. ASSUME NEW m \in Models, NEW f \in Fields, config.entry[m][f] # 0
          PROVE  c.entry[m][f] # 0
      <4>1. c.entry[m][f] = Written(config, s, m, f)
          BY <2>2, CandidateIs
      <4> QED BY <3>3, <4>1, WrittenNumbers
    <3>4. ASSUME NEW m \in Models, c.default[m] # config.default[m]
          PROVE  /\ c.default[m] = NoLevel
                 /\ config.default[m] \notin ToSet(LevelsOf[c.entry[m]["thinking"]])
      <4>1. "thinking" \in Fields
          BY DEF Fields, MetaFields
      <4>2. c.entry[m]["thinking"] = Written(config, s, m, "thinking") /\ c.default[m] = Default(config, s, m)
          BY <2>2, <4>1, CandidateIs
      <4> QED BY <3>4, <4>2, DefaultStays
    <3>5. \A m \in Models : (\A p \in Providers : m \notin ToSet(config.models[p])) =>
                                c.entry[m] = config.entry[m] /\ c.default[m] = config.default[m]
        BY <2>2, UncoveredLeft
    <3> QED BY <3>1, <3>2, <3>3, <3>4, <3>5
  <2> QED BY <2>1, <2>2
<1> QED BY <1>1, FileInvAlways, PTL

-----------------------------------------------------------------------------
\* The order of the providers decides nothing but itself.
THEOREM OrderHasNoSayAlways == SyncSpec => []OrderHasNoSay
<1>1. FileInv => OrderHasNoSay
  <2> SUFFICES ASSUME config \in Files, NEW s \in Catalogs
               PROVE  Candidate(Reversed(config), s) = Reversed(Candidate(config, s))
      BY DEF FileInv, OrderHasNoSay
  <2> DEFINE r == Reversed(config)
  <2>1. /\ r = [order |-> Reverse(config.order), models |-> config.models,
                entry |-> config.entry, default |-> config.default]
        /\ r.models = config.models /\ r.entry = config.entry /\ r.default = config.default
    <3>1. config = [order |-> config.order, models |-> config.models,
                    entry |-> config.entry, default |-> config.default]
        BY FileParts
    <3> QED BY <3>1 DEF Reversed
  <2> HIDE DEF r
  <2>2. CASE NoSource(s)
      BY <2>2 DEF Candidate, r
  <2>3. CASE ~NoSource(s)
    <3>1. \A p : PlannedModels(r, p, s) = PlannedModels(config, p, s)
        BY <2>1 DEF PlannedModels, Access
    <3>2. \A p : NewModels(r, p, s) = NewModels(config, p, s)
        BY <2>1, <3>1 DEF NewModels
    <3>3. \A m, f : Givers(r, s, m, f) = Givers(config, s, m, f)
        BY <3>1 DEF Givers
    <3>4. \A m, f : Written(r, s, m, f) = Written(config, s, m, f)
        BY <2>1, <3>3 DEF Written, Winner
    <3>5. \A m : Default(r, s, m) = Default(config, s, m)
        BY <2>1, <3>3, <3>4 DEF Default
    <3>6. Candidate(r, s) = [order |-> Reverse(config.order),
                             models |-> [p \in Providers |-> NewModels(config, p, s)],
                             entry |-> [m \in Models |-> [f \in Fields |-> Written(config, s, m, f)]],
                             default |-> [m \in Models |-> Default(config, s, m)]]
      <4>1. Candidate(r, s) = [order |-> Reverse(config.order),
                               models |-> [p \in Providers |-> NewModels(r, p, s)],
                               entry |-> [m \in Models |-> [f \in Fields |-> Written(r, s, m, f)]],
                               default |-> [m \in Models |-> Default(r, s, m)]]
          BY <2>1, <2>3 DEF Candidate
      <4>2. [p \in Providers |-> NewModels(r, p, s)] = [p \in Providers |-> NewModels(config, p, s)]
          BY <3>2
      <4>3. [m \in Models |-> [f \in Fields |-> Written(r, s, m, f)]]
               = [m \in Models |-> [f \in Fields |-> Written(config, s, m, f)]]
          BY <3>4
      <4>4. [m \in Models |-> Default(r, s, m)] = [m \in Models |-> Default(config, s, m)]
          BY <3>5
      <4> QED BY <4>1, <4>2, <4>3, <4>4
    <3>7. Candidate(config, s) = [order |-> config.order,
                                  models |-> [p \in Providers |-> NewModels(config, p, s)],
                                  entry |-> [m \in Models |-> [f \in Fields |-> Written(config, s, m, f)]],
                                  default |-> [m \in Models |-> Default(config, s, m)]]
        BY <2>3 DEF Candidate, Files
    <3> QED BY <3>6, <3>7 DEF r, Reversed
  <2> QED BY <2>2, <2>3 DEF r
<1> QED BY <1>1, FileInvAlways, PTL

-----------------------------------------------------------------------------
(* The bodies of a chain.                                                  *)

\* A chain has the providers of the file that serve the model, in some order.
LEMMA ChainIs ==
    ASSUME config \in Files, NEW m \in Models
    PROVE  /\ \A i \in DOMAIN Chain(m) : Chain(m)[i] \in Providers
           /\ Chain(m) # <<>> <=> \E i \in DOMAIN config.order : m \in ToSet(config.models[config.order[i]])
<1> DEFINE S == {i \in DOMAIN config.order : m \in ToSet(config.models[config.order[i]])}
<1>1. config.order \in Seq(Providers)
    BY DEF Files
<1>2. Len(config.order) \in Nat /\ DOMAIN config.order = 1..Len(config.order)
    BY <1>1
<1>3. S \in SUBSET (1..Len(config.order)) /\ IsFiniteSet(1..Len(config.order))
    BY <1>2, FS_Interval
<1>4. IsFiniteSet(S) /\ S \subseteq Int
  <2>1. \A i \in 1..Len(config.order) : i \in Int
      BY <1>2
  <2> HIDE DEF S
  <2>2. IsFiniteSet(S)
      BY <1>3, FS_Subset
  <2>3. S \subseteq Int
      BY <1>3, <2>1
  <2> QED BY <2>2, <2>3
<1>5. Chain(m) = [n \in DOMAIN Ascending(S) |-> config.order[Ascending(S)[n]]]
    BY DEF Chain
<1> DEFINE A == Ascending(S)
<1>6. (\A n \in DOMAIN A : A[n] \in S) /\ DOMAIN A = 1..Cardinality(S)
  <2> HIDE DEF S
  <2> QED BY <1>4, AscendingLists
<1>8. ASSUME NEW n \in DOMAIN Chain(m)
      PROVE  Chain(m)[n] \in Providers
  <2>1. n \in DOMAIN A /\ Chain(m)[n] = config.order[A[n]]
      BY <1>5
  <2>2. A[n] \in DOMAIN config.order
      BY <2>1, <1>6
  <2>3. \A j \in DOMAIN config.order : config.order[j] \in Providers
      BY <1>1
  <2> QED BY <2>1, <2>2, <2>3
<1>9. Chain(m) # <<>> <=> S # {}
  <2>1. ASSUME S # {}
        PROVE  Chain(m) # <<>>
    <3> HIDE DEF S
    <3>1. Cardinality(S) \in Nat /\ Cardinality(S) # 0
        BY <1>4, <2>1, FS_CardinalityType, FS_EmptySet
    <3>2. 1 \in DOMAIN A
        BY <1>6, <3>1
    <3>3. 1 \in DOMAIN Chain(m)
        BY <1>5, <3>2
    <3> QED BY <3>3
  <2>2. ASSUME S = {}
        PROVE  Chain(m) = <<>>
    <3> HIDE DEF S
    <3>1. Cardinality(S) = 0
        BY <2>2, FS_EmptySet
    <3>2. DOMAIN A = {}
        BY <1>6, <3>1
    <3>3. Chain(m) = [n \in {} |-> config.order[A[n]]]
        BY <1>5, <3>2
    <3> QED BY <3>3
  <2> QED BY <2>1, <2>2
<1> QED BY <1>8, <1>9

Cut(n, limit) == IF limit > 0 /\ n > limit THEN limit ELSE n

\* A clamp keeps the fields and cuts those of tokens.
LEMMA RequestIs ==
    ASSUME NEW body, NEW limit \in Int
    PROVE  /\ \A f : f \in DOMAIN Request(body, limit) <=> f \in DOMAIN body
           /\ \A f \in DOMAIN body :
                 Request(body, limit)[f] = IF f \in Tokens THEN Cut(body[f], limit) ELSE body[f]
<1>1. CASE limit <= 0
    BY <1>1 DEF Request, Cut
<1>2. CASE limit > 0
    BY <1>2 DEF Request, Cut
<1> QED BY <1>1, <1>2

\* What is added takes no place that was taken.
LEMMA AddedIs ==
    ASSUME NEW a, NEW b
    PROVE  /\ \A f : f \in DOMAIN Added(a, b) <=> f \in DOMAIN a \/ f \in DOMAIN b
           /\ \A f \in DOMAIN a : Added(a, b)[f] = a[f]
           /\ \A f \in DOMAIN b : f \notin DOMAIN a => Added(a, b)[f] = b[f]
    BY DEF Added

\* What the client sent and include_usage.
LEMMA SharedIs ==
    ASSUME NEW body, NEW stream \in BOOLEAN
    PROVE  LET b == IF stream THEN IncludeUsage(body) ELSE body
           IN  /\ \A f \in DOMAIN body : f \in DOMAIN b /\ b[f] = body[f]
               /\ \A f : f \in DOMAIN b => f \in DOMAIN body \/ f = "include_usage"
<1> DEFINE new == [f \in {"include_usage"} |-> TRUE]
<1>1. IncludeUsage(body) = Added(body, new)
    BY DEF IncludeUsage
<1>2. \A f : f \in DOMAIN new <=> f = "include_usage"
    OBVIOUS
<1> HIDE DEF new
<1>3. /\ \A f : f \in DOMAIN IncludeUsage(body) <=> f \in DOMAIN body \/ f = "include_usage"
      /\ \A f \in DOMAIN body : IncludeUsage(body)[f] = body[f]
    BY <1>1, <1>2, AddedIs
<1> QED BY <1>3

Injected(m, p) ==
    IF config.default[m] = NoLevel THEN {}
    ELSE ThinkingInjection(Path[p], ThinkingProfile(LevelsOf[Meta(m)["thinking"]]))

\* An injection puts the path's parameters over what is there.
LEMMA InjectIs ==
    ASSUME NEW m, NEW p, NEW body
    PROVE  LET b == InjectForAttempt(m, p, body)
           IN  /\ \A f : f \in DOMAIN b <=> f \in DOMAIN body \/ f \in Injected(m, p)
               /\ \A f \in DOMAIN body : f \notin Injected(m, p) => b[f] = body[f]
               /\ "reasoning_effort" \in Injected(m, p) => b["reasoning_effort"] = config.default[m]
<1>1. CASE config.default[m] = NoLevel
    BY <1>1 DEF InjectForAttempt, Injected
<1>2. CASE config.default[m] # NoLevel
  <2> DEFINE P == Injected(m, p)
             new == [f \in P |-> IF f = "reasoning_effort" THEN config.default[m] ELSE TRUE]
  <2>1. InjectForAttempt(m, p, body) = Added(new, body)
      BY <1>2 DEF InjectForAttempt, Inject, Injected
  <2>2. /\ \A f : f \in DOMAIN new <=> f \in P
        /\ "reasoning_effort" \in P => new["reasoning_effort"] = config.default[m]
      OBVIOUS
  <2> HIDE DEF new, P
  <2>3. /\ \A f : f \in DOMAIN Added(new, body) <=> f \in DOMAIN body \/ f \in P
        /\ \A f \in P : Added(new, body)[f] = new[f]
        /\ \A f \in DOMAIN body : f \notin P => Added(new, body)[f] = body[f]
      BY <2>2, AddedIs
  <2> QED BY <2>1, <2>2, <2>3 DEF P
<1> QED BY <1>1, <1>2

\* Only parameters of thinking are injected.
LEMMA InjectedEfforts ==
    ASSUME NEW m, NEW p, NEW f, f \in Injected(m, p)
    PROVE  f \in Efforts
    BY DEF Injected, ThinkingInjection, Efforts

\* One attempt: both clamps, and the injection for a client that asks for no effort.
LEMMA SentIs ==
    ASSUME config \in Files, NEW m \in Models, NEW body, NEW stream \in BOOLEAN,
           NEW i \in DOMAIN Sent(m, stream, body)
    PROVE  LET b == Sent(m, stream, body)[i]
               p == Chain(m)[i]
           IN  /\ p \in Providers
               /\ \A f \in DOMAIN body :
                     /\ f \in DOMAIN b
                     /\ b[f] = IF f \in Tokens THEN Cut(Cut(body[f], Meta(m)["max_output"]), ProviderMax[p])
                               ELSE body[f]
               /\ \A f \in Efforts : f \in DOMAIN b <=>
                     f \in DOMAIN body \/ (~HasExplicitEffort(body) /\ f \in Injected(m, p))
               /\ "reasoning_effort" \in DOMAIN b /\ "reasoning_effort" \notin DOMAIN body =>
                     b["reasoning_effort"] = config.default[m]
<1> DEFINE p == Chain(m)[i]
           handed == ModelClamp(m, body)
           shared == IF stream THEN IncludeUsage(handed) ELSE handed
           clamped == Request(shared, ProviderMax[p])
           b == Sent(m, stream, body)[i]
           mo == Meta(m)["max_output"]
           pm == ProviderMax[p]
<1>1. i \in DOMAIN Chain(m) /\ b = AttemptBody(m, p, HasExplicitEffort(handed), shared)
    BY DEF Sent
<1>2. p \in Providers
    BY <1>1, ChainIs
<1>3. mo \in Int /\ pm \in Int
  <2>1. "max_output" \in Fields
      BY DEF Fields, MetaFields
  <2>2. ProviderMax \in [Providers -> Int]
      BY WireAssumption
  <2> QED BY <1>2, <2>1, <2>2, EntryNumbers DEF Meta
<1> HIDE DEF p, mo, pm
<1>4. /\ \A f : f \in DOMAIN handed <=> f \in DOMAIN body
      /\ \A f \in DOMAIN body : handed[f] = IF f \in Tokens THEN Cut(body[f], mo) ELSE body[f]
    BY <1>3, RequestIs DEF ModelClamp, mo
<1>5. HasExplicitEffort(handed) <=> HasExplicitEffort(body)
    BY <1>4 DEF HasExplicitEffort
<1> HIDE DEF handed
<1>6. /\ \A f \in DOMAIN handed : f \in DOMAIN shared /\ shared[f] = handed[f]
      /\ \A f : f \in DOMAIN shared => f \in DOMAIN handed \/ f = "include_usage"
    BY SharedIs
<1> HIDE DEF shared
<1>7. /\ \A f : f \in DOMAIN clamped <=> f \in DOMAIN shared
      /\ \A f \in DOMAIN shared : clamped[f] = IF f \in Tokens THEN Cut(shared[f], pm) ELSE shared[f]
    BY <1>3, RequestIs DEF pm
<1> HIDE DEF clamped
<1>8. /\ \A f \in DOMAIN body :
            /\ f \in DOMAIN clamped
            /\ clamped[f] = IF f \in Tokens THEN Cut(Cut(body[f], mo), pm) ELSE body[f]
      /\ \A f \in Efforts : f \in DOMAIN clamped <=> f \in DOMAIN body
    BY <1>4, <1>6, <1>7 DEF Efforts
<1>9. b = IF HasExplicitEffort(body) THEN clamped ELSE InjectForAttempt(m, p, clamped)
    BY <1>1, <1>5 DEF AttemptBody, clamped, pm
<1> HIDE DEF b
<1>10. CASE HasExplicitEffort(body)
  <2>1. b = clamped
      BY <1>9, <1>10
  <2>2. "reasoning_effort" \in Efforts
      BY DEF Efforts
  <2> QED BY <1>2, <1>8, <1>10, <2>1, <2>2 DEF p, b, mo, pm
<1>11. CASE ~HasExplicitEffort(body)
  <2>1. b = InjectForAttempt(m, p, clamped)
      BY <1>9, <1>11
  <2>2. /\ \A f : f \in DOMAIN b <=> f \in DOMAIN clamped \/ f \in Injected(m, p)
        /\ \A f \in DOMAIN clamped : f \notin Injected(m, p) => b[f] = clamped[f]
        /\ "reasoning_effort" \in Injected(m, p) => b["reasoning_effort"] = config.default[m]
      BY <2>1, InjectIs
  <2>3. "reasoning_effort" \in Efforts
      BY DEF Efforts
  <2>4. \A f \in Efforts : f \notin DOMAIN body /\ f \notin DOMAIN clamped
      BY <1>8, <1>11 DEF HasExplicitEffort
  <2>5. \A f \in DOMAIN clamped : b[f] = clamped[f]
      BY <2>2, <2>4, InjectedEfforts
  <2> QED BY <1>2, <1>8, <1>11, <2>2, <2>3, <2>4, <2>5 DEF p, b, mo, pm
<1> QED BY <1>10, <1>11

-----------------------------------------------------------------------------
(* Limits.                                                                 *)

\* Two cuts are the least of what is asked and the ceilings.
LEMMA CutsAreMin ==
    ASSUME NEW n \in Int, NEW a \in Int, NEW z \in Int
    PROVE  /\ Cut(Cut(n, a), z) = Min({n} \cup {x \in {a, z} : x > 0})
           /\ Cut(Cut(n, a), z) \in Int /\ Cut(Cut(n, a), z) <= n
           /\ a > 0 => Cut(Cut(n, a), z) <= a
<1> DEFINE S == {n} \cup {x \in {a, z} : x > 0}
           v == Cut(Cut(n, a), z)
<1>1. v \in S /\ v \in Int /\ v <= n /\ (a > 0 => v <= a)
    BY DEF Cut
<1>2. \A x \in S : x \in Int /\ v <= x
    BY DEF Cut
<1> HIDE DEF S, v
<1>3. Min(S) = v
    BY <1>1, <1>2, MinIs
<1> QED BY <1>1, <1>3 DEF S, v

\* What a file says of a model is a number.
LEMMA MetaNumbers ==
    ASSUME config \in Files, NEW m \in Models, NEW f \in Fields
    PROVE  Meta(m)[f] \in Int
    BY EntryNumbers DEF Meta

\* What counts for the window is at least what both clamps let through.
LEMMA CountedCovers ==
    ASSUME config \in Files, NEW m \in Models, NEW body, "max_tokens" \in DOMAIN body,
           body["max_tokens"] \in Int, NEW v \in Int, v <= body["max_tokens"],
           Meta(m)["max_output"] > 0 => v <= Meta(m)["max_output"]
    PROVE  Counted(m, body) \in Int /\ v <= Counted(m, body)
<1> DEFINE mo == Meta(m)["max_output"]
           n == body["max_tokens"]
<1>1. mo \in Int
    BY MetaNumbers DEF Fields, MetaFields
<1>2. CASE mo > 0
  <2>1. Counted(m, body) = Min({n, mo})
      BY <1>2 DEF Counted
  <2>2. Min({n, mo}) = IF n <= mo THEN n ELSE mo
      BY <1>1, MinOfTwo
  <2> QED BY <1>1, <1>2, <2>1, <2>2
<1>3. CASE ~(mo > 0)
    BY <1>3 DEF Counted
<1> QED BY <1>2, <1>3

\* Every attempt stays within its ceilings, and what was admitted within the window.
LEMMA AdmittedFit == FileInv => AdmittedFits
<1> SUFFICES ASSUME config \in Files, NEW m \in Models, NEW body \in Bodies, NEW stream \in BOOLEAN,
                    NEW i \in DOMAIN Sent(m, stream, body)
             PROVE  /\ \A f \in Tokens \cap DOMAIN body :
                          Sent(m, stream, body)[i][f] = Min({body[f]} \cup Ceilings(m, Chain(m)[i]))
                    /\ \A prompt \in Prompts :
                          /\ Meta(m)["context_window"] > 0 /\ "max_tokens" \in DOMAIN body
                          /\ ~ExceedsContextWindow(m, prompt, body)
                          => 100 * (prompt + Sent(m, stream, body)[i]["max_tokens"]) <= Limit(m)
    BY DEF FileInv, AdmittedFits
<1> DEFINE b == Sent(m, stream, body)[i]
           p == Chain(m)[i]
           mo == Meta(m)["max_output"]
           pm == ProviderMax[p]
<1>1. p \in Providers /\ \A f \in Tokens \cap DOMAIN body : b[f] = Cut(Cut(body[f], mo), pm)
    BY SentIs
<1>2. mo \in Int /\ pm \in Int /\ \A f \in Tokens \cap DOMAIN body : body[f] \in Int
    BY <1>1, MetaNumbers, WireAssumption DEF Fields, MetaFields
<1>3. Ceilings(m, p) = {x \in {mo, pm} : x > 0}
    BY DEF Ceilings
<1> HIDE DEF b, p, mo, pm
<1>4. ASSUME NEW f \in Tokens \cap DOMAIN body
      PROVE  /\ b[f] = Min({body[f]} \cup Ceilings(m, p))
             /\ b[f] \in Int /\ b[f] <= body[f] /\ (mo > 0 => b[f] <= mo)
    BY <1>1, <1>2, <1>3, CutsAreMin
<1>5. ASSUME NEW prompt \in Prompts, Meta(m)["context_window"] > 0, "max_tokens" \in DOMAIN body,
             ~ExceedsContextWindow(m, prompt, body)
      PROVE  100 * (prompt + b["max_tokens"]) <= Limit(m)
  <2>1. "max_tokens" \in Tokens \cap DOMAIN body
      BY <1>5 DEF Tokens
  <2>2. Counted(m, body) \in Int /\ b["max_tokens"] <= Counted(m, body) /\ b["max_tokens"] \in Int
      BY <1>2, <1>4, <2>1, CountedCovers DEF mo
  <2>3. Limit(m) \in Int
    <3>1. Meta(m)["context_window"] \in Int /\ Margin \in Int
        BY MetaNumbers, WireAssumption DEF Fields, MetaFields
    <3> QED BY <3>1 DEF Limit
  <2>4. ~(100 * (prompt + Counted(m, body)) > Limit(m))
      BY <1>5 DEF ExceedsContextWindow
  <2>5. prompt \in Int
      BY WireAssumption
  <2> QED BY <2>2, <2>3, <2>4, <2>5
<1> QED BY <1>4, <1>5 DEF b, p

-----------------------------------------------------------------------------
(* Efforts.                                                                *)

\* Marks alone are no family.
LEMMA MarksAlone ==
    ASSUME NEW v \in DOMAIN LevelsOf, ~Mixed(LevelsOf[v]), NEW mark \in Marks,
           mark \in ToSet(LevelsOf[v])
    PROVE  ThinkingProfile(LevelsOf[v]) = ""
<1> DEFINE levels == LevelsOf[v]
           named == {i \in DOMAIN levels : levels[i] \in Marks \cup {"low", "medium", "max"}}
<1>1. levels \in Seq(STRING)
    BY SyncPlanAssumption
<1>2. IsFiniteSet(DOMAIN levels) /\ \A i \in DOMAIN levels : i \in Int
  <2>1. Len(levels) \in Nat /\ DOMAIN levels = 1..Len(levels)
      BY <1>1
  <2> HIDE DEF levels
  <2>2. IsFiniteSet(1..Len(levels)) /\ \A i \in 1..Len(levels) : i \in Int
      BY <2>1, FS_Interval
  <2> QED BY <2>1, <2>2
<1> HIDE DEF levels
<1>3. \A i \in named : levels[i] \in Marks
    BY DEF Mixed, ToSet, levels
<1>4. named # {}
    BY DEF ToSet, levels
<1>5. named \in SUBSET (DOMAIN levels)
    OBVIOUS
<1> HIDE DEF named
<1>6. IsFiniteSet(named)
    BY <1>2, <1>5, FS_Subset
<1>7. \A i \in named : i \in Int
    BY <1>2, <1>5
<1>8. Min(named) \in named
    BY <1>4, <1>6, <1>7, MinIsLeast
<1>9. levels[Min(named)] \in Marks
    BY <1>3, <1>8
<1> QED BY <1>4, <1>9 DEF ThinkingProfile, levels, named

\* What the operator marked as unforced gets no parameter of thinking.
LEMMA UnforcedGetNone ==
    ASSUME FileInv, NEW m \in Unforced, ~Mixed(LevelsOf[Meta(m)["thinking"]]), NEW p
    PROVE  Injected(m, p) = {}
<1> DEFINE v == Meta(m)["thinking"]
           default == config.default[m]
<1>1. CASE default = NoLevel
    BY <1>1 DEF Injected
<1>2. CASE default # NoLevel
  <2>1. m \in Models /\ default \in Marks
      BY <1>2 DEF FileInv, Unforced
  <2>2. default \in ToSet(LevelsOf[v])
      BY <1>2, <2>1 DEF FileInv, Valid, Meta
  <2>3. v \in DOMAIN LevelsOf
      BY <2>1, EntryNumbers DEF FileInv, Meta
  <2>4. ThinkingProfile(LevelsOf[v]) = ""
      BY <2>1, <2>2, <2>3, MarksAlone
  <2>5. ThinkingInjection(Path[p], "") = {}
      BY DEF ThinkingInjection
  <2> QED BY <1>2, <2>4, <2>5 DEF Injected
<1> QED BY <1>1, <1>2

\* Only a valid default is injected, and enable_thinking only on its path.
LEMMA InjectedIsListed ==
    ASSUME FileInv, NEW m \in Models, NEW p
    PROVE  /\ Injected(m, p) # {} =>
                 config.default[m] # NoLevel /\ config.default[m] \in ToSet(LevelsOf[Meta(m)["thinking"]])
           /\ "enable_thinking" \in Injected(m, p) => Path[p] = "bailian"
<1>1. Injected(m, p) # {} => config.default[m] # NoLevel
    BY DEF Injected
<1>2. config.default[m] # NoLevel => config.default[m] \in ToSet(LevelsOf[Meta(m)["thinking"]])
    BY DEF FileInv, Valid, Meta
<1>3. "enable_thinking" \in Injected(m, p) => Path[p] = "bailian"
    BY DEF Injected, ThinkingInjection
<1> QED BY <1>1, <1>2, <1>3

\* An effort that is sent is the client's or a level of the model.
LEMMA EffortListed == FileInv => EffortIsListed
<1> SUFFICES ASSUME FileInv, NEW m \in Models, NEW body \in Bodies, NEW stream \in BOOLEAN,
                    NEW i \in DOMAIN Sent(m, stream, body)
             PROVE  LET b == Sent(m, stream, body)[i]
                    IN  IF HasExplicitEffort(body)
                        THEN \A f \in Efforts : /\ f \in DOMAIN b <=> f \in DOMAIN body
                                                /\ f \in DOMAIN body => b[f] = body[f]
                        ELSE /\ "reasoning_effort" \in DOMAIN b =>
                                    b["reasoning_effort"] \in ToSet(LevelsOf[Meta(m)["thinking"]])
                             /\ "enable_thinking" \in DOMAIN b => Path[Chain(m)[i]] = "bailian"
                             /\ m \in Unforced /\ ~Mixed(LevelsOf[Meta(m)["thinking"]]) =>
                                    Efforts \cap DOMAIN b = {}
    BY DEF EffortIsListed
<1> DEFINE b == Sent(m, stream, body)[i]
           p == Chain(m)[i]
<1>1. config \in Files
    BY DEF FileInv
<1>2. /\ \A f \in DOMAIN body : f \notin Tokens => b[f] = body[f]
      /\ \A f \in Efforts : f \in DOMAIN b <=>
            f \in DOMAIN body \/ (~HasExplicitEffort(body) /\ f \in Injected(m, p))
      /\ "reasoning_effort" \in DOMAIN b /\ "reasoning_effort" \notin DOMAIN body =>
            b["reasoning_effort"] = config.default[m]
    BY <1>1, SentIs
<1> HIDE DEF b, p
<1>3. "reasoning_effort" \in Efforts /\ "enable_thinking" \in Efforts /\ \A f \in Efforts : f \notin Tokens
    BY DEF Efforts, Tokens
<1>4. CASE HasExplicitEffort(body)
    BY <1>2, <1>3, <1>4 DEF b
<1>5. CASE ~HasExplicitEffort(body)
  <2>1. \A f \in Efforts : f \notin DOMAIN body /\ (f \in DOMAIN b <=> f \in Injected(m, p))
      BY <1>2, <1>5 DEF HasExplicitEffort
  <2>2. "reasoning_effort" \in DOMAIN b => b["reasoning_effort"] \in ToSet(LevelsOf[Meta(m)["thinking"]])
      BY <1>2, <1>3, <2>1, InjectedIsListed
  <2>3. "enable_thinking" \in DOMAIN b => Path[p] = "bailian"
      BY <1>3, <2>1, InjectedIsListed
  <2>4. m \in Unforced /\ ~Mixed(LevelsOf[Meta(m)["thinking"]]) => Efforts \cap DOMAIN b = {}
      BY <2>1, UnforcedGetNone
  <2> QED BY <1>5, <2>2, <2>3, <2>4 DEF b, p
<1> QED BY <1>4, <1>5

-----------------------------------------------------------------------------
(* What a client is told.                                                  *)

\* The numbers and levels of an entry.
LEMMA EntryIs ==
    ASSUME NEW m
    PROVE  LET e == CatalogEntry(m)
               levels == ToSet(LevelsOf[Meta(m)["thinking"]])
           IN  /\ \A f \in {"context_length", "max_context_length"} :
                     /\ f \in DOMAIN e <=> HasMetadata(m)
                     /\ f \in DOMAIN e => e[f] = Meta(m)["context_window"]
               /\ "max_completion_tokens" \in DOMAIN e <=> HasMetadata(m)
               /\ "max_output_tokens" \in DOMAIN e <=> HasMetadata(m) /\ Meta(m)["max_output"] > 0
               /\ \A f \in {"max_completion_tokens", "max_output_tokens"} :
                     f \in DOMAIN e => e[f] = Meta(m)["max_output"]
               /\ "levels" \in DOMAIN e <=> HasMetadata(m) /\ levels # {}
               /\ "levels" \in DOMAIN e => e["levels"] = levels
               /\ "default" \in DOMAIN e <=>
                     HasMetadata(m) /\ levels # {} /\ config.default[m] # NoLevel
               /\ "default" \in DOMAIN e => e["default"] = config.default[m]
<1> DEFINE e == CatalogEntry(m)
<1>1. CASE HasMetadata(m)
    BY <1>1 DEF CatalogEntry, PriceFields
<1>2. CASE ~HasMetadata(m)
    BY <1>2 DEF CatalogEntry, PriceFields
<1> QED BY <1>1, <1>2

\* A renderer tells of a limit if it is positive.
LEMMA LimitsAre ==
    ASSUME config \in Files, NEW m \in Models
    PROVE  LET e == CatalogEntry(m)
           IN  /\ \A l : l \in Limits(e).output <=> l = Meta(m)["max_output"] /\ Meta(m)["max_output"] > 0
               /\ \A w : w \in Limits(e).context <=> w = Meta(m)["context_window"] /\ Meta(m)["context_window"] > 0
<1> DEFINE e == CatalogEntry(m)
<1>1. Meta(m)["max_output"] \in Int /\ Meta(m)["context_window"] \in Int
    BY MetaNumbers DEF Fields, MetaFields
<1>2. (Meta(m)["max_output"] > 0 \/ Meta(m)["context_window"] > 0) => HasMetadata(m)
    BY <1>1 DEF HasMetadata, MetaFields
<1>3. FirstPositive(e, "context_length", "max_context_length")
         = IF Meta(m)["context_window"] > 0 THEN {Meta(m)["context_window"]} ELSE {}
    BY <1>2, EntryIs DEF FirstPositive, Positive
<1>4. FirstPositive(e, "max_output_tokens", "max_completion_tokens")
         = IF Meta(m)["max_output"] > 0 THEN {Meta(m)["max_output"]} ELSE {}
    BY <1>2, EntryIs DEF FirstPositive, Positive
<1> HIDE DEF e
<1> QED BY <1>3, <1>4 DEF Limits, e

\* What is listed are the models of the providers in the file.
LEMMA ListedAreModels ==
    ASSUME config \in Files
    PROVE  /\ \A m \in Listed : m \in Models
           /\ \A m : m \in Listed <=> \E i \in DOMAIN config.order : m \in ToSet(config.models[config.order[i]])
<1>1. \A i \in DOMAIN config.order : config.order[i] \in Providers
    BY FileParts
<1>2. \A p \in Providers : config.models[p] \in Seq(Models)
    BY FileParts
<1>3. \A p \in Providers : \A m \in ToSet(config.models[p]) : m \in Models
    BY <1>2 DEF ToSet
<1> QED BY <1>1, <1>3 DEF Listed

\* The answer of each renderer to a client that is configured.
LEMMA ToldIs ==
    ASSUME NEW client \in Registered
    PROVE  /\ \A m : m \in DOMAIN Told(client) <=> m \in Listed
           /\ \A m \in Listed :
                 /\ Told(client)[m] = Fragment(client, CatalogEntry(m))
                 /\ Told(client)[m].output = Limits(CatalogEntry(m)).output
                 /\ Told(client)[m].context = Limits(CatalogEntry(m)).context
<1>1. Told(client) = [m \in Listed |-> Fragment(client, CatalogEntry(m))]
    BY DEF Told, HandleClientConfig, Registered, RenderFails
<1>2. \A e : /\ Fragment(client, e).output = Limits(e).output
             /\ Fragment(client, e).context = Limits(e).context
    BY DEF Registered, Fragment, OpencodeModel, OpenclawModel, ZotModel
<1> QED BY <1>1, <1>2

\* A clamp changes a body exactly if one of its fields is beyond the limit.
LEMMA ClampBites ==
    ASSUME NEW body \in Bodies, NEW limit \in Int
    PROVE  Request(body, limit) # body <=>
              limit > 0 /\ \E f \in Tokens \cap DOMAIN body : body[f] > limit
<1>1. body = [f \in DOMAIN body |-> body[f]] /\ \A f \in Tokens \cap DOMAIN body : body[f] \in Int
    BY WireAssumption
<1>2. CASE limit <= 0
    BY <1>2 DEF Request
<1>3. CASE limit > 0
  <2>1. Request(body, limit) = [f \in DOMAIN body |-> IF f \in Tokens /\ body[f] > limit THEN limit ELSE body[f]]
      BY <1>3 DEF Request
  <2>2. ASSUME NEW f \in Tokens \cap DOMAIN body, body[f] > limit
        PROVE  Request(body, limit) # body
    <3>1. Request(body, limit)[f] = limit
        BY <2>1, <2>2
    <3>2. body[f] \in Int /\ body[f] # limit
        BY <1>1, <2>2
    <3> QED BY <3>1, <3>2
  <2>3. ASSUME \A f \in Tokens \cap DOMAIN body : ~(body[f] > limit)
        PROVE  Request(body, limit) = body
    <3>1. Request(body, limit) = [f \in DOMAIN body |-> body[f]]
        BY <2>1, <2>3
    <3> QED BY <1>1, <3>1
  <2> QED BY <1>3, <2>2, <2>3
<1> QED BY <1>2, <1>3

\* What is told of the limits is enforced.
LEMMA ToldEnforced == FileInv => ToldIsEnforced
<1> SUFFICES ASSUME config \in Files, NEW client \in Registered, NEW m \in DOMAIN Told(client),
                    NEW body \in Bodies
             PROVE  /\ ModelClamp(m, body) # body <=>
                          \E f \in Tokens \cap DOMAIN body, l \in Told(client)[m].output : body[f] > l
                    /\ \A prompt \in Prompts :
                          ExceedsContextWindow(m, prompt, body) <=>
                              \E w \in Told(client)[m].context :
                                  100 * (prompt + Counted(m, body)) > w * (100 + Margin)
    BY DEF FileInv, ToldIsEnforced
<1> DEFINE told == Told(client)[m]
           mo == Meta(m)["max_output"]
           cw == Meta(m)["context_window"]
<1>1. m \in Listed /\ m \in Models
    BY ToldIs, ListedAreModels
<1>2. told.output = Limits(CatalogEntry(m)).output /\ told.context = Limits(CatalogEntry(m)).context
    BY <1>1, ToldIs
<1>3. /\ \A l : l \in told.output <=> l = mo /\ mo > 0
      /\ \A w : w \in told.context <=> w = cw /\ cw > 0
    BY <1>1, <1>2, LimitsAre
<1>4. mo \in Int
    BY <1>1, MetaNumbers DEF Fields, MetaFields
<1>5. ModelClamp(m, body) # body <=> mo > 0 /\ \E f \in Tokens \cap DOMAIN body : body[f] > mo
    BY <1>4, ClampBites DEF ModelClamp
<1>6. ASSUME NEW prompt \in Prompts
      PROVE  ExceedsContextWindow(m, prompt, body) <=>
                 \E w \in told.context : 100 * (prompt + Counted(m, body)) > w * (100 + Margin)
  <2>1. ExceedsContextWindow(m, prompt, body) <=>
            cw > 0 /\ 100 * (prompt + Counted(m, body)) > cw * (100 + Margin)
      BY DEF ExceedsContextWindow, Limit
  <2> HIDE DEF told, cw
  <2> QED BY <1>3, <2>1
<1> HIDE DEF told, mo
<1>7. ModelClamp(m, body) # body <=> \E f \in Tokens \cap DOMAIN body, l \in told.output : body[f] > l
    BY <1>3, <1>5
<1> QED BY <1>6, <1>7 DEF told

\* What is told of models and efforts is served.
LEMMA ToldServed == FileInv => ToldIsServed
<1> SUFFICES ASSUME FileInv
             PROVE  ToldIsServed
    OBVIOUS
<1>1. config \in Files
    BY DEF FileInv
<1>2. Listed = {m \in Models : Chain(m) # <<>>}
    BY <1>1, ListedAreModels, ChainIs
<1>3. ASSUME NEW m \in Listed
      PROVE  LET told == Told("opencode")[m]
                 sent(body) == Sent(m, TRUE, body)
             IN  /\ told.default \subseteq told.variants
                 /\ \A body \in {b \in Bodies : ~HasExplicitEffort(b)} : \A i \in DOMAIN sent(body) :
                       "reasoning_effort" \in DOMAIN sent(body)[i] =>
                           sent(body)[i]["reasoning_effort"] \in told.default
  <2> DEFINE told == Told("opencode")[m]
             e == CatalogEntry(m)
             levels == ToSet(LevelsOf[Meta(m)["thinking"]])
             default == config.default[m]
  <2>1. m \in Models
      BY <1>1, ListedAreModels
  <2>2. told = OpencodeModel(e)
      BY ToldIs DEF Registered, Fragment
  <2>3. told.default = Thinking(e) /\ told.variants = Variants(e)
      BY <2>2 DEF OpencodeModel
  <2>4. default # NoLevel => default \in levels
      BY <2>1 DEF FileInv, Valid, Meta
  <2>5. levels # {} => HasMetadata(m)
    <3>1. ASSUME Meta(m)["thinking"] = 0
          PROVE  levels = {}
        BY <3>1, SyncPlanAssumption DEF ToSet
    <3> QED BY <3>1 DEF HasMetadata, MetaFields
  <2>6. /\ "levels" \in DOMAIN e <=> levels # {}
        /\ "levels" \in DOMAIN e => e["levels"] = levels
        /\ "default" \in DOMAIN e <=> levels # {} /\ default # NoLevel
        /\ "default" \in DOMAIN e => e["default"] = default
      BY <2>5, EntryIs
  <2> HIDE DEF told, e, levels, default
  <2>7. Variants(e) = levels
      BY <2>6 DEF Variants, ThinkingLevels
  <2>8. \A l : l \in told.default <=> l = default /\ default # NoLevel
      BY <2>3, <2>4, <2>6, <2>7 DEF Thinking
  <2>9. told.default \subseteq told.variants
      BY <2>3, <2>4, <2>7, <2>8
  <2>10. ASSUME NEW stream \in BOOLEAN, NEW body \in Bodies, ~HasExplicitEffort(body),
                NEW i \in DOMAIN Sent(m, stream, body),
                "reasoning_effort" \in DOMAIN Sent(m, stream, body)[i]
         PROVE  Sent(m, stream, body)[i]["reasoning_effort"] \in told.default
    <3>1. "reasoning_effort" \in Efforts /\ "reasoning_effort" \notin DOMAIN body
        BY <2>10 DEF HasExplicitEffort, Efforts
    <3>2. /\ "reasoning_effort" \in Injected(m, Chain(m)[i])
          /\ Sent(m, stream, body)[i]["reasoning_effort"] = default
      <4> DEFINE b == Sent(m, stream, body)[i]
      <4>1. /\ \A f \in Efforts : f \in DOMAIN b <=>
                  f \in DOMAIN body \/ (~HasExplicitEffort(body) /\ f \in Injected(m, Chain(m)[i]))
            /\ "reasoning_effort" \in DOMAIN b /\ "reasoning_effort" \notin DOMAIN body =>
                  b["reasoning_effort"] = config.default[m]
          BY <1>1, <2>1, SentIs
      <4> HIDE DEF b
      <4>2. "reasoning_effort" \in DOMAIN b
          BY <2>10 DEF b
      <4> QED BY <2>10, <3>1, <4>1, <4>2 DEF default, b
    <3>3. default # NoLevel
        BY <2>1, <3>2, InjectedIsListed DEF default
    <3> QED BY <2>8, <3>2, <3>3
  <2>11. ASSUME NEW body \in Bodies, ~HasExplicitEffort(body), NEW i \in DOMAIN Sent(m, TRUE, body),
                "reasoning_effort" \in DOMAIN Sent(m, TRUE, body)[i]
         PROVE  Sent(m, TRUE, body)[i]["reasoning_effort"] \in told.default
    <3>1. TRUE \in BOOLEAN
        OBVIOUS
    <3> QED BY <2>10, <2>11, <3>1, Zenon
  <2> QED BY <2>9, <2>11 DEF told
<1> QED BY <1>2, <1>3 DEF ToldIsServed

-----------------------------------------------------------------------------
\* What is told of limits, checked, clamped and sent agree over every file that the runs
\* of mofgw-sync leave.
THEOREM LimitsAgreeAlways == SyncSpec => []LimitsAgree
<1>1. FileInv => LimitsAgree
    BY AdmittedFit, ToldEnforced DEF LimitsAgree
<1> QED BY <1>1, FileInvAlways, PTL

\* The same of the models and efforts.
THEOREM EffortsAgreeAlways == SyncSpec => []EffortsAgree
<1>1. FileInv => EffortsAgree
    BY EffortListed, ToldServed DEF EffortsAgree
<1> QED BY <1>1, FileInvAlways, PTL

-----------------------------------------------------------------------------
(* The models cache: with the lock, a stale file is seen by one run, and   *)
(* the file never gets older.                                              *)

Fetching == {"fetch", "again", "digest", "commit"}

\* A run that is past the lock is its owner.
OwnerIsPast == locking => \A p \in Procs : pc[p] \in Past => owner = p

\* The file a run decided to replace is still stale.
StaleHeld == locking => \A p \in Procs : pc[p] \in Fetching => ~Fresh

\* Nothing is newer than what the source serves, and the file is no newer than
\* what a run is about to put over it.
NothingFromTheFuture ==
    /\ cache <= upstream
    /\ \A p \in Procs : raw[p] <= upstream
    /\ locking => \A p \in Procs : pc[p] \in {"digest", "commit"} => cache <= raw[p]

IInv == TypeOK /\ OwnerIsPast /\ StaleHeld /\ NothingFromTheFuture

LEMMA InitIInv == Init => IInv
  BY CacheAssumption
  DEF Init, IInv, TypeOK, OwnerIsPast, StaleHeld, NothingFromTheFuture, Past, Fetching,
      Versions, None, Absent, Embedded, NoProc, Points, Results

-----------------------------------------------------------------------------
(* One lemma per group of actions.                                         *)

\* A run starts, takes the lock or finds it taken.
LEMMA LockSteps ==
    ASSUME IInv, NEW p \in Procs, Start(p) \/ Lock(p) \/ LockBusy(p)
    PROVE  IInv'
  <1> USE CacheAssumption DEF IInv, GoTo, Return, fixed, file, run, Past, Fetching, Points, Results
  <1>1. TypeOK'
    BY DEF TypeOK, Start, Lock, LockBusy
  <1>2. OwnerIsPast'
    BY DEF TypeOK, OwnerIsPast, Start, Lock, LockBusy
  <1>3. StaleHeld'
    BY DEF TypeOK, StaleHeld, Fresh, Start, Lock, LockBusy
  <1>4. NothingFromTheFuture'
    BY DEF TypeOK, NothingFromTheFuture, Start, Lock, LockBusy
  <1>5. QED BY <1>1, <1>2, <1>3, <1>4

\* The look at the age of the file.
LEMMA StatSteps ==
    ASSUME IInv, NEW p \in Procs, StatDisabled(p) \/ StatFresh(p) \/ StatStale(p)
    PROVE  IInv'
  <1> USE CacheAssumption DEF IInv, GoTo, Return, fixed, file, run, Past, Fetching, Points, Results
  <1>1. TypeOK'
    BY DEF TypeOK, StatDisabled, StatFresh, StatStale
  <1>2. OwnerIsPast'
    BY DEF TypeOK, OwnerIsPast, StatDisabled, StatFresh, StatStale
  <1>3. StaleHeld'
    BY DEF TypeOK, StaleHeld, Fresh, StatDisabled, StatFresh, StatStale
  <1>4. NothingFromTheFuture'
    BY DEF TypeOK, NothingFromTheFuture, StatDisabled, StatFresh, StatStale
  <1>5. QED BY <1>1, <1>2, <1>3, <1>4

\* What a run fetches is what the source serves, so no older than the file.
LEMMA FetchSteps ==
    ASSUME IInv, NEW p \in Procs,
           \E at \in {"fetch", "again"} : Fetch(p, at) \/ FetchFails(p, at) \/ FetchRetried(p)
    PROVE  IInv'
  <1> PICK at \in {"fetch", "again"} : Fetch(p, at) \/ FetchFails(p, at) \/ FetchRetried(p)
    OBVIOUS
  <1> USE CacheAssumption
      DEF IInv, GoTo, Return, Fails, fixed, file, run, Past, Fetching, Points, Results
  <1>1. TypeOK'
    BY DEF TypeOK, Fetch, FetchFails, FetchRetried
  <1>2. OwnerIsPast'
    BY DEF TypeOK, OwnerIsPast, Fetch, FetchFails, FetchRetried
  <1>3. StaleHeld'
    BY DEF TypeOK, StaleHeld, Fresh, Fetch, FetchFails, FetchRetried
  <1>4. NothingFromTheFuture'
    BY DEF TypeOK, NothingFromTheFuture, Versions, Fetch, FetchFails, FetchRetried
  <1>5. QED BY <1>1, <1>2, <1>3, <1>4

\* The sidecar, the file, and the steps that leave both alone.
LEMMA PersistSteps ==
    ASSUME IInv, NEW p \in Procs, SkipIdentical(p) \/ WriteSidecar(p) \/ WriteFails(p)
    PROVE  IInv'
  <1> USE CacheAssumption
      DEF IInv, GoTo, Return, Fails, fixed, file, run, Past, Fetching, Points, Results
  <1>1. TypeOK'
    BY DEF TypeOK, SkipIdentical, WriteSidecar, WriteFails
  <1>2. OwnerIsPast'
    <2>1. CASE SkipIdentical(p) \/ WriteSidecar(p)
      BY <2>1 DEF TypeOK, OwnerIsPast, SkipIdentical, WriteSidecar
    <2>2. CASE WriteFails(p)
      BY <2>2 DEF TypeOK, OwnerIsPast, WriteFails
    <2>3. QED BY <2>1, <2>2
  <1>3. StaleHeld'
    BY DEF TypeOK, StaleHeld, Fresh, SkipIdentical, WriteSidecar, WriteFails
  <1>4. NothingFromTheFuture'
    BY DEF TypeOK, NothingFromTheFuture, SkipIdentical, WriteSidecar, WriteFails
  <1>5. QED BY <1>1, <1>2, <1>3, <1>4

\* With the lock no other run is past the look, so that the fresh file surprises none.
LEMMA CommitStep ==
    ASSUME IInv, NEW p \in Procs, WriteCache(p)
    PROVE  IInv'
  <1> USE CacheAssumption
      DEF IInv, WriteCache, GoTo, Return, fixed, file, run, Past, Fetching, Points, Results
  <1>1. TypeOK'
    BY DEF TypeOK
  <1>2. OwnerIsPast'
    BY DEF TypeOK, OwnerIsPast
  <1>3. locking => \A q \in Procs \ {p} : pc[q] \notin Past
    BY DEF OwnerIsPast
  <1>4. StaleHeld'
    BY <1>3 DEF TypeOK, StaleHeld
  <1>5. NothingFromTheFuture'
    BY <1>3 DEF TypeOK, NothingFromTheFuture
  <1>6. QED BY <1>1, <1>2, <1>4, <1>5

\* Reading the file, leaving, and being killed.
LEMMA LoadSteps ==
    ASSUME IInv, NEW p \in Procs, Get(p) \/ GetFails(p) \/ Fallback(p) \/ Exit(p) \/ Kill(p)
    PROVE  IInv'
  <1> USE CacheAssumption
      DEF IInv, GoTo, Ended, Fails, fixed, file, run, Past, Fetching, Points, Results
  <1>1. TypeOK'
    <2>1. CASE Get(p) \/ GetFails(p) \/ Fallback(p)
      BY <2>1 DEF TypeOK, Versions, Get, GetFails, Fallback
    <2>2. CASE Exit(p)
      BY <2>2 DEF TypeOK, Exit
    <2>3. CASE Kill(p)
      BY <2>3 DEF TypeOK, Kill
    <2>4. QED BY <2>1, <2>2, <2>3
  <1>2. OwnerIsPast'
    BY DEF TypeOK, OwnerIsPast, Get, GetFails, Fallback, Exit, Kill
  <1>3. StaleHeld'
    BY DEF TypeOK, StaleHeld, Fresh, Get, GetFails, Fallback, Exit, Kill
  <1>4. NothingFromTheFuture'
    BY DEF TypeOK, NothingFromTheFuture, None, Versions, Get, GetFails, Fallback, Exit, Kill
  <1>5. QED BY <1>1, <1>2, <1>3, <1>4

\* The source publishes, time passes, someone clears the file.
LEMMA EnvironmentSteps ==
    ASSUME IInv, Clear \/ Publish \/ Tick
    PROVE  IInv'
  <1> USE CacheAssumption DEF IInv, Fails, fixed, file, run, Past, Fetching, Clear, Publish, Tick
  <1>1. TypeOK'
    BY DEF TypeOK, Versions
  <1>2. OwnerIsPast'
    BY DEF OwnerIsPast
  <1>3. StaleHeld'
    BY DEF TypeOK, StaleHeld, Fresh
  <1>4. NothingFromTheFuture'
    BY DEF TypeOK, NothingFromTheFuture, None, Versions
  <1>5. QED BY <1>1, <1>2, <1>3, <1>4

LEMMA Stutter == ASSUME IInv, UNCHANGED vars PROVE IInv'
  BY DEF IInv, TypeOK, OwnerIsPast, StaleHeld, NothingFromTheFuture, Fresh, Past, Fetching,
         vars, file, run

LEMMA NextIInv == IInv /\ [Next]_vars => IInv'
  <1> SUFFICES ASSUME IInv, [Next]_vars PROVE IInv'
    OBVIOUS
  <1>1. CASE \E p \in Procs : Start(p) \/ Refresh(p)
    BY <1>1, LockSteps, StatSteps, FetchSteps, PersistSteps, CommitStep DEF Refresh
  <1>2. CASE \E p \in Procs : FetchRetried(p) \/ WriteFails(p) \/ Load(p) \/ Kill(p)
    BY <1>2, FetchSteps, PersistSteps, LoadSteps DEF Load
  <1>3. CASE Clear \/ Publish \/ Tick
    BY <1>3, EnvironmentSteps
  <1>4. CASE UNCHANGED vars
    BY <1>4, Stutter
  <1>5. QED BY <1>1, <1>2, <1>3, <1>4 DEF Next

LEMMA IInvAlways == Spec => []IInv
  BY InitIInv, NextIInv, PTL DEF Spec

-----------------------------------------------------------------------------
\* P9 of 019-001 (Store.Refresh takes the flock before it looks at the age): at most
\* one run at a time acts on a stale file, and the file is still stale when it does.
THEOREM StaleIsSeenOnceAlways == Spec => []StaleIsSeenOnce
  <1>1. IInv => StaleIsSeenOnce
    BY DEF IInv, OwnerIsPast, StaleHeld, StaleIsSeenOnce, Past, Fetching
  <1>2. QED BY <1>1, IInvAlways, PTL

\* persist under the flock: a refresh never replaces the cached models by older ones,
\* whatever fails or is killed between the fetch and the write.
THEOREM NeverOlderAlways == Spec => NeverOlder
  <1>1. IInv /\ [Next]_vars => [locking /\ cache' # None => cache' >= cache]_vars
    <2> SUFFICES ASSUME IInv, Next, locking, cache' # None PROVE cache' >= cache
      OBVIOUS
    <2> USE CacheAssumption DEF IInv, TypeOK, Versions
    <2>0. cache \in Int
      BY DEF None
    <2>1. CASE \E p \in Procs : WriteCache(p)
      BY <2>0, <2>1 DEF WriteCache, Return, GoTo, NothingFromTheFuture, None
    <2>2. CASE Clear
      BY <2>2 DEF Clear
    <2>3. CASE Publish \/ Tick
      BY <2>0, <2>3 DEF Publish, Tick, file
    <2>4. CASE \E p \in Procs : \/ Start(p) \/ Lock(p) \/ LockBusy(p)
                                \/ StatDisabled(p) \/ StatFresh(p) \/ StatStale(p)
      BY <2>0, <2>4 DEF Start, Lock, LockBusy, StatDisabled, StatFresh, StatStale, file
    <2>5. CASE \E p \in Procs : \/ FetchRetried(p) \/ SkipIdentical(p) \/ WriteSidecar(p)
                                \/ WriteFails(p) \/ Kill(p)
                                \/ \E at \in {"fetch", "again"} : Fetch(p, at) \/ FetchFails(p, at)
      BY <2>0, <2>5
      DEF FetchRetried, SkipIdentical, WriteSidecar, WriteFails, Kill, Fetch, FetchFails, file
    <2>6. CASE \E p \in Procs : Load(p)
      BY <2>0, <2>6 DEF Load, Get, GetFails, Fallback, Exit, file
    <2>7. QED BY <2>1, <2>2, <2>3, <2>4, <2>5, <2>6 DEF Next, Refresh
  <1>2. QED BY <1>1, IInvAlways, PTL DEF Spec, NeverOlder

=============================================================================
