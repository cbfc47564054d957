------------------------------ MODULE SyncPlan ------------------------------
(***************************************************************************)
(* What a run of mofgw-sync makes of config.yaml and the catalogs: Merge   *)
(* (catalogmerge), Serialize (configsync) and the rules of validate that   *)
(* the catalogs can break.  ConfigSync has it as one function, Merge.      *)
(*                                                                         *)
(* Providers, models and the providers of models.dev are numbered in the   *)
(* order of their names.  A field is a number, zero where it is absent;    *)
(* entries of pricing and of model_metadata are the fields of a model.     *)
(***************************************************************************)
EXTENDS Integers, Sequences, SequencesExt, FiniteSets, FiniteSetsExt

CONSTANTS
    Providers, Models, Keys,   \* Keys are the short names models.dev uses
    SyncSource,                \* "" where it is not set
    Subprocesses,              \* providers of that type
    BaseURL,                   \* of a provider: the source whose URL it is
    SyncMirror,                \* 0 where it is not set
    Opencode, OpencodeGo,      \* the default mirrors of zen and go
    Aliases,                   \* models whose name begins with "~"
    Name, Short,               \* of the models, with and without their vendor
    LevelsOf,                  \* the levels a value of "thinking" lists, in order
    Configs,                   \* what the operator may start with
    Catalogs                   \* what the four caches may give to a run

Missing == [found |-> FALSE]
NoLevel == "none"
PriceFields == {"input", "output", "cache_hit"}
MetaFields == {"context_window", "max_output", "modality", "supported_parameters", "thinking"}
OrFields == {"max_output", "modality", "supported_parameters"}
Fields == PriceFields \cup MetaFields

VARIABLE config

\* The numbers of a set in their order.
Nth(S, n) == CHOOSE x \in S : Cardinality({y \in S : y <= x}) = n
Ascending(S) == [n \in 1..Cardinality(S) |-> Nth(S, n)]

-----------------------------------------------------------------------------
(* Merge: buildProvider.                                                   *)

\* sourceForProvider: the knob wins, then the URL.
Source(p) ==
    IF SyncSource[p] # "" THEN SyncSource[p]
    ELSE IF p \notin Subprocesses /\ BaseURL[p] \in {"zen", "go", "openrouter"} THEN BaseURL[p]
    ELSE "modelsdev"

Or(s, m) == IF s.or.found /\ m \in DOMAIN s.or.models THEN s.or.models[m] ELSE Missing

HasTarget(s, m) == Or(s, m).found /\ Or(s, m).target \in Keys

\* resolveOpenRouterAccess: an alias without a known target is left out.
Access(c, p, s) ==
    {m \in ToSet(c.models[p]) : Source(p) = "openrouter" /\ m \in Aliases => HasTarget(s, m)}

\* The list of access of zen or go is absent.
Degraded(p, s) == (Source(p) = "zen" /\ ~s.zen) \/ (Source(p) = "go" /\ ~s.go)

PlannedModels(c, p, s) == IF Degraded(p, s) THEN {} ELSE Access(c, p, s)

\* orShortKey for a provider of openrouter; elsewhere the name itself is the key.
ShortKey(p, s, m) ==
    IF Source(p) # "openrouter" THEN Name[m]
    ELSE IF m \in Aliases THEN Or(s, m).target ELSE Short[m]

\* mirrorFor: the knob if models.dev has it, the default of the source otherwise.
Mirror(p, s) ==
    IF SyncMirror[p] \in DOMAIN s.dev.providers THEN SyncMirror[p]
    ELSE CASE Source(p) = "zen" -> Opencode
           [] Source(p) = "go"  -> OpencodeGo
           [] OTHER             -> 0

CostPresent(x) == \E f \in PriceFields \cup {"cache_write"} : x[f] # 0

Listing(s, k) == {d \in DOMAIN s.dev.providers : k \in DOMAIN s.dev.providers[d]}
Priced(s, k) == {d \in Listing(s, k) : CostPresent(s.dev.providers[d][k])}

\* lookupModel: the mirror, the first provider with a cost, the first one.
Lister(p, s, k) ==
    IF Mirror(p, s) \in Listing(s, k) THEN Mirror(p, s)
    ELSE IF Priced(s, k) # {} THEN Min(Priced(s, k))
    ELSE Min(Listing(s, k))

\* What models.dev says of an accessible model; nothing if it does not know it, and
\* openrouter's catalog may describe it all the same.
FromDev(p, s, m) ==
    LET k == ShortKey(p, s, m)
    IN  IF Listing(s, k) = {} THEN [f \in Fields |-> 0] ELSE s.dev.providers[Lister(p, s, k)][k]

\* pricingOf, buildMetadata and buildSupported: models.dev's fields, and openrouter's
\* where they fill a gap of it or take its place.
Given(p, s, m, f) ==
    LET o == IF Source(p) = "openrouter" THEN Or(s, m) ELSE Missing
        x == FromDev(p, s, m)
    IN  CASE f = "supported_parameters" /\ Source(p) = "openrouter" -> IF o.found THEN o[f] ELSE 0
          [] f \in {"max_output", "modality"} /\ x[f] = 0 /\ o.found -> o[f]
          [] OTHER -> x[f]

-----------------------------------------------------------------------------
(* Serialize.                                                              *)

\* pricingEntries, metadataEntries: the providers that give a field of a model.
Givers(c, s, m, f) ==
    {p \in Providers : s.dev.found /\ m \in PlannedModels(c, p, s) /\ Given(p, s, m, f) # 0}

SlipDocumentOrder(c, givers) ==
    CHOOSE p \in givers : \A q \in givers :
        \E i, j \in DOMAIN c.order : c.order[i] = p /\ c.order[j] = q /\ i >= j

\* mergeFields: the last provider in the order of the names wins.
Winner(c, givers) == Max(givers)

SlipAbsentErases(c, s, m, f) ==
    LET g == Givers(c, s, m, f) IN IF g # {} THEN Given(Winner(c, g), s, m, f) ELSE 0

\* mergeKeyedSection: a field of the plan overwrites, an absent one preserves.
Written(c, s, m, f) ==
    LET g == Givers(c, s, m, f) IN IF g # {} THEN Given(Winner(c, g), s, m, f) ELSE c.entry[m][f]

SlipKeepsDefault(c, s, m) == c.default[m]

\* E3: a default that is not among the levels of the plan goes.
Default(c, s, m) ==
    IF Givers(c, s, m, "thinking") # {} /\ c.default[m] \notin ToSet(LevelsOf[Written(c, s, m, "thinking")])
    THEN NoLevel ELSE c.default[m]

SlipAppends(c, p, s) == c.models[p] \o Ascending(PlannedModels(c, p, s))

\* replaceModels; a provider whose plan has no models is not touched.
NewModels(c, p, s) ==
    IF PlannedModels(c, p, s) = {} THEN c.models[p]
    ELSE Ascending(PlannedModels(c, p, s))

NoSource(s) == ~s.dev.found /\ ~s.or.found /\ ~s.zen /\ ~s.go

\* The candidate; without any source Merge fails and the run ends.
Candidate(c, s) ==
    IF NoSource(s) THEN c
    ELSE [c EXCEPT !.models = [p \in Providers |-> NewModels(c, p, s)],
                   !.entry = [m \in Models |-> [f \in Fields |-> Written(c, s, m, f)]],
                   !.default = [m \in Models |-> Default(c, s, m)]]

-----------------------------------------------------------------------------
\* validate, where the candidate can differ from a valid file.
Valid(c) ==
    /\ \A p \in Providers : c.models[p] # <<>>
    /\ \A m \in Models :
          /\ c.default[m] # NoLevel => c.default[m] \in ToSet(LevelsOf[c.entry[m]["thinking"]])
          /\ \A f \in Fields : c.entry[m][f] >= 0

Levels == UNION {ToSet(LevelsOf[v]) : v \in DOMAIN LevelsOf}

Entries == {e \in [Fields -> Int] : e["thinking"] \in DOMAIN LevelsOf}

Files == [order : Seq(Providers), models : [Providers -> Seq(Models)],
          entry : [Models -> Entries], default : [Models -> Levels \cup {NoLevel}]]

\* A catalog as Merge gets it: tables with a number for each field.
Parsed(s) ==
    /\ IsFiniteSet(DOMAIN s.dev.providers) /\ DOMAIN s.dev.providers \subseteq Int
    /\ \A d \in DOMAIN s.dev.providers : \A k \in DOMAIN s.dev.providers[d] :
          /\ \A f \in Fields : s.dev.providers[d][k][f] \in Int
          /\ s.dev.providers[d][k]["thinking"] \in DOMAIN LevelsOf
    /\ s.or.found => \A m \in DOMAIN s.or.models : \A f \in OrFields : s.or.models[m][f] \in Int

\* A run begins with a file that config.Parse accepted, or ends there.
ASSUME SyncPlanAssumption ==
    /\ IsFiniteSet(Providers) /\ Providers \subseteq Nat
    /\ IsFiniteSet(Models) /\ Models \subseteq Nat
    /\ 0 \in DOMAIN LevelsOf /\ LevelsOf[0] = <<>>
    /\ \A v \in DOMAIN LevelsOf : LevelsOf[v] \in Seq(STRING)
    /\ \A c \in Configs : c \in Files /\ Valid(c)
    /\ \A s \in Catalogs : Parsed(s)

SyncInit == config \in Configs

\* A run with what the caches give; the next one finds what it wrote.
Run(s) == Valid(Candidate(config, s)) /\ config' = Candidate(config, s)

\* The candidate does not validate: fail-loud, nothing is written.
Reject(s) == ~Valid(Candidate(config, s)) /\ UNCHANGED config

SyncNext == \E s \in Catalogs : Run(s) \/ Reject(s)

SyncSpec == SyncInit /\ [][SyncNext]_config

-----------------------------------------------------------------------------
\* What the catalogs offer has no negative price, window or limit.
Sane(s) ==
    /\ \A d \in DOMAIN s.dev.providers : \A k \in DOMAIN s.dev.providers[d] :
          \A f \in Fields : s.dev.providers[d][k][f] >= 0
    /\ s.or.found => \A m \in DOMAIN s.or.models : \A f \in OrFields : s.or.models[m][f] >= 0

\* P4c and E3 of 019-004: the merge itself never makes a file invalid that was not, so
\* that a run fails loud only for what a catalog says.
StaysValid ==
    /\ Valid(config)
    /\ \A s \in Catalogs : Sane(s) => Valid(Candidate(config, s))

\* P6 and P11 of 019-004: a second run over the same catalogs finds nothing to change,
\* which is what the skip by digest and the reload it saves rest on.
Fixpoint ==
    \A s \in Catalogs :
        LET c == Candidate(config, s) IN Valid(c) => Candidate(c, s) = c

\* P2 to P4 of 019-004: the order of the providers, the models of a provider and, but
\* for a stale one, the operator's thinking_default survive; no field that had a number
\* is left without one; entries no provider uses are as they were; a source of access
\* that is absent leaves its providers alone.
NothingElseTouched ==
    \A s \in Catalogs :
        LET c == Candidate(config, s)
        IN  /\ c.order = config.order
            /\ \A p \in Providers :
                  /\ ToSet(c.models[p]) \subseteq ToSet(config.models[p])
                  /\ Degraded(p, s) => c.models[p] = config.models[p]
                  /\ \A m \in ToSet(config.models[p]) \ Aliases : m \in ToSet(c.models[p])
            /\ \A m \in Models :
                  /\ \A f \in Fields : config.entry[m][f] # 0 => c.entry[m][f] # 0
                  /\ c.default[m] # config.default[m] =>
                        /\ c.default[m] = NoLevel
                        /\ config.default[m] \notin ToSet(LevelsOf[c.entry[m]["thinking"]])
                  /\ (\A p \in Providers : m \notin ToSet(config.models[p])) =>
                        c.entry[m] = config.entry[m] /\ c.default[m] = config.default[m]

Reversed(c) == [c EXCEPT !.order = Reverse(c.order)]

\* D7 of 019-003 and D9 of 019-004: the order of the providers in the file is the chain
\* of fallbacks and has no say in prices and metadata, also of shared models.
OrderHasNoSay ==
    \A s \in Catalogs : Candidate(Reversed(config), s) = Reversed(Candidate(config, s))

=============================================================================
