-------------------------------- MODULE Wire --------------------------------
(***************************************************************************)
(* The bodies the providers get for one request of a client, over the      *)
(* model_metadata that the runs of mofgw-sync left in config.yaml: the     *)
(* clamps by model and by provider, the check of the window, include_usage *)
(* and the injection of the prescribed thinking_default.                   *)
(*                                                                         *)
(* A body is a function of the fields present in it.                       *)
(***************************************************************************)
EXTENDS SyncPlan

CONSTANTS
    ProviderMax,   \* max_tokens of a provider, 0 without a limit
    Path,          \* its thinking_path, or its id
    Margin,        \* percent of the window
    Bodies,
    Prompts        \* estimates of the tokens of a prompt

Tokens == {"max_tokens", "max_completion_tokens"}
Efforts == {"reasoning_effort", "thinking", "enable_thinking"}

ASSUME WireAssumption ==
    /\ ProviderMax \in [Providers -> Int] /\ Margin \in Int /\ Prompts \subseteq Int
    /\ \A body \in Bodies : /\ body = [f \in DOMAIN body |-> body[f]]
                            /\ \A f \in Tokens \cap DOMAIN body : body[f] \in Int

Meta(m) == config.entry[m]

-----------------------------------------------------------------------------
\* clamp.Request; without a limit the body is left alone.
Request(body, limit) ==
    IF limit <= 0 THEN body
    ELSE [f \in DOMAIN body |-> IF f \in Tokens /\ body[f] > limit THEN limit ELSE body[f]]

\* The clamp of handleChat, before the window and the routing.
ModelClamp(m, body) == Request(body, Meta(m)["max_output"])

\* The max_tokens that count for the window: those of the client, up to max_output.
Counted(m, body) ==
    IF "max_tokens" \notin DOMAIN body THEN 0
    ELSE IF Meta(m)["max_output"] > 0 THEN Min({body["max_tokens"], Meta(m)["max_output"]})
    ELSE body["max_tokens"]

Limit(m) == Meta(m)["context_window"] * (100 + Margin)

ExceedsContextWindow(m, prompt, body) ==
    /\ Meta(m)["context_window"] > 0
    /\ 100 * (prompt + Counted(m, body)) > Limit(m)

-----------------------------------------------------------------------------
\* The fields of both; where both have one, the first's stands.
Added(a, b) == [f \in DOMAIN a \cup DOMAIN b |-> IF f \in DOMAIN a THEN a[f] ELSE b[f]]

\* ensureIncludeUsage; what the client said itself stands.
IncludeUsage(body) == Added(body, [f \in {"include_usage"} |-> TRUE])

\* Levels of models that think always or by themselves.
Marks == {"always", "adaptive"}

\* The first level that names a family decides; "high" alone is a family too.
ThinkingProfile(levels) ==
    LET named == {i \in DOMAIN levels :
                    levels[i] \in Marks \cup {"low", "medium", "max"}}
    IN  IF named # {}
        THEN IF levels[Min(named)] \in Marks THEN "" ELSE "reasoning"
        ELSE IF levels = <<"high">> THEN "qwen" ELSE ""

\* The verified pairs of path and family; nothing is guessed for the others.
ThinkingInjection(path, profile) ==
    CASE profile = "reasoning" /\ path = "zen"     -> {"reasoning_effort"}
      [] profile = "reasoning" /\ path = "bailian" -> {"reasoning_effort", "enable_thinking"}
      [] profile = "qwen" /\ path = "bailian"      -> {"enable_thinking"}
      [] OTHER -> {}

SlipOnlyEffort(body) == "reasoning_effort" \in DOMAIN body

\* Any parameter of thinking, with any value.
HasExplicitEffort(body) == Efforts \cap DOMAIN body # {}

\* The injected parameters overwrite.
Inject(m, params, body) ==
    Added([f \in params |-> IF f = "reasoning_effort" THEN config.default[m] ELSE TRUE], body)

InjectForAttempt(m, p, body) ==
    IF config.default[m] = NoLevel THEN body
    ELSE Inject(m, ThinkingInjection(Path[p], ThinkingProfile(LevelsOf[Meta(m)["thinking"]])), body)

\* The body of one attempt, from the one that handleChat hands to the router.
AttemptBody(m, p, explicit, body) ==
    LET clamped == Request(body, ProviderMax[p])
    IN  IF explicit THEN clamped ELSE InjectForAttempt(m, p, clamped)

\* The providers of a model in the order of the file.
Chain(m) ==
    LET serving == {i \in DOMAIN config.order : m \in ToSet(config.models[config.order[i]])}
        places == Ascending(serving)
    IN  [n \in DOMAIN places |-> config.order[places[n]]]

SlipReusesBody(m, stream, body) ==
    LET first == IF stream THEN IncludeUsage(ModelClamp(m, body)) ELSE ModelClamp(m, body)
        next(b, p) == AttemptBody(m, p, HasExplicitEffort(body), b)
    IN  [i \in DOMAIN Chain(m) |-> FoldLeft(next, first, SubSeq(Chain(m), 1, i))]

\* What each provider of the chain gets if all before it fail.
Sent(m, stream, body) ==
    LET handed == ModelClamp(m, body)
        shared == IF stream THEN IncludeUsage(handed) ELSE handed
        chain == Chain(m)
    IN  [i \in DOMAIN chain |-> AttemptBody(m, chain[i], HasExplicitEffort(handed), shared)]

-----------------------------------------------------------------------------
Ceilings(m, p) == {n \in {Meta(m)["max_output"], ProviderMax[p]} : n > 0}

\* P2 and P3 of 010-002, P1 of 008-001: whatever the syncs made of the limits and
\* wherever the chain ends, each provider is asked for what the client wants up to its own
\* ceiling and the model's, not for what an earlier one would have taken; and of a
\* request that passed the check of the window no attempt asks for more than the window.
AdmittedFits ==
    \A m \in Models, body \in Bodies, stream \in BOOLEAN :
        LET sent == Sent(m, stream, body)
        IN  \A i \in DOMAIN sent :
                /\ \A f \in Tokens \cap DOMAIN body :
                        sent[i][f] = Min({body[f]} \cup Ceilings(m, Chain(m)[i]))
                /\ \A prompt \in Prompts :
                        /\ Meta(m)["context_window"] > 0 /\ "max_tokens" \in DOMAIN body
                        /\ ~ExceedsContextWindow(m, prompt, body)
                        => 100 * (prompt + sent[i]["max_tokens"]) <= Limit(m)

\* Models the operator marked so.
Unforced == {m \in Models : \A c \in Configs : c.default[m] \in Marks}

\* Where a list has both, the order of its levels decides.
Mixed(levels) == ToSet(levels) \cap Marks # {} /\ ToSet(levels) \cap {"low", "medium", "max"} # {}

\* P5 and P6 of 010-002: the client's own parameters of thinking reach every attempt as they
\* are; otherwise a provider gets an effort only if the model's levels list it,
\* enable_thinking only on its path, and what the operator marked as unforced gets none,
\* also after a sync that replaced its levels, unless the marks are mixed with efforts.
EffortIsListed ==
    \A m \in Models, body \in Bodies, stream \in BOOLEAN :
        LET sent == Sent(m, stream, body)
        IN  \A i \in DOMAIN sent :
                IF HasExplicitEffort(body)
                THEN \A f \in Efforts : /\ f \in DOMAIN sent[i] <=> f \in DOMAIN body
                                        /\ f \in DOMAIN body => sent[i][f] = body[f]
                ELSE /\ "reasoning_effort" \in DOMAIN sent[i] =>
                            sent[i]["reasoning_effort"] \in ToSet(LevelsOf[Meta(m)["thinking"]])
                     /\ "enable_thinking" \in DOMAIN sent[i] => Path[Chain(m)[i]] = "bailian"
                     /\ m \in Unforced /\ ~Mixed(LevelsOf[Meta(m)["thinking"]]) =>
                            Efforts \cap DOMAIN sent[i] = {}

=============================================================================
