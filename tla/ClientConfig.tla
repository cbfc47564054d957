---------------------------- MODULE ClientConfig ----------------------------
(***************************************************************************)
(* What a client is told of the gateway: the entries of /v1/models and the *)
(* fragments that /v1/client-config renders from them for opencode,        *)
(* openclaw and zot, over the model_metadata and pricing that the runs of  *)
(* mofgw-sync left in config.yaml.  Wire has what the gateway does.        *)
(*                                                                         *)
(* An entry is a function of the fields present in it; a number that a     *)
(* fragment may leave out is a set of at most one number.                  *)
(***************************************************************************)
EXTENDS Wire

CONSTANTS
    WithTools,    \* values of supported_parameters that list "tools"
    Multimodal    \* values of modality with more than one input

-----------------------------------------------------------------------------
(* The catalog.                                                            *)

\* configCatalogModels: the models of all providers, once each.
Listed == UNION {ToSet(config.models[config.order[i]]) : i \in DOMAIN config.order}

HasMetadata(m) == \E f \in MetaFields : Meta(m)[f] # 0
HasPricing(m) == \E f \in PriceFields : Meta(m)[f] # 0

\* The window and max_completion_tokens are there with the metadata, also when they are
\* zero; the other fields only if they are declared.
CatalogEntry(m) ==
    LET md == Meta(m)
        levels == ToSet(LevelsOf[md["thinking"]])
        shown == IF ~HasMetadata(m) THEN {}
                 ELSE {"context_length", "max_context_length", "max_completion_tokens"}
                      \cup {f \in {"max_output_tokens"} : md["max_output"] > 0}
                      \cup {f \in {"levels", "default"} : levels # {}}
                      \cup {f \in {"supported_parameters", "modality"} : md[f] # 0}
    IN  [f \in (shown \ {g \in {"default"} : config.default[m] = NoLevel})
               \cup {g \in PriceFields : HasPricing(m)} |->
            CASE f \in {"context_length", "max_context_length"}        -> md["context_window"]
              [] f \in {"max_completion_tokens", "max_output_tokens"} -> md["max_output"]
              [] f = "levels"  -> levels
              [] f = "default" -> config.default[m]
              [] OTHER         -> md[f]]

-----------------------------------------------------------------------------
(* The renderers.                                                          *)

SlipZeroToo(e, f, g) == IF f \in DOMAIN e THEN {e[f]} ELSE IF g \in DOMAIN e THEN {e[g]} ELSE {}

Positive(e, f) == f \in DOMAIN e /\ e[f] > 0

\* A field and its fallback; zero counts as absent.
FirstPositive(e, f, g) ==
    IF Positive(e, f) THEN {e[f]} ELSE IF Positive(e, g) THEN {e[g]} ELSE {}

Limits(e) == [context |-> FirstPositive(e, "context_length", "max_context_length"),
              output  |-> FirstPositive(e, "max_output_tokens", "max_completion_tokens")]

ThinkingLevels(e) == IF "levels" \in DOMAIN e THEN e["levels"] ELSE {}

Cost(e) == [f \in {g \in PriceFields : Positive(e, g)} |-> e[f]]

HasToolCall(e) == "supported_parameters" \in DOMAIN e /\ e["supported_parameters"] \in WithTools

HasReasoning(e) == ThinkingLevels(e) # {}

\* Every level is a variant.
Variants(e) == ThinkingLevels(e)

\* x-thinking: the prescribed level, only beside levels.
Thinking(e) == IF Variants(e) # {} /\ "default" \in DOMAIN e THEN {e["default"]} ELSE {}

Attachment(e) == "modality" \in DOMAIN e /\ e["modality"] \in Multimodal

OpencodeModel(e) ==
    [context |-> Limits(e).context, output |-> Limits(e).output, cost |-> Cost(e),
     tool_call |-> HasToolCall(e), reasoning |-> HasReasoning(e),
     variants |-> Variants(e), default |-> Thinking(e), attachment |-> Attachment(e)]

OpenclawModel(e) == Limits(e)

ZotModel(e) == Limits(e)

Fragment(client, e) ==
    CASE client = "opencode" -> OpencodeModel(e)
      [] client = "openclaw" -> OpenclawModel(e)
      [] client = "zot"      -> ZotModel(e)

Registered == {"opencode", "openclaw", "zot"}

\* Only zot needs no reference to a key.
RenderFails(client, keyEnv) == keyEnv = "" /\ client # "zot"

Refused(status) == [status |-> status, models |-> <<>>]

\* The answer to a client, by what is configured for the endpoint.
HandleClientConfig(client, baseURL, keyEnv) ==
    IF client = "" THEN Refused(400)
    ELSE IF baseURL = "" THEN Refused(503)
    ELSE IF client \notin Registered THEN Refused(404)
    ELSE IF RenderFails(client, keyEnv) THEN Refused(500)
    ELSE [status |-> 200,
          models |-> [m \in Listed |-> Fragment(client, CatalogEntry(m))]]

-----------------------------------------------------------------------------
Told(client) == HandleClientConfig(client, "url", "key").models

\* P5 of 016-002 and its like: each renderer tells of a limit exactly if the gateway
\* enforces it, and the same number.  The clamp of the model cuts exactly what asks for more
\* than the output told, and a request is refused exactly if it is beyond the window told by
\* more than the margin.
ToldIsEnforced ==
    \A client \in Registered : \A m \in DOMAIN Told(client) :
        LET told == Told(client)[m]
        IN  \A body \in Bodies :
                /\ ModelClamp(m, body) # body <=>
                      \E f \in Tokens \cap DOMAIN body, l \in told.output : body[f] > l
                /\ \A prompt \in Prompts :
                      ExceedsContextWindow(m, prompt, body) <=>
                          \E w \in told.context :
                              100 * (prompt + Counted(m, body)) > w * (100 + Margin)

\* P4 and P10 of 016-001 and the variants of 016-002: every model that has a chain is told
\* of, and no other; the prescribed effort is one of the variants, and it is what a provider
\* gets from a client that asks for none.
ToldIsServed ==
    /\ Listed = {m \in Models : Chain(m) # <<>>}
    /\ \A m \in Listed :
          LET told == Told("opencode")[m]
              sent(body) == Sent(m, TRUE, body)
          IN  /\ told.default \subseteq told.variants
              /\ \A body \in {b \in Bodies : ~HasExplicitEffort(b)} : \A i \in DOMAIN sent(body) :
                    "reasoning_effort" \in DOMAIN sent(body)[i] =>
                        sent(body)[i]["reasoning_effort"] \in told.default

\* What is told of the limits, checked, clamped and sent agree.
LimitsAgree == AdmittedFits /\ ToldIsEnforced

\* The same of the models and efforts.
EffortsAgree == EffortIsListed /\ ToldIsServed

=============================================================================
