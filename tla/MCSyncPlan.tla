----------------------------- MODULE MCSyncPlan -----------------------------
(***************************************************************************)
(* Catalogs, files and bodies for TLC.  Three providers: the first by     *)
(* name is last in the file and shares a model with the second; the third  *)
(* is openrouter's, with a model of its own and an alias.                  *)
(***************************************************************************)
EXTENDS ClientConfig, TLC

Knobs == <<"", "zen", "">>
URLs == <<"other", "openrouter", "openrouter">>
MirrorOf == <<2, 0, 0>>
NameOf == <<"a", "b", "v/a", "~v/b">>
ShortOf == <<"a", "b", "a", "b">>
SomeLevels == (0 :> <<>>) @@ (1 :> <<"low", "high">>) @@ (2 :> <<"high">>) @@ (3 :> <<"always">>)

Nothing == [f \in Fields \cup {"cache_write"} |-> 0]

\* Offers of models.dev: with all prices and both levels, with one price and one level,
\* with a price for cache writes only, without a price, with a negative one.
Full == [Nothing EXCEPT !["input"] = 1, !["output"] = 2, !["cache_hit"] = 1, !["max_output"] = 1,
                        !["thinking"] = 1, !["context_window"] = 1]
Partial == [Nothing EXCEPT !["input"] = 3, !["thinking"] = 2, !["modality"] = 1]
WriteOnly == [Nothing EXCEPT !["cache_write"] = 1, !["supported_parameters"] = 1]
Free == [Nothing EXCEPT !["thinking"] = 2, !["context_window"] = 2]
Negative == [Nothing EXCEPT !["input"] = -1]

A(x) == "a" :> x
AB(x, y) == ("a" :> x) @@ ("b" :> y)

\* The mirror lists the model or not, with a cost or without; the other provider does.
Listings == {<<A(Full)>>, <<A(WriteOnly), A(Partial)>>, <<A(Free), AB(Full, Free)>>,
             <<AB(Partial, Full), A(Full)>>, <<A(Negative)>>}

Dev == {[found |-> FALSE, providers |-> <<>>]}
       \cup {[found |-> TRUE, providers |-> ds] : ds \in Listings}

Alias(k) == [found |-> TRUE, target |-> k, max_output |-> 2, modality |-> 2,
             supported_parameters |-> 2]

OpenRouter == {[found |-> FALSE, models |-> <<>>]}
              \cup {[found |-> TRUE, models |-> ms] :
                       ms \in {4 :> Alias("none"), (3 :> Alias("none")) @@ (4 :> Alias("b"))}}

AllCatalogs == [dev : Dev, zen : BOOLEAN, go : {FALSE}, or : OpenRouter]

\* A file with prices and levels of the operator's own; its second model always thinks.
Written0 == [f \in Fields |-> IF f \in {"input", "thinking"} THEN 1 ELSE 0]
Always0 == [f \in Fields |-> IF f = "thinking" THEN 3 ELSE 0]
OneFile == {[order |-> <<2, 3, 1>>, models |-> <<<<1>>, <<2, 1>>, <<4, 3>>>>,
             entry |-> <<Written0, Always0, Written0, [f \in Fields |-> 0]>>,
             default |-> <<"low", "always", "high", NoLevel>>]}

\* The second provider takes less than the others and has the zen path, the first bailian's.
SomeMax == <<0, 1, 3>>
Paths == <<"bailian", "zen", "other">>

SomeBodies ==
    {<<>>, "max_tokens" :> 4, ("max_tokens" :> 2) @@ ("thinking" :> TRUE),
     ("max_tokens" :> 1) @@ ("max_completion_tokens" :> 4) @@ ("enable_thinking" :> FALSE),
     ("include_usage" :> FALSE) @@ ("reasoning_effort" :> "max")}

=============================================================================
