-------------------------- MODULE MCModelSettings --------------------------
(* Values for the constants of ModelSettings. *)
EXTENDS ModelSettings, TLC

\* Two names share a slug; a workspace's own endpoint serves the first model
\* with larger vectors than the provider's, and the other not at all.
MCSlug == [m \in Models |-> "m"]
MCDims == ("own" :> ("m-1" :> 2 @@ "m_1" :> 0)) @@
          ("default" :> ("m-1" :> 1 @@ "m_1" :> 1))
Choice(half, provider, model) ==
  [half |-> half, provider |-> provider, model |-> model]
MCOffered ==
  {Choice("llm", "gemini", "m-1"), Choice("llm", "acme", "m-1"),
   Choice("embedding", "ollama", "m-1"), Choice("embedding", "gemini", "m-1"),
   Choice("embedding", "gemini", "m_1"), Choice("embedding", "groq", "m-1")}
MCOllama == {Choice("embedding", "ollama", "m-1")}
Symmetry == Permutations(Requests) \cup Permutations(Workspaces)
MCAccepted == {<<"gemini", "k1", "default">>, <<"gemini", "k1", "own">>,
               <<"gemini", "k2", "default">>}
=============================================================================
