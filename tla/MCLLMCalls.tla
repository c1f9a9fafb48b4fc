----------------------------- MODULE MCLLMCalls -----------------------------
(* A hosted model, two that strip thoughts, and a name nobody serves; a    *)
(* conversation with the local model and one with a hosted model.          *)
EXTENDS LLMCalls

ModelNames == {{"anthropic"}, {"groq", "ollama"}, {"ollama"}, {}}
SessionModels == {{"ollama"}, {"google"}}
=============================================================================
