----------------------------- MODULE LLMRouting -----------------------------
(***************************************************************************)
(* Which providers a call of a tier may use, in which order.               *)
(***************************************************************************)
EXTENDS Sequences, SequencesExt

Tiers         == {"fast", "standard", "advanced"}
ProviderNames == {"gemini", "groq", "openai"}

TierDefaultProvider ==
    [fast |-> "gemini", standard |-> "groq", advanced |-> "openai"]

TierFallbackOrder ==
    [fast     |-> <<"gemini", "groq", "openai">>,
     standard |-> <<"groq", "openai", "gemini">>,
     advanced |-> <<"openai", "groq", "gemini">>]

(* preferred: what LLM_TIER_<tier> names, as a sequence of at most one; it  *)
(* may name something that is no provider.                                  *)
TierProviderChain(tier, preferred, configured) ==
    LET order == preferred \o <<TierDefaultProvider[tier]>>
                           \o TierFallbackOrder[tier]
        Add(chain, p) == IF p \in configured \ ToSet(chain)
                           THEN Append(chain, p) ELSE chain
    IN  FoldLeft(Add, <<>>, order)
=============================================================================
