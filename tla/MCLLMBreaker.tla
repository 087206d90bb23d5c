---------------------------- MODULE MCLLMBreaker ----------------------------
(* Model checking of LLMBreaker with two of the three providers configured, *)
(* in the order that LLMRouting gives to the fast tier.  The legs try them  *)
(* in the other order as well.                                              *)
EXTENDS LLMBreaker

Routing == INSTANCE LLMRouting

MCProviders == Routing!ProviderNames \ {"openai"}
MCChains    == {Routing!TierProviderChain("fast", <<>>, MCProviders)}
=============================================================================
