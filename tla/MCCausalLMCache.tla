-------------------------- MODULE MCCausalLMCache --------------------------
(***************************************************************************)
(* Small instances of CausalLMCache for TLC.  Tokens are interchangeable.  *)
(***************************************************************************)
EXTENDS CausalLMCache, TLC

Interchangeable == Permutations(Tokens)
=============================================================================
