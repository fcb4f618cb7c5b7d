-------------------------- MODULE MCCachedDecoder --------------------------
(***************************************************************************)
(* Small instances of CachedDecoder for TLC, with the models of            *)
(* MCSpeculativeDecoder.  An earlier request left nothing, or something    *)
(* that begins like the prompt.                                            *)
(***************************************************************************)
EXTENDS CachedDecoder, MCSpeculativeDecoder

MCLongPrompt == <<"b", "a">>
MCLeftovers == {<<>>, MCLongPrompt \o <<"b">>}
MCCachings == SUBSET Models
=============================================================================
