------------------------- MODULE MCGenerationServer -------------------------
(***************************************************************************)
(* Small instances of GenerationServer for TLC.                            *)
(***************************************************************************)
EXTENDS GenerationServer

CONSTANTS a, b

TwoTokens == {a, b}
OnePrompt == {<<b, a>>}
=============================================================================
