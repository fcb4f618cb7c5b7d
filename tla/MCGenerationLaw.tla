-------------------------- MODULE MCGenerationLaw --------------------------
(***************************************************************************)
(* A small instance of the law of a whole call for TLC: the models answer  *)
(* from the last token.                                                    *)
(***************************************************************************)
EXTENDS GenerationLaw

LastToken(s) == IF s = <<>> THEN None ELSE Last(s)
=============================================================================
