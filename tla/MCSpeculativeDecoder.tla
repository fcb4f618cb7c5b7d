------------------------ MODULE MCSpeculativeDecoder ------------------------
(***************************************************************************)
(* A small instance of SpeculativeDecoder for TLC.  The two models look at *)
(* the last token of the context, in units of a quarter, and disagree in   *)
(* every way that matters: a token the draft offers and the target never   *)
(* accepts, one that is sometimes accepted, one that is always accepted,   *)
(* one that only a correction can give, and the end of the sequence drawn  *)
(* by both or by the target alone.                                         *)
(***************************************************************************)
EXTENDS SpeculativeDecoder

MCTokens == {"a", "b", "end"}

\* Nothing follows "end" in an output; the rows there are never used.
Row(a, b, end) == [x \in MCTokens |-> CASE x = "a" -> a [] x = "b" -> b
                                        [] OTHER -> end]
MCTarget(context) ==
  CASE context[Len(context)] = "a" -> Row(0, 3, 1)
    [] context[Len(context)] = "b" -> Row(2, 1, 1)
    [] OTHER -> Row(4, 0, 0)
MCDraft(context) ==
  CASE context[Len(context)] = "a" -> Row(1, 2, 1)
    [] context[Len(context)] = "b" -> Row(3, 1, 0)
    [] OTHER -> Row(4, 0, 0)
=============================================================================
