---------------------------- MODULE MCTextStream ----------------------------
(***************************************************************************)
(* A small instance of TextStream for TLC: a tokenizer with a word, a      *)
(* blank, a newline that is a byte, the two bytes of one character, and a  *)
(* special token, which decode skips.  Bytes that form no character decode *)
(* to a replacement character, and one bad byte spoils all the bytes next  *)
(* to it, as in tokenizers that fall back to bytes: a newline that was     *)
(* printed may be revised, for a while or for good.                        *)
(***************************************************************************)
EXTENDS TextStream, SequencesExt

MCTokens == {"word", "blank", "newline", "head", "tail", "special"}
MCCharacters == {"w", "_", "/", "e", "?"}
MCBlanks == {"_", "/"}

Byte == {"newline", "head", "tail"}

Paired(s, i) == \/ s[i] = "newline"
                \/ s[i] = "head" /\ i < Len(s) /\ s[i + 1] = "tail"
                \/ s[i] = "tail" /\ i > 1 /\ s[i - 1] = "head"

Spoiled(s, i) == \E a, b \in 1..Len(s) :
                   /\ a <= i /\ i <= b
                   /\ \A j \in a..b : s[j] \in Byte
                   /\ \E j \in a..b : ~Paired(s, j)

Piece(s, i) == CASE s[i] = "word" -> <<"w">>
                 [] s[i] = "blank" -> <<"_">>
                 [] s[i] \in Byte /\ Spoiled(s, i) -> <<"?">>
                 [] s[i] = "newline" -> <<"/">>
                 [] s[i] = "head" -> <<"e">>
                 [] OTHER -> <<>>

MCDecode(tokens) ==
  LET s == SelectSeq(tokens, LAMBDA t : t # "special")
  IN  FlattenSeq([i \in 1..Len(s) |-> Piece(s, i)])
=============================================================================
