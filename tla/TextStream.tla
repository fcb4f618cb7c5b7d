----------------------------- MODULE TextStream -----------------------------
(***************************************************************************)
(* IncrementalTextDecoder of src/specdecode/tokenizers.py as run_generate  *)
(* of cli.py uses it: every token that generate emits is pushed and what   *)
(* push returns is printed; flush releases the rest after the last token.  *)
(* The tokenizer is a parameter, any function from tokens to text: a later *)
(* token may revise the text of earlier ones.                              *)
(***************************************************************************)
EXTENDS Integers, Sequences

CONSTANTS Tokens,
          Characters,
          Blanks,       \* the characters for which isspace() holds
          Decode(_),    \* tokenizer.decode
          MaxTokens     \* bound: tokens of a generation

Inputs == UNION {[1..n -> Tokens] : n \in 0..MaxTokens}

ASSUME StreamAssumption == /\ MaxTokens \in Nat
                           /\ \A s \in Inputs : Decode(s) \in Seq(Characters)

VARIABLES tokenIds,   \* _token_ids
          emitted,    \* _emitted_text
          printed,    \* what the terminal has received
          status      \* "running", "flushed", or "failed": generate raised

vars == <<tokenIds, emitted, printed, status>>

Init == /\ tokenIds = <<>>
        /\ emitted = <<>>
        /\ printed = <<>>
        /\ status = "running"

Extends(text, start) == /\ Len(start) <= Len(text)
                        /\ SubSeq(text, 1, Len(start)) = start

\* Mutant of StableEnd: all of the text is taken for stable.
EndOfText(text, from) == Len(text)

\* The end of the last blank behind a position, or that position.
StableEnd(text, from) ==
  CHOOSE n \in from..Len(text) :
    /\ n = from \/ text[n] \in Blanks
    /\ \A i \in n + 1..Len(text) : text[i] \notin Blanks

\* Return and print the text from behind what was emitted to position n; text
\* that was printed cannot be taken back, so a revised decode returns nothing.
Release(text, n) ==
  \/ /\ Extends(text, emitted)
     /\ printed' = printed \o SubSeq(text, Len(emitted) + 1, n)
     /\ emitted' = SubSeq(text, 1, n)
  \/ /\ ~Extends(text, emitted)
     /\ UNCHANGED <<emitted, printed>>

\* Mutant of Push: a revised decode replaces what counts as emitted.
PushRevising(t) ==
  LET text == Decode(Append(tokenIds, t))
  IN  /\ status = "running"
      /\ Len(tokenIds) < MaxTokens
      /\ tokenIds' = Append(tokenIds, t)
      /\ IF Extends(text, emitted) THEN Release(text, StableEnd(text, Len(emitted)))
                                   ELSE emitted' = text /\ UNCHANGED printed
      /\ UNCHANGED status

Push(t) ==
  LET text == Decode(Append(tokenIds, t))
  IN  /\ status = "running"
      /\ Len(tokenIds) < MaxTokens
      /\ tokenIds' = Append(tokenIds, t)
      /\ Release(text, StableEnd(text, Len(emitted)))
      /\ UNCHANGED status

\* Mutant of Flush: what was decoded as stable before is printed again.
FlushAll == /\ status = "running"
            /\ printed' = printed \o Decode(tokenIds)
            /\ emitted' = printed'
            /\ status' = "flushed"
            /\ UNCHANGED tokenIds

\* Mutant of Flush: only what is stable is released.
FlushStable == /\ status = "running"
               /\ Release(Decode(tokenIds), StableEnd(Decode(tokenIds), Len(emitted)))
               /\ status' = "flushed"
               /\ UNCHANGED tokenIds

Flush == /\ status = "running"
         /\ Release(Decode(tokenIds), Len(Decode(tokenIds)))
         /\ status' = "flushed"
         /\ UNCHANGED tokenIds

\* An exception of generate leaves run_generate without a flush.
Fail == /\ status = "running"
        /\ status' = "failed"
        /\ UNCHANGED <<tokenIds, emitted, printed>>

Next == Flush \/ Fail \/ \E t \in Tokens : Push(t)

Spec == Init /\ [][Next]_vars
-----------------------------------------------------------------------------
(* Properties.                                                             *)

\* Every variable has its type.
TypeOK == /\ tokenIds \in Inputs
          /\ emitted \in Seq(Characters)
          /\ printed \in Seq(Characters)
          /\ status \in {"running", "flushed", "failed"}

\* IncrementalTextDecoder.push: "Keeping the existing prefix avoids duplicating
\* a revised decode."  However often the text is revised, the terminal shows
\* what the decoder counts as emitted: nothing twice and nothing left out.
NothingTwice == printed = emitted

\* IncrementalTextDecoder: "Text is therefore emitted only through a whitespace
\* boundary"; what is shown of an unfinished word could still be revised.
WholeWords == status # "flushed" /\ printed # <<>> => printed[Len(printed)] \in Blanks

\* IncrementalTextDecoder: "flush() releases the final buffered word".  Unless
\* the final text revises what was printed, all of it is printed at the end,
\* also when the text disagreed with it for a while.
FlushCompletes ==
  status = "flushed" /\ Extends(Decode(tokenIds), printed) => printed = Decode(tokenIds)

\* No token of a generation revised the text before it up to its last blank.
Settled(s) == SubSeq(Decode(s), 1, StableEnd(Decode(s), 0))
Unrevised(s) ==
  \A n \in 1..Len(s) : Extends(Decode(SubSeq(s, 1, n)), Settled(SubSeq(s, 1, n - 1)))

\* While only unfinished words are revised, no text is lost: the printed text is
\* always a beginning of the decoded one, and all of it after a flush.
NothingLost ==
  Unrevised(tokenIds) =>
    /\ Extends(Decode(tokenIds), printed)
    /\ status = "flushed" => printed = Decode(tokenIds)

\* What a reader of the terminal relies on while the text is decoded anew with
\* each token: it is shown once, in whole words, and in full in the end.
ShownText == TypeOK /\ NothingTwice /\ WholeWords /\ FlushCompletes /\ NothingLost
=============================================================================
