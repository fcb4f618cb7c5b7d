------------------------- MODULE TargetOnlyDecoder -------------------------
(***************************************************************************)
(* TargetOnlyDecoder.generate of src/specdecode/decoder.py: one token at a *)
(* time from the target model, until the end-of-sequence token or the      *)
(* limit.  It is the baseline of the benchmark, and it is what speculative *)
(* decoding promises to look like.  One uniform is drawn and one target    *)
(* token is counted for each token, so neither count is a variable.        *)
(***************************************************************************)
EXTENDS Sampling, Sequences

CONSTANTS Eos,       \* config.eos_token_id; not in Tokens if there is none
          Prompt,    \* the validated prompt
          MaxNew,    \* config.max_new_tokens
          P(_)       \* the target model: the row that follows a context

VARIABLES generated,
          status     \* "running", "done" (returned) or "failed" (raised)

vars == <<generated, status>>

Init == /\ generated = <<>>
        /\ status = IF MaxNew = 0 THEN "done" ELSE "running"

Stops(tokens) == \/ Len(tokens) = MaxNew
                 \/ /\ tokens # <<>>
                    /\ tokens[Len(tokens)] = Eos

\* The token is in the output before the callback sees it, and the callback
\* may raise.  The return may be seen with the last token or after it.
Emit == /\ status = "running"
        /\ ~Stops(generated)
        /\ \E x \in Support(P(Prompt \o generated)) :
             generated' = Append(generated, x)
        /\ \/ status' \in {"running", "failed"}
           \/ Stops(generated') /\ status' = "done"

\* The model raises, or returns a row that is not a distribution.
Fail == /\ status = "running"
        /\ ~Stops(generated)
        /\ status' = "failed"
        /\ UNCHANGED generated

Return == /\ status = "running"
          /\ Stops(generated)
          /\ status' = "done"
          /\ UNCHANGED generated

Next == Emit \/ Fail \/ Return

Spec == Init /\ [][Next]_vars
=============================================================================
