------------------------ MODULE SpeculativeDecoder ------------------------
(***************************************************************************)
(* One call of SpeculativeDecoder.generate of src/specdecode/decoder.py,   *)
(* from the validated prompt to the result or the exception.  A step ends  *)
(* where the outside can take part: a model call, a uniform draw, or the   *)
(* callback that receives an emitted token.                                *)
(***************************************************************************)
EXTENDS Sampling, Sequences, FiniteSets

CONSTANTS Eos,       \* config.eos_token_id; not in Tokens if there is none
          Prompt,    \* the validated prompt
          MaxNew,    \* config.max_new_tokens
          InitialDraft, MinDraft, MaxDraft, Dynamic,   \* the draft window
          P(_),      \* the target model: the row that follows a context
          Q(_)       \* the draft model

\* DecodeConfig.__post_init__ refuses anything else.
ASSUME ConfigAssumption == /\ MaxNew \in Nat
                           /\ MinDraft \in Nat \ {0}
                           /\ MaxDraft \in Nat
                           /\ InitialDraft \in MinDraft..MaxDraft
                           /\ Dynamic \in BOOLEAN

ASSUME PromptAssumption == Prompt \in Seq(Tokens)

\* normalize_probabilities refuses a row with a negative entry.
ASSUME RowAssumption ==
  \A n \in 0..MaxNew : \A output \in [1..n -> Tokens] :
    /\ P(Prompt \o output) \in [Tokens -> Nat]
    /\ Q(Prompt \o output) \in [Tokens -> Nat]

\* It scales the others to one sum, so no row lies below another.
ASSUME SumAssumption ==
  \A n \in 0..MaxNew : \A output \in [1..n -> Tokens] :
    \A p, q \in {P(Prompt \o output), Q(Prompt \o output)} :
      (\E x \in Tokens : p[x] < q[x]) => \E x \in Tokens : q[x] < p[x]

VARIABLES pc,         \* where generate is
          generated,
          sources,    \* the source of the event of every generated token
          prefix,     \* generated at the start of the round
          proposed,
          accepted,   \* accepted_this_round, and the index of the loop
          rejected,
          window,     \* _DraftWindow.size
          stats,
          draws       \* uniforms taken from the generator of random numbers

round == <<prefix, proposed, accepted, rejected>>
vars == <<pc, generated, sources, round, window, stats, draws>>

Source == {"accepted_draft", "target_correction", "target_bonus",
           "target_fallback"}

Smaller(a, b) == IF a < b THEN a ELSE b
Larger(a, b) == IF a > b THEN a ELSE b

Stops(tokens) == \/ Len(tokens) = MaxNew
                 \/ /\ tokens # <<>>
                    /\ tokens[Len(tokens)] = Eos

Init == /\ pc = IF MaxNew = 0 THEN "done" ELSE "draft"
        /\ generated = <<>>
        /\ sources = <<>>
        /\ prefix = <<>>
        /\ proposed = <<>>
        /\ accepted = 0
        /\ rejected = FALSE
        /\ window = InitialDraft
        /\ stats = [drafted |-> 0, accepted |-> 0, rejected |-> 0,
                    target |-> 0, rounds |-> 0, fallback |-> 0]
        /\ draws = 0

\* Mutant of Context: the row is that of the position before.
ContextBefore(i) == Prompt \o prefix \o SubSeq(proposed, 1, i - 1)

\* What follows the first i proposals: index i of target_distributions and of
\* draft_distributions.
Context(i) == Prompt \o prefix \o SubSeq(proposed, 1, i)

\* Mutant of Limit: the room that is left in the output is not considered.
LimitIgnoringRoom == window

Limit == Smaller(window, MaxNew - Len(prefix))

\* The for loop of the draft has another iteration.
Drafting == /\ Len(proposed) < Limit
            /\ proposed # <<>> => proposed[Len(proposed)] # Eos

Emit(x, source) == /\ generated' = Append(generated, x)
                   /\ sources' = Append(sources, source)

\* emit appends first, so an exception of the callback leaves the token in the
\* output and skips what follows.
CallbackRaises == /\ pc' = "failed"
                  /\ UNCHANGED <<round, window, stats>>

\* Back to the head of the while loop, or out of it.
NewRound == /\ pc' = IF Stops(generated') THEN "done" ELSE "draft"
            /\ prefix' = generated'
            /\ proposed' = <<>>
            /\ accepted' = 0
            /\ rejected' = FALSE

\* Mutant of Observe: the window grows past its maximum.
ObserveUncapped(size, right, total) ==
  IF ~Dynamic \/ total = 0 THEN size
  ELSE IF right = total THEN size + 1
  ELSE IF right * 2 < total THEN Larger(MinDraft, size \div 2)
  ELSE Larger(MinDraft, size - 1)

Observe(size, right, total) ==
  IF ~Dynamic \/ total = 0 THEN size
  ELSE IF right = total THEN Smaller(MaxDraft, size + 1)
  ELSE IF right * 2 < total THEN Larger(MinDraft, size \div 2)
  ELSE Larger(MinDraft, size - 1)
-----------------------------------------------------------------------------
(* A step that samples from a row takes it as a parameter: q of the draft, *)
(* p of the target.                                                        *)

DraftFrom(q) ==
  /\ pc = "draft"
  /\ Drafting
  /\ \E x \in Support(q) : proposed' = Append(proposed, x)
  /\ stats' = [stats EXCEPT !.drafted = @ + 1]
  /\ draws' = draws + 1
  /\ UNCHANGED <<pc, generated, sources, prefix, accepted, rejected, window>>

\* DistributionError, RuntimeError or ValueError of the draft model.
DraftFails == /\ pc = "draft"
              /\ Drafting
              /\ pc' = "score"
              /\ UNCHANGED <<generated, sources, round, window, stats, draws>>

Drafted == \/ pc = "score"
           \/ pc = "draft" /\ ~Drafting

\* Mutant of FallbackFrom: a round without a proposal is tried again.
FallbackRetries(p) == /\ Drafted
                      /\ proposed = <<>>
                      /\ pc' = "draft"
                      /\ UNCHANGED <<generated, sources, round, window, stats, draws>>

FallbackFrom(p) ==
  /\ Drafted
  /\ proposed = <<>>
  /\ \E x \in Support(p) : Emit(x, "target_fallback")
  /\ draws' = draws + 1
  /\ \/ CallbackRaises
     \/ /\ stats' = [stats EXCEPT !.target = @ + 1, !.fallback = @ + 1]
        /\ NewRound
        /\ UNCHANGED window

\* Mutant of Score: the round is not counted.
ScoreUncounted == /\ Drafted
                  /\ proposed # <<>>
                  /\ pc' = "verify"
                  /\ UNCHANGED <<generated, sources, round, window, stats, draws>>

Score == /\ Drafted
         /\ proposed # <<>>
         /\ pc' = "verify"
         /\ stats' = [stats EXCEPT !.rounds = @ + 1]
         /\ UNCHANGED <<generated, sources, round, window, draws>>

AcceptWith(p, q) ==
  LET x == proposed[accepted + 1]
  IN  /\ pc = "verify"
      /\ MayAccept(p, q, x)
      /\ Emit(x, "accepted_draft")
      /\ draws' = draws + 1
      /\ \/ CallbackRaises
         \/ /\ stats' = [stats EXCEPT !.accepted = @ + 1]
            /\ accepted' = accepted + 1
            /\ pc' = IF Stops(generated') \/ accepted' = Len(proposed)
                     THEN "settle" ELSE "verify"
            /\ UNCHANGED <<prefix, proposed, rejected, window>>

\* Mutant of RejectWith: the draw of the acceptance test serves the correction too.
RejectReusingDraw(p, q) ==
  /\ pc = "verify"
  /\ MayReject(p, q, proposed[accepted + 1])
  /\ \E y \in Residual(p, q) : Emit(y, "target_correction")
  /\ draws' = draws + 1
  /\ stats' = [stats EXCEPT !.rejected = @ + 1, !.target = @ + 1]
  /\ rejected' = TRUE
  /\ pc' = "settle"
  /\ UNCHANGED <<prefix, proposed, accepted, window>>

RejectWith(p, q) ==
  /\ pc = "verify"
  /\ MayReject(p, q, proposed[accepted + 1])
  /\ \E y \in Residual(p, q) : Emit(y, "target_correction")
  /\ draws' = draws + 2
  /\ \/ CallbackRaises
     \/ /\ stats' = [stats EXCEPT !.rejected = @ + 1, !.target = @ + 1]
        /\ rejected' = TRUE
        /\ pc' = "settle"
        /\ UNCHANGED <<prefix, proposed, accepted, window>>

\* Mutant of Settle: a finished output still gets its bonus token.
SettleUnchecked ==
  /\ pc = "settle"
  /\ window' = Observe(window, accepted, Len(proposed))
  /\ UNCHANGED <<generated, sources, stats, draws>>
  /\ IF rejected THEN NewRound ELSE pc' = "bonus" /\ UNCHANGED round

\* Past the loop over the proposals: adapt the window, then leave, start again
\* or go on to the bonus token.
Settle ==
  /\ pc = "settle"
  /\ window' = Observe(window, accepted, Len(proposed))
  /\ UNCHANGED <<generated, sources, stats, draws>>
  /\ IF Stops(generated) \/ rejected THEN NewRound
     ELSE pc' = "bonus" /\ UNCHANGED round

\* Mutant of BonusFrom: the token is emitted but not counted.
BonusUncounted(p) ==
  /\ pc = "bonus"
  /\ \E x \in Support(p) : Emit(x, "target_bonus")
  /\ draws' = draws + 1
  /\ NewRound
  /\ UNCHANGED <<window, stats>>

BonusFrom(p) ==
  /\ pc = "bonus"
  /\ \E x \in Support(p) : Emit(x, "target_bonus")
  /\ draws' = draws + 1
  /\ \/ CallbackRaises
     \/ /\ stats' = [stats EXCEPT !.target = @ + 1]
        /\ NewRound
        /\ UNCHANGED window

\* Any other exception of a model or of the sampling backend leaves generate,
\* before or after the draws that the step was to make.
Raise == /\ pc \in {"draft", "score", "verify", "bonus"}
         /\ pc' = "failed"
         /\ draws' \in draws..draws + 2
         /\ UNCHANGED <<generated, sources, round, window, stats>>

\* The models answer with the rows of the positions that they are asked for.
Draft == DraftFrom(Q(Context(Len(proposed))))
Fallback == FallbackFrom(P(Context(0)))
Accept == AcceptWith(P(Context(accepted)), Q(Context(accepted)))
Reject == RejectWith(P(Context(accepted)), Q(Context(accepted)))
Bonus == BonusFrom(P(Context(Len(proposed))))

Next == \/ Draft \/ DraftFails \/ Fallback \/ Score
        \/ Accept \/ Reject \/ Settle \/ Bonus \/ Raise

\* generate runs on one thread that is not stopped: a step that can be taken
\* is taken.
Spec == Init /\ [][Next]_vars /\ WF_vars(Next)
-----------------------------------------------------------------------------
(* Properties.                                                             *)

\* Every variable has its type; the window stays in the configured range.
TypeOK ==
  /\ pc \in {"draft", "score", "verify", "settle", "bonus", "done", "failed"}
  /\ generated \in Seq(Tokens)
  /\ sources \in Seq(Source)
  /\ prefix \in Seq(Tokens)
  /\ proposed \in Seq(Tokens)
  /\ accepted \in Nat
  /\ rejected \in BOOLEAN
  /\ window \in MinDraft..MaxDraft
  /\ stats \in [drafted : Nat, accepted : Nat, rejected : Nat, target : Nat,
                rounds : Nat, fallback : Nat]
  /\ draws \in Nat

\* The output never exceeds max_new_tokens and nothing follows the
\* end-of-sequence token, whichever of the four sources a token comes from.
StopsInTime == /\ Len(generated) <= MaxNew
               /\ \A i \in 1..Len(generated) - 1 : generated[i] # Eos

\* Every token of the output has target probability after the tokens before
\* it: the rows used to verify, correct and extend a proposal are those of the
\* right position.
TargetSupported ==
  \A i \in 1..Len(generated) :
    generated[i] \in Support(P(Prompt \o SubSeq(generated, 1, i - 1)))

\* However rounds end, be it by the limit, the end of the sequence, a rejection
\* or an exception, the output is one that the target could have given.
OutputIsSound == StopsInTime /\ TargetSupported

From(source) == {i \in DOMAIN sources : sources[i] = source}

\* The statistics are the event stream counted: each emitted token is counted
\* once, under its source, and every drafted token is either accepted,
\* rejected, still waiting or thrown away after a rejection.
Ledger ==
  pc # "failed" =>
    /\ Len(sources) = Len(generated)
    /\ stats.accepted = Cardinality(From("accepted_draft"))
    /\ stats.rejected = Cardinality(From("target_correction"))
    /\ stats.fallback = Cardinality(From("target_fallback"))
    /\ stats.accepted + stats.target = Len(generated)
    /\ stats.drafted >= stats.accepted + stats.rejected

\* docs/native.md, "Randomness and exactness": one draw for a drafted token,
\* one for a proposal that is reached, one for a correction, one for a bonus
\* and one for a fallback, and no other.  Seeded runs of two backends end with
\* the generator in the same state because of it.
DrawsAccounted ==
  pc # "failed" =>
    draws = stats.drafted + (stats.accepted + stats.rejected) + stats.target

\* Each round of verification and each fallback step yields one token of the
\* target's own, except a last round whose last accepted proposal ends the
\* output: no bonus is drawn for it.
OneTargetTokenPerRound ==
  pc = "done" /\ generated # <<>> =>
    stats.rounds + stats.fallback =
      stats.target + IF sources[Len(sources)] = "accepted_draft" THEN 1 ELSE 0

\* The window shrinks only after a rejection and grows only without one: a
\* round cut short by the limit or by the end of the sequence is not held
\* against the draft.
WindowFollowsVerdict ==
  [][/\ window' < window => rejected
     /\ window' > window => ~rejected]_vars

\* To a caller that looks at tokens and at the way the call ends, this is
\* TargetOnlyDecoder: each emitted token is one that the target could have
\* sampled there, and the same rule ends the output.
Status == CASE pc = "done" -> "done"
            [] pc = "failed" -> "failed"
            [] OTHER -> "running"
Baseline == INSTANCE TargetOnlyDecoder WITH status <- Status
ImplementsTargetOnly == Baseline!Spec

\* generate ends, however often the draft model fails and whatever is rejected.
Terminates == <>(pc \in {"done", "failed"})
=============================================================================
