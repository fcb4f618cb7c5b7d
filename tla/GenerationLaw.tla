--------------------------- MODULE GenerationLaw ---------------------------
(***************************************************************************)
(* How probable each output of SpeculativeDecoder.generate is.  The state  *)
(* is the law of the call: the probability of every configuration that it  *)
(* may be in after so many steps, as a fraction.  A step takes each        *)
(* configuration to its successors, with the probabilities of the draws.   *)
(* The models answer from what they see of the tokens before; the draft    *)
(* may fail on some of it.                                                 *)
(***************************************************************************)
EXTENDS Prefixes, FiniteSetsExt, SequencesExt

CONSTANTS Vocabulary,
          Mass,          \* bound: the denominator of the rows
          Seen(_),       \* what the models see of a sequence
          MaxEmitted, InitialDraft, MinDraft, MaxDraft,  \* DecodeConfig
          None, Fails    \* no token; a draft that raises

ASSUME LawAssumption == /\ IsFiniteSet(Vocabulary) /\ None \notin Vocabulary
                        /\ Mass \in Nat \ {0} /\ MaxEmitted \in Nat \ {0}
                        /\ InitialDraft \in Nat /\ MinDraft \in 1..InitialDraft
                        /\ MaxDraft \in Nat /\ MaxDraft >= InitialDraft

VARIABLES P, Q,  \* rows of the target and of the draft, by context
          eos,   \* the end-of-sequence token, or None
          law    \* probability of each configuration of the call

lawVars == <<P, Q, eos, law>>

Contexts == {Seen(s) : s \in BoundedSeq(Vocabulary, MaxEmitted)}
Total(row) == SumFunction(row)
Rows == {row \in [Vocabulary -> 0..Mass] : Total(row) = Mass}

(* Fractions in lowest terms.                                              *)
Fraction(n, d) ==
  LET gcd[s \in Nat \X (0..d)] == IF s[2] = 0 THEN s[1] ELSE gcd[<<s[2], s[1] % s[2]>>]
      g == gcd[<<n, d>>]
  IN  <<n \div g, d \div g>>
Times(a, b) == Fraction(a[1] * b[1], a[2] * b[2])
Plus(a, b) == Fraction(a[1] * b[2] + b[1] * a[2], a[2] * b[2])
SumOf(f) == FoldFunction(Plus, <<0, 1>>, f)

Start == [out |-> <<>>, proposed |-> <<>>, accepted |-> 0,
          window |-> InitialDraft, at |-> "draft"]

LawInit == /\ P \in [Contexts -> Rows]
           /\ Q \in [Contexts -> Rows \cup {Fails}]
           /\ eos \in Vocabulary \cup {None}
           /\ law = [c \in {Start} |-> <<1, 1>>]
-----------------------------------------------------------------------------
(* One configuration.                                                      *)

Larger(a, b) == IF a < b THEN b ELSE a

\* _DraftWindow.observe.
Observed(window, accepted, proposed) ==
  CASE accepted = proposed -> Smaller(MaxDraft, window + 1)
    [] accepted # proposed /\ 2 * accepted < proposed -> Larger(MinDraft, window \div 2)
    [] OTHER -> Larger(MinDraft, window - 1)

\* Mutant of Ends: an end-of-sequence token does not end the output.
EndsFull(out) == Len(out) = MaxEmitted

Ends(out) == Len(out) = MaxEmitted \/ Last(out) = eos

\* A token is emitted; the call ends, or goes on at the given place.
Emit(c, token, at) ==
  LET out == Append(c.out, token)
  IN  IF Ends(out) THEN [Start EXCEPT !.out = out, !.at = "done"]
      ELSE [c EXCEPT !.out = out, !.at = at]

NewRound(c) == [c EXCEPT !.proposed = <<>>, !.accepted = 0, !.at = "draft"]

Possible(row) == {x \in Vocabulary : row[x] > 0}

\* Mutant of Drawn: weights are taken for probabilities.
DrawnUnnormalized(c, row) ==
  [d \in {Emit(NewRound(c), x, "draft") : x \in Possible(row)} |->
     Fraction(row[Last(d.out)], Mass)]

\* A token of the row is emitted, and a new round begins.
Drawn(c, row) ==
  [d \in {Emit(NewRound(c), x, "draft") : x \in Possible(row)} |->
     Fraction(row[Last(d.out)], Total(row))]

Certainly(c) == [d \in {c} |-> <<1, 1>>]

\* One proposal more, until there are enough, one ends the sequence, or the
\* draft fails.
Draft(c) ==
  LET row == Q[Seen(c.out \o c.proposed)]
      next == IF c.proposed = <<>> THEN "fallback" ELSE "verify"
  IN  IF \/ Len(c.proposed) = Smaller(c.window, MaxEmitted - Len(c.out))
         \/ c.proposed # <<>> /\ Last(c.proposed) = eos
         \/ row = Fails
      THEN Certainly([c EXCEPT !.at = next])
      ELSE [d \in {[c EXCEPT !.proposed = Append(@, x)] : x \in Possible(row)} |->
              Fraction(row[Last(d.proposed)], Mass)]

\* Mutant of Residual: the correction is drawn from the target.
ResidualIsTarget(p, q) == p

Residual(p, q) == [x \in Vocabulary |-> Larger(0, p[x] - q[x])]

\* Mutant of TargetRow: the row after all proposals is used for each.
TargetRowLast(c) == P[Seen(c.out \o SubSeq(c.proposed, c.accepted + 1, Len(c.proposed) - 1))]

\* The target's row of the proposal that is verified next.
TargetRow(c) == P[Seen(c.out)]

\* A proposal is emitted; behind the last one of the round comes the bonus.
Accepted(c) ==
  LET k == c.accepted + 1
      d == Emit([c EXCEPT !.accepted = k], c.proposed[k], "verify")
  IN  IF d.at = "done" \/ k < Len(c.proposed) THEN d
      ELSE [d EXCEPT !.window = Observed(c.window, k, k), !.at = "bonus"]

\* The next proposal is kept, or what the residual gives replaces it and ends
\* the round.
Verify(c) ==
  LET p == TargetRow(c)
      q == Q[Seen(c.out)]
      x == c.proposed[c.accepted + 1]
      kept == Smaller(p[x], q[x])
      rejected == Drawn([c EXCEPT !.window = Observed(c.window, c.accepted, Len(c.proposed))],
                        Residual(p, q))
      accepted == IF kept = 0 THEN {} ELSE {Accepted(c)}
      replaced == IF kept = q[x] THEN {} ELSE DOMAIN rejected
  IN  [d \in accepted \cup replaced |->
         IF d \in accepted THEN Fraction(kept, q[x])
         ELSE Times(Fraction(q[x] - kept, q[x]), rejected[d])]

Moves(c) == CASE c.at = "draft" -> Draft(c)
              [] c.at = "verify" -> Verify(c)
              [] c.at \in {"bonus", "fallback"} -> Drawn(c, P[Seen(c.out)])
              [] c.at = "done" -> Certainly(c)

Step ==
  /\ \E c \in DOMAIN law : c.at # "done"
  /\ LET moves == [c \in DOMAIN law |-> Moves(c)]
         before(d) == {c \in DOMAIN law : d \in DOMAIN moves[c]}
     IN  law' = [d \in UNION {DOMAIN moves[c] : c \in DOMAIN law} |->
                   SumOf([c \in before(d) |-> Times(law[c], moves[c][d])])]
  /\ UNCHANGED <<P, Q, eos>>

LawSpec == LawInit /\ [][Step]_lawVars
-----------------------------------------------------------------------------
(* Properties.                                                             *)

Final == \A c \in DOMAIN law : c.at = "done"

\* What the target alone would do: the product of its rows.
TargetLaw(s) ==
  LET after[n \in 0..Len(s)] ==
        IF n = 0 THEN <<1, 1>>
        ELSE Times(after[n - 1], Fraction(P[Seen(SubSeq(s, 1, n - 1))][s[n]], Mass))
  IN  after[Len(s)]

Same(a, b) == a[1] * b[2] = b[1] * a[2]
AtMost(a, b) == a[1] * b[2] <= b[1] * a[2]

\* The law is one at every step: no outcome is forgotten or counted twice, and
\* every configuration has a successor.
IsLaw == Same(SumOf(law), <<1, 1>>)

\* config.py: "The adaptive window affects efficiency only; it does not alter the
\* exact sampling distribution."  Over several rounds, each with a window that
\* depends on the verdicts before it, with a draft that fails on some contexts and
\* with outputs that end early, every output is as probable as without a draft.
ExactGeneration ==
  Final => \A c \in DOMAIN law :
    /\ Same(law[c], TargetLaw(c.out))
    /\ Len(c.out) = MaxEmitted \/ Last(c.out) = eos
    /\ \A i \in 1..Len(c.out) - 1 : c.out[i] # eos

\* An accepted part of a round is never worth more than the target gives it: at
\* every step, what has been emitted is at most as probable as under the target.
NeverOverdrawn ==
  \A c \in DOMAIN law :
    LET ahead == {d \in DOMAIN law : IsPrefix(c.out, d.out)}
    IN  AtMost(SumOf([d \in ahead |-> law[d]]), TargetLaw(c.out))

\* docs/architecture.md, "Correctness contract", for a whole call.
LawOfTheTarget == IsLaw /\ ExactGeneration /\ NeverOverdrawn
=============================================================================
