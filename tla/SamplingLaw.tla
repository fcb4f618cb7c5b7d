---------------------------- MODULE SamplingLaw ----------------------------
(***************************************************************************)
(* One verified proposal with its uniform draws made explicit: propose     *)
(* from the draft's row q, accept or reject against the target's row p,    *)
(* correct after a rejection.  The arithmetic is that of sampling.py and   *)
(* of PythonSamplingBackend, in rational numbers: a draw is u / Uniforms,  *)
(* a probability is row[x] / Mass, and Uniforms is a multiple of every     *)
(* denominator, so counting draws measures probability exactly.  Rounding  *)
(* of floating-point numbers is left out.                                  *)
(***************************************************************************)
EXTENDS Integers, FiniteSets, FiniteSetsExt

CONSTANTS VocabSize,  \* tokens are 1..VocabSize (0.. in the code)
          Mass,       \* bound: the denominator of the rows
          Uniforms    \* the resolution of a draw

ResolutionAssumption ==
  /\ VocabSize \in Nat \ {0}
  /\ Mass \in Nat \ {0}
  /\ Uniforms \in Nat \ {0}
  /\ \A d \in 1..Mass : Uniforms % d = 0

VARIABLES p, q,      \* the rows of the target and of the draft
          pc,
          token      \* the proposal, then the token that is emitted

vars == <<p, q, pc, token>>

Vocabulary == 1..VocabSize
Uniform == 0..Uniforms - 1

\* The sums that the loop over a row goes through.
Cumulative(weights) ==
  LET sum[x \in 0..VocabSize] == IF x = 0 THEN 0 ELSE sum[x - 1] + weights[x]
  IN  sum
Total(weights) == Cumulative(weights)[VocabSize]
Row == {row \in [Vocabulary -> 0..Mass] : Total(row) = Mass}

\* The sets of outcomes that the decoder's model uses.
Outcomes == INSTANCE Sampling WITH Tokens <- Vocabulary

\* sample_categorical_from_uniform on normalized weights: the first token whose
\* cumulative mass exceeds the draw, the last token if none does.
Categorical(weights, u) ==
  LET exceeds == {x \in Vocabulary :
                    u * Total(weights) < Uniforms * Cumulative(weights)[x]}
  IN  IF exceeds = {} THEN VocabSize ELSE Min(exceeds)

\* Mutant of Accepts: the draft's and the target's mass change places.
AcceptsInverted(target, draft, x, u) ==
  target[x] = 0 \/ u * target[x] < Uniforms * draft[x]

\* u < acceptance, where acceptance is 1 if the draft has no mass at x and
\* min(1, target / draft) otherwise.
Accepts(target, draft, x, u) ==
  draft[x] = 0 \/ u * draft[x] < Uniforms * target[x]

\* Mutant of ResidualWeights: the correction is drawn from the target.
ResidualIsTarget(target, draft) == target

ResidualWeights(target, draft) ==
  LET above == [x \in Vocabulary |-> IF target[x] > draft[x]
                                     THEN target[x] - draft[x] ELSE 0]
  IN  IF Total(above) = 0 THEN target ELSE above

Init == /\ p \in Row
        /\ q \in Row
        /\ pc = "propose"
        /\ token = 0

Propose == /\ pc = "propose"
           /\ \E u \in Uniform : token' = Categorical(q, u)
           /\ pc' = "verify"
           /\ UNCHANGED <<p, q>>

Verify == /\ pc = "verify"
          /\ \E u \in Uniform :
               pc' = IF Accepts(p, q, token, u) THEN "emitted" ELSE "correct"
          /\ UNCHANGED <<p, q, token>>

Correct == /\ pc = "correct"
           /\ \E u \in Uniform : token' = Categorical(ResidualWeights(p, q), u)
           /\ pc' = "emitted"
           /\ UNCHANGED <<p, q>>

Next == Propose \/ Verify \/ Correct

Spec == Init /\ [][Next]_vars
-----------------------------------------------------------------------------
(* Properties.                                                             *)

\* docs/architecture.md, "Correctness contract": whatever the draft proposes,
\* the emitted token has the distribution of the target.  Of the triples of
\* draws (propose, verify, correct), the share that emits x is p[x] / Mass.
ExactLaw ==
  pc = "propose" =>
    LET accepted(u) == Accepts(p, q, Categorical(q, u[1]), u[2])
        accepting == {u \in Uniform \X Uniform : accepted(u)}
        rejecting == (Uniform \X Uniform) \ accepting
        kept(x) == {u \in accepting : Categorical(q, u[1]) = x}
        corrected(x) == {u \in Uniform :
                           Categorical(ResidualWeights(p, q), u) = x}
    IN  \A x \in Vocabulary :
          Mass * (Cardinality(kept(x)) * Uniforms
                    + Cardinality(rejecting) * Cardinality(corrected(x)))
            = p[x] * Uniforms * Uniforms * Uniforms

\* The decoder's model is right to let a step choose in Support, MayAccept,
\* MayReject and Residual: these are the outcomes that some draw leads to.
OutcomesAreTheDraws ==
  /\ {Categorical(p, u) : u \in Uniform} = Outcomes!Support(p)
  /\ {Categorical(ResidualWeights(p, q), u) : u \in Uniform}
       = Outcomes!Residual(p, q)
  /\ \A x \in Vocabulary :
       /\ Outcomes!MayAccept(p, q, x) <=> \E u \in Uniform : Accepts(p, q, x, u)
       /\ Outcomes!MayReject(p, q, x) <=> \E u \in Uniform : ~Accepts(p, q, x, u)

\* No rejection happens where the target is at least as large as the draft, and
\* what is emitted after one is a token that the draft undervalued.
CorrectionIsUndervalued ==
  pc = "correct" => /\ p[token] < q[token]
                    /\ \A u \in Uniform :
                         LET y == Categorical(ResidualWeights(p, q), u)
                         IN  p[y] > q[y]

\* The law of a proposal, before it is made and after it is rejected.
ExactProposal == ExactLaw /\ CorrectionIsUndervalued
=============================================================================
