------------------------------ MODULE Sampling ------------------------------
(***************************************************************************)
(* What the numerical layer of the decoder can answer: sampling.py and the *)
(* PythonSamplingBackend of backends.py, of which native.cpp is a port.  A *)
(* row is a normalized distribution in units of 1/Mass: a function from    *)
(* tokens to naturals with sum Mass.  An operator here says which outcomes *)
(* some uniform draw in [0, 1) leads to; how often is SamplingLaw's        *)
(* subject.                                                                *)
(***************************************************************************)
EXTENDS Integers

CONSTANT Tokens

\* What categorical may return.
Support(row) == {x \in Tokens : row[x] > 0}

\* A draw is below the acceptance probability, which is 1 where the draft has
\* no mass and min(1, p / q) elsewhere.
MayAccept(p, q, x) == q[x] = 0 \/ p[x] > 0
MayReject(p, q, x) == q[x] > 0 /\ p[x] < q[x]

\* Mutant of Residual: the two rows are swapped.
ResidualSwapped(p, q) ==
  IF \E x \in Tokens : q[x] > p[x] THEN {x \in Tokens : q[x] > p[x]}
                                   ELSE Support(p)

\* What a correction may be: where the target exceeds the draft, or the target
\* itself if that is nowhere.
Residual(p, q) ==
  IF \E x \in Tokens : p[x] > q[x] THEN {x \in Tokens : p[x] > q[x]}
                                   ELSE Support(p)
=============================================================================
