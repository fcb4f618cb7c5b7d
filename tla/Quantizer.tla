----------------------------- MODULE Quantizer -----------------------------
(***************************************************************************)
(* PythonKVQuantizer of src/specdecode/kv_cache.py: a vector is stored as  *)
(* signed integers with one float32 scale and read back as their products. *)
(* Numbers are integers, in a unit so small that every input is one; sums  *)
(* and quotients of doubles are exact here, and the rounding of the scale  *)
(* to a float32 is modelled, with its subnormal and its largest values.    *)
(***************************************************************************)
EXTENDS Integers, Sequences, FiniteSetsExt, Buffers

CONSTANTS Limit,       \* largest stored integer: 127
          Least,       \* smallest positive float32
          Significand, \* integers below it are exact: 2^24
          Greatest,    \* largest finite float32
          MaxValue,    \* bound: absolute value of an input
          Size         \* length of a vector: head_dim

QuantizerAssumption == /\ {Limit, Least, Significand, MaxValue, Size} \subseteq Nat \ {0}
                              /\ Greatest \in Nat
                              /\ Significand % 2 = 0 /\ 2 * Limit < Significand

VARIABLES vector,   \* the vector to store
          stored,   \* QuantizedVector: values and scale; or the refusal
          read      \* what dequantize returns

vars == <<vector, stored, read>>

Vectors == [1..Size -> -MaxValue..MaxValue]
Refused == [values |-> <<>>, scale |-> -1]
Magnitude(v) == Max({IF v[i] < 0 THEN -v[i] ELSE v[i] : i \in DOMAIN v})

\* a / b rounded to an integer, ties to the even one.
Nearest(a, b) ==
  LET q == a \div b
      r == a % b
  IN  q + (IF 2 * r > b \/ (2 * r = b /\ q % 2 = 1) THEN 1 ELSE 0)

\* The distance of the float32 numbers around a / b: the least power of two that
\* leaves fewer than Significand of them below a / b.
Spacing(a, b) == Least * Rounded(a \div (b * Least * Significand) + 1)

\* struct.pack("=f", a / b).
Float32(a, b) == Spacing(a, b) * Nearest(a, b * Spacing(a, b))

\* Mutant of RoundHalfAway: integers are cut off, not rounded.
RoundDown(a, b) == a \div b

\* Mutant of RoundHalfAway: halves are rounded up, also below zero.
RoundHalfUp(a, b) == (2 * a + b) \div (2 * b)

RoundHalfAway(a, b) == IF a >= 0 THEN (2 * a + b) \div (2 * b)
                                 ELSE -((2 * (-a) + b) \div (2 * b))

\* Mutant of Clamp: there is no limit.
ClampNot(q) == q

Clamp(q) == IF q > Limit THEN Limit ELSE IF q < -Limit THEN -Limit ELSE q

\* Mutant of Quantize: the scale is that of integers down to -Limit - 1.
QuantizeAsymmetric(v) ==
  LET maximum == Magnitude(v)
      scale == Float32(maximum, Limit + 1)
  IN  IF maximum = 0 THEN [values |-> v, scale |-> 0]
      ELSE IF scale = 0 \/ scale > Greatest THEN Refused
      ELSE [values |-> [i \in DOMAIN v |-> Clamp(RoundHalfAway(v[i], scale))],
            scale |-> scale]

Quantize(v) ==
  LET maximum == Magnitude(v)
      scale == Float32(maximum, Limit)
  IN  IF maximum = 0 THEN [values |-> v, scale |-> 0]
      ELSE IF scale = 0 \/ scale > Greatest THEN Refused
      ELSE [values |-> [i \in DOMAIN v |-> Clamp(RoundHalfAway(v[i], scale))],
            scale |-> scale]

Dequantize(x) == [i \in DOMAIN x.values |-> x.values[i] * x.scale]

Init == /\ vector \in Vectors
        /\ stored = Refused
        /\ read = <<>>

Store == /\ stored = Refused
         /\ stored' = Quantize(vector)
         /\ UNCHANGED <<vector, read>>

Read == /\ stored # Refused
        /\ read = <<>>
        /\ read' = Dequantize(stored)
        /\ UNCHANGED <<vector, stored>>

Next == Store \/ Read

Spec == Init /\ [][Next]_vars
-----------------------------------------------------------------------------
(* Properties.                                                             *)

\* QuantizedVector.__post_init__ raises on an integer out of range, a scale
\* that is no float32, or integers without a scale; quantize never makes it.
ValidEntry ==
  stored # Refused =>
    /\ \A i \in 1..Size : stored.values[i] \in -Limit..Limit
    /\ stored.scale \in 0..Greatest
    /\ stored.scale > 0 => stored.scale = Float32(stored.scale, 1)
    /\ stored.scale = 0 => \A i \in 1..Size : stored.values[i] = 0

\* docs/kv-cache.md: "The value -128 is intentionally unused, keeping the
\* representation symmetric".  A vector with its signs turned is stored alike,
\* also where it is rounded, and the order of the values is kept.
Symmetric ==
  stored # Refused =>
    /\ \A i, j \in 1..Size : vector[i] <= vector[j] => stored.values[i] <= stored.values[j]
    /\ Quantize([i \in 1..Size |-> -vector[i]]) =
         [values |-> [i \in 1..Size |-> -stored.values[i]], scale |-> stored.scale]

WithinHalfStep ==
  read # <<>> => \A i \in 1..Size :
                   2 * (vector[i] - read[i]) \in -stored.scale..stored.scale

\* The scale is not a subnormal float32, so that rounding it changes it little.
Normal == 2 * Magnitude(vector) >= Limit * Least * Significand

\* docs/kv-cache.md: "abs(x_i - x'_i) <= scale / 2".  It holds as far as the
\* scale is a normal float32: then no value is cut off by more than rounding.
NormalWithinHalfStep == Normal => WithinHalfStep

\* What was read back is stored unchanged: a cache filled from another one's
\* entries, as the materialized mirror is, holds the same entries.
Repeatable == Normal /\ read # <<>> => Quantize(read) = stored

\* An entry is one that the cache accepts, and stands for what was stored: order,
\* sign and value, also when it is stored again.
SoundEntry == ValidEntry /\ Symmetric /\ NormalWithinHalfStep /\ Repeatable
=============================================================================
