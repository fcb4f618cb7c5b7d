------------------------------ MODULE Buffers ------------------------------
(***************************************************************************)
(* The reused buffers of CudaExecutionRuntime (src/specdecode/cuda.py),    *)
(* for the components that copy through them.                              *)
(***************************************************************************)
EXTENDS Integers, Sequences

PowerOfTwo(c) == \A d \in 2..c : c % d = 0 => d % 2 = 0

\* The size of a new buffer: the next power of two.
Rounded(n) == CHOOSE c \in n..2 * n - 1 : PowerOfTwo(c)

\* Copying into a reused buffer leaves what is behind.
Overlay(buffers, c, source) ==
  [b \in DOMAIN buffers \cup {c} |->
     IF b # c THEN buffers[b]
     ELSE source \o (IF c \in DOMAIN buffers
                     THEN SubSeq(buffers[c], Len(source) + 1, Len(buffers[c])) ELSE <<>>)]
=============================================================================
