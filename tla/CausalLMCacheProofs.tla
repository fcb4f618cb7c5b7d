------------------------ MODULE CausalLMCacheProofs ------------------------
(***************************************************************************)
(* Proofs about CausalLMCache for a model whose cache keeps every position *)
(* (Retained >= MaxContext), with or without a mirror, for every alphabet, *)
(* context length and pool: what is cached is coherent, the mirror tracks  *)
(* it, and every row that is returned is that of its own context.          *)
(***************************************************************************)
EXTENDS CausalLMCache, SharedTheorems

-----------------------------------------------------------------------------
(* Windows.                                                                *)

\* A sequence that is not longer than a window is seen whole.
LEMMA LatestWhole ==
  ASSUME NEW T, NEW s \in Seq(T), NEW n \in Nat, Len(s) <= n
  PROVE  Latest(s, n) = s
<1>1. Len(s) \in Nat
  BY LenProperties
<1>2. Smaller(n, Len(s)) = Len(s)
  BY <1>1 DEF Smaller
<1>3. Len(s) - Smaller(n, Len(s)) + 1 = 1
  BY <1>1, <1>2
<1>. QED BY <1>3, SubSeqFull DEF Latest

-----------------------------------------------------------------------------
(* The invariant.                                                          *)

Unwindowed == Retained >= MaxContext

\* A call that waits reuses what is cached, and knows at most its first row.
Waiting ==
  call # Null =>
    /\ call.tokens \in Contexts
    /\ call.first \in 1..Len(call.tokens)
    /\ call.reuse = Len(cacheTokens)
    /\ cacheTokens = SubSeq(call.tokens, 1, call.reuse)
    /\ call.source = cacheTokens
    /\ \/ call.held = <<>> /\ call.reuse < call.first
       \/ /\ call.held = <<SubSeq(call.tokens, 1, call.first)>>
          /\ call.reuse = call.first
          /\ call.first < Len(call.tokens)

\* What is cached, without a window.
Cached == /\ past = cacheTokens
          /\ boundary # Null => boundary = cacheTokens
          /\ cacheTokens = <<>> => boundary = Null
          /\ Len(cacheTokens) <= MaxContext
          /\ MirrorTracks

Room == room = NumBlocks - Paged!BlocksFor(Len(Mirror))

IInv == TypeOK /\ Waiting /\ Cached /\ Room /\ RowsMatch

-----------------------------------------------------------------------------
(* The mirror.                                                             *)

LEMMA BlocksForMonotone ==
  ASSUME NEW m \in Nat, NEW n \in Nat, m <= n
  PROVE  /\ Paged!BlocksFor(m) \in Nat
         /\ Paged!BlocksFor(n) \in Nat
         /\ Paged!BlocksFor(m) <= Paged!BlocksFor(n)
         /\ Paged!BlocksFor(0) = 0
<1>. DEFINE B == BlockSize
            a == m + B - 1
            b == n + B - 1
<1>1. B \in Nat \ {0} /\ a \in Nat /\ b \in Nat /\ a <= b /\ B - 1 \in 0..B - 1
  BY AdapterAssumption
<1>. HIDE DEF a, b
<1>2. /\ a \div B \in Nat /\ a % B \in 0..B - 1 /\ a = B * (a \div B) + (a % B)
      /\ b \div B \in Nat /\ b % B \in 0..B - 1 /\ b = B * (b \div B) + (b % B)
  BY <1>1
<1>3. a \div B <= b \div B
  <2>1. SUFFICES ASSUME (b \div B) + 1 <= a \div B PROVE FALSE
    BY <1>2
  <2>2. B * ((b \div B) + 1) <= B * (a \div B)
    BY <1>1, <1>2, <2>1
  <2>3. B * ((b \div B) + 1) = B * (b \div B) + B
    BY <1>1, <1>2
  <2>. QED BY <1>1, <1>2, <2>2, <2>3
<1>4. (B - 1) \div B = 0
  BY <1>1
<1>. QED BY <1>1, <1>2, <1>3, <1>4 DEF a, b, Paged!BlocksFor

LEMMA RoomTyped ==
  ASSUME NEW n \in Nat, NEW m \in Nat, m <= n,
         NumBlocks - Paged!BlocksFor(n) \in 0..NumBlocks
  PROVE  NumBlocks - Paged!BlocksFor(m) \in 0..NumBlocks
BY BlocksForMonotone, AdapterAssumption

\* What the adapter relies on of a mirror: its type and its room.
Sound == /\ store \in [{"model"} -> Seq(Tokens)]
         /\ room \in 0..NumBlocks
         /\ Room

\* Cutting the mirror to a length that it has.
LEMMA CutMirrorKeeps ==
  ASSUME Sound, NEW n \in 0..Len(Mirror), CutMirror(n)
  PROVE  /\ Sound'
         /\ Mirrored => Mirror' = SubSeq(Mirror, 1, n)
<1>1. CASE ~Mirrored
  BY <1>1 DEF CutMirror, paged, Sound, Room, Mirror, Paged!BlocksFor
<1>2. CASE Mirrored
  <2>1. Mirror \in Seq(Tokens) /\ Len(Mirror) \in Nat /\ DOMAIN store = {"model"}
    BY LenProperties DEF Sound, Mirror
  <2>2. /\ store' = [x \in {"model"} |-> SubSeq(Mirror, 1, n)]
        /\ room' = room + (Paged!BlocksFor(Len(Mirror)) - Paged!BlocksFor(n))
    <3>1. /\ "model" \in DOMAIN store
          /\ DOMAIN store \cup {"model"} = {"model"}
      BY <2>1
    <3>2. /\ store' = [x \in {"model"} |-> IF x = "model" THEN SubSeq(Mirror, 1, n) ELSE store[x]]
          /\ room' = room + (Paged!BlocksFor(Len(Mirror)) - Paged!BlocksFor(n))
      BY <1>2, <2>1, <3>1 DEF CutMirror, Paged!Truncate, Paged!Live, Paged!Put, Paged!Refuse,
                              Paged!Reply, Mirror
    <3>. QED BY <3>2
  <2>3. SubSeq(Mirror, 1, n) \in Seq(Tokens) /\ Len(SubSeq(Mirror, 1, n)) = n
    BY <2>1, PrefixProperties
  <2>4. Mirror' = SubSeq(Mirror, 1, n)
    BY <2>2 DEF Mirror
  <2>5. /\ Paged!BlocksFor(n) \in Nat
        /\ Paged!BlocksFor(Len(Mirror)) \in Nat
        /\ Paged!BlocksFor(n) <= Paged!BlocksFor(Len(Mirror))
    BY <2>1, BlocksForMonotone
  <2>6. /\ room' = NumBlocks - Paged!BlocksFor(n)
        /\ room' \in 0..NumBlocks
    BY <2>1, <2>2, <2>5, AdapterAssumption DEF Sound, Room
  <2>7. Room'
    BY <2>3, <2>4, <2>6 DEF Room, Paged!BlocksFor
  <2>. QED BY <1>2, <2>2, <2>3, <2>4, <2>6, <2>7 DEF Sound
<1>. QED BY <1>1, <1>2

LEMMA ForgetKeeps ==
  ASSUME Sound, Forget
  PROVE  /\ Sound'
         /\ cacheTokens' = <<>> /\ past' = <<>> /\ boundary' = Null
         /\ Mirrored => Mirror' = <<>>
<1>1. CASE Mirror # <<>>
  <2>1. CutMirror(0)
    BY <1>1 DEF Forget
  <2>2. 0 \in 0..Len(Mirror)
    BY LenProperties DEF Sound
  <2>3. Sound' /\ (Mirrored => Mirror' = SubSeq(Mirror, 1, 0))
    BY <2>1, <2>2, CutMirrorKeeps
  <2>4. SubSeq(Mirror, 1, 0) = <<>>
    BY SubSeqEmpty
  <2>. QED BY <2>3, <2>4 DEF Forget
<1>2. CASE Mirror = <<>>
  BY <1>2 DEF Forget, paged, Sound, Room, Mirror, Paged!BlocksFor
<1>. QED BY <1>1, <1>2
-----------------------------------------------------------------------------
(* Before the forward pass.                                                *)

\* The part of the invariant that an adapter without a call in flight keeps.
Idle == Sound /\ Cached /\ cacheTokens \in Seq(Tokens)

LEMMA ForgetIdle ==
  ASSUME Sound, Forget
  PROVE  Idle' /\ cacheTokens' = <<>> /\ boundary' = Null
<1>1. /\ Sound'
      /\ cacheTokens' = <<>> /\ past' = <<>> /\ boundary' = Null
      /\ Mirrored => Mirror' = <<>>
  BY ForgetKeeps
<1>2. <<>> \in Seq(Tokens) /\ Len(<<>>) = 0
  BY EmptySeq
<1>. QED BY <1>1, <1>2, AdapterAssumption DEF Idle, Cached, MirrorTracks, Mirror

\* Whatever way n positions are reached, what is cached then is a prefix of what
\* was, and nothing else is left: not in the past key values, not in the mirror.
LEMMA CropKeeps ==
  ASSUME Unwindowed, Idle, NEW n \in 0..Len(cacheTokens), Crop(n)
  PROVE  /\ Idle'
         /\ \E m \in 0..n : cacheTokens' = SubSeq(cacheTokens, 1, m)
         /\ boundary' \in {Null, boundary}
<1>1. cacheTokens \in Seq(Tokens) /\ Len(cacheTokens) \in Nat
  BY LenProperties DEF Idle
<1>2. CASE Keeps(n) /\ UNCHANGED <<adapter, paged>>
  <2>1. cacheTokens' = SubSeq(cacheTokens, 1, n) /\ boundary' = boundary
    BY <1>1, <1>2, SubSeqFull DEF Keeps, adapter
  <2>2. Idle'
    BY <1>2 DEF Idle, Sound, Room, Cached, MirrorTracks, Mirror, adapter, paged, Paged!BlocksFor
  <2>. QED BY <1>1, <2>1, <2>2
<1>3. CASE Refills(n) /\ Forget
  <2>1. Idle' /\ cacheTokens' = <<>> /\ boundary' = Null
    BY <1>3, ForgetIdle DEF Idle
  <2>2. SubSeq(cacheTokens, 1, 0) = <<>>
    BY SubSeqEmpty
  <2>. QED BY <1>1, <2>1, <2>2
<1>4. CASE Cut(n)
  <2>1. n < Len(cacheTokens) /\ (Mirrored => n <= Len(Mirror)) /\ n \in Nat
    BY <1>1, <1>4 DEF Cut, Cuts
  <2>2. past = cacheTokens /\ Len(cacheTokens) <= MaxContext
    BY DEF Idle, Cached
  <2>3. past' = SubSeq(cacheTokens, 1, n)
    BY <1>1, <1>4, <2>1, <2>2 DEF Cut, Cropped, Smaller
  <2>4. SubSeq(cacheTokens, 1, n) \in Seq(Tokens) /\ Len(SubSeq(cacheTokens, 1, n)) = n
    BY <1>1, PrefixProperties
  <2>5. Sound' /\ MirrorTracks'
    <3>1. CASE Mirrored
      <4>1. n \in 0..Len(Mirror) /\ Mirror = cacheTokens
        BY <1>1, <2>1, <3>1 DEF Idle, Cached, MirrorTracks
      <4>. QED BY <1>4, <4>1, CutMirrorKeeps DEF Cut, Idle, MirrorTracks
    <3>2. CASE ~Mirrored
      BY <1>4, <3>2
      DEF Cut, CutMirror, Idle, Sound, Room, MirrorTracks, Mirror, paged, Paged!BlocksFor
    <3>. QED BY <3>1, <3>2
  <2>6. Len(cacheTokens') <= MaxContext
    BY <1>1, <1>4, <2>1, <2>2, <2>4, AdapterAssumption DEF Cut
  <2>. QED BY <1>4, <2>1, <2>3, <2>4, <2>5, <2>6 DEF Cut, Idle, Cached
<1>. QED BY <1>2, <1>3, <1>4 DEF Crop

LEMMA ContextType ==
  ASSUME NEW tokens \in Contexts
  PROVE  /\ tokens \in Seq(Tokens)
         /\ Len(tokens) \in 1..MaxContext
<1>1. PICK n \in 1..MaxContext : tokens \in [1..n -> Tokens]
  BY DEF Contexts
<1>. QED BY <1>1, AdapterAssumption

LEMMA RowWhole ==
  ASSUME Unwindowed, NEW context \in Seq(Tokens), Len(context) <= MaxContext
  PROVE  Row(context) = context
<1>1. Retained + 1 \in Nat /\ Len(context) \in Nat /\ Len(context) <= Retained + 1
  BY LenProperties, AdapterAssumption DEF Unwindowed
<1>. QED BY <1>1, LatestWhole DEF Row

\* What a call may reuse is a prefix of its context as of the cached tokens, and
\* leaves the positions to compute from which its rows follow.
LEMMA ReuseProperties ==
  ASSUME Idle, NEW tokens \in Contexts, NEW first \in 1..Len(tokens)
  PROVE  /\ Reuse(tokens, first) \in 0..Len(cacheTokens)
         /\ Reuse(tokens, first) \in 0..Len(tokens)
         /\ \A m \in 0..Reuse(tokens, first) :
              SubSeq(cacheTokens, 1, m) = SubSeq(tokens, 1, m)
         /\ Hit(tokens, first) => Reuse(tokens, first) = first
         /\ ~Hit(tokens, first) => Reuse(tokens, first) < first
<1>. DEFINE n == Reuse(tokens, first)
            common == CommonLength(cacheTokens, tokens)
<1>1. /\ cacheTokens \in Seq(Tokens) /\ Len(cacheTokens) \in Nat
      /\ tokens \in Seq(Tokens) /\ Len(tokens) \in Nat /\ first \in Nat \ {0}
  BY ContextType, LenProperties DEF Idle
<1>2. \A k \in 0..Len(cacheTokens) :
        k <= Len(tokens) /\ SubSeq(cacheTokens, 1, k) = SubSeq(tokens, 1, k) =>
          \A m \in 0..k : SubSeq(cacheTokens, 1, m) = SubSeq(tokens, 1, m)
  <2>. SUFFICES ASSUME NEW k \in 0..Len(cacheTokens), k <= Len(tokens),
                       SubSeq(cacheTokens, 1, k) = SubSeq(tokens, 1, k),
                       NEW m \in 0..k
                PROVE  SubSeq(cacheTokens, 1, m) = SubSeq(tokens, 1, m)
    OBVIOUS
  <2>1. SubSeq(SubSeq(cacheTokens, 1, k), 1, m) = SubSeq(cacheTokens, 1, m)
    BY <1>1, PrefixOfPrefix
  <2>2. k \in 0..Len(tokens)
    BY <1>1
  <2>3. SubSeq(SubSeq(tokens, 1, k), 1, m) = SubSeq(tokens, 1, m)
    BY <1>1, <2>2, PrefixOfPrefix
  <2>. QED BY <2>1, <2>3
<1>3. CASE Hit(tokens, first)
  <2>1. n = first /\ first = Len(cacheTokens) /\ SubSeq(tokens, 1, first) = cacheTokens
    BY <1>3 DEF Hit, Reuse
  <2>2. SubSeq(cacheTokens, 1, first) = cacheTokens
    BY <1>1, <2>1, SubSeqFull
  <2>. HIDE DEF n
  <2>3. n \in 0..Len(cacheTokens) /\ n <= Len(tokens) /\ n \in 0..Len(tokens)
        /\ SubSeq(cacheTokens, 1, n) = SubSeq(tokens, 1, n)
    BY <1>1, <2>1, <2>2
  <2>. QED BY <1>2, <1>3, <2>1, <2>3 DEF n
<1>4. CASE ~Hit(tokens, first)
  <2>1. n = Smaller(common, first - 1)
    BY <1>4 DEF Reuse
  <2>2. /\ common \in 0..Smaller(Len(cacheTokens), Len(tokens))
        /\ SubSeq(cacheTokens, 1, common) = SubSeq(tokens, 1, common)
    BY <1>1, CommonLengthProperties
  <2>. HIDE DEF n, common
  <2>3. common \in 0..Len(cacheTokens) /\ common <= Len(tokens)
    BY <1>1, <2>2 DEF Smaller
  <2>4. n \in 0..common /\ n < first
    BY <1>1, <2>1, <2>3 DEF Smaller
  <2>5. \A m \in 0..n : m \in 0..common
    BY <2>3, <2>4
  <2>6. n \in 0..Len(cacheTokens) /\ n \in 0..Len(tokens)
    BY <1>1, <2>3, <2>4
  <2>. QED BY <1>2, <1>4, <2>2, <2>3, <2>4, <2>5, <2>6 DEF n
<1>. QED BY <1>3, <1>4

LEMMA IInvIdle == IInv => Idle
BY DEF IInv, Idle, Sound, TypeOK

LEMMA PrepareKeeps ==
  ASSUME Unwindowed, IInv, NEW tokens \in Contexts, NEW first \in 1..Len(tokens),
         Prepare(tokens, first)
  PROVE  IInv'
<1>. DEFINE n == Reuse(tokens, first)
<1>1. /\ Crop(n)
      /\ call' = [tokens |-> tokens, first |-> first,
                  held |-> IF Hit(tokens, first) THEN <<boundary>> ELSE <<>>,
                  reuse |-> Len(cacheTokens'),
                  source |-> IF Reference /\ cacheTokens' # <<>>
                             THEN store'["model"] ELSE past']
      /\ ~(first = Len(tokens) /\ Hit(tokens, first))
      /\ container' = container /\ answer' = answer
  BY DEF Prepare
<1>2. Idle
  BY IInvIdle
<1>3. /\ n \in 0..Len(cacheTokens)
      /\ n \in 0..Len(tokens)
      /\ \A m \in 0..n : SubSeq(cacheTokens, 1, m) = SubSeq(tokens, 1, m)
      /\ Hit(tokens, first) => n = first
      /\ ~Hit(tokens, first) => n < first
  BY <1>2, ReuseProperties
<1>. HIDE DEF n
<1>4. /\ Idle'
      /\ \E m \in 0..n : cacheTokens' = SubSeq(cacheTokens, 1, m)
  BY <1>1, <1>2, <1>3, CropKeeps
<1>5. PICK m \in 0..n : cacheTokens' = SubSeq(cacheTokens, 1, m)
  BY <1>4
<1>6. /\ tokens \in Seq(Tokens) /\ Len(tokens) \in 1..MaxContext /\ first \in Nat \ {0}
      /\ cacheTokens \in Seq(Tokens) /\ Len(cacheTokens) \in Nat
  BY <1>2, ContextType, LenProperties DEF Idle
<1>7. /\ cacheTokens' = SubSeq(tokens, 1, m) /\ Len(cacheTokens') = m
      /\ m \in 0..Len(tokens)
  <2>1. m \in 0..Len(cacheTokens) /\ m \in 0..Len(tokens)
    BY <1>3, <1>6
  <2>. QED BY <1>3, <1>5, <1>6, <2>1, PrefixProperties
<1>8. call'.source = cacheTokens'
  BY <1>1, <1>4, AdapterAssumption DEF Idle, Cached, MirrorTracks, Mirror
<1>9. \/ call'.held = <<>> /\ m < first
      \/ /\ call'.held = <<SubSeq(tokens, 1, first)>>
         /\ m = first
         /\ first < Len(tokens)
  <2>1. CASE Hit(tokens, first)
    <3>1. /\ boundary # Null /\ first = Len(cacheTokens)
          /\ SubSeq(tokens, 1, first) = cacheTokens
      BY <2>1 DEF Hit
    <3>2. boundary = cacheTokens
      BY <1>2, <3>1 DEF Idle, Cached
    <3>3. first < Len(tokens)
      BY <1>1, <1>6, <2>1
    <3>4. Crop(n) /\ n = Len(cacheTokens)
      BY <1>1, <1>3, <2>1, <3>1
    <3>5. cacheTokens' = cacheTokens
      BY <1>6, <3>4 DEF Crop, Refills, Cut, Cuts, adapter
    <3>6. m = first
      BY <1>7, <3>1, <3>5
    <3>. QED BY <1>1, <2>1, <3>1, <3>2, <3>3, <3>6
  <2>2. CASE ~Hit(tokens, first)
    BY <1>1, <1>3, <1>6, <2>2
  <2>. QED BY <2>1, <2>2
<1>10. call'.held \in Seq(Seq(Tokens))
  <2>1. SubSeq(tokens, 1, first) \in Seq(Tokens)
    BY <1>6, PrefixProperties
  <2>2. <<>> \in Seq(Seq(Tokens)) /\ <<SubSeq(tokens, 1, first)>> \in Seq(Seq(Tokens))
    BY <2>1
  <2>. QED BY <1>9, <2>2
<1>11. Waiting'
  BY <1>1, <1>7, <1>8, <1>9 DEF Waiting
<1>12. /\ call' \in [tokens : Seq(Tokens), first : Nat, held : Seq(Seq(Tokens)),
                     reuse : Nat, source : Seq(Tokens)]
       /\ call'.reuse < Len(call'.tokens)
  <2>1. call'.reuse = m /\ call'.tokens = tokens /\ m < Len(tokens) /\ m \in Nat
    BY <1>1, <1>6, <1>7, <1>9
  <2>2. cacheTokens' \in Seq(Tokens) /\ first \in Nat
    BY <1>4, <1>6 DEF Idle
  <2>. QED BY <1>1, <1>6, <1>8, <1>10, <2>1, <2>2
<1>13. past' \in Seq(Tokens) /\ boundary' \in Seq(Tokens) \cup {Null}
  BY <1>4 DEF Idle, Cached
<1>14. TypeOK'
  BY <1>1, <1>4, <1>12, <1>13 DEF TypeOK, IInv, Idle, Sound
<1>15. RowsMatch'
  BY <1>1 DEF IInv, RowsMatch
<1>. QED BY <1>4, <1>11, <1>14, <1>15 DEF IInv, Idle, Sound
-----------------------------------------------------------------------------
(* The forward pass and after it.                                          *)

\* Between its two steps a call holds what is cached, of its own context.
LEMMA WaitingMeans ==
  ASSUME IInv, call # Null
  PROVE  /\ call.tokens \in Seq(Tokens) /\ Len(call.tokens) \in 1..MaxContext
         /\ call.first \in 1..Len(call.tokens)
         /\ call.reuse \in 0..Len(call.tokens) - 1
         /\ call.source = SubSeq(call.tokens, 1, call.reuse)
         /\ past = call.source
         /\ Mirrored => Mirror = call.source
         /\ Len(call.source) = call.reuse
         /\ \/ call.held = <<>> /\ call.reuse < call.first
            \/ /\ call.held = <<SubSeq(call.tokens, 1, call.first)>>
               /\ call.reuse = call.first
               /\ call.first < Len(call.tokens)
<1>1. call.tokens \in Contexts /\ Waiting
  BY DEF IInv, Waiting
<1>2. call.tokens \in Seq(Tokens) /\ Len(call.tokens) \in 1..MaxContext
  BY <1>1, ContextType
<1>3. /\ call.reuse = Len(cacheTokens) /\ call.reuse < Len(call.tokens)
      /\ call.source = cacheTokens
      /\ Len(cacheTokens) \in Nat
  BY <1>1, LenProperties DEF Waiting, IInv, TypeOK
<1>. QED BY <1>1, <1>2, <1>3 DEF Waiting, IInv, Cached, MirrorTracks

LEMMA LogitIsRow ==
  ASSUME Unwindowed, IInv, call # Null, NEW m \in call.reuse + 1..Len(call.tokens)
  PROVE  Logit(m - call.reuse - 1) = Row(SubSeq(call.tokens, 1, m))
<1>. DEFINE j == m - call.reuse - 1
<1>1. /\ call.tokens \in Seq(Tokens) /\ Len(call.tokens) \in Nat
      /\ call.reuse \in 0..Len(call.tokens) - 1
      /\ call.source = SubSeq(call.tokens, 1, call.reuse)
  BY WaitingMeans
<1>2. call.reuse \in 0..Len(call.tokens) /\ m \in call.reuse..Len(call.tokens)
      /\ m \in Int /\ call.reuse \in Int
  BY <1>1
<1>3. call.source \o SubSeq(Inputs, 1, m - call.reuse) = SubSeq(call.tokens, 1, m)
  BY <1>1, <1>2, PrefixExtended DEF Inputs
<1>4. ~(j < 0) /\ j + 1 = m - call.reuse
  BY <1>2
<1>. HIDE DEF j
<1>5. Logit(j) = Row(call.source \o SubSeq(Inputs, 1, j + 1))
  BY <1>4 DEF Logit
<1>. QED BY <1>3, <1>4, <1>5 DEF j

LEMMA RowsAreTheirOwn ==
  ASSUME Unwindowed, IInv, call # Null
  PROVE  Rows = [k \in 1..Len(call.tokens) - call.first + 1 |->
                   Row(SubSeq(call.tokens, 1, call.first + k - 1))]
<1>. DEFINE t == call.tokens
            f == call.first
            r == call.reuse
            from == f + Len(call.held)
            computed == [k \in 1..Len(t) - from + 1 |-> Logit(from + k - 1 - r - 1)]
<1>1. /\ t \in Seq(Tokens) /\ Len(t) \in Nat /\ f \in 1..Len(t) /\ r \in 0..Len(t) - 1
      /\ f \in Nat /\ r \in Nat /\ Len(t) <= MaxContext
      /\ \/ call.held = <<>> /\ r < f
         \/ /\ call.held = <<SubSeq(t, 1, f)>>
            /\ r = f
            /\ f < Len(t)
  BY WaitingMeans
<1>2. Rows = call.held \o computed
  BY DEF Rows
<1>3. ASSUME from \in Nat, r < from
      PROVE  computed = [k \in 1..Len(t) - from + 1 |-> Row(SubSeq(t, 1, from + k - 1))]
  <2>1. ASSUME NEW k \in 1..Len(t) - from + 1
        PROVE  Logit(from + k - 1 - r - 1) = Row(SubSeq(t, 1, from + k - 1))
    <3>1. PICK m \in r + 1..Len(t) : m = from + k - 1
      BY <1>1, <1>3
    <3>2. Logit(m - r - 1) = Row(SubSeq(t, 1, m))
      BY <3>1, LogitIsRow
    <3>3. from + k - 1 - r - 1 = m - r - 1
      <4>1. from \in Nat /\ r \in Nat /\ Len(t) \in Nat
        BY <1>1, <1>3
      <4>. HIDE DEF from, r, t
      <4>. QED BY <3>1, <4>1
    <3>. HIDE DEF from
    <3>. QED BY <3>1, <3>2, <3>3
  <2>. QED BY <2>1
<1>4. CASE call.held = <<>> /\ r < f
  <2>1. from = f
    BY <1>1, <1>4
  <2>2. computed = [k \in 1..Len(t) - f + 1 |-> Row(SubSeq(t, 1, f + k - 1))]
    BY <1>1, <1>3, <1>4, <2>1
  <2>3. \A k \in 1..Len(t) - f + 1 :
          f + k - 1 \in 0..Len(t) /\ Row(SubSeq(t, 1, f + k - 1)) \in Seq(Tokens)
    <3>. SUFFICES ASSUME NEW k \in 1..Len(t) - f + 1
                  PROVE  /\ f + k - 1 \in 0..Len(t)
                         /\ Row(SubSeq(t, 1, f + k - 1)) \in Seq(Tokens)
      OBVIOUS
    <3>. DEFINE m == f + k - 1
    <3>1. m \in 0..Len(t)
      BY <1>1
    <3>. HIDE DEF m
    <3>2. SubSeq(t, 1, m) \in Seq(Tokens) /\ Len(SubSeq(t, 1, m)) <= MaxContext
      BY <1>1, <3>1, PrefixProperties, AdapterAssumption
    <3>. QED BY <3>1, <3>2, RowWhole DEF m
  <2>4. computed \in Seq(Seq(Tokens))
    <3>1. Len(t) - f + 1 \in Nat
      BY <1>1
    <3>. HIDE DEF computed
    <3>. QED BY <2>2, <2>3, <3>1
  <2>. HIDE DEF computed
  <2>. QED BY <1>2, <1>4, <2>2, <2>4, ConcatEmptySeq
<1>5. CASE /\ call.held = <<SubSeq(t, 1, f)>>
           /\ r = f
           /\ f < Len(t)
  <2>. DEFINE row(k) == Row(SubSeq(t, 1, f + k - 1))
              L == Len(t) - f
  <2>1. from = f + 1 /\ L \in Nat
    BY <1>1, <1>5
  <2>2. computed = [k \in 1..L |-> Row(SubSeq(t, 1, (f + 1) + k - 1))]
    <3>1. Len(t) - from + 1 = L
      BY <1>1, <2>1
    <3>2. from \in Nat /\ r < from
      BY <1>1, <1>5, <2>1
    <3>3. computed = [k \in 1..Len(t) - from + 1 |-> Row(SubSeq(t, 1, from + k - 1))]
      BY <1>3, <3>2
    <3>. HIDE DEF computed, L, from
    <3>. QED BY <2>1, <3>1, <3>3
  <2>3. \A k \in 1..L : (f + 1) + k - 1 = f + (k + 1) - 1
    BY <1>1
  <2>4. computed = [k \in 1..L |-> row(k + 1)]
    <3>. HIDE DEF computed, L
    <3>. QED BY <2>2, <2>3
  <2>5. \A k \in 1..L + 1 : row(k) \in Seq(Tokens)
    <3>. SUFFICES ASSUME NEW k \in 1..L + 1 PROVE row(k) \in Seq(Tokens)
      OBVIOUS
    <3>. DEFINE m == f + k - 1
    <3>1. m \in 0..Len(t)
      BY <1>1
    <3>. HIDE DEF m
    <3>2. SubSeq(t, 1, m) \in Seq(Tokens) /\ Len(SubSeq(t, 1, m)) <= MaxContext
      BY <1>1, <3>1, PrefixProperties, AdapterAssumption
    <3>3. Row(SubSeq(t, 1, m)) \in Seq(Tokens)
      BY <3>2, RowWhole
    <3>. QED BY <3>3 DEF m
  <2>6. SubSeq(t, 1, f) = row(1)
    <3>1. f + 1 - 1 = f /\ f \in 0..Len(t)
      BY <1>1
    <3>2. SubSeq(t, 1, f) \in Seq(Tokens) /\ Len(SubSeq(t, 1, f)) <= MaxContext
      BY <1>1, <3>1, PrefixProperties, AdapterAssumption
    <3>. QED BY <3>1, <3>2, RowWhole
  <2>. HIDE DEF computed, L, row
  <2>7. <<row(1)>> \o [k \in 1..L |-> row(k + 1)] = [k \in 1..L + 1 |-> row(k)]
    <3>1. row(1) \in Seq(Tokens)
      BY <2>1, <2>5
    <3>2. <<row(1)>> \in Seq(Seq(Tokens)) /\ Len(<<row(1)>>) = 1 /\ <<row(1)>>[1] = row(1)
      BY <3>1
    <3>3. \A k \in 1..L : row(k + 1) \in Seq(Tokens)
      BY <2>1, <2>5
    <3>. DEFINE rest == [k \in 1..L |-> row(k + 1)]
                all == [k \in 1..L + 1 |-> row(k)]
    <3>4. rest \in Seq(Seq(Tokens)) /\ Len(rest) = L /\ \A k \in 1..L : rest[k] = row(k + 1)
      BY <2>1, <3>3
    <3>5. all \in Seq(Seq(Tokens)) /\ Len(all) = L + 1 /\ \A k \in 1..L + 1 : all[k] = row(k)
      BY <2>1, <2>5
    <3>. HIDE DEF rest, all
    <3>6. /\ <<row(1)>> \o rest \in Seq(Seq(Tokens))
          /\ Len(<<row(1)>> \o rest) = 1 + L
          /\ \A k \in 1..1 + L : (<<row(1)>> \o rest)[k] =
               IF k <= 1 THEN <<row(1)>>[k] ELSE rest[k - 1]
      BY <3>2, <3>4, ConcatProperties
    <3>7. \A k \in 1..L + 1 : (<<row(1)>> \o rest)[k] = all[k]
      BY <2>1, <3>2, <3>4, <3>5, <3>6
    <3>8. Len(<<row(1)>> \o rest) = Len(all)
      BY <2>1, <3>5, <3>6
    <3>9. \A k \in 1..Len(<<row(1)>> \o rest) : (<<row(1)>> \o rest)[k] = all[k]
      BY <2>1, <3>6, <3>7
    <3>10. <<row(1)>> \o rest = all
      BY <3>5, <3>6, <3>8, <3>9, SeqEqual
    <3>. QED BY <3>10 DEF rest, all
  <2>8. Rows = [k \in 1..L + 1 |-> row(k)]
    BY <1>2, <1>5, <2>4, <2>6, <2>7
  <2>. QED BY <2>8 DEF L, row
<1>. QED BY <1>1, <1>4, <1>5

\* The mirror ends as long as the context, and with its tokens.
LEMMA SynchronizeKeeps ==
  ASSUME Unwindowed, IInv, call # Null, Synchronize
  PROVE  /\ Sound'
         /\ Mirrored => Mirror' = call.tokens
<1>. DEFINE t == call.tokens
            r == call.reuse
            e == SubSeq(t, r + 1, Len(t))
<1>1. /\ t \in Seq(Tokens) /\ Len(t) \in Nat /\ Len(t) <= MaxContext
      /\ r \in 0..Len(t) - 1 /\ r \in Nat
      /\ call.source = SubSeq(t, 1, r)
      /\ Mirrored => Mirror = SubSeq(t, 1, r)
      /\ Len(SubSeq(t, 1, r)) = r
  BY WaitingMeans
<1>2. Sound
  BY IInvIdle DEF Idle
<1>3. SubSeq(t, 1, r) \o e = t
  <2>1. /\ 1 \in 1..Len(t) + 1
        /\ r \in 1 - 1..Len(t)
        /\ Len(t) \in r..Len(t)
    BY <1>1
  <2>2. SubSeq(t, 1, r) \o e = SubSeq(t, 1, Len(t))
    BY <1>1, <2>1, ConcatAdjacentSubSeq
  <2>. QED BY <1>1, <2>2, SubSeqFull
<1>4. Output = t
  <2>1. Output = Latest(t, Retained)
    BY <1>1, <1>3 DEF Output, Inputs
  <2>2. Retained \in Nat /\ Len(t) <= Retained
    BY <1>1, AdapterAssumption DEF Unwindowed
  <2>. QED BY <1>1, <2>1, <2>2, LatestWhole
<1>5. CASE ~Mirrored
  BY <1>2, <1>5 DEF Synchronize, Sound, Room, Mirror, paged, Paged!BlocksFor
<1>6. CASE Mirrored
  <2>1. Len(Output) # Len(Mirror)
    BY <1>1, <1>4, <1>6
  <2>2. Paged!AppendMany("model", e) /\ reply'.kind = "ok"
    BY <1>1, <1>4, <1>6, <2>1 DEF Synchronize
  <2>3. /\ e \in Seq(Tokens) /\ Len(e) = Len(t) - r
        /\ \A i \in DOMAIN e : e[i] \in Tokens
    <3>1. \A i \in r + 1..Len(t) : t[i] \in Tokens
      BY <1>1, ElementOfSeq
    <3>2. e \in Seq(Tokens) /\ Len(e) = IF r + 1 <= Len(t) THEN Len(t) - (r + 1) + 1 ELSE 0
      BY <1>1, <3>1, SubSeqProperties
    <3>. HIDE DEF e
    <3>. QED BY <1>1, <3>2, LenProperties, ElementOfSeq
  <2>. HIDE DEF e
  <2>4. DOMAIN store = {"model"} /\ DOMAIN store \cup {"model"} = {"model"} /\ Len(Mirror) = r
    BY <1>1, <1>2, <1>6 DEF Sound
  <2>. DEFINE extra == Paged!BlocksFor(r + Len(e)) - Paged!BlocksFor(r)
  <2>5. /\ extra <= room
        /\ store' = [x \in {"model"} |-> IF x = "model" THEN Mirror \o e ELSE store[x]]
        /\ room' = room - extra
    <3>1. "model" \in DOMAIN store /\ ~(\E i \in DOMAIN e : e[i] = Null)
      BY <2>3, <2>4, AdapterAssumption
    <3>2. reply'.kind \notin {"KeyError", "KVCacheCapacityError", "QuantizeError"}
      BY <2>2
    <3>3. \/ \E kind \in {"KeyError", "KVCacheCapacityError", "QuantizeError"} :
                Paged!Refuse(kind)
          \/ /\ extra <= room
             /\ store' = Paged!Put(store, "model", Mirror \o e)
             /\ room' = room - extra
      <4>. HIDE DEF extra
      <4>1. extra = Paged!BlocksFor(Len(store["model"]) + Len(e))
                      - Paged!BlocksFor(Len(store["model"]))
        BY <2>4 DEF extra, Mirror
      <4>. QED BY <2>2, <4>1 DEF Paged!AppendMany, Mirror
    <3>4. \A kind : Paged!Refuse(kind) => reply'.kind = kind
      BY DEF Paged!Refuse, Paged!Reply
    <3>. HIDE DEF extra
    <3>5. store' = Paged!Put(store, "model", Mirror \o e) =>
            store' = [x \in {"model"} |-> IF x = "model" THEN Mirror \o e ELSE store[x]]
      BY <2>4 DEF Paged!Put
    <3>. QED BY <3>2, <3>3, <3>4, <3>5
  <2>6. Mirror' = t /\ store' \in [{"model"} -> Seq(Tokens)]
    BY <1>1, <1>3, <1>6, <2>5 DEF Mirror, e
  <2>7. r + Len(e) = Len(t)
    BY <1>1, <2>3
  <2>8. /\ Paged!BlocksFor(r) \in Nat /\ Paged!BlocksFor(Len(t)) \in Nat
        /\ Paged!BlocksFor(r) <= Paged!BlocksFor(Len(t))
    BY <1>1, BlocksForMonotone
  <2>9. room' = NumBlocks - Paged!BlocksFor(Len(t)) /\ room' \in 0..NumBlocks
    <3>. DEFINE before == Paged!BlocksFor(r)
                after == Paged!BlocksFor(Len(t))
    <3>1. room = NumBlocks - before /\ room \in 0..NumBlocks /\ NumBlocks \in Nat
      BY <1>2, <2>4, AdapterAssumption DEF Sound, Room
    <3>2. extra = after - before
      BY <2>7
    <3>. HIDE DEF before, after, extra
    <3>3. before \in Nat /\ after \in Nat /\ before <= after
      BY <2>8 DEF before, after
    <3>4. room' = NumBlocks - after /\ room' \in 0..NumBlocks
      BY <2>5, <3>1, <3>2, <3>3
    <3>. QED BY <3>4 DEF after
  <2>10. Room'
    BY <2>6, <2>9 DEF Room, Paged!BlocksFor
  <2>. QED BY <2>6, <2>9, <2>10 DEF Sound
<1>. QED BY <1>5, <1>6

LEMMA ForwardKeeps ==
  ASSUME Unwindowed, IInv, Forward
  PROVE  IInv'
<1>. DEFINE t == call.tokens
<1>1. /\ call # Null
      /\ Synchronize
      /\ cacheTokens' = t
      /\ past' = Output
      /\ boundary' = Logit(Len(Inputs) - 1)
      /\ answer' = [tokens |-> t, first |-> call.first, rows |-> Rows]
      /\ call' = Null
      /\ container' = container
  BY DEF Forward
<1>2. /\ t \in Seq(Tokens) /\ Len(t) \in 1..MaxContext /\ call.first \in 1..Len(t)
      /\ call.reuse \in 0..Len(t) - 1
      /\ call.source = SubSeq(t, 1, call.reuse)
  BY <1>1, WaitingMeans
<1>3. Sound' /\ (Mirrored => Mirror' = t)
  BY <1>1, SynchronizeKeeps
<1>4. Inputs = SubSeq(t, call.reuse + 1, Len(t)) /\ Len(Inputs) = Len(t) - call.reuse
  <2>1. \A i \in call.reuse + 1..Len(t) : t[i] \in Tokens
    BY <1>2, ElementOfSeq
  <2>2. Len(SubSeq(t, call.reuse + 1, Len(t))) =
          IF call.reuse + 1 <= Len(t) THEN Len(t) - (call.reuse + 1) + 1 ELSE 0
    BY <1>2, <2>1, SubSeqProperties
  <2>. QED BY <1>2, <2>2 DEF Inputs
<1>5. past' = t
  <2>1. /\ 1 \in 1..Len(t) + 1
        /\ call.reuse \in 1 - 1..Len(t)
        /\ Len(t) \in call.reuse..Len(t)
    BY <1>2
  <2>2. call.source \o Inputs = SubSeq(t, 1, Len(t))
    BY <1>2, <1>4, <2>1, ConcatAdjacentSubSeq
  <2>3. Output = Latest(t, Retained)
    BY <1>2, <2>2, SubSeqFull DEF Output
  <2>4. Retained \in Nat /\ Len(t) <= Retained
    BY <1>2, AdapterAssumption DEF Unwindowed
  <2>. QED BY <1>1, <1>2, <2>3, <2>4, LatestWhole
<1>6. boundary' = t
  <2>1. Len(t) \in call.reuse + 1..Len(t)
    BY <1>2
  <2>2. Logit(Len(t) - call.reuse - 1) = Row(SubSeq(t, 1, Len(t)))
    BY <1>1, <2>1, LogitIsRow
  <2>3. Row(SubSeq(t, 1, Len(t))) = t
    <3>1. SubSeq(t, 1, Len(t)) = t
      BY <1>2, SubSeqFull
    <3>2. Len(t) <= MaxContext
      BY <1>2, AdapterAssumption
    <3>. HIDE DEF t
    <3>. QED BY <1>2, <3>1, <3>2, RowWhole
  <2>. QED BY <1>1, <1>4, <2>2, <2>3
<1>7. Rows = [k \in 1..Len(t) - call.first + 1 |->
                Row(SubSeq(t, 1, call.first + k - 1))]
  BY <1>1, RowsAreTheirOwn
<1>8. Rows \in Seq(Seq(Tokens))
  <2>1. \A k \in 1..Len(t) - call.first + 1 :
          Row(SubSeq(t, 1, call.first + k - 1)) \in Seq(Tokens)
    <3>. SUFFICES ASSUME NEW k \in 1..Len(t) - call.first + 1
                  PROVE  Row(SubSeq(t, 1, call.first + k - 1)) \in Seq(Tokens)
      OBVIOUS
    <3>1. PICK m \in 0..Len(t) : m = call.first + k - 1
      BY <1>2
    <3>2. SubSeq(t, 1, m) \in Seq(Tokens) /\ Len(SubSeq(t, 1, m)) <= MaxContext
      BY <1>2, PrefixProperties, AdapterAssumption
    <3>3. Row(SubSeq(t, 1, m)) \in Seq(Tokens)
      BY <3>2, RowWhole
    <3>. QED BY <3>1, <3>3
  <2>2. Len(t) - call.first + 1 \in Nat
    BY <1>2
  <2>. QED BY <1>7, <2>1, <2>2
<1>9. TypeOK'
  <2>1. answer' \in [tokens : Seq(Tokens), first : Nat, rows : Seq(Seq(Tokens))]
    BY <1>1, <1>2, <1>8
  <2>2. container' \in Containers
    BY <1>1 DEF IInv, TypeOK
  <2>. QED BY <1>1, <1>2, <1>3, <1>5, <1>6, <2>1, <2>2 DEF TypeOK, Sound
<1>10. Waiting'
  BY <1>1 DEF Waiting
<1>11. Cached'
  <2>1. Len(t) <= MaxContext /\ t # <<>>
    <3>1. Len(<<>>) = 0
      BY EmptySeq
    <3>. QED BY <1>2, <3>1, AdapterAssumption
  <2>. QED BY <1>1, <1>3, <1>5, <1>6, <2>1 DEF Cached, MirrorTracks
<1>12. RowsMatch'
  <2>1. answer'.rows = Rows /\ answer'.tokens = t /\ answer'.first = call.first
    BY <1>1
  <2>. QED BY <1>7, <2>1 DEF RowsMatch, Row, Latest, Smaller
<1>. QED BY <1>3, <1>9, <1>10, <1>11, <1>12 DEF IInv, Sound
-----------------------------------------------------------------------------
(* The invariant is inductive.                                             *)

LEMMA InitInv == Init => IInv
<1>. SUFFICES ASSUME Init PROVE IInv
  OBVIOUS
<1>1. <<>> \in Seq(Tokens) /\ Len(<<>>) = 0 /\ Mirror = <<>>
  BY EmptySeq DEF Init, Mirror
<1>2. Paged!BlocksFor(0) = 0
  BY BlocksForMonotone
<1>3. TypeOK
  BY <1>1, AdapterAssumption DEF Init, TypeOK
<1>4. Waiting /\ RowsMatch
  BY DEF Init, Waiting, RowsMatch
<1>5. Cached /\ Room
  BY <1>1, <1>2, AdapterAssumption DEF Init, Cached, MirrorTracks, Room
<1>. QED BY <1>3, <1>4, <1>5 DEF IInv

\* A step that forgets the cache and leaves no call waiting.
LEMMA ForgetInv ==
  ASSUME IInv, Forget, call' = Null, UNCHANGED <<container, answer>>
  PROVE  IInv'
<1>1. Idle' /\ cacheTokens' = <<>> /\ boundary' = Null
  BY IInvIdle, ForgetIdle DEF Idle
<1>2. TypeOK'
  BY <1>1 DEF IInv, TypeOK, Idle, Sound, Cached
<1>3. Waiting' /\ RowsMatch'
  BY DEF IInv, Waiting, RowsMatch
<1>. QED BY <1>1, <1>2, <1>3 DEF IInv, Idle, Sound

LEMMA StepInv ==
  ASSUME Unwindowed, IInv, [Next]_vars
  PROVE  IInv'
<1>1. ASSUME NEW tokens \in Contexts, AnswerHit(tokens)
      PROVE  IInv'
  <2>1. /\ tokens \in Seq(Tokens) /\ Len(tokens) \in 1..MaxContext
        /\ answer' = [tokens |-> tokens, first |-> Len(tokens), rows |-> <<boundary>>]
        /\ boundary # Null /\ SubSeq(tokens, 1, Len(tokens)) = cacheTokens
        /\ UNCHANGED <<container, adapter, call, paged>>
    BY <1>1, ContextType DEF AnswerHit, Hit
  <2>2. boundary = tokens /\ SubSeq(tokens, 1, Len(tokens)) = tokens
    BY <2>1, SubSeqFull DEF IInv, Cached
  <2>3. TypeOK'
    <3>1. <<tokens>> \in Seq(Seq(Tokens)) /\ Len(tokens) \in Nat
      BY <2>1
    <3>2. answer' \in [tokens : Seq(Tokens), first : Nat, rows : Seq(Seq(Tokens))]
      BY <2>1, <2>2, <3>1
    <3>. QED BY <2>1, <3>2 DEF IInv, TypeOK, adapter, paged
  <2>4. RowsMatch'
    <3>1. Row(tokens) = tokens
      BY <2>1, RowWhole
    <3>2. /\ answer'.rows = <<tokens>> /\ answer'.tokens = tokens
          /\ answer'.first = Len(tokens)
      BY <2>1, <2>2
    <3>. DEFINE n == Len(tokens)
    <3>3. n - n + 1 = 1 /\ \A k \in 1..1 : n + k - 1 = n
      BY <2>1
    <3>. HIDE DEF n
    <3>4. [k \in 1..n - n + 1 |-> Row(SubSeq(tokens, 1, n + k - 1))] = <<tokens>>
      <4>1. Row(SubSeq(tokens, 1, n)) = tokens
        BY <2>2, <3>1 DEF n
      <4>2. \A k \in 1..1 : Row(SubSeq(tokens, 1, n + k - 1)) = tokens
        BY <3>3, <4>1
      <4>. QED BY <3>3, <4>2
    <3>. QED BY <3>2, <3>4 DEF RowsMatch, n, Row, Latest, Smaller
  <2>5. Waiting' /\ Cached' /\ Room'
    BY <2>1 DEF IInv, Waiting, Cached, MirrorTracks, Mirror, Room, adapter, paged, Paged!BlocksFor
  <2>. QED BY <2>3, <2>4, <2>5 DEF IInv
<1>2. ASSUME NEW tokens \in Contexts, NEW first \in 1..Len(tokens), Prepare(tokens, first)
      PROVE  IInv'
  BY <1>2, PrepareKeeps
<1>3. ASSUME NEW tokens \in Contexts, NEW first \in 1..Len(tokens), PrepareFails(tokens, first)
      PROVE  IInv'
  BY <1>3, ForgetInv DEF PrepareFails
<1>4. CASE Forward
  BY <1>4, ForwardKeeps
<1>5. CASE ForwardFails
  BY <1>5, ForgetInv DEF ForwardFails
<1>6. CASE ResetCache
  BY <1>6, ForgetInv DEF ResetCache
<1>7. CASE UNCHANGED vars
  <2>1. TypeOK' /\ Waiting' /\ RowsMatch'
    BY <1>7 DEF IInv, TypeOK, Waiting, RowsMatch, vars, adapter, paged
  <2>2. Cached' /\ Room'
    BY <1>7 DEF IInv, Cached, MirrorTracks, Mirror, Room, vars, adapter, paged, Paged!BlocksFor
  <2>. QED BY <2>1, <2>2 DEF IInv
<1>. QED BY <1>1, <1>2, <1>3, <1>4, <1>5, <1>6, <1>7 DEF Next

LEMMA Invariance ==
  ASSUME Unwindowed
  PROVE  Spec => []IInv
<1>1. IInv /\ [Next]_vars => IInv'
  BY StepInv
<1>. QED BY InitInv, <1>1, PTL DEF Spec
-----------------------------------------------------------------------------
(* Theorems.                                                               *)

\* The adapter is type-correct, and no forward pass is asked for without a token.
THEOREM TypeCorrect ==
  ASSUME Unwindowed
  PROVE  Spec => []TypeOK
<1>1. IInv => TypeOK
  BY DEF IInv
<1>. QED BY <1>1, Invariance, PTL

\* Every row that next_token_probs and score_proposal return is the row of its
\* own context, whatever was cached, cut, refilled, reset or failed before.
THEOREM RowsOfTheirContexts ==
  ASSUME Unwindowed
  PROVE  Spec => []RowsMatch
<1>1. IInv => RowsMatch
  BY DEF IInv
<1>. QED BY <1>1, Invariance, PTL

\* Past key values, cached tokens and boundary row belong together always.
THEOREM CacheIsCoherent ==
  ASSUME Unwindowed
  PROVE  Spec => []Coherent
<1>1. IInv => Coherent
  <2>. SUFFICES ASSUME IInv PROVE Coherent
    OBVIOUS
  <2>1. /\ cacheTokens \in Seq(Tokens) /\ Len(cacheTokens) <= MaxContext
        /\ past = cacheTokens /\ Len(cacheTokens) \in Nat
        /\ boundary # Null => boundary = cacheTokens
        /\ cacheTokens = <<>> => boundary = Null
    BY LenProperties DEF IInv, TypeOK, Cached
  <2>2. past = Latest(cacheTokens, Len(past))
    BY <2>1, LatestWhole
  <2>3. Row(cacheTokens) = cacheTokens
    BY <2>1, RowWhole
  <2>. QED BY <2>1, <2>2, <2>3 DEF Coherent
<1>. QED BY <1>1, Invariance, PTL

\* The paged mirror holds the cached tokens in every state, through cuts, refills,
\* resets, failures and forward passes.
THEOREM MirrorTracksCache ==
  ASSUME Unwindowed
  PROVE  Spec => []MirrorTracks
<1>1. IInv => MirrorTracks
  BY DEF IInv, Cached
<1>. QED BY <1>1, Invariance, PTL
=============================================================================
