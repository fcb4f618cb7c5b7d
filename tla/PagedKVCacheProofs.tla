------------------------- MODULE PagedKVCacheProofs -------------------------
(***************************************************************************)
(* Proofs about PagedKVCache, for every pool, block size and set of        *)
(* sequences and entries.  The audit of validate_invariants, with the      *)
(* types, is an inductive invariant; that the assertions never fire, that  *)
(* placement is stable and that the cache implements KVStore rest on it.   *)
(* Those of DeviceCacheProofs carry over to the storage that is composed   *)
(* with it.                                                                *)
(***************************************************************************)
EXTENDS MCPagedStorage, SharedTheorems

-----------------------------------------------------------------------------
(* Division of token numbers into blocks.                                  *)

LEMMA BlocksForType ==
  ASSUME NEW n \in Nat
  PROVE  BlocksFor(n) \in Nat
BY PoolAssumption, DivMod DEF BlocksFor

\* The blocks for n tokens are those that hold a token below n.
LEMMA BlocksForMeaning ==
  ASSUME NEW n \in Nat, NEW q \in Nat
  PROVE  q < BlocksFor(n) <=> q * BlockSize < n
<1>. DEFINE B == BlockSize
            m == n + B - 1
            d == m \div B
            r == m % B
<1>1. B \in Nat \ {0} /\ m \in Nat
  BY PoolAssumption
<1>2. d \in Nat /\ r \in 0..B - 1 /\ m = B * d + r
  BY <1>1, DivMod
<1>3. BlocksFor(n) = d
  BY DEF BlocksFor
<1>4. ASSUME q < d PROVE q * B < n
  <2>1. B * (q + 1) <= B * d
    <3>1. q + 1 <= d
      BY <1>2, <1>4
    <3>. HIDE DEF d, B
    <3>. QED BY <3>1, <1>1, <1>2
  <2>2. B * (q + 1) = q * B + B
    BY <1>1
  <2>. HIDE DEF d, r
  <2>. QED BY <2>1, <2>2, <1>1, <1>2
<1>5. ASSUME q * B < n PROVE q < d
  <2>1. SUFFICES ASSUME d <= q PROVE FALSE
    BY <1>2
  <2>2. B * d <= B * q
    <3>. HIDE DEF d, B
    <3>. QED BY <2>1, <1>1, <1>2
  <2>3. B * q = q * B
    BY <1>1
  <2>. HIDE DEF d, r
  <2>. QED BY <2>2, <2>3, <1>1, <1>2, <1>5
<1>. QED BY <1>3, <1>4, <1>5

\* Token i of a sequence of n tokens is in one of the sequence's blocks.
LEMMA DivInBlocks ==
  ASSUME NEW n \in Nat, NEW i \in 0..n - 1
  PROVE  (i \div BlockSize) + 1 \in 1..BlocksFor(n)
<1>1. /\ BlockSize \in Nat \ {0}
      /\ i \div BlockSize \in Nat
      /\ i % BlockSize \in 0..BlockSize - 1
      /\ i = BlockSize * (i \div BlockSize) + (i % BlockSize)
  <2>. i \in Nat
    OBVIOUS
  <2>. QED BY PoolAssumption, DivMod
<1>2. BlockSize * (i \div BlockSize) = (i \div BlockSize) * BlockSize
  BY <1>1
<1>3. (i \div BlockSize) * BlockSize < n
  BY <1>1, <1>2
<1>4. i \div BlockSize < BlocksFor(n)
  BY <1>1, <1>3, BlocksForMeaning
<1>. QED BY <1>1, <1>4, BlocksForType

\* More tokens never need fewer blocks.
LEMMA BlocksForMonotone ==
  ASSUME NEW m \in Nat, NEW n \in Nat, m <= n
  PROVE  BlocksFor(m) <= BlocksFor(n)
<1>1. BlocksFor(m) \in Nat /\ BlocksFor(n) \in Nat
  BY BlocksForType
<1>2. SUFFICES ASSUME BlocksFor(n) < BlocksFor(m) PROVE FALSE
  BY <1>1
<1>3. BlocksFor(n) * BlockSize < m
  BY <1>1, <1>2, BlocksForMeaning
<1>4. BlocksFor(n) < BlocksFor(n)
  BY <1>1, <1>3, BlocksForMeaning, PoolAssumption
<1>. QED BY <1>1, <1>4
-----------------------------------------------------------------------------
(* Slots of a block table.                                                 *)

Distinct(T) == \A j, k \in DOMAIN T : T[j] = T[k] => j = k

LEMMA SlotType ==
  ASSUME NEW T \in Seq(Block), NEW i \in Nat,
         (i \div BlockSize) + 1 \in DOMAIN T
  PROVE  Slot(T, i) \in Block \X Offset
<1>1. i % BlockSize \in Offset
  BY PoolAssumption, DivMod DEF Offset
<1>2. T[(i \div BlockSize) + 1] \in Block
  BY ElementOfSeq, LenProperties
<1>. QED BY <1>1, <1>2 DEF Slot

\* The slot at offset o of logical block j is that of token (j - 1) * B + o.
LEMMA SlotOf ==
  ASSUME NEW T, NEW j \in Nat \ {0}, NEW o \in Offset
  PROVE  /\ (j - 1) * BlockSize + o \in Nat
         /\ Slot(T, (j - 1) * BlockSize + o) = <<T[j], o>>
<1>. DEFINE q == j - 1
<1>1. q \in Nat /\ BlockSize \in Nat \ {0} /\ o \in 0..BlockSize - 1
  BY PoolAssumption DEF Offset
<1>. HIDE DEF q
<1>2. q * BlockSize + o \in Nat
  BY <1>1
<1>3. (q * BlockSize + o) \div BlockSize = q /\ (q * BlockSize + o) % BlockSize = o
  BY <1>1, DivOf
<1>4. q + 1 = j
  BY DEF q
<1>5. Slot(T, q * BlockSize + o) = <<T[j], o>>
  BY <1>3, <1>4 DEF Slot
<1>. QED BY <1>2, <1>5 DEF q

\* Two tokens of one table never share a slot.
LEMMA SlotInjective ==
  ASSUME NEW T, Distinct(T), NEW i \in Nat, NEW k \in Nat,
         (i \div BlockSize) + 1 \in DOMAIN T,
         (k \div BlockSize) + 1 \in DOMAIN T,
         Slot(T, i) = Slot(T, k)
  PROVE  i = k
<1>1. /\ T[(i \div BlockSize) + 1] = T[(k \div BlockSize) + 1]
      /\ i % BlockSize = k % BlockSize
  BY DEF Slot
<1>2. (i \div BlockSize) + 1 = (k \div BlockSize) + 1
  BY <1>1 DEF Distinct
<1>3. /\ i \div BlockSize \in Nat /\ k \div BlockSize \in Nat
      /\ i = BlockSize * (i \div BlockSize) + (i % BlockSize)
      /\ k = BlockSize * (k \div BlockSize) + (k % BlockSize)
  BY PoolAssumption, DivMod
<1>4. i \div BlockSize = k \div BlockSize
  BY <1>2, <1>3
<1>. QED BY <1>1, <1>3, <1>4

-----------------------------------------------------------------------------
(* The inductive invariant.                                                *)

IInv == TypeOK /\ ValidateInvariants

\* A mapped token has a slot, the slot holds a token, and no free block has it.
LEMMA Mapped ==
  ASSUME IInv, NEW s \in Live, NEW i \in 0..lengths[s] - 1
  PROVE  /\ (i \div BlockSize) + 1 \in DOMAIN tables[s]
         /\ Slot(tables[s], i) \in Block \X Offset
         /\ blocks[Slot(tables[s], i)] \in Tokens
<1>1. /\ tables[s] \in Seq(Block) /\ lengths[s] \in Nat
      /\ Len(tables[s]) = BlocksFor(lengths[s])
  BY DEF IInv, TypeOK, ValidateInvariants, Exact
<1>2. DOMAIN tables[s] = 1..BlocksFor(lengths[s])
  BY <1>1, LenProperties
<1>3. (i \div BlockSize) + 1 \in DOMAIN tables[s]
  BY <1>1, <1>2, DivInBlocks
<1>4. Slot(tables[s], i) \in Block \X Offset
  <2>. i \in Nat
    BY <1>1
  <2>. QED BY <1>1, <1>3, SlotType
<1>5. blocks[Slot(tables[s], i)] # Null
  <2>. DEFINE j == (i \div BlockSize) + 1
              o == i % BlockSize
  <2>1. /\ i \div BlockSize \in Nat
        /\ o \in Offset
        /\ i = BlockSize * (i \div BlockSize) + o
    <3>. i \in Nat
      BY <1>1
    <3>. QED BY PoolAssumption, DivMod DEF Offset
  <2>2. (j - 1) * BlockSize + o = i
    BY <2>1, PoolAssumption
  <2>3. blocks[<<tables[s][j], o>>] # Null <=> (j - 1) * BlockSize + o < lengths[s]
    <3>. HIDE DEF j, o
    <3>. QED BY <1>3, <2>1 DEF IInv, ValidateInvariants, Exact, j, o
  <2>4. i < lengths[s]
    BY <1>1
  <2>. QED BY <2>2, <2>3, <2>4 DEF Slot
<1>6. blocks[Slot(tables[s], i)] \in Tokens \cup {Null}
  BY <1>4 DEF IInv, TypeOK
<1>. QED BY <1>3, <1>4, <1>5, <1>6
-----------------------------------------------------------------------------
(* What the mutating part of append_many does when the invariant holds.    *)

\* The entries e of sequence s end up in the slots that table maps them to,
\* nothing else is written, and the blocks added to the table were free.
Grows(s, e, table) ==
  LET start == lengths[s]
      final == start + Len(e)
  IN  /\ table \in Seq(Block) /\ Distinct(table)
      /\ Len(table) = BlocksFor(final)
      /\ \A j \in DOMAIN tables[s] : j \in DOMAIN table /\ table[j] = tables[s][j]
      /\ \A j \in DOMAIN table \ DOMAIN tables[s] : table[j] \in free
      /\ tables' = [tables EXCEPT ![s] = table]
      /\ lengths' = [lengths EXCEPT ![s] = final]
      /\ reply' = Reply("ok", start)
      /\ \A b \in Block : b \in free' <=> b \in free /\ \A j \in DOMAIN table : table[j] # b
      /\ free' \subseteq free
      /\ blocks' \in [Block \X Offset -> Tokens \cup {Null}]
      /\ \A i \in start..final - 1 : blocks'[Slot(table, i)] = e[i - start + 1]
      /\ \A slot \in Block \X Offset :
           (\A i \in start..final - 1 : Slot(table, i) # slot)
             => blocks'[slot] = blocks[slot]

\* Entries without a refused one are a sequence of tokens.
LEMMA GoodEntries ==
  ASSUME NEW e \in Entries, \A i \in DOMAIN e : e[i] # Bad
  PROVE  e \in Seq(Tokens) /\ DOMAIN e = 1..Len(e) /\ Len(e) \in Nat
<1>1. PICK n \in 0..MaxAppend : e \in [1..n -> Tokens \cup {Bad}]
  BY DEF Entries
<1>2. n \in Nat
  BY PoolAssumption
<1>3. e \in [1..n -> Tokens]
  BY <1>1
<1>4. e \in Seq(Tokens)
  BY <1>2, <1>3, SeqDef
<1>. QED BY <1>4, LenProperties

\* The popped blocks, appended to the table, keep it free of repetitions.
LEMMA GrownTable ==
  ASSUME IInv, NEW s \in Live, NEW n \in Nat, NEW popped \in LowestFree(n)
  PROVE  LET table == tables[s] \o popped
         IN  /\ popped \in Seq(Block) /\ Len(popped) = n
             /\ table \in Seq(Block) /\ Distinct(table)
             /\ Len(table) = Len(tables[s]) + n
             /\ \A j \in DOMAIN tables[s] : j \in DOMAIN table /\ table[j] = tables[s][j]
             /\ \A j \in DOMAIN table \ DOMAIN tables[s] :
                  j - Len(tables[s]) \in 1..n /\ table[j] = popped[j - Len(tables[s])]
<1>. DEFINE old == tables[s]
            table == old \o popped
<1>1. old \in Seq(Block) /\ free \subseteq Block
  BY DEF IInv, TypeOK
<1>2. /\ popped \in [1..n -> free]
      /\ \A i, j \in 1..n : i < j => popped[i] < popped[j]
  BY DEF LowestFree
<1>3. popped \in Seq(Block) /\ Len(popped) = n
  <2>1. popped \in [1..n -> Block]
    BY <1>1, <1>2
  <2>2. popped \in Seq(Block)
    BY <2>1, SeqDef
  <2>3. DOMAIN popped = 1..n /\ DOMAIN popped = 1..Len(popped) /\ Len(popped) \in Nat
    BY <2>1, <2>2, LenProperties
  <2>. QED BY <2>2, <2>3
<1>4. /\ table \in Seq(Block) /\ Len(table) = Len(old) + n
      /\ \A i \in 1..Len(old) + n :
           table[i] = IF i <= Len(old) THEN old[i] ELSE popped[i - Len(old)]
  BY <1>1, <1>3, ConcatProperties
<1>5. /\ DOMAIN old = 1..Len(old) /\ Len(old) \in Nat
      /\ DOMAIN table = 1..Len(old) + n
  BY <1>1, <1>4, LenProperties
<1>6. \A j \in DOMAIN old : j \in DOMAIN table /\ table[j] = old[j]
  BY <1>4, <1>5
<1>7. \A j \in DOMAIN table \ DOMAIN old :
         j - Len(old) \in 1..n /\ table[j] = popped[j - Len(old)]
  BY <1>4, <1>5
<1>8. \A i, j \in 1..n : popped[i] = popped[j] => i = j
  <2>1. SUFFICES ASSUME NEW i \in 1..n, NEW j \in 1..n, popped[i] = popped[j], i < j
                 PROVE  FALSE
    OBVIOUS
  <2>2. popped[i] < popped[j]
    BY <1>2, <2>1
  <2>3. popped[i] \in free
    BY <1>2
  <2>4. popped[i] \in Block
    BY <1>1, <2>3
  <2>5. popped[i] \in Int
    BY <2>4, PoolAssumption DEF Block
  <2>. QED BY <2>1, <2>2, <2>5
<1>9. \A j \in DOMAIN old : old[j] \notin free
  BY <1>1, ElementOfSeq, <1>5 DEF IInv, ValidateInvariants, Partitioned
<1>10. \A j, k \in DOMAIN old : old[j] = old[k] => j = k
  BY DEF IInv, ValidateInvariants, Exclusive
<1>11. Distinct(table)
  <2>1. SUFFICES ASSUME NEW j \in DOMAIN table, NEW k \in DOMAIN table,
                        table[j] = table[k]
                 PROVE  j = k
    BY DEF Distinct
  <2>2. CASE j \in DOMAIN old /\ k \in DOMAIN old
    BY <1>6, <1>10, <2>1, <2>2
  <2>3. CASE j \notin DOMAIN old /\ k \notin DOMAIN old
    <3>1. j - Len(old) = k - Len(old)
      BY <1>7, <1>8, <2>1, <2>3
    <3>. QED BY <3>1, <1>5
  <2>4. CASE j \in DOMAIN old /\ k \notin DOMAIN old
    BY <1>2, <1>6, <1>7, <1>9, <2>1, <2>4
  <2>5. CASE j \notin DOMAIN old /\ k \in DOMAIN old
    BY <1>2, <1>6, <1>7, <1>9, <2>1, <2>5
  <2>. QED BY <2>2, <2>3, <2>4, <2>5
<1>. QED BY <1>3, <1>4, <1>6, <1>7, <1>11

\* Every slot the new entries go to is empty, so the loop never stops early.
LEMMA NewSlotsEmpty ==
  ASSUME IInv, NEW s \in Live, NEW n \in Nat, NEW popped \in LowestFree(n),
         NEW final \in Nat, BlocksFor(final) = Len(tables[s]) + n,
         NEW i \in lengths[s]..final - 1
  PROVE  LET table == tables[s] \o popped
         IN  /\ (i \div BlockSize) + 1 \in DOMAIN table
             /\ Slot(table, i) \in Block \X Offset
             /\ blocks[Slot(table, i)] = Null
<1>. DEFINE old == tables[s]
            table == old \o popped
            j == (i \div BlockSize) + 1
            o == i % BlockSize
<1>1. /\ table \in Seq(Block) /\ Len(table) = BlocksFor(final)
      /\ DOMAIN table = 1..Len(table)
      /\ \A k \in DOMAIN old : table[k] = old[k]
      /\ \A k \in DOMAIN table \ DOMAIN old : table[k] \in free
  <2>. HIDE DEF table
  <2>1. /\ table \in Seq(Block) /\ Len(table) = Len(old) + n
        /\ \A k \in DOMAIN old : table[k] = old[k]
        /\ \A k \in DOMAIN table \ DOMAIN old :
             k - Len(old) \in 1..n /\ table[k] = popped[k - Len(old)]
    BY GrownTable DEF table
  <2>2. popped \in [1..n -> free]
    BY DEF LowestFree
  <2>. QED BY <2>1, <2>2, LenProperties
<1>2. /\ lengths[s] \in Nat /\ i \in Nat /\ i \in 0..final - 1
  BY DEF IInv, TypeOK
<1>3. j \in DOMAIN table
  BY <1>1, <1>2, DivInBlocks
<1>4. Slot(table, i) \in Block \X Offset
  BY <1>1, <1>2, <1>3, SlotType
<1>5. /\ i \div BlockSize \in Nat /\ o \in Offset
      /\ i = BlockSize * (i \div BlockSize) + o
  BY <1>2, PoolAssumption, DivMod DEF Offset
<1>6. (j - 1) * BlockSize + o = i
  BY <1>5, PoolAssumption
<1>7. blocks[<<table[j], o>>] = Null
  <2>1. CASE j \in DOMAIN old
    <3>1. blocks[<<old[j], o>>] # Null <=> (j - 1) * BlockSize + o < lengths[s]
      <4>. HIDE DEF j, o
      <4>. QED BY <2>1, <1>5 DEF IInv, ValidateInvariants, Exact
    <3>2. ~(i < lengths[s])
      BY <1>2
    <3>. QED BY <3>1, <3>2, <1>6, <1>1, <2>1
  <2>2. CASE j \notin DOMAIN old
    <3>1. table[j] \in free
      BY <1>1, <1>3, <2>2
    <3>. QED BY <3>1, <1>5 DEF IInv, ValidateInvariants, FreeEmpty
  <2>. QED BY <2>1, <2>2
<1>. QED BY <1>3, <1>4, <1>7 DEF Slot

LEMMA WriteGrows ==
  ASSUME IInv, NEW s \in Live, NEW e \in Entries, \A i \in DOMAIN e : e[i] # Bad,
         NEW popped \in LowestFree(BlocksFor(lengths[s] + Len(e)) - Len(tables[s])),
         Write(s, e, popped)
  PROVE  Grows(s, e, tables[s] \o popped)
<1>. DEFINE old == tables[s]
            start == lengths[s]
            final == start + Len(e)
            n == BlocksFor(final) - Len(old)
            table == old \o popped
            occupied == {i \in start..final - 1 : blocks[Slot(table, i)] # Null}
<1>1. /\ start \in Nat /\ Len(e) \in Nat /\ final \in Nat
      /\ e \in Seq(Tokens) /\ DOMAIN e = 1..Len(e)
  BY GoodEntries DEF IInv, TypeOK
<1>2. /\ old \in Seq(Block) /\ DOMAIN old = 1..Len(old)
      /\ Len(old) = BlocksFor(start)
      /\ free \subseteq Block
  BY LenProperties DEF IInv, TypeOK, ValidateInvariants, Exact
<1>3. n \in Nat /\ BlocksFor(final) = Len(old) + n
  <2>1. BlocksFor(start) <= BlocksFor(final)
    BY <1>1, BlocksForMonotone
  <2>2. BlocksFor(start) \in Nat /\ BlocksFor(final) \in Nat
    BY <1>1, BlocksForType
  <2>. HIDE DEF start, final
  <2>. QED BY <1>2, <2>1, <2>2
<1>. HIDE DEF n
<1>4. popped \in LowestFree(n)
  BY DEF n
<1>5. /\ table \in Seq(Block) /\ Distinct(table)
      /\ Len(table) = BlocksFor(final)
      /\ popped \in Seq(Block) /\ Len(popped) = n
      /\ \A j \in DOMAIN old : j \in DOMAIN table /\ table[j] = old[j]
      /\ \A j \in DOMAIN table \ DOMAIN old :
           j - Len(old) \in 1..n /\ table[j] = popped[j - Len(old)]
  BY <1>3, <1>4, GrownTable
<1>6. \A i \in start..final - 1 :
        /\ (i \div BlockSize) + 1 \in DOMAIN table
        /\ Slot(table, i) \in Block \X Offset
        /\ blocks[Slot(table, i)] = Null
  BY <1>1, <1>3, <1>4, NewSlotsEmpty
<1>7. occupied = {}
  BY <1>6
<1>8. \A i, k \in start..final - 1 : Slot(table, i) = Slot(table, k) => i = k
  <2>. HIDE DEF table, final
  <2>1. \A i \in start..final - 1 : i \in Nat
    BY <1>1
  <2>. QED BY <2>1, <1>5, <1>6, SlotInjective
<1>9. popped \in [1..n -> free] /\ DOMAIN popped = 1..n
  BY <1>4 DEF LowestFree
<1>. DEFINE written(slot) == {i \in start..final - 1 : Slot(table, i) = slot}
<1>10. /\ free' = free \ {popped[k] : k \in DOMAIN popped}
       /\ tables' = [tables EXCEPT ![s] = table]
       /\ lengths' = [lengths EXCEPT ![s] = final]
       /\ reply' = Reply("ok", start)
       /\ blocks' = [slot \in Block \X Offset |->
                      IF written(slot) = {} THEN blocks[slot]
                      ELSE e[(CHOOSE i \in written(slot) : TRUE) - start + 1]]
  BY <1>7 DEF Write
<1>. HIDE DEF table
<1>11. \A j \in DOMAIN table \ DOMAIN old : table[j] \in free
  BY <1>5, <1>9
<1>12. \A b \in Block : b \in free' <=> b \in free /\ \A j \in DOMAIN table : table[j] # b
  <2>1. DOMAIN table = 1..Len(old) + n
    BY <1>5, <1>3, LenProperties
  <2>2. \A j \in DOMAIN old : old[j] \notin free
    BY <1>2, ElementOfSeq DEF IInv, ValidateInvariants, Partitioned
  <2>3. ASSUME NEW b \in Block, b \in free' PROVE b \in free /\ \A j \in DOMAIN table : table[j] # b
    <3>1. b \in free
      BY <2>3, <1>10
    <3>2. ASSUME NEW j \in DOMAIN table, table[j] = b PROVE FALSE
      <4>1. j \notin DOMAIN old
        BY <3>1, <3>2, <2>2, <1>5
      <4>. QED BY <4>1, <3>2, <2>3, <1>5, <1>9, <1>10
    <3>. QED BY <3>1, <3>2
  <2>4. ASSUME NEW b \in Block, b \in free, \A j \in DOMAIN table : table[j] # b PROVE b \in free'
    <3>1. ASSUME NEW k \in 1..n, popped[k] = b PROVE FALSE
      <4>1. Len(old) + k \in DOMAIN table \ DOMAIN old
        BY <1>2, <1>3, <2>1, LenProperties
      <4>2. table[Len(old) + k] = popped[k]
        <5>1. Len(old) + k - Len(old) = k
          BY <1>2, LenProperties
        <5>. QED BY <4>1, <5>1, <1>5
      <4>. QED BY <4>1, <4>2, <3>1, <2>4
    <3>. QED BY <2>4, <3>1, <1>9, <1>10
  <2>. QED BY <2>3, <2>4
<1>13. ASSUME NEW i \in start..final - 1
       PROVE  blocks'[Slot(table, i)] = e[i - start + 1]
  <2>. DEFINE slot == Slot(table, i)
  <2>1. slot \in Block \X Offset
    BY <1>6
  <2>2. i \in written(slot) /\ \A k \in written(slot) : k = i
    BY <1>8
  <2>3. (CHOOSE k \in written(slot) : TRUE) = i
    <3>. HIDE DEF written, slot
    <3>. QED BY <2>2
  <2>. HIDE DEF written, slot
  <2>4. blocks'[slot] = e[i - start + 1]
    BY <1>10, <2>1, <2>2, <2>3
  <2>. QED BY <2>4 DEF slot
<1>14. ASSUME NEW slot \in Block \X Offset,
              \A i \in start..final - 1 : Slot(table, i) # slot
       PROVE  blocks'[slot] = blocks[slot]
  BY <1>10, <1>14
<1>15. blocks' \in [Block \X Offset -> Tokens \cup {Null}]
  <2>1. ASSUME NEW slot \in Block \X Offset
        PROVE  blocks'[slot] \in Tokens \cup {Null}
    <3>1. CASE \E i \in start..final - 1 : Slot(table, i) = slot
      <4>1. PICK i \in start..final - 1 : Slot(table, i) = slot
        BY <3>1
      <4>2. blocks'[slot] = e[i - start + 1]
        BY <4>1, <1>13
      <4>3. i - start + 1 \in 1..Len(e)
        BY <1>1
      <4>. QED BY <4>2, <4>3, <1>1, ElementOfSeq
    <3>2. CASE \A i \in start..final - 1 : Slot(table, i) # slot
      BY <3>2, <1>14 DEF IInv, TypeOK
    <3>. QED BY <3>1, <3>2
  <2>. HIDE DEF written
  <2>. QED BY <2>1, <1>10
<1>16. free' \subseteq free
  BY <1>10
<1>17. Grows(s, e, table)
  BY <1>5, <1>10, <1>11, <1>12, <1>13, <1>14, <1>15, <1>16 DEF Grows
<1>. QED BY <1>17 DEF table
-----------------------------------------------------------------------------
(* What the mutating part of truncate does when the invariant holds.       *)

\* Cleared empties the slots of the suffix and no others.
LEMMA ClearedSlots ==
  ASSUME IInv, NEW s \in Live, NEW n \in Nat
  PROVE  /\ Cleared(s, n) \in [Block \X Offset -> Tokens \cup {Null}]
         /\ \A slot \in Block \X Offset :
              Cleared(s, n)[slot] = IF \E i \in n..lengths[s] - 1 : Slot(tables[s], i) = slot
                                    THEN Null ELSE blocks[slot]
BY DEF Cleared, IInv, TypeOK

\* Exactly: in the blocks of s, the slots from n on are now empty.
LEMMA ClearedExact ==
  ASSUME IInv, NEW s \in Live, NEW n \in 0..lengths[s],
         NEW j \in DOMAIN tables[s], NEW o \in Offset
  PROVE  LET slot == <<tables[s][j], o>>
             i == (j - 1) * BlockSize + o
         IN  /\ i \in Nat
             /\ slot \in Block \X Offset
             /\ Cleared(s, n)[slot] = IF i < n THEN blocks[slot] ELSE Null
             /\ Cleared(s, n)[slot] # Null <=> i < n
<1>. DEFINE slot == <<tables[s][j], o>>
            i == (j - 1) * BlockSize + o
<1>1. /\ lengths[s] \in Nat /\ n \in Nat /\ tables[s] \in Seq(Block)
      /\ DOMAIN tables[s] = 1..Len(tables[s])
      /\ Len(tables[s]) = BlocksFor(lengths[s])
      /\ Distinct(tables[s])
      /\ blocks[slot] # Null <=> i < lengths[s]
  BY LenProperties
     DEF IInv, TypeOK, ValidateInvariants, Exact, Exclusive, Distinct
<1>2. j \in Nat \ {0} /\ tables[s][j] \in Block
  BY <1>1, ElementOfSeq, LenProperties
<1>3. i \in Nat /\ Slot(tables[s], i) = slot
  BY <1>2, SlotOf
<1>4. \A k \in n..lengths[s] - 1 : Slot(tables[s], k) = slot => k = i
  <2>1. (i \div BlockSize) + 1 \in DOMAIN tables[s]
    <3>1. i \div BlockSize = j - 1
      <4>1. j - 1 \in Nat /\ o \in 0..BlockSize - 1
        BY <1>2 DEF Offset
      <4>. QED BY <4>1, PoolAssumption, DivOf
    <3>. HIDE DEF i
    <3>. QED BY <3>1, <1>2
  <2>. HIDE DEF i, slot
  <2>2. SUFFICES ASSUME NEW k \in n..lengths[s] - 1, Slot(tables[s], k) = slot
                 PROVE  k = i
    OBVIOUS
  <2>3. k \in Nat /\ k \in 0..lengths[s] - 1
    BY <1>1
  <2>4. (k \div BlockSize) + 1 \in DOMAIN tables[s]
    BY <2>3, Mapped
  <2>. QED BY <1>1, <1>3, <2>1, <2>2, <2>3, <2>4, SlotInjective
<1>5. slot \in Block \X Offset
  BY <1>2
<1>. HIDE DEF slot, i
<1>6. Cleared(s, n)[slot] = IF \E k \in n..lengths[s] - 1 : Slot(tables[s], k) = slot
                            THEN Null ELSE blocks[slot]
  BY <1>1, <1>5, ClearedSlots
<1>7. (\E k \in n..lengths[s] - 1 : Slot(tables[s], k) = slot) <=> i \in n..lengths[s] - 1
  BY <1>3, <1>4
<1>8. Cleared(s, n)[slot] = IF i < n THEN blocks[slot] ELSE Null
  BY <1>1, <1>3, <1>6, <1>7
<1>9. Cleared(s, n)[slot] # Null <=> i < n
  BY <1>1, <1>3, <1>8
<1>. QED BY <1>3, <1>5, <1>8, <1>9 DEF slot, i

\* The blocks cut off are empty by then, so the assertion of truncate holds.
LEMMA NothingDirty ==
  ASSUME IInv, NEW s \in Live, NEW n \in 0..lengths[s]
  PROVE  Dirty(s, n) = {}
<1>1. SUFFICES ASSUME NEW k \in Released(s, n), NEW o \in Offset,
                      Cleared(s, n)[<<tables[s][k], o>>] # Null
               PROVE  FALSE
  BY DEF Dirty
<1>2. /\ lengths[s] \in Nat /\ n \in Nat
      /\ DOMAIN tables[s] = 1..Len(tables[s]) /\ Len(tables[s]) \in Nat
      /\ BlocksFor(n) \in Nat
  BY LenProperties, BlocksForType DEF IInv, TypeOK
<1>3. k \in DOMAIN tables[s] /\ k - 1 \in Nat /\ ~(k - 1 < BlocksFor(n))
  BY <1>2 DEF Released
<1>4. (k - 1) * BlockSize + o < n /\ (k - 1) * BlockSize + o \in Nat
  BY <1>1, <1>3, ClearedExact
<1>5. ~((k - 1) * BlockSize < n)
  BY <1>2, <1>3, BlocksForMeaning
<1>6. o \in Nat /\ (k - 1) * BlockSize \in Nat
  BY <1>3, PoolAssumption DEF Offset
<1>. QED BY <1>2, <1>4, <1>5, <1>6

\* The free list receives all the blocks that were cut off.
LEMMA DiscardFrees ==
  ASSUME IInv, NEW s \in Live, NEW n \in 0..lengths[s], Discard(s, n)
  PROVE  /\ blocks' = Cleared(s, n)
         /\ free' = free \cup {tables[s][k] : k \in Released(s, n)}
BY NothingDirty DEF Discard

LEMMA ReleasedProperties ==
  ASSUME IInv, NEW s \in Live, NEW n \in 0..lengths[s]
  PROVE  /\ n \in Nat /\ lengths[s] \in Nat
         /\ tables[s] \in Seq(Block) /\ Distinct(tables[s])
         /\ DOMAIN tables[s] = 1..Len(tables[s])
         /\ Len(tables[s]) = BlocksFor(lengths[s])
         /\ BlocksFor(n) \in Nat /\ BlocksFor(n) <= Len(tables[s])
         /\ DOMAIN tables[s] = (1..BlocksFor(n)) \cup Released(s, n)
         /\ Released(s, n) \cap (1..BlocksFor(n)) = {}
         /\ Cardinality(Released(s, n)) = BlocksFor(lengths[s]) - BlocksFor(n)
<1>1. /\ n \in Nat /\ lengths[s] \in Nat /\ n <= lengths[s]
      /\ tables[s] \in Seq(Block) /\ Distinct(tables[s])
      /\ DOMAIN tables[s] = 1..Len(tables[s]) /\ Len(tables[s]) \in Nat
      /\ Len(tables[s]) = BlocksFor(lengths[s])
  BY LenProperties
     DEF IInv, TypeOK, ValidateInvariants, Exact, Exclusive, Distinct
<1>2. BlocksFor(n) \in Nat
  BY <1>1, BlocksForType
<1>3. BlocksFor(n) <= Len(tables[s])
  BY <1>1, BlocksForMonotone
<1>4. Cardinality(Released(s, n)) = Len(tables[s]) - BlocksFor(n)
  BY <1>1, <1>2, <1>3, FS_Interval DEF Released
<1>. QED BY <1>1, <1>2, <1>3, <1>4 DEF Released
-----------------------------------------------------------------------------
(* Each kind of step preserves the invariant.                              *)

CheckpointType == [seq : Seqs, count : Nat, snapshot : Seq(Tokens),
                   intact : BOOLEAN]

LEMMA GrowPreserves ==
  ASSUME IInv, NEW s \in Live, NEW e \in Seq(Tokens), NEW table,
         Grows(s, e, table), UNCHANGED checkpoints
  PROVE  IInv'
<1>. DEFINE start == lengths[s]
            final == start + Len(e)
            old == tables[s]
<1>1. /\ start \in Nat /\ Len(e) \in Nat /\ final \in Nat
      /\ DOMAIN e = 1..Len(e)
      /\ old \in Seq(Block) /\ DOMAIN old = 1..Len(old) /\ Len(old) \in Nat
      /\ Len(old) = BlocksFor(start)
  BY LenProperties DEF IInv, TypeOK, ValidateInvariants, Exact
<1>2. /\ table \in Seq(Block) /\ Distinct(table)
      /\ Len(table) = BlocksFor(final)
      /\ DOMAIN table = 1..BlocksFor(final)
      /\ \A j \in DOMAIN old : j \in DOMAIN table /\ table[j] = old[j]
      /\ \A j \in DOMAIN table \ DOMAIN old : table[j] \in free
  BY LenProperties DEF Grows
<1>3. /\ Live' = Live
      /\ \A t \in Live : /\ lengths'[t] = IF t = s THEN final ELSE lengths[t]
                         /\ tables'[t] = IF t = s THEN table ELSE tables[t]
      /\ lengths' \in [Live -> Nat] /\ tables' \in [Live -> Seq(Block)]
  BY <1>1, <1>2 DEF Grows, Live, IInv, TypeOK
<1>4. \A t \in Live \ {s} : \A j \in DOMAIN tables[t] :
        tables[t][j] \in Block /\ \A k \in DOMAIN table : tables[t][j] # table[k]
  <2>1. SUFFICES ASSUME NEW t \in Live \ {s}, NEW j \in DOMAIN tables[t]
                 PROVE  /\ tables[t][j] \in Block /\ tables[t][j] \notin free
                        /\ \A k \in DOMAIN old : tables[t][j] # old[k]
    BY <1>2
  <2>2. tables[t] \in Seq(Block)
    BY DEF IInv, TypeOK
  <2>3. tables[t][j] \in Block
    BY <2>2, ElementOfSeq, LenProperties
  <2>. QED BY <2>3 DEF IInv, ValidateInvariants, Partitioned, Exclusive
<1>5. TypeOK'
  <2>1. free' \subseteq Block
    BY DEF Grows, IInv, TypeOK
  <2>2. blocks' \in [Block \X Offset -> Tokens \cup {Null}]
    BY DEF Grows
  <2>3. reply'.value \in Nat
    BY <1>1 DEF Grows, Reply
  <2>. QED BY <1>3, <2>1, <2>2, <2>3 DEF IInv, TypeOK
<1>6. Exclusive'
  <2>1. SUFFICES ASSUME NEW t \in Live, NEW u \in Live,
                        NEW j \in DOMAIN tables'[t], NEW k \in DOMAIN tables'[u],
                        tables'[t][j] = tables'[u][k]
                 PROVE  t = u /\ j = k
    BY <1>3 DEF Exclusive
  <2>2. CASE t = s /\ u = s
    BY <1>2, <1>3, <2>1, <2>2 DEF Distinct
  <2>3. CASE t = s /\ u # s
    <3>1. tables'[t] = table /\ tables'[u] = tables[u]
      BY <1>3, <2>3
    <3>. QED BY <1>4, <2>1, <2>3, <3>1
  <2>4. CASE t # s /\ u = s
    <3>1. tables'[u] = table /\ tables'[t] = tables[t]
      BY <1>3, <2>4
    <3>. QED BY <1>4, <2>1, <2>4, <3>1
  <2>5. CASE t # s /\ u # s
    <3>1. tables'[t] = tables[t] /\ tables'[u] = tables[u]
      BY <1>3, <2>5
    <3>. QED BY <2>1, <3>1 DEF IInv, ValidateInvariants, Exclusive
  <2>. QED BY <2>2, <2>3, <2>4, <2>5
<1>7. Partitioned'
  <2>1. SUFFICES ASSUME NEW b \in Block
                 PROVE  b \in free' <=> \A t \in Live : \A j \in DOMAIN tables'[t] :
                                                        tables'[t][j] # b
    BY <1>3 DEF Partitioned
  <2>2. b \in free' <=> b \in free /\ \A j \in DOMAIN table : table[j] # b
    BY DEF Grows
  <2>3. b \in free <=> \A t \in Live : \A j \in DOMAIN tables[t] : tables[t][j] # b
    BY DEF IInv, ValidateInvariants, Partitioned
  <2>4. (\A t \in Live : \A j \in DOMAIN tables'[t] : tables'[t][j] # b)
          <=> /\ \A t \in Live \ {s} : \A j \in DOMAIN tables[t] : tables[t][j] # b
              /\ \A j \in DOMAIN table : table[j] # b
    BY <1>3
  <2>. QED BY <1>2, <2>2, <2>3, <2>4
<1>8. Exact'
  <2>1. SUFFICES ASSUME NEW t \in Live
                 PROVE  /\ Len(tables'[t]) = BlocksFor(lengths'[t])
                        /\ \A j \in DOMAIN tables'[t], o \in Offset :
                             blocks'[<<tables'[t][j], o>>] # Null
                               <=> (j - 1) * BlockSize + o < lengths'[t]
    BY <1>3 DEF Exact
  <2>2. ASSUME NEW b \in Block, NEW o \in Offset, \A k \in DOMAIN table : table[k] # b
        PROVE  blocks'[<<b, o>>] = blocks[<<b, o>>]
    <3>1. \A i \in start..final - 1 : Slot(table, i) # <<b, o>>
      <4>1. SUFFICES ASSUME NEW i \in start..final - 1 PROVE Slot(table, i) # <<b, o>>
        OBVIOUS
      <4>2. i \in 0..final - 1
        BY <1>1
      <4>3. (i \div BlockSize) + 1 \in DOMAIN table
        BY <1>1, <1>2, <4>2, DivInBlocks
      <4>. QED BY <4>3, <2>2 DEF Slot
    <3>. QED BY <3>1 DEF Grows
  <2>3. CASE t # s
    <3>1. tables'[t] = tables[t] /\ lengths'[t] = lengths[t]
      BY <1>3, <2>3
    <3>2. \A j \in DOMAIN tables[t], o \in Offset :
            blocks'[<<tables[t][j], o>>] = blocks[<<tables[t][j], o>>]
      BY <1>4, <2>2, <2>3
    <3>. QED BY <3>1, <3>2 DEF IInv, ValidateInvariants, Exact
  <2>4. CASE t = s
    <3>1. tables'[t] = table /\ lengths'[t] = final
      BY <1>3, <2>4
    <3>2. ASSUME NEW j \in DOMAIN table, NEW o \in Offset
          PROVE  blocks'[<<table[j], o>>] # Null <=> (j - 1) * BlockSize + o < final
      <4>. DEFINE i == (j - 1) * BlockSize + o
                  slot == <<table[j], o>>
      <4>1. j \in Nat \ {0} /\ table[j] \in Block
        <5>1. j \in 1..Len(table)
          BY <1>2
        <5>2. Len(table) \in Nat
          BY <1>2, LenProperties
        <5>. HIDE DEF final
        <5>. QED BY <5>1, <5>2, <1>2, ElementOfSeq
      <4>2. i \in Nat /\ Slot(table, i) = slot
        BY <4>1, SlotOf
      <4>3. (i \div BlockSize) + 1 = j
        <5>1. j - 1 \in Nat /\ o \in 0..BlockSize - 1
          BY <4>1 DEF Offset
        <5>2. i \div BlockSize = j - 1
          BY <5>1, PoolAssumption, DivOf
        <5>. HIDE DEF i
        <5>. QED BY <5>2, <4>1
      <4>4. slot \in Block \X Offset
        BY <4>1
      <4>. HIDE DEF i, slot
      <4>5. \A k \in start..final - 1 : Slot(table, k) = slot => k = i
        <5>1. SUFFICES ASSUME NEW k \in start..final - 1, Slot(table, k) = slot PROVE k = i
          OBVIOUS
        <5>2. k \in Nat /\ k \in 0..final - 1
          BY <1>1
        <5>3. (k \div BlockSize) + 1 \in DOMAIN table
          BY <1>1, <1>2, <5>2, DivInBlocks
        <5>. QED BY <1>2, <4>2, <4>3, <5>1, <5>2, <5>3, SlotInjective
      <4>6. CASE i \in start..final - 1
        <5>1. blocks'[slot] = e[i - start + 1]
          BY <4>2, <4>6 DEF Grows
        <5>2. i - start + 1 \in 1..Len(e)
          BY <1>1, <4>2, <4>6
        <5>3. blocks'[slot] \in Tokens
          BY <5>1, <5>2, ElementOfSeq
        <5>. QED BY <5>3, <1>1, <4>2, <4>6, TokenAssumption DEF i, slot
      <4>7. CASE i \notin start..final - 1
        <5>1. blocks'[slot] = blocks[slot]
          BY <4>4, <4>5, <4>7 DEF Grows
        <5>2. CASE j \in DOMAIN old
          <6>1. table[j] = old[j]
            BY <1>2, <5>2
          <6>2. blocks[<<old[j], o>>] # Null <=> (j - 1) * BlockSize + o < start
            BY <5>2 DEF IInv, ValidateInvariants, Exact
          <6>. QED BY <5>1, <6>1, <6>2, <1>1, <4>2, <4>7 DEF i, slot
        <5>3. CASE j \notin DOMAIN old
          <6>1. blocks[slot] = Null
            BY <5>3, <1>2 DEF slot, IInv, ValidateInvariants, FreeEmpty
          <6>2. ~(i < start)
            <7>1. j - 1 \in Nat /\ ~(j - 1 < BlocksFor(start))
              BY <5>3, <1>1, <4>1
            <7>2. ~((j - 1) * BlockSize < start)
              BY <7>1, <1>1, BlocksForMeaning
            <7>3. (j - 1) * BlockSize \in Nat /\ o \in Nat
              BY <7>1, PoolAssumption DEF Offset
            <7>. QED BY <7>2, <7>3, <1>1 DEF i
          <6>. QED BY <5>1, <6>1, <6>2, <1>1, <4>2, <4>7 DEF i, slot
        <5>. QED BY <5>2, <5>3
      <4>. QED BY <4>6, <4>7
    <3>. QED BY <3>1, <3>2, <1>2
  <2>. QED BY <2>3, <2>4
<1>9. FreeEmpty'
  <2>1. SUFFICES ASSUME NEW b \in free', NEW o \in Offset PROVE blocks'[<<b, o>>] = Null
    BY DEF FreeEmpty
  <2>2. b \in Block /\ b \in free /\ \A j \in DOMAIN table : table[j] # b
    BY DEF Grows, IInv, TypeOK
  <2>3. \A i \in start..final - 1 : Slot(table, i) # <<b, o>>
    <3>1. SUFFICES ASSUME NEW i \in start..final - 1 PROVE Slot(table, i) # <<b, o>>
      OBVIOUS
    <3>2. i \in 0..final - 1
      BY <1>1
    <3>3. (i \div BlockSize) + 1 \in DOMAIN table
      BY <1>1, <1>2, <3>2, DivInBlocks
    <3>. QED BY <3>3, <2>2 DEF Slot
  <2>4. blocks'[<<b, o>>] = blocks[<<b, o>>]
    BY <2>2, <2>3 DEF Grows
  <2>. QED BY <2>2, <2>4 DEF IInv, ValidateInvariants, FreeEmpty
<1>. QED BY <1>5, <1>6, <1>7, <1>8, <1>9 DEF IInv, ValidateInvariants

\* Clearing a suffix of s leaves every block that s does not own alone.
LEMMA ClearedElsewhere ==
  ASSUME IInv, NEW s \in Live, NEW n \in Nat, NEW b \in Block, NEW o \in Offset,
         \A j \in DOMAIN tables[s] : tables[s][j] # b
  PROVE  Cleared(s, n)[<<b, o>>] = blocks[<<b, o>>]
<1>1. \A i \in n..lengths[s] - 1 : Slot(tables[s], i) # <<b, o>>
  <2>1. SUFFICES ASSUME NEW i \in n..lengths[s] - 1 PROVE Slot(tables[s], i) # <<b, o>>
    OBVIOUS
  <2>2. i \in 0..lengths[s] - 1
    BY DEF IInv, TypeOK
  <2>3. (i \div BlockSize) + 1 \in DOMAIN tables[s]
    BY <2>2, Mapped
  <2>. QED BY <2>3 DEF Slot
<1>. QED BY <1>1, ClearedSlots

\* After a cut of s to n, and after its removal (n = 0), the free list is again
\* exactly the blocks in no table, all of them empty.
LEMMA DiscardPreserves ==
  ASSUME IInv, NEW s \in Live, NEW n \in 0..lengths[s], Discard(s, n)
  PROVE  /\ free' \subseteq Block
         /\ blocks' \in [Block \X Offset -> Tokens \cup {Null}]
         /\ \A b \in Block : b \in free' <=>
              /\ \A t \in Live \ {s} : \A j \in DOMAIN tables[t] : tables[t][j] # b
              /\ \A j \in 1..BlocksFor(n) : tables[s][j] # b
         /\ FreeEmpty'
         /\ \A t \in Live \ {s} : \A j \in DOMAIN tables[t] : \A o \in Offset :
              blocks'[<<tables[t][j], o>>] = blocks[<<tables[t][j], o>>]
<1>1. /\ blocks' = Cleared(s, n)
      /\ free' = free \cup {tables[s][k] : k \in Released(s, n)}
  BY DiscardFrees
<1>2. /\ n \in Nat /\ tables[s] \in Seq(Block) /\ Distinct(tables[s])
      /\ DOMAIN tables[s] = 1..Len(tables[s])
      /\ DOMAIN tables[s] = (1..BlocksFor(n)) \cup Released(s, n)
      /\ Released(s, n) \cap (1..BlocksFor(n)) = {}
  BY ReleasedProperties
<1>3. \A k \in DOMAIN tables[s] : tables[s][k] \in Block
  BY <1>2, ElementOfSeq
<1>4. free' \subseteq Block
  BY <1>1, <1>2, <1>3 DEF IInv, TypeOK
<1>5. blocks' \in [Block \X Offset -> Tokens \cup {Null}]
  BY <1>1, <1>2, ClearedSlots
<1>6. ASSUME NEW b \in Block
      PROVE  b \in free' <=>
              /\ \A t \in Live \ {s} : \A j \in DOMAIN tables[t] : tables[t][j] # b
              /\ \A j \in 1..BlocksFor(n) : tables[s][j] # b
  <2>1. b \in free <=> \A t \in Live : \A j \in DOMAIN tables[t] : tables[t][j] # b
    BY DEF IInv, ValidateInvariants, Partitioned
  <2>2. CASE \E k \in Released(s, n) : tables[s][k] = b
    <3>1. PICK k \in Released(s, n) : tables[s][k] = b
      BY <2>2
    <3>2. b \in free'
      BY <1>1, <3>1
    <3>3. \A t \in Live \ {s} : \A j \in DOMAIN tables[t] : tables[t][j] # b
      BY <1>2, <3>1 DEF IInv, ValidateInvariants, Exclusive
    <3>4. \A j \in 1..BlocksFor(n) : tables[s][j] # b
      BY <1>2, <3>1 DEF Distinct
    <3>. QED BY <3>2, <3>3, <3>4
  <2>3. CASE \A k \in Released(s, n) : tables[s][k] # b
    <3>1. b \in free' <=> b \in free
      BY <1>1, <2>3
    <3>. QED BY <1>2, <2>1, <2>3, <3>1
  <2>. QED BY <2>2, <2>3
<1>7. FreeEmpty'
  <2>1. SUFFICES ASSUME NEW b \in free', NEW o \in Offset PROVE blocks'[<<b, o>>] = Null
    BY DEF FreeEmpty
  <2>2. CASE \E k \in Released(s, n) : tables[s][k] = b
    BY <1>1, <2>2, NothingDirty DEF Dirty
  <2>3. CASE \A k \in Released(s, n) : tables[s][k] # b
    <3>1. b \in free /\ b \in Block
      BY <1>1, <1>4, <2>3
    <3>2. \A j \in DOMAIN tables[s] : tables[s][j] # b
      BY <3>1 DEF IInv, ValidateInvariants, Partitioned
    <3>. QED BY <1>1, <1>2, <3>1, <3>2, ClearedElsewhere
             DEF IInv, ValidateInvariants, FreeEmpty
  <2>. QED BY <2>2, <2>3
<1>8. ASSUME NEW t \in Live \ {s}, NEW j \in DOMAIN tables[t], NEW o \in Offset
      PROVE  blocks'[<<tables[t][j], o>>] = blocks[<<tables[t][j], o>>]
  <2>1. tables[t] \in Seq(Block)
    BY DEF IInv, TypeOK
  <2>2. tables[t][j] \in Block
    BY <2>1, ElementOfSeq, LenProperties
  <2>3. \A k \in DOMAIN tables[s] : tables[s][k] # tables[t][j]
    BY DEF IInv, ValidateInvariants, Exclusive
  <2>4. Cleared(s, n)[<<tables[t][j], o>>] = blocks[<<tables[t][j], o>>]
    BY <1>2, <2>2, <2>3, ClearedElsewhere
  <2>. QED BY <1>1, <2>4
<1>. QED BY <1>4, <1>5, <1>6, <1>7, <1>8

LEMMA CutPreserves ==
  ASSUME IInv, NEW s \in Live, NEW n \in 0..lengths[s], Cut(s, n),
         checkpoints' \subseteq CheckpointType
  PROVE  IInv'
<1>. DEFINE table == SubSeq(tables[s], 1, BlocksFor(n))
<1>1. /\ n \in Nat /\ tables[s] \in Seq(Block) /\ Distinct(tables[s])
      /\ DOMAIN tables[s] = 1..Len(tables[s]) /\ Len(tables[s]) \in Nat
      /\ BlocksFor(n) \in Nat /\ BlocksFor(n) <= Len(tables[s])
      /\ Cardinality(Released(s, n)) \in Nat
  <2>1. /\ n \in Nat /\ tables[s] \in Seq(Block) /\ Distinct(tables[s])
        /\ DOMAIN tables[s] = 1..Len(tables[s])
        /\ BlocksFor(n) \in Nat /\ BlocksFor(n) <= Len(tables[s])
        /\ Cardinality(Released(s, n)) = Len(tables[s]) - BlocksFor(n)
    BY ReleasedProperties
  <2>2. Len(tables[s]) \in Nat
    BY <2>1, LenProperties
  <2>. QED BY <2>1, <2>2
<1>2. /\ Discard(s, n)
      /\ tables' = [tables EXCEPT ![s] = table]
      /\ lengths' = [lengths EXCEPT ![s] = n]
      /\ reply' = Reply("ok", Cardinality(Released(s, n)))
  BY NothingDirty DEF Cut
<1>3. /\ table \in Seq(Block) /\ Len(table) = BlocksFor(n)
      /\ DOMAIN table = 1..BlocksFor(n)
      /\ \A j \in 1..BlocksFor(n) : j \in DOMAIN tables[s] /\ table[j] = tables[s][j]
  <2>1. \A i \in 1..BlocksFor(n) : tables[s][i] \in Block
    BY <1>1, ElementOfSeq
  <2>2. /\ table \in Seq(Block)
        /\ Len(table) = IF 1 <= BlocksFor(n) THEN BlocksFor(n) - 1 + 1 ELSE 0
        /\ \A i \in 1..BlocksFor(n) - 1 + 1 : table[i] = tables[s][1 + i - 1]
    BY <1>1, <2>1, SubSeqProperties
  <2>. HIDE DEF table
  <2>. QED BY <1>1, <2>2, LenProperties
<1>. HIDE DEF table
<1>4. /\ Live' = Live
      /\ \A t \in Live : /\ lengths'[t] = IF t = s THEN n ELSE lengths[t]
                         /\ tables'[t] = IF t = s THEN table ELSE tables[t]
      /\ lengths' \in [Live -> Nat] /\ tables' \in [Live -> Seq(Block)]
  BY <1>1, <1>2, <1>3 DEF Live, IInv, TypeOK
<1>5. TypeOK'
  <2>1. reply'.value \in Nat
    BY <1>1, <1>2 DEF Reply
  <2>. QED BY <1>2, <1>4, <2>1, DiscardPreserves DEF IInv, TypeOK, CheckpointType
<1>6. Exclusive'
  <2>1. SUFFICES ASSUME NEW t \in Live, NEW u \in Live,
                        NEW j \in DOMAIN tables'[t], NEW k \in DOMAIN tables'[u],
                        tables'[t][j] = tables'[u][k]
                 PROVE  t = u /\ j = k
    BY <1>4 DEF Exclusive
  <2>2. /\ j \in DOMAIN tables[t] /\ tables[t][j] = tables'[t][j]
        /\ k \in DOMAIN tables[u] /\ tables[u][k] = tables'[u][k]
    BY <1>3, <1>4
  <2>. QED BY <2>1, <2>2 DEF IInv, ValidateInvariants, Exclusive
<1>7. Partitioned'
  <2>1. SUFFICES ASSUME NEW b \in Block
                 PROVE  b \in free' <=> \A t \in Live : \A j \in DOMAIN tables'[t] :
                                                        tables'[t][j] # b
    BY <1>4 DEF Partitioned
  <2>2. b \in free' <=>
          /\ \A t \in Live \ {s} : \A j \in DOMAIN tables[t] : tables[t][j] # b
          /\ \A j \in 1..BlocksFor(n) : tables[s][j] # b
    BY <1>2, DiscardPreserves
  <2>. QED BY <1>3, <1>4, <2>2
<1>8. Exact'
  <2>1. SUFFICES ASSUME NEW t \in Live
                 PROVE  /\ Len(tables'[t]) = BlocksFor(lengths'[t])
                        /\ \A j \in DOMAIN tables'[t], o \in Offset :
                             blocks'[<<tables'[t][j], o>>] # Null
                               <=> (j - 1) * BlockSize + o < lengths'[t]
    BY <1>4 DEF Exact
  <2>2. CASE t # s
    <3>1. tables'[t] = tables[t] /\ lengths'[t] = lengths[t]
      BY <1>4, <2>2
    <3>2. \A j \in DOMAIN tables[t], o \in Offset :
            blocks'[<<tables[t][j], o>>] = blocks[<<tables[t][j], o>>]
      BY <1>2, <2>2, DiscardPreserves
    <3>. QED BY <3>1, <3>2 DEF IInv, ValidateInvariants, Exact
  <2>3. CASE t = s
    <3>1. tables'[t] = table /\ lengths'[t] = n
      BY <1>4, <2>3
    <3>2. \A j \in DOMAIN table, o \in Offset :
            blocks'[<<table[j], o>>] # Null <=> (j - 1) * BlockSize + o < n
      BY <1>2, <1>3, DiscardFrees, ClearedExact
    <3>. QED BY <3>1, <3>2, <1>3
  <2>. QED BY <2>2, <2>3
<1>. QED BY <1>2, <1>5, <1>6, <1>7, <1>8, DiscardPreserves DEF IInv, ValidateInvariants

LEMMA CreatePreserves ==
  ASSUME IInv, NEW s \in Seqs \ Live,
         tables' = Put(tables, s, <<>>), lengths' = Put(lengths, s, 0),
         reply' = Reply("ok", 0), UNCHANGED <<blocks, free, checkpoints>>
  PROVE  IInv'
<1>1. /\ Live' = Live \cup {s}
      /\ lengths'[s] = 0 /\ tables'[s] = <<>>
      /\ \A t \in Live : lengths'[t] = lengths[t] /\ tables'[t] = tables[t]
      /\ lengths' \in [Live' -> Nat]
  BY DEF Put, Live, IInv, TypeOK
<1>2. tables' \in [Live' -> Seq(Block)]
  <2>1. <<>> \in Seq(Block)
    BY EmptySeq
  <2>2. DOMAIN tables = Live
    BY DEF IInv, TypeOK
  <2>. QED BY <1>1, <2>1, <2>2 DEF Put, IInv, TypeOK
<1>3. TypeOK'
  BY <1>1, <1>2 DEF IInv, TypeOK, Reply
<1>4. DOMAIN tables'[s] = {} /\ Len(tables'[s]) = 0
  BY <1>1
<1>5. Exclusive'
  BY <1>1, <1>4 DEF IInv, ValidateInvariants, Exclusive
<1>6. Partitioned'
  BY <1>1, <1>4 DEF IInv, ValidateInvariants, Partitioned
<1>7. BlocksFor(0) = 0
  <2>1. BlocksFor(0) \in Nat /\ ~(0 < BlocksFor(0))
    BY BlocksForType, BlocksForMeaning, PoolAssumption
  <2>. QED BY <2>1
<1>8. Exact'
  BY <1>1, <1>4, <1>7 DEF IInv, ValidateInvariants, Exact
<1>9. FreeEmpty'
  BY DEF IInv, ValidateInvariants, FreeEmpty
<1>. QED BY <1>3, <1>5, <1>6, <1>8, <1>9 DEF IInv, ValidateInvariants

LEMMA RemovePreserves ==
  ASSUME IInv, NEW s \in Live, Discard(s, 0),
         tables' = Without(tables, s), lengths' = Without(lengths, s),
         reply' = Reply("ok", Cardinality(Released(s, 0))),
         checkpoints' \subseteq CheckpointType
  PROVE  IInv'
<1>1. 0 \in 0..lengths[s] /\ lengths[s] \in Nat
  BY DEF IInv, TypeOK
<1>2. /\ Live' = Live \ {s}
      /\ \A t \in Live' : lengths'[t] = lengths[t] /\ tables'[t] = tables[t]
      /\ lengths' \in [Live' -> Nat] /\ tables' \in [Live' -> Seq(Block)]
  BY DEF Without, Live, IInv, TypeOK
<1>3. BlocksFor(0) = 0
  <2>1. BlocksFor(0) \in Nat /\ ~(0 < BlocksFor(0))
    BY BlocksForType, BlocksForMeaning, PoolAssumption
  <2>. QED BY <2>1
<1>4. Cardinality(Released(s, 0)) \in Nat
  <2>1. /\ tables[s] \in Seq(Block)
        /\ Len(tables[s]) = BlocksFor(lengths[s])
        /\ Cardinality(Released(s, 0)) = BlocksFor(lengths[s]) - BlocksFor(0)
    BY <1>1, ReleasedProperties
  <2>. QED BY <1>3, <2>1, LenProperties
<1>5. TypeOK'
  <2>1. reply'.value \in Nat
    BY <1>4 DEF Reply
  <2>2. free' \subseteq Block /\ blocks' \in [Block \X Offset -> Tokens \cup {Null}]
    BY <1>1, DiscardPreserves
  <2>. QED BY <1>2, <2>1, <2>2 DEF IInv, TypeOK, CheckpointType
<1>6. Exclusive'
  <2>1. SUFFICES ASSUME NEW t \in Live', NEW u \in Live',
                        NEW j \in DOMAIN tables'[t], NEW k \in DOMAIN tables'[u],
                        tables'[t][j] = tables'[u][k]
                 PROVE  t = u /\ j = k
    BY DEF Exclusive
  <2>2. t \in Live /\ u \in Live /\ tables'[t] = tables[t] /\ tables'[u] = tables[u]
    BY <1>2
  <2>. QED BY <2>1, <2>2 DEF IInv, ValidateInvariants, Exclusive
<1>7. Partitioned'
  <2>1. SUFFICES ASSUME NEW b \in Block
                 PROVE  b \in free' <=> \A t \in Live' : \A j \in DOMAIN tables'[t] :
                                                         tables'[t][j] # b
    BY DEF Partitioned
  <2>2. b \in free' <=>
          /\ \A t \in Live \ {s} : \A j \in DOMAIN tables[t] : tables[t][j] # b
          /\ \A j \in 1..BlocksFor(0) : tables[s][j] # b
    BY <1>1, DiscardPreserves
  <2>. QED BY <1>2, <1>3, <2>2
<1>8. Exact'
  <2>1. \A t \in Live' : \A j \in DOMAIN tables[t] : \A o \in Offset :
          blocks'[<<tables[t][j], o>>] = blocks[<<tables[t][j], o>>]
    BY <1>1, <1>2, DiscardPreserves
  <2>2. SUFFICES ASSUME NEW t \in Live'
                 PROVE  /\ Len(tables'[t]) = BlocksFor(lengths'[t])
                        /\ \A j \in DOMAIN tables'[t], o \in Offset :
                             blocks'[<<tables'[t][j], o>>] # Null
                               <=> (j - 1) * BlockSize + o < lengths'[t]
    BY DEF Exact
  <2>3. tables'[t] = tables[t] /\ lengths'[t] = lengths[t] /\ t \in Live
    BY <1>2
  <2>. QED BY <2>1, <2>3 DEF IInv, ValidateInvariants, Exact
<1>. QED BY <1>1, <1>5, <1>6, <1>7, <1>8, DiscardPreserves DEF IInv, ValidateInvariants

\* A step that leaves the pool and the tables alone preserves the audit.
LEMMA ReplyPreserves ==
  ASSUME IInv, UNCHANGED cache, checkpoints' \subseteq CheckpointType,
         reply'.value \in Nat
  PROVE  IInv'
<1>1. TypeOK'
  BY DEF IInv, TypeOK, cache, CheckpointType, Live
<1>2. ValidateInvariants'
  BY DEF IInv, ValidateInvariants, Exclusive, Partitioned, Exact, FreeEmpty, cache, Live
<1>. QED BY <1>1, <1>2 DEF IInv
-----------------------------------------------------------------------------
(* Every step is of one of five kinds.                                     *)

\* Nothing of the pool changes: a refused call, a call with nothing to do, or
\* a checkpoint.
Idle == /\ UNCHANGED cache
        /\ checkpoints' \subseteq CheckpointType
        /\ \A c \in checkpoints' \ checkpoints :
             c.seq \in Live /\ c.count = lengths[c.seq] /\ c.snapshot = Contents(c.seq)
        /\ reply'.value \in Nat /\ reply'.kind # "AssertionError"

Grow(s) == \E e \in Seq(Tokens) : \E table : Grows(s, e, table) /\ UNCHANGED checkpoints

Shrink(s, n) == Cut(s, n) /\ Disturb(s, n)

Appear(s) == /\ tables' = Put(tables, s, <<>>) /\ lengths' = Put(lengths, s, 0)
             /\ reply' = Reply("ok", 0) /\ UNCHANGED <<blocks, free, checkpoints>>

Vanish(s) == /\ Discard(s, 0)
             /\ tables' = Without(tables, s) /\ lengths' = Without(lengths, s)
             /\ reply' = Reply("ok", Cardinality(Released(s, 0)))
             /\ Disturb(s, 0)

LEMMA RaiseIsIdle ==
  ASSUME IInv, NEW kind, kind # "AssertionError", Raise(kind)
  PROVE  Idle
BY DEF Raise, Idle, IInv, TypeOK, cache, CheckpointType, Reply

LEMMA TruncateKinds ==
  ASSUME IInv, NEW s \in Seqs, NEW n \in Int, Truncate(s, n)
  PROVE  Idle \/ (s \in Live /\ n \in 0..lengths[s] - 1 /\ Shrink(s, n))
<1>1. CASE Raise("KeyError") \/ Raise("ValueError")
  BY <1>1, RaiseIsIdle
<1>2. CASE /\ reply' = Reply("ok", 0)
           /\ UNCHANGED <<cache, checkpoints>>
  BY <1>2 DEF Idle, IInv, TypeOK, CheckpointType, Reply
<1>3. CASE /\ s \in Live /\ n \in 0..lengths[s] - 1
           /\ Cut(s, n) /\ Disturb(s, n)
  BY <1>3 DEF Shrink
<1>. QED BY <1>1, <1>2, <1>3 DEF Truncate

LEMMA AppendKinds ==
  ASSUME IInv, NEW s \in Seqs, NEW e \in Entries, AppendMany(s, e)
  PROVE  Idle \/ (s \in Live /\ Grow(s))
<1>1. CASE Raise("KeyError") \/ Raise("KVCacheCapacityError") \/ Raise("QuantizeError")
  BY <1>1, RaiseIsIdle
<1>2. CASE s \in Live /\ reply' = Reply("ok", lengths[s]) /\ UNCHANGED <<cache, checkpoints>>
  BY <1>2 DEF Idle, IInv, TypeOK, CheckpointType, Reply
<1>3. CASE /\ s \in Live
           /\ \A i \in DOMAIN e : e[i] # Bad
           /\ \E popped \in LowestFree(BlocksFor(lengths[s] + Len(e)) - Len(tables[s])) :
                Write(s, e, popped)
           /\ UNCHANGED checkpoints
  <2>1. PICK popped \in LowestFree(BlocksFor(lengths[s] + Len(e)) - Len(tables[s])) :
               Write(s, e, popped)
    BY <1>3
  <2>2. Grows(s, e, tables[s] \o popped)
    BY <1>3, <2>1, WriteGrows
  <2>3. e \in Seq(Tokens)
    BY <1>3, GoodEntries
  <2>. QED BY <1>3, <2>2, <2>3 DEF Grow
<1>. QED BY <1>1, <1>2, <1>3 DEF AppendMany

LEMMA ContentsType ==
  ASSUME IInv, NEW s \in Live
  PROVE  Contents(s) \in Seq(Tokens) /\ Len(Contents(s)) = lengths[s]
<1>1. lengths[s] \in Nat
  BY DEF IInv, TypeOK
<1>2. \A i \in 1..lengths[s] : blocks[Slot(tables[s], i - 1)] \in Tokens
  <2>1. SUFFICES ASSUME NEW i \in 1..lengths[s]
                 PROVE  blocks[Slot(tables[s], i - 1)] \in Tokens
    OBVIOUS
  <2>2. i - 1 \in 0..lengths[s] - 1
    BY <1>1
  <2>. QED BY <2>2, Mapped
<1>3. Contents(s) \in [1..lengths[s] -> Tokens]
  BY <1>2 DEF Contents
<1>4. Contents(s) \in Seq(Tokens)
  BY <1>1, <1>3, SeqDef
<1>5. DOMAIN Contents(s) = 1..lengths[s] /\ DOMAIN Contents(s) = 1..Len(Contents(s))
      /\ Len(Contents(s)) \in Nat
  BY <1>3, <1>4, LenProperties
<1>. QED BY <1>1, <1>4, <1>5

LEMMA StepKinds ==
  ASSUME IInv, Next
  PROVE  \/ Idle
         \/ \E s \in Live : Grow(s) \/ Vanish(s) \/ \E n \in 0..lengths[s] - 1 : Shrink(s, n)
         \/ \E s \in Seqs \ Live : Appear(s)
<1>1. PICK s \in Seqs :
        \/ CreateSequence(s)
        \/ RemoveSequence(s)
        \/ \E e \in Entries : AppendMany(s, e)
        \/ \E n \in Counts : Truncate(s, n)
        \/ TakeCheckpoint(s)
        \/ \E c \in checkpoints : Rollback(s, c)
  BY DEF Next
<1>2. CASE CreateSequence(s)
  BY <1>2, RaiseIsIdle DEF CreateSequence, Appear
<1>3. CASE RemoveSequence(s)
  <2>1. CASE Raise("KeyError")
    BY <2>1, RaiseIsIdle
  <2>2. CASE s \in Live /\ ~Raise("KeyError")
    <3>1. Dirty(s, 0) = {}
      <4>1. 0 \in 0..lengths[s]
        BY <2>2 DEF IInv, TypeOK
      <4>. QED BY <2>2, <4>1, NothingDirty
    <3>. QED BY <1>3, <2>2, <3>1 DEF RemoveSequence, Vanish
  <2>. QED BY <1>3, <2>1, <2>2 DEF RemoveSequence
<1>4. CASE \E e \in Entries : AppendMany(s, e)
  BY <1>4, AppendKinds
<1>5. CASE \E n \in Counts : Truncate(s, n)
  <2>1. Counts \subseteq Int
    BY PoolAssumption DEF Counts, Capacity
  <2>. QED BY <1>5, <2>1, TruncateKinds
<1>6. CASE TakeCheckpoint(s)
  <2>1. CASE Raise("KeyError")
    BY <2>1, RaiseIsIdle
  <2>2. CASE s \in Live /\ ~Raise("KeyError")
    <3>. DEFINE c == [seq |-> s, count |-> lengths[s], snapshot |-> Contents(s), intact |-> TRUE]
    <3>1. /\ checkpoints' = checkpoints \cup {c}
          /\ reply' = Reply("ok", 0) /\ UNCHANGED cache
      BY <1>6, <2>2 DEF TakeCheckpoint
    <3>2. c \in CheckpointType
      BY <2>2, ContentsType DEF CheckpointType, IInv, TypeOK
    <3>3. checkpoints \subseteq CheckpointType
      BY DEF IInv, TypeOK, CheckpointType
    <3>4. c.seq \in Live /\ c.count = lengths[c.seq] /\ c.snapshot = Contents(c.seq)
      BY <2>2
    <3>5. reply'.value \in Nat /\ reply'.kind # "AssertionError"
      BY <3>1 DEF Reply
    <3>. HIDE DEF c
    <3>6. \A d \in checkpoints' \ checkpoints :
            d.seq \in Live /\ d.count = lengths[d.seq] /\ d.snapshot = Contents(d.seq)
      BY <3>1, <3>4
    <3>. QED BY <3>1, <3>2, <3>3, <3>5, <3>6 DEF Idle
  <2>. QED BY <1>6, <2>1, <2>2 DEF TakeCheckpoint
<1>7. CASE \E c \in checkpoints : Rollback(s, c)
  <2>1. PICK c \in checkpoints : Rollback(s, c)
    BY <1>7
  <2>2. c.count \in Int
    BY DEF IInv, TypeOK
  <2>. QED BY <2>1, <2>2, RaiseIsIdle, TruncateKinds DEF Rollback
<1>. QED BY <1>1, <1>2, <1>3, <1>4, <1>5, <1>6, <1>7

LEMMA DisturbType ==
  ASSUME IInv, NEW s, NEW n, Disturb(s, n)
  PROVE  checkpoints' \subseteq CheckpointType
BY DEF IInv, TypeOK, Disturb, CheckpointType

LEMMA InvariantStep ==
  ASSUME IInv, [Next]_vars
  PROVE  IInv'
<1>1. CASE UNCHANGED vars
  BY <1>1, ReplyPreserves DEF vars, cache, IInv, TypeOK, CheckpointType
<1>2. CASE Idle
  BY <1>2, ReplyPreserves DEF Idle
<1>3. ASSUME NEW s \in Live, Grow(s) PROVE IInv'
  BY <1>3, GrowPreserves DEF Grow
<1>4. ASSUME NEW s \in Live, Vanish(s) PROVE IInv'
  BY <1>4, RemovePreserves, DisturbType DEF Vanish
<1>5. ASSUME NEW s \in Live, NEW n \in 0..lengths[s] - 1, Shrink(s, n) PROVE IInv'
  <2>1. n \in 0..lengths[s]
    BY DEF IInv, TypeOK
  <2>. QED BY <1>5, <2>1, CutPreserves, DisturbType DEF Shrink
<1>6. ASSUME NEW s \in Seqs \ Live, Appear(s) PROVE IInv'
  BY <1>6, CreatePreserves DEF Appear
<1>. QED BY <1>1, <1>2, <1>3, <1>4, <1>5, <1>6, StepKinds

LEMMA InvariantInit == Init => IInv
<1>. SUFFICES ASSUME Init PROVE IInv
  OBVIOUS
<1>1. Live = {} /\ DOMAIN tables = {}
  BY DEF Init, Live
<1>2. TypeOK
  BY <1>1 DEF Init, TypeOK, Reply
<1>3. ValidateInvariants
  BY <1>1 DEF Init, ValidateInvariants, Exclusive, Partitioned, Exact, FreeEmpty
<1>. QED BY <1>2, <1>3 DEF IInv
-----------------------------------------------------------------------------
(* What each kind of step does to the contents of the sequences.           *)

\* The sequence t keeps its table and its entries.
Keeps(t) == /\ tables'[t] = tables[t] /\ lengths'[t] = lengths[t]
            /\ \A i \in 0..lengths[t] - 1 :
                 blocks'[Slot(tables[t], i)] = blocks[Slot(tables[t], i)]

LEMMA KeepsContents ==
  ASSUME IInv, NEW t \in Live, Keeps(t)
  PROVE  Contents(t)' = Contents(t)
<1>1. lengths[t] \in Nat
  BY DEF IInv, TypeOK
<1>2. \A i \in 1..lengths[t] : i - 1 \in 0..lengths[t] - 1
  BY <1>1
<1>. QED BY <1>2 DEF Keeps, Contents

LEMMA GrowContents ==
  ASSUME IInv, NEW s \in Live, NEW e \in Seq(Tokens), NEW table, Grows(s, e, table),
         UNCHANGED checkpoints
  PROVE  /\ Live' = Live
         /\ \A t \in Live \ {s} : Keeps(t)
         /\ \A i \in 0..lengths[s] - 1 :
              /\ Slot(tables'[s], i) = Slot(tables[s], i)
              /\ blocks'[Slot(tables[s], i)] = blocks[Slot(tables[s], i)]
         /\ lengths'[s] = lengths[s] + Len(e)
         /\ Contents(s)' = Contents(s) \o e
<1>. DEFINE start == lengths[s]
            final == start + Len(e)
            old == tables[s]
<1>1. /\ start \in Nat /\ Len(e) \in Nat /\ final \in Nat
      /\ DOMAIN e = 1..Len(e)
      /\ old \in Seq(Block) /\ DOMAIN old = 1..Len(old)
  BY LenProperties DEF IInv, TypeOK
<1>2. /\ table \in Seq(Block) /\ Distinct(table)
      /\ DOMAIN table = 1..BlocksFor(final)
      /\ \A j \in DOMAIN old : j \in DOMAIN table /\ table[j] = old[j]
      /\ \A j \in DOMAIN table \ DOMAIN old : table[j] \in free
  BY LenProperties DEF Grows
<1>3. /\ Live' = Live
      /\ \A t \in Live : /\ lengths'[t] = IF t = s THEN final ELSE lengths[t]
                         /\ tables'[t] = IF t = s THEN table ELSE tables[t]
  BY DEF Grows, Live, IInv, TypeOK
<1>4. \A k \in start..final - 1 : k \in Nat /\ (k \div BlockSize) + 1 \in DOMAIN table
  <2>1. SUFFICES ASSUME NEW k \in start..final - 1
                 PROVE  k \in Nat /\ (k \div BlockSize) + 1 \in DOMAIN table
    OBVIOUS
  <2>2. k \in Nat /\ k \in 0..final - 1
    BY <1>1
  <2>. QED BY <1>1, <1>2, <2>2, DivInBlocks
<1>5. ASSUME NEW t \in Live \ {s} PROVE Keeps(t)
  <2>1. SUFFICES ASSUME NEW i \in 0..lengths[t] - 1
                 PROVE  blocks'[Slot(tables[t], i)] = blocks[Slot(tables[t], i)]
    BY <1>3 DEF Keeps
  <2>2. /\ (i \div BlockSize) + 1 \in DOMAIN tables[t]
        /\ Slot(tables[t], i) \in Block \X Offset
    BY Mapped
  <2>3. \A k \in DOMAIN table : table[k] # tables[t][(i \div BlockSize) + 1]
    <3>. DEFINE b == tables[t][(i \div BlockSize) + 1]
    <3>1. b \notin free /\ \A k \in DOMAIN old : old[k] # b
      <4>1. b \in Block
        <5>1. tables[t] \in Seq(Block)
          BY DEF IInv, TypeOK
        <5>. QED BY <2>2, <5>1, ElementOfSeq, LenProperties
      <4>. QED BY <2>2, <4>1 DEF IInv, ValidateInvariants, Partitioned, Exclusive
    <3>. HIDE DEF b
    <3>2. \A k \in DOMAIN table : table[k] # b
      BY <1>2, <3>1
    <3>. QED BY <3>2 DEF b
  <2>4. \A k \in start..final - 1 : Slot(table, k) # Slot(tables[t], i)
    BY <1>4, <2>3 DEF Slot
  <2>. QED BY <2>2, <2>4 DEF Grows
<1>6. ASSUME NEW i \in 0..lengths[s] - 1
      PROVE  /\ Slot(tables'[s], i) = Slot(tables[s], i)
             /\ blocks'[Slot(tables[s], i)] = blocks[Slot(tables[s], i)]
  <2>1. /\ (i \div BlockSize) + 1 \in DOMAIN old
        /\ Slot(old, i) \in Block \X Offset
    BY Mapped
  <2>2. Slot(table, i) = Slot(old, i) /\ (i \div BlockSize) + 1 \in DOMAIN table
    BY <1>2, <2>1 DEF Slot
  <2>3. i \in Nat /\ i < start
    BY <1>1
  <2>4. \A k \in start..final - 1 : Slot(table, k) # Slot(table, i)
    <3>1. SUFFICES ASSUME NEW k \in start..final - 1, Slot(table, k) = Slot(table, i)
                   PROVE  FALSE
      OBVIOUS
    <3>2. k = i
      BY <1>2, <1>4, <2>2, <2>3, <3>1, SlotInjective
    <3>. QED BY <3>2, <2>3, <1>1
  <2>. QED BY <1>3, <2>1, <2>2, <2>4 DEF Grows
<1>7. Contents(s)' = Contents(s) \o e
  <2>1. Contents(s) \in Seq(Tokens) /\ Len(Contents(s)) = start
    BY ContentsType
  <2>2. /\ Contents(s) \o e \in Seq(Tokens)
        /\ Len(Contents(s) \o e) = final
        /\ \A i \in 1..final : (Contents(s) \o e)[i] =
             IF i <= start THEN Contents(s)[i] ELSE e[i - start]
    <3>. DEFINE c == Contents(s)
    <3>. HIDE DEF c, start
    <3>1. c \in Seq(Tokens) /\ Len(c) = start
      BY <2>1 DEF c
    <3>2. /\ c \o e \in Seq(Tokens)
          /\ Len(c \o e) = Len(c) + Len(e)
          /\ \A i \in 1..Len(c) + Len(e) :
               (c \o e)[i] = IF i <= Len(c) THEN c[i] ELSE e[i - Len(c)]
      BY <3>1, ConcatProperties
    <3>. QED BY <3>1, <3>2 DEF c
  <2>3. IInv'
    BY GrowPreserves
  <2>4. Contents(s)' \in Seq(Tokens) /\ Len(Contents(s)') = final
    <3>1. s \in Live' /\ lengths'[s] = final
      BY <1>3
    <3>2. Contents(s)' = [i \in 1..lengths'[s] |-> blocks'[Slot(tables'[s], i - 1)]]
      BY DEF Contents
    <3>3. \A i \in 1..final : blocks'[Slot(tables'[s], i - 1)] \in Tokens
      <4>1. SUFFICES ASSUME NEW i \in 1..final
                     PROVE  blocks'[Slot(table, i - 1)] \in Tokens
        BY <1>3
      <4>2. CASE i <= start
        <5>1. i - 1 \in 0..start - 1
          BY <1>1, <4>2
        <5>. QED BY <5>1, <1>3, <1>6, Mapped
      <4>3. CASE ~(i <= start)
        <5>1. i - 1 \in start..final - 1 /\ (i - 1) - start + 1 \in 1..Len(e)
          BY <1>1, <4>3
        <5>2. blocks'[Slot(table, i - 1)] = e[(i - 1) - start + 1]
          BY <5>1 DEF Grows
        <5>. QED BY <5>1, <5>2, ElementOfSeq
      <4>. QED BY <4>2, <4>3
    <3>4. Contents(s)' \in [1..final -> Tokens]
      BY <3>1, <3>2, <3>3
    <3>5. Contents(s)' \in Seq(Tokens)
      BY <1>1, <3>4, SeqDef
    <3>6. DOMAIN Contents(s)' = 1..final /\ DOMAIN Contents(s)' = 1..Len(Contents(s)')
          /\ Len(Contents(s)') \in Nat
      BY <3>4, <3>5, LenProperties
    <3>. HIDE DEF final
    <3>. QED BY <1>1, <3>5, <3>6
  <2>5. ASSUME NEW i \in 1..final
        PROVE  Contents(s)'[i] = (Contents(s) \o e)[i]
    <3>1. Contents(s)'[i] = blocks'[Slot(table, i - 1)]
      BY <1>3 DEF Contents
    <3>2. CASE i <= start
      <4>1. i - 1 \in 0..start - 1 /\ i \in 1..start
        BY <1>1, <3>2
      <4>2. blocks'[Slot(table, i - 1)] = blocks[Slot(old, i - 1)]
        BY <4>1, <1>3, <1>6
      <4>3. Contents(s)[i] = blocks[Slot(old, i - 1)]
        BY <4>1 DEF Contents
      <4>. QED BY <2>2, <3>1, <3>2, <4>2, <4>3
    <3>3. CASE ~(i <= start)
      <4>1. i - 1 \in start..final - 1 /\ (i - 1) - start + 1 = i - start
        BY <1>1, <3>3
      <4>2. blocks'[Slot(table, i - 1)] = e[(i - 1) - start + 1]
        BY <4>1 DEF Grows
      <4>. QED BY <2>2, <3>1, <3>3, <4>1, <4>2
    <3>. QED BY <3>2, <3>3
  <2>. HIDE DEF final, start
  <2>. QED BY <2>2, <2>4, <2>5, SeqEqual
<1>. QED BY <1>3, <1>5, <1>6, <1>7

\* Discarding tokens of s touches no slot of another sequence, and no slot of
\* s below the cut.
LEMMA DiscardKeeps ==
  ASSUME IInv, NEW s \in Live, NEW n \in 0..lengths[s], Discard(s, n)
  PROVE  /\ \A t \in Live \ {s} : \A i \in 0..lengths[t] - 1 :
              blocks'[Slot(tables[t], i)] = blocks[Slot(tables[t], i)]
         /\ \A i \in 0..n - 1 : /\ (i \div BlockSize) + 1 \in 1..BlocksFor(n)
                               /\ blocks'[Slot(tables[s], i)] = blocks[Slot(tables[s], i)]
<1>1. /\ n \in Nat /\ lengths[s] \in Nat /\ n <= lengths[s]
      /\ Distinct(tables[s])
      /\ blocks' = Cleared(s, n)
  BY DiscardFrees, ReleasedProperties
<1>2. ASSUME NEW t \in Live \ {s}, NEW i \in 0..lengths[t] - 1
      PROVE  blocks'[Slot(tables[t], i)] = blocks[Slot(tables[t], i)]
  <2>1. (i \div BlockSize) + 1 \in DOMAIN tables[t]
    BY Mapped
  <2>2. i % BlockSize \in Offset
    <3>1. i \in Nat
      BY DEF IInv, TypeOK
    <3>. QED BY <3>1, PoolAssumption, DivMod DEF Offset
  <2>. QED BY <2>1, <2>2, DiscardPreserves DEF Slot
<1>3. ASSUME NEW i \in 0..n - 1
      PROVE  /\ (i \div BlockSize) + 1 \in 1..BlocksFor(n)
             /\ blocks'[Slot(tables[s], i)] = blocks[Slot(tables[s], i)]
  <2>1. i \in Nat /\ i < n /\ i \in 0..lengths[s] - 1
    BY <1>1
  <2>2. /\ (i \div BlockSize) + 1 \in DOMAIN tables[s]
        /\ Slot(tables[s], i) \in Block \X Offset
    BY <2>1, Mapped
  <2>3. \A k \in n..lengths[s] - 1 : Slot(tables[s], k) # Slot(tables[s], i)
    <3>1. SUFFICES ASSUME NEW k \in n..lengths[s] - 1, Slot(tables[s], k) = Slot(tables[s], i)
                   PROVE  FALSE
      OBVIOUS
    <3>2. k \in Nat /\ k \in 0..lengths[s] - 1 /\ i < k
      BY <1>1, <2>1
    <3>3. (k \div BlockSize) + 1 \in DOMAIN tables[s]
      BY <3>2, Mapped
    <3>4. k = i
      BY <1>1, <2>1, <2>2, <3>1, <3>2, <3>3, SlotInjective
    <3>. QED BY <3>2, <3>4
  <2>4. blocks'[Slot(tables[s], i)] = blocks[Slot(tables[s], i)]
    BY <1>1, <2>2, <2>3, ClearedSlots
  <2>. QED BY <1>1, <2>4, DivInBlocks
<1>. QED BY <1>2, <1>3

LEMMA ShrinkContents ==
  ASSUME IInv, NEW s \in Live, NEW n \in 0..lengths[s], Cut(s, n)
  PROVE  /\ Live' = Live
         /\ \A t \in Live \ {s} : Keeps(t)
         /\ lengths'[s] = n
         /\ \A i \in 0..n - 1 :
              /\ Slot(tables'[s], i) = Slot(tables[s], i)
              /\ blocks'[Slot(tables[s], i)] = blocks[Slot(tables[s], i)]
         /\ Contents(s)' = SubSeq(Contents(s), 1, n)
<1>. DEFINE table == SubSeq(tables[s], 1, BlocksFor(n))
<1>1. /\ n \in Nat /\ lengths[s] \in Nat /\ n <= lengths[s]
      /\ tables[s] \in Seq(Block) /\ DOMAIN tables[s] = 1..Len(tables[s])
      /\ BlocksFor(n) \in Nat /\ BlocksFor(n) <= Len(tables[s])
  BY ReleasedProperties
<1>2. /\ Discard(s, n)
      /\ tables' = [tables EXCEPT ![s] = table]
      /\ lengths' = [lengths EXCEPT ![s] = n]
  BY NothingDirty DEF Cut
<1>3. /\ Live' = Live
      /\ \A t \in Live : /\ lengths'[t] = IF t = s THEN n ELSE lengths[t]
                         /\ tables'[t] = IF t = s THEN table ELSE tables[t]
  BY <1>2 DEF Live, IInv, TypeOK
<1>4. \A j \in 1..BlocksFor(n) : table[j] = tables[s][j]
  <2>1. Len(tables[s]) \in Nat
    BY <1>1, LenProperties
  <2>2. \A i \in 1..BlocksFor(n) : tables[s][i] \in Block
    BY <1>1, <2>1, ElementOfSeq
  <2>3. \A i \in 1..BlocksFor(n) - 1 + 1 : table[i] = tables[s][1 + i - 1]
    BY <1>1, <2>2, SubSeqProperties
  <2>. HIDE DEF table
  <2>. QED BY <1>1, <2>3
<1>5. \A t \in Live \ {s} : Keeps(t)
  BY <1>2, <1>3, DiscardKeeps DEF Keeps
<1>6. ASSUME NEW i \in 0..n - 1
      PROVE  /\ Slot(tables'[s], i) = Slot(tables[s], i)
             /\ blocks'[Slot(tables[s], i)] = blocks[Slot(tables[s], i)]
  <2>. HIDE DEF table
  <2>1. /\ (i \div BlockSize) + 1 \in 1..BlocksFor(n)
        /\ blocks'[Slot(tables[s], i)] = blocks[Slot(tables[s], i)]
    BY <1>2, DiscardKeeps
  <2>2. Slot(table, i) = Slot(tables[s], i)
    BY <1>4, <2>1 DEF Slot
  <2>. QED BY <1>3, <2>1, <2>2
<1>7. Contents(s)' = SubSeq(Contents(s), 1, n)
  <2>. DEFINE c == Contents(s)
  <2>1. c \in Seq(Tokens) /\ Len(c) = lengths[s]
    BY ContentsType
  <2>2. \A i \in 1..n : c[i] = blocks[Slot(tables[s], i - 1)] /\ c[i] \in Tokens
    <3>1. \A i \in 1..n : i \in 1..lengths[s]
      BY <1>1
    <3>2. \A i \in 1..n : c[i] = blocks[Slot(tables[s], i - 1)]
      BY <3>1 DEF Contents
    <3>. HIDE DEF c
    <3>. QED BY <2>1, <3>1, <3>2, ElementOfSeq
  <2>. HIDE DEF c, table
  <2>3. /\ SubSeq(c, 1, n) \in Seq(Tokens)
        /\ Len(SubSeq(c, 1, n)) = IF 1 <= n THEN n - 1 + 1 ELSE 0
        /\ \A i \in 1..n - 1 + 1 : SubSeq(c, 1, n)[i] = c[1 + i - 1]
    BY <1>1, <2>2, SubSeqProperties
  <2>4. Contents(s)' = [i \in 1..n |-> c[i]]
    <3>1. Contents(s)' = [i \in 1..n |-> blocks'[Slot(tables'[s], i - 1)]]
      BY <1>3 DEF Contents
    <3>2. \A i \in 1..n : blocks'[Slot(tables'[s], i - 1)] = c[i]
      <4>1. SUFFICES ASSUME NEW i \in 1..n PROVE blocks'[Slot(tables'[s], i - 1)] = c[i]
        OBVIOUS
      <4>2. i - 1 \in 0..n - 1
        BY <1>1
      <4>. QED BY <1>6, <2>2, <4>2
    <3>. QED BY <3>1, <3>2
  <2>5. SubSeq(c, 1, n) = [i \in 1..n |-> c[i]]
    <3>1. DOMAIN SubSeq(c, 1, n) = 1..n
      BY <1>1, <2>3, LenProperties
    <3>2. \A i \in 1..n : SubSeq(c, 1, n)[i] = c[i]
      BY <1>1, <2>3
    <3>3. SubSeq(c, 1, n) \in [1..n -> Tokens]
      BY <2>3, <3>1, LenProperties
    <3>. QED BY <3>2, <3>3
  <2>. QED BY <2>4, <2>5 DEF c
<1>. QED BY <1>3, <1>5, <1>6, <1>7

LEMMA VanishContents ==
  ASSUME IInv, NEW s \in Live, Vanish(s)
  PROVE  Live' = Live \ {s} /\ \A t \in Live' : Keeps(t)
<1>1. 0 \in 0..lengths[s]
  BY DEF IInv, TypeOK
<1>2. /\ Live' = Live \ {s}
      /\ \A t \in Live' : lengths'[t] = lengths[t] /\ tables'[t] = tables[t]
  BY DEF Vanish, Without, Live, IInv, TypeOK
<1>. QED BY <1>1, <1>2, DiscardKeeps DEF Vanish, Keeps

LEMMA AppearContents ==
  ASSUME IInv, NEW s \in Seqs \ Live, Appear(s)
  PROVE  /\ Live' = Live \cup {s} /\ \A t \in Live : Keeps(t)
         /\ lengths'[s] = 0 /\ Contents(s)' = <<>>
<1>1. /\ Live' = Live \cup {s} /\ lengths'[s] = 0
      /\ \A t \in Live : lengths'[t] = lengths[t] /\ tables'[t] = tables[t]
      /\ blocks' = blocks
  BY DEF Appear, Put, Live, IInv, TypeOK
<1>2. Contents(s)' = <<>>
  <2>1. Contents(s)' = [i \in 1..0 |-> blocks'[Slot(tables'[s], i - 1)]]
    BY <1>1 DEF Contents
  <2>2. Contents(s)' \in [1..0 -> {}]
    BY <2>1
  <2>3. Contents(s)' \in Seq({})
    BY <2>2, SeqDef
  <2>4. Len(Contents(s)') = 0
    BY <2>2, <2>3, LenProperties
  <2>. QED BY <2>3, <2>4, EmptySeq
<1>. QED BY <1>1, <1>2 DEF Keeps
-----------------------------------------------------------------------------
(* Theorems.                                                               *)

\* Every reachable state is well typed and passes the audit of
\* validate_invariants, whatever the pool, and whatever calls failed before.
THEOREM Invariance == Spec => []IInv
<1>1. Init => IInv
  BY InvariantInit
<1>2. IInv /\ [Next]_vars => IInv'
  BY InvariantStep
<1>. QED BY <1>1, <1>2, PTL DEF Spec

\* The types.
THEOREM TypeCorrect == Spec => []TypeOK
<1>1. IInv => TypeOK
  BY DEF IInv
<1>. QED BY <1>1, Invariance, PTL

\* No block is shared, leaked or left with the entries of a previous owner, and
\* tables and lengths agree.
THEOREM AuditHolds == Spec => []ValidateInvariants
<1>1. IInv => ValidateInvariants
  BY DEF IInv
<1>. QED BY <1>1, Invariance, PTL

\* The assertions inside append_many and truncate never fire.
THEOREM NeverAsserts == Spec => []NoAssertionError
<1>1. Init => NoAssertionError
  BY DEF Init, NoAssertionError, Reply
<1>2. IInv /\ NoAssertionError /\ [Next]_vars => NoAssertionError'
  <2>1. SUFFICES ASSUME IInv, NoAssertionError, [Next]_vars PROVE NoAssertionError'
    OBVIOUS
  <2>2. CASE UNCHANGED vars
    BY <2>1, <2>2 DEF NoAssertionError, vars
  <2>3. CASE Idle
    BY <2>3 DEF Idle, NoAssertionError
  <2>4. ASSUME NEW s \in Live, Grow(s) \/ Vanish(s) PROVE NoAssertionError'
    BY <2>4 DEF Grow, Grows, Vanish, NoAssertionError, Reply
  <2>5. ASSUME NEW s \in Live, NEW n \in 0..lengths[s] - 1, Shrink(s, n) PROVE NoAssertionError'
    <3>1. n \in 0..lengths[s]
      BY <2>1 DEF IInv, TypeOK
    <3>2. Dirty(s, n) = {}
      BY <2>1, <3>1, NothingDirty
    <3>. QED BY <2>5, <3>2 DEF Shrink, Cut, NoAssertionError, Reply
  <2>6. ASSUME NEW s \in Seqs \ Live, Appear(s) PROVE NoAssertionError'
    BY <2>6 DEF Appear, NoAssertionError, Reply
  <2>. QED BY <2>1, <2>2, <2>3, <2>4, <2>5, <2>6, StepKinds
<1>. QED BY <1>1, <1>2, Invariance, PTL DEF Spec

\* Token i of s stays where it is, if it stays.
Settled(s, i) == i < lengths'[s] => /\ Slot(tables'[s], i) = Slot(tables[s], i)
                                    /\ Contents(s)'[i + 1] = Contents(s)[i + 1]

LEMMA SettledBySlot ==
  ASSUME IInv, NEW s \in Live, NEW i \in 0..lengths[s] - 1,
         lengths'[s] \in Nat,
         i < lengths'[s] => /\ Slot(tables'[s], i) = Slot(tables[s], i)
                            /\ blocks'[Slot(tables[s], i)] = blocks[Slot(tables[s], i)]
  PROVE  Settled(s, i)
<1>1. lengths[s] \in Nat /\ i \in Nat
  BY DEF IInv, TypeOK
<1>2. i + 1 \in 1..lengths[s] /\ (i + 1) - 1 = i
  BY <1>1
<1>3. Contents(s)[i + 1] = blocks[Slot(tables[s], i)]
  BY <1>2 DEF Contents
<1>4. ASSUME i < lengths'[s] PROVE Contents(s)'[i + 1] = blocks'[Slot(tables'[s], i)]
  <2>1. i + 1 \in 1..lengths'[s]
    BY <1>1, <1>4
  <2>. QED BY <1>2, <2>1 DEF Contents
<1>. QED BY <1>3, <1>4 DEF Settled

LEMMA StepSettles ==
  ASSUME IInv, [Next]_vars, NEW s \in Live \cap Live', NEW i \in 0..lengths[s] - 1
  PROVE  Settled(s, i)
<1>1. lengths'[s] \in Nat
  BY InvariantStep DEF IInv, TypeOK
<1>2. ASSUME Keeps(s) PROVE Settled(s, i)
  BY <1>1, <1>2, SettledBySlot DEF Keeps
<1>3. CASE UNCHANGED vars
  BY <1>2, <1>3 DEF vars, Keeps
<1>4. CASE Idle
  BY <1>2, <1>4 DEF Idle, cache, Keeps
<1>5. ASSUME NEW t \in Live, Grow(t) PROVE Settled(s, i)
  <2>a. PICK e \in Seq(Tokens) :
            \E table : Grows(t, e, table) /\ UNCHANGED checkpoints
    BY <1>5 DEF Grow
  <2>1. PICK table : Grows(t, e, table) /\ UNCHANGED checkpoints
    BY <2>a
  <2>2. CASE s = t
    BY <1>1, <2>1, <2>2, GrowContents, SettledBySlot
  <2>3. CASE s # t
    BY <1>2, <2>1, <2>3, GrowContents
  <2>. QED BY <2>2, <2>3
<1>6. ASSUME NEW t \in Live, Vanish(t) PROVE Settled(s, i)
  BY <1>2, <1>6, VanishContents
<1>7. ASSUME NEW t \in Live, NEW n \in 0..lengths[t] - 1, Shrink(t, n) PROVE Settled(s, i)
  <2>1. n \in 0..lengths[t] /\ Cut(t, n) /\ n \in Nat
    BY <1>7 DEF Shrink, IInv, TypeOK
  <2>2. CASE s = t
    <3>1. lengths'[s] = n
      BY <2>1, <2>2, ShrinkContents
    <3>2. i < n => i \in 0..n - 1
      BY <2>1 DEF IInv, TypeOK
    <3>. QED BY <1>1, <2>1, <2>2, <3>1, <3>2, ShrinkContents, SettledBySlot
  <2>3. CASE s # t
    BY <1>2, <2>1, <2>3, ShrinkContents
  <2>. QED BY <2>2, <2>3
<1>8. ASSUME NEW t \in Seqs \ Live, Appear(t) PROVE Settled(s, i)
  BY <1>2, <1>8, AppearContents
<1>. QED BY <1>3, <1>4, <1>5, <1>6, <1>7, <1>8, StepKinds

\* No step moves or changes a token that stays in its sequence.
THEOREM PlacementIsStable == Spec => StablePlacement
<1>1. IInv /\ [Next]_vars =>
        [\A s \in Live \cap Live' : \A i \in 0..lengths[s] - 1 :
           i < lengths'[s] => /\ Slot(tables'[s], i) = Slot(tables[s], i)
                              /\ Contents(s)'[i + 1] = Contents(s)[i + 1]]_vars
  BY StepSettles DEF Settled
<1>. QED BY <1>1, Invariance, PTL DEF Spec, StablePlacement
-----------------------------------------------------------------------------
(* Checkpoints.                                                            *)

LEMMA PrefixSame ==
  ASSUME NEW S, NEW a \in Seq(S), NEW b \in Seq(S), NEW n \in Nat,
         n <= Len(a), n <= Len(b), \A i \in 1..n : a[i] = b[i]
  PROVE  SubSeq(a, 1, n) = SubSeq(b, 1, n)
<1>1. Len(a) \in Nat /\ Len(b) \in Nat
  BY LenProperties
<1>2. \A i \in 1..n : a[i] \in S /\ b[i] \in S
  BY <1>1, ElementOfSeq
<1>3. /\ SubSeq(a, 1, n) \in Seq(S)
      /\ Len(SubSeq(a, 1, n)) = IF 1 <= n THEN n - 1 + 1 ELSE 0
      /\ \A i \in 1..n - 1 + 1 : SubSeq(a, 1, n)[i] = a[1 + i - 1]
  BY <1>2, SubSeqProperties
<1>4. /\ SubSeq(b, 1, n) \in Seq(S)
      /\ Len(SubSeq(b, 1, n)) = IF 1 <= n THEN n - 1 + 1 ELSE 0
      /\ \A i \in 1..n - 1 + 1 : SubSeq(b, 1, n)[i] = b[1 + i - 1]
  BY <1>2, SubSeqProperties
<1>5. Len(SubSeq(a, 1, n)) = n /\ Len(SubSeq(b, 1, n)) = n
  BY <1>3, <1>4
<1>6. \A i \in 1..n : SubSeq(a, 1, n)[i] = SubSeq(b, 1, n)[i]
  <2>1. SUFFICES ASSUME NEW i \in 1..n PROVE SubSeq(a, 1, n)[i] = SubSeq(b, 1, n)[i]
    OBVIOUS
  <2>2. i \in 1..n - 1 + 1 /\ 1 + i - 1 = i
    OBVIOUS
  <2>. QED BY <1>3, <1>4, <2>2
<1>. QED BY <1>3, <1>4, <1>5, <1>6, SeqEqual

\* The inductive form of CheckpointRestores: an intact checkpoint of a sequence
\* that does not exist (it was removed) is of length zero.
CheckpointInv ==
  /\ CheckpointRestores
  /\ \A c \in checkpoints : /\ Len(c.snapshot) = c.count
                            /\ c.intact /\ c.seq \notin Live => c.count = 0

ContentsTyped ==
  \A s \in Live : Contents(s) \in Seq(Tokens) /\ Len(Contents(s)) = lengths[s]

\* The checkpoint c, intact before and after a step, still restores.
LEMMA CheckpointSurvives ==
  ASSUME IInv, IInv', ContentsTyped', CheckpointInv, [Next]_vars, NEW c \in checkpoints, c.intact,
         c.seq \in Live, c.seq \in Live', c.count <= lengths'[c.seq]
  PROVE  SubSeq(Contents(c.seq)', 1, c.count) = c.snapshot
<1>. DEFINE s == c.seq
            n == c.count
<1>1. /\ n <= lengths[s] /\ SubSeq(Contents(s), 1, n) = c.snapshot
      /\ n \in Nat
  BY DEF CheckpointInv, CheckpointRestores, IInv, TypeOK
<1>2. lengths[s] \in Nat /\ lengths'[s] \in Nat
  BY DEF IInv, TypeOK
<1>3. Contents(s) \in Seq(Tokens) /\ Len(Contents(s)) = lengths[s]
  BY ContentsType
<1>4. Contents(s)' \in Seq(Tokens) /\ Len(Contents(s)') = lengths'[s]
  BY DEF ContentsTyped
<1>5. ASSUME NEW i \in 1..n PROVE Contents(s)'[i] = Contents(s)[i]
  <2>1. i - 1 \in 0..lengths[s] - 1 /\ i - 1 < lengths'[s] /\ (i - 1) + 1 = i
    BY <1>1, <1>2
  <2>2. Settled(s, i - 1)
    BY <2>1, StepSettles
  <2>. QED BY <2>1, <2>2 DEF Settled
<1>. HIDE DEF s, n
<1>6. SubSeq(Contents(s)', 1, n) = SubSeq(Contents(s), 1, n)
  <2>1. n <= Len(Contents(s)) /\ n <= Len(Contents(s)')
    BY <1>1, <1>3, <1>4 DEF s, n
  <2>. QED BY <1>1, <1>3, <1>4, <1>5, <2>1, PrefixSame
<1>. QED BY <1>1, <1>6 DEF s, n

\* One step: the fate of every checkpoint held after it.
LEMMA CheckpointStep ==
  ASSUME IInv, IInv', ContentsTyped', CheckpointInv, [Next]_vars
  PROVE  CheckpointInv'
<1>. DEFINE Kept(c) ==
       /\ c \in checkpoints
       /\ c.intact /\ c.seq \in Live /\ c.seq \in Live' => c.count <= lengths'[c.seq]
       /\ c.intact /\ c.seq \notin Live' => c.seq \notin Live \/ c.count = 0
       Sound(c) ==
       /\ c.intact /\ c.seq \in Live' =>
            /\ c.count <= lengths'[c.seq]
            /\ SubSeq(Contents(c.seq)', 1, c.count) = c.snapshot
       /\ Len(c.snapshot) = c.count
       /\ c.intact /\ c.seq \notin Live' => c.count = 0
<1>1. SUFFICES ASSUME NEW c \in checkpoints' PROVE Sound(c)
  BY DEF CheckpointInv, CheckpointRestores
<1>2. /\ \A d \in checkpoints : /\ d.count \in Nat /\ d.snapshot \in Seq(Tokens)
                                /\ Len(d.snapshot) = d.count
                                /\ d.intact /\ d.seq \notin Live => d.count = 0
                                /\ d.intact /\ d.seq \in Live => d.count <= lengths[d.seq]
      /\ \A s \in Live : lengths[s] \in Nat
      /\ \A s \in Live' : lengths'[s] \in Nat
  BY DEF CheckpointInv, CheckpointRestores, IInv, TypeOK
<1>3. ASSUME NEW s \in Live' \ Live PROVE lengths'[s] = 0
  <2>1. CASE Idle \/ UNCHANGED vars
    BY <1>3, <2>1 DEF Idle, cache, vars, Live
  <2>2. ASSUME NEW t \in Live, Grow(t) PROVE FALSE
    BY <1>3, <2>2, GrowContents DEF Grow
  <2>3. ASSUME NEW t \in Live, Vanish(t) PROVE FALSE
    BY <1>3, <2>3, VanishContents
  <2>4. ASSUME NEW t \in Live, NEW n \in 0..lengths[t] - 1, Shrink(t, n) PROVE FALSE
    <3>1. n \in 0..lengths[t]
      BY <1>2
    <3>. QED BY <1>3, <2>4, <3>1, ShrinkContents DEF Shrink
  <2>5. ASSUME NEW t \in Seqs \ Live, Appear(t) PROVE lengths'[s] = 0
    BY <1>3, <2>5, AppearContents
  <2>. QED BY <2>1, <2>2, <2>3, <2>4, <2>5, StepKinds
<1>4. ASSUME Kept(c) PROVE Sound(c)
  <2>1. CASE c.intact /\ c.seq \in Live /\ c.seq \in Live'
    BY <1>2, <1>4, <2>1, CheckpointSurvives
  <2>2. CASE c.intact /\ c.seq \notin Live /\ c.seq \in Live'
    <3>1. c.count = 0 /\ lengths'[c.seq] = 0 /\ Len(c.snapshot) = 0
      BY <1>2, <1>3, <1>4, <2>2
    <3>2. SubSeq(Contents(c.seq)', 1, c.count) = <<>>
      BY <3>1, SubSeqEmpty
    <3>3. c.snapshot = <<>>
      BY <1>2, <1>4, <3>1, EmptySeq
    <3>. QED BY <3>1, <3>2, <3>3, <2>2
  <2>3. CASE c.intact /\ c.seq \notin Live'
    BY <1>2, <1>4, <2>3
  <2>4. CASE ~c.intact
    BY <1>2, <1>4, <2>4
  <2>. QED BY <2>1, <2>2, <2>3, <2>4
<1>5. CASE UNCHANGED vars
  <2>1. Kept(c)
    BY <1>1, <1>2, <1>5 DEF vars, Live
  <2>. QED BY <2>1, <1>4
<1>6. CASE Idle
  <2>1. Live' = Live /\ lengths' = lengths /\ UNCHANGED <<blocks, tables>>
    BY <1>6 DEF Idle, cache, Live
  <2>2. CASE c \in checkpoints
    <3>1. Kept(c)
      BY <1>2, <2>1, <2>2
    <3>. QED BY <3>1, <1>4
  <2>3. CASE c \notin checkpoints
    <3>1. /\ c.seq \in Live /\ c.count = lengths[c.seq] /\ c.snapshot = Contents(c.seq)
      BY <1>1, <1>6, <2>3 DEF Idle
    <3>2. Contents(c.seq)' = Contents(c.seq)
      BY <2>1 DEF Contents
    <3>3. Contents(c.seq) \in Seq(Tokens) /\ Len(Contents(c.seq)) = lengths[c.seq]
      BY <3>1, ContentsType
    <3>4. SubSeq(Contents(c.seq), 1, Len(Contents(c.seq))) = Contents(c.seq)
      BY <3>3, SubSeqFull
    <3>. QED BY <1>2, <2>1, <3>1, <3>2, <3>3, <3>4
  <2>. QED BY <2>2, <2>3
<1>7. ASSUME NEW s \in Live, Grow(s) PROVE Sound(c)
  <2>a. PICK e \in Seq(Tokens) :
            \E table : Grows(s, e, table) /\ UNCHANGED checkpoints
    BY <1>7 DEF Grow
  <2>1. PICK table : Grows(s, e, table) /\ UNCHANGED checkpoints
    BY <2>a
  <2>2. /\ Live' = Live /\ Len(e) \in Nat /\ lengths'[s] = lengths[s] + Len(e)
        /\ \A t \in Live \ {s} : lengths'[t] = lengths[t]
    BY <2>1, GrowContents, LenProperties DEF Keeps
  <2>3. ASSUME NEW t \in Live PROVE lengths[t] <= lengths'[t]
    <3>1. CASE t = s
      BY <1>2, <2>2, <3>1
    <3>2. CASE t # s
      BY <1>2, <2>2, <3>2
    <3>. QED BY <3>1, <3>2
  <2>4. Kept(c)
    BY <1>1, <1>2, <2>1, <2>2, <2>3
  <2>. QED BY <2>4, <1>4
<1>8. ASSUME NEW s \in Seqs \ Live, Appear(s) PROVE Sound(c)
  <2>1. /\ Live' = Live \cup {s} /\ \A t \in Live : lengths'[t] = lengths[t]
        /\ checkpoints' = checkpoints
    BY <1>8, AppearContents DEF Keeps, Appear
  <2>2. Kept(c)
    BY <1>1, <1>2, <2>1
  <2>. QED BY <2>2, <1>4
<1>9. ASSUME NEW s \in Live, NEW n \in Nat, Disturb(s, n),
             Live' \subseteq Live, \A t \in Live' \ {s} : lengths'[t] = lengths[t],
             Live \ Live' \subseteq {s}, s \notin Live' => n = 0,
             s \in Live' => lengths'[s] = n
      PROVE  Sound(c)
  <2>1. PICK d \in checkpoints :
          c = IF d.seq = s /\ n < d.count THEN [d EXCEPT !.intact = FALSE] ELSE d
    BY <1>1, <1>9 DEF Disturb
  <2>2. CASE d.seq = s /\ n < d.count
    <3>1. d \in CheckpointType
      BY DEF IInv, TypeOK, CheckpointType
    <3>2. c.intact = FALSE /\ c.snapshot = d.snapshot /\ c.count = d.count
      BY <2>1, <2>2, <3>1 DEF CheckpointType
    <3>. QED BY <1>2, <3>2
  <2>3. CASE ~(d.seq = s /\ n < d.count)
    <3>1. c = d
      BY <2>1, <2>3
    <3>2. Kept(c)
      BY <1>2, <1>9, <2>3, <3>1
    <3>. QED BY <3>2, <1>4
  <2>. QED BY <2>2, <2>3
<1>10. ASSUME NEW s \in Live, NEW n \in 0..lengths[s] - 1, Shrink(s, n) PROVE Sound(c)
  <2>1. n \in 0..lengths[s] /\ n \in Nat /\ Cut(s, n) /\ Disturb(s, n)
    BY <1>2, <1>10 DEF Shrink
  <2>2. /\ Live' = Live /\ lengths'[s] = n
        /\ \A t \in Live \ {s} : lengths'[t] = lengths[t]
    BY <2>1, ShrinkContents DEF Keeps
  <2>. QED BY <1>9, <2>1, <2>2
<1>11. ASSUME NEW s \in Live, Vanish(s) PROVE Sound(c)
  <2>1. Live' = Live \ {s} /\ \A t \in Live' : lengths'[t] = lengths[t]
    BY <1>11, VanishContents DEF Keeps
  <2>. QED BY <1>9, <1>11, <2>1 DEF Vanish
<1>. QED BY <1>5, <1>6, <1>7, <1>8, <1>10, <1>11, StepKinds

\* An intact checkpoint names what was checkpointed, however blocks were
\* recycled since: rolling back to it restores the contents of that moment.
THEOREM CheckpointsRestore == Spec => []CheckpointRestores
<1>1. IInv => ContentsTyped
  BY ContentsType DEF ContentsTyped
<1>2. Init => CheckpointInv
  BY DEF Init, CheckpointInv, CheckpointRestores
<1>3. IInv /\ IInv' /\ ContentsTyped' /\ CheckpointInv /\ [Next]_vars => CheckpointInv'
  BY CheckpointStep
<1>4. CheckpointInv => CheckpointRestores
  BY DEF CheckpointInv
<1>. QED BY <1>1, <1>2, <1>3, <1>4, Invariance, PTL DEF Spec
-----------------------------------------------------------------------------
(* Counting blocks.                                                        *)

\* Distinct table entries are as many blocks.
LEMMA ImageCardinality ==
  ASSUME NEW T, Distinct(T), NEW I \in SUBSET DOMAIN T, IsFiniteSet(I)
  PROVE  /\ IsFiniteSet({T[j] : j \in I})
         /\ Cardinality({T[j] : j \in I}) = Cardinality(I)
<1>. DEFINE f == [j \in I |-> T[j]]
            S == {T[j] : j \in I}
<1>1. /\ f \in [I -> S]
      /\ \A a, b \in I : f[a] = f[b] => a = b
      /\ \A x \in S : \E j \in I : f[j] = x
  BY DEF Distinct
<1>. HIDE DEF f, S
<1>2. f \in Bijection(I, S)
  BY <1>1, Fun_IsBij
<1>3. ExistsBijection(I, S)
  BY <1>2 DEF ExistsBijection
<1>4. IsFiniteSet(S) /\ Cardinality(S) = Cardinality(I)
  BY <1>3, FS_Bijection
<1>. QED BY <1>4 DEF S

LEMMA IntervalFinite ==
  ASSUME NEW a \in Nat, NEW b \in Nat, a <= b
  PROVE  IsFiniteSet(a + 1..b) /\ Cardinality(a + 1..b) = b - a
<1>1. a + 1 \in Int /\ b \in Int
  OBVIOUS
<1>2. /\ IsFiniteSet(a + 1..b)
      /\ Cardinality(a + 1..b) = IF a + 1 > b THEN 0 ELSE b - (a + 1) + 1
  BY <1>1, FS_Interval
<1>. QED BY <1>2

LEMMA BlockFinite == IsFiniteSet(Block) /\ Cardinality(Block) = NumBlocks
BY PoolAssumption, FS_Interval DEF Block

LEMMA FreeFinite ==
  ASSUME IInv
  PROVE  IsFiniteSet(free) /\ Cardinality(free) \in Nat
<1>1. IsFiniteSet(free)
  BY BlockFinite, FS_Subset DEF IInv, TypeOK
<1>. QED BY <1>1, FS_CardinalityType

\* Growing a table takes as many blocks from the free list as it adds.
LEMMA GrowRoom ==
  ASSUME IInv, NEW s \in Live, NEW e \in Seq(Tokens), NEW table, Grows(s, e, table)
  PROVE  Cardinality(free') = Cardinality(free)
           - (BlocksFor(lengths[s] + Len(e)) - BlocksFor(lengths[s]))
<1>. DEFINE old == tables[s]
            I == Len(old) + 1..Len(table)
            taken == {table[j] : j \in I}
<1>1. /\ old \in Seq(Block) /\ DOMAIN old = 1..Len(old) /\ Len(old) \in Nat
      /\ Len(old) = BlocksFor(lengths[s])
  BY LenProperties DEF IInv, TypeOK, ValidateInvariants, Exact
<1>2. /\ table \in Seq(Block) /\ Distinct(table)
      /\ DOMAIN table = 1..Len(table) /\ Len(table) \in Nat
      /\ Len(table) = BlocksFor(lengths[s] + Len(e))
      /\ \A j \in DOMAIN old : j \in DOMAIN table /\ table[j] = old[j]
      /\ \A j \in DOMAIN table \ DOMAIN old : table[j] \in free
  BY LenProperties DEF Grows
<1>3. Len(old) <= Len(table)
  <2>1. Len(old) = 0 \/ Len(old) \in DOMAIN table
    BY <1>1, <1>2
  <2>. QED BY <1>1, <1>2, <2>1
<1>4. /\ IsFiniteSet(I) /\ Cardinality(I) = Len(table) - Len(old)
      /\ I \in SUBSET DOMAIN table
      /\ \A j \in I : j \in DOMAIN table \ DOMAIN old
  <2>1. IsFiniteSet(I) /\ Cardinality(I) = Len(table) - Len(old)
    BY <1>1, <1>2, <1>3, IntervalFinite
  <2>2. \A j \in I : j \in DOMAIN table \ DOMAIN old
    BY <1>1, <1>2
  <2>. QED BY <2>1, <2>2
<1>. HIDE DEF I
<1>5. IsFiniteSet(taken) /\ Cardinality(taken) = Cardinality(I)
  BY <1>2, <1>4, ImageCardinality
<1>6. taken \subseteq free
  BY <1>2, <1>4
<1>7. free' = free \ taken
  <2>1. free \subseteq Block /\ free' \subseteq free
    BY DEF Grows, IInv, TypeOK
  <2>2. \A b \in Block : b \in free' <=> b \in free /\ \A j \in DOMAIN table : table[j] # b
    BY DEF Grows
  <2>3. \A j \in DOMAIN old : old[j] \notin free
    <3>1. \A j \in DOMAIN old : old[j] \in Block
      BY <1>1, ElementOfSeq
    <3>. QED BY <3>1 DEF IInv, ValidateInvariants, Partitioned
  <2>4. \A j \in DOMAIN table : j \in DOMAIN old \/ j \in I
    BY <1>1, <1>2 DEF I
  <2>5. ASSUME NEW b \in free PROVE b \in free' <=> b \notin taken
    <3>1. b \in Block
      BY <2>1
    <3>2. (\E j \in DOMAIN table : table[j] = b) <=> b \in taken
      <4>1. \A j \in DOMAIN old : table[j] # b
        BY <1>2, <2>3
      <4>. QED BY <1>4, <2>4, <4>1
    <3>. QED BY <2>2, <3>1, <3>2
  <2>. HIDE DEF taken
  <2>. QED BY <2>1, <2>5
<1>. HIDE DEF taken
<1>8. Cardinality(free') = Cardinality(free) - Cardinality(taken)
  <2>1. free \cap taken = taken
    BY <1>6
  <2>2. IsFiniteSet(free)
    BY FreeFinite
  <2>3. Cardinality(free \ taken) = Cardinality(free) - Cardinality(free \cap taken)
    BY <2>2, FS_Difference
  <2>. QED BY <1>7, <2>1, <2>3
<1>. QED BY <1>1, <1>2, <1>4, <1>5, <1>8

\* Discarding tokens returns the blocks that are no longer needed.
LEMMA DiscardRoom ==
  ASSUME IInv, NEW s \in Live, NEW n \in 0..lengths[s], Discard(s, n)
  PROVE  Cardinality(free') = Cardinality(free)
           + (BlocksFor(lengths[s]) - BlocksFor(n))
<1>. DEFINE back == {tables[s][k] : k \in Released(s, n)}
<1>1. free' = free \cup back
  BY DiscardFrees
<1>2. /\ tables[s] \in Seq(Block) /\ Distinct(tables[s])
      /\ DOMAIN tables[s] = 1..Len(tables[s])
      /\ DOMAIN tables[s] = (1..BlocksFor(n)) \cup Released(s, n)
      /\ BlocksFor(n) \in Nat /\ BlocksFor(n) <= Len(tables[s])
      /\ Cardinality(Released(s, n)) = BlocksFor(lengths[s]) - BlocksFor(n)
  BY ReleasedProperties
<1>3. IsFiniteSet(Released(s, n))
  <2>1. Len(tables[s]) \in Nat
    BY <1>2, LenProperties
  <2>. QED BY <1>2, <2>1, IntervalFinite DEF Released
<1>4. IsFiniteSet(back) /\ Cardinality(back) = Cardinality(Released(s, n))
  <2>1. Released(s, n) \in SUBSET DOMAIN tables[s]
    BY <1>2
  <2>. QED BY <1>2, <1>3, <2>1, ImageCardinality
<1>5. free \cap back = {}
  <2>1. \A k \in DOMAIN tables[s] : tables[s][k] \in Block
    BY <1>2, ElementOfSeq
  <2>2. \A k \in DOMAIN tables[s] : tables[s][k] \notin free
    BY <2>1 DEF IInv, ValidateInvariants, Partitioned
  <2>. QED BY <1>2, <2>2
<1>. HIDE DEF back
<1>6. Cardinality(free') = Cardinality(free) + Cardinality(back) - Cardinality(free \cap back)
  BY <1>1, <1>4, FreeFinite, FS_Union
<1>7. Cardinality(free \cap back) = 0
  BY <1>5, FS_EmptySet
<1>8. Cardinality(free) \in Nat /\ BlocksFor(lengths[s]) \in Nat
  BY FreeFinite, BlocksForType DEF IInv, TypeOK
<1>. QED BY <1>2, <1>4, <1>6, <1>7, <1>8

\* A sequence never outgrows the pool.
LEMMA LengthBound ==
  ASSUME IInv, NEW s \in Live
  PROVE  lengths[s] <= Capacity
<1>1. /\ tables[s] \in Seq(Block) /\ Distinct(tables[s])
      /\ DOMAIN tables[s] = 1..Len(tables[s])
      /\ lengths[s] \in Nat /\ Len(tables[s]) = BlocksFor(lengths[s])
      /\ Len(tables[s]) \in Nat
  BY LenProperties
     DEF IInv, TypeOK, ValidateInvariants, Exact, Exclusive, Distinct
<1>. DEFINE used == {tables[s][j] : j \in DOMAIN tables[s]}
<1>2. /\ IsFiniteSet(DOMAIN tables[s])
      /\ Cardinality(DOMAIN tables[s]) = Len(tables[s])
  BY <1>1, FS_Interval
<1>3. Cardinality(used) = Len(tables[s])
  BY <1>1, <1>2, ImageCardinality
<1>4. used \in SUBSET Block
  BY <1>1, ElementOfSeq
<1>. HIDE DEF used
<1>5. Cardinality(used) <= NumBlocks
  BY <1>4, BlockFinite, FS_Subset
<1>6. ~(NumBlocks < BlocksFor(lengths[s]))
  BY <1>1, <1>3, <1>5, PoolAssumption
<1>7. ~(NumBlocks * BlockSize < lengths[s])
  BY <1>1, <1>6, BlocksForMeaning, PoolAssumption
<1>8. NumBlocks * BlockSize \in Nat
  BY PoolAssumption
<1>. QED BY <1>1, <1>7, <1>8 DEF Capacity
-----------------------------------------------------------------------------
(* Every action is the action of KVStore with the same name.               *)

\* The names that both modules define mean the same.
LEMMA SameTerms ==
  ASSUME IInv
  PROVE  /\ Promise!Live = Live
         /\ DOMAIN Store = Live
         /\ \A s \in Live : /\ Store[s] = Contents(s)
                            /\ Store[s] \in Seq(Tokens) /\ Len(Store[s]) = lengths[s]
         /\ \A n : Promise!BlocksFor(n) = BlocksFor(n)
         /\ \A k, v : Promise!Reply(k, v) = Reply(k, v)
         /\ Promise!Entries = Entries
         /\ Promise!Counts = Counts
<1>1. DOMAIN Store = Live /\ \A s \in Live : Store[s] = Contents(s)
  BY DEF Store
<1>2. \A s \in Live : Contents(s) \in Seq(Tokens) /\ Len(Contents(s)) = lengths[s]
  BY ContentsType
<1>3. \A s \in Live : Store[s] \in Seq(Tokens) /\ Len(Store[s]) = lengths[s]
  BY <1>1, <1>2
<1>4. Promise!Live = Live
  BY <1>1 DEF Promise!Live
<1>5. \A n : Promise!BlocksFor(n) = BlocksFor(n)
  BY DEF Promise!BlocksFor, BlocksFor
<1>6. \A k, v : Promise!Reply(k, v) = Reply(k, v)
  BY DEF Promise!Reply, Reply
<1>7. Promise!Entries = Entries
  BY DEF Promise!Entries, Entries
<1>8. Promise!Counts = Counts
  BY DEF Promise!Counts, Counts, Capacity
<1>. QED BY <1>1, <1>3, <1>4, <1>5, <1>6, <1>7, <1>8

\* A step that leaves the blocks, tables and lengths alone leaves the store
\* alone.
LEMMA StoreUnchanged ==
  ASSUME IInv, UNCHANGED cache
  PROVE  Store' = Store /\ Cardinality(free)' = Cardinality(free)
<1>1. /\ Live' = Live /\ free' = free
      /\ blocks' = blocks /\ tables' = tables /\ lengths' = lengths
  BY DEF cache, Live
<1>2. \A s \in Live : Contents(s)' = Contents(s)
  BY <1>1 DEF Contents
<1>. QED BY <1>1, <1>2 DEF Store

\* A step that changes the contents of s alone puts the new contents in the
\* store.
LEMMA StorePut ==
  ASSUME IInv, NEW s, NEW v, Live' = Live \cup {s},
         \A t \in Live \ {s} : Keeps(t), Contents(s)' = v
  PROVE  Store' = Promise!Put(Store, s, v)
<1>1. \A t \in Live \ {s} : Contents(t)' = Contents(t)
  BY KeepsContents
<1>2. DOMAIN Store = Live
  BY DEF Store
<1>3. Store' = [t \in Live' |-> Contents(t)']
  BY DEF Store
<1>4. Promise!Put(Store, s, v) = [t \in Live \cup {s} |-> IF t = s THEN v ELSE Store[t]]
  BY <1>2 DEF Promise!Put
<1>5. \A t \in Live \cup {s} : Contents(t)' = IF t = s THEN v ELSE Store[t]
  BY <1>1 DEF Store
<1>. QED BY <1>3, <1>4, <1>5

LEMMA RaiseRefuses ==
  ASSUME IInv, NEW kind, Raise(kind)
  PROVE  Promise!Refuse(kind)
<1>1. UNCHANGED cache
  BY DEF Raise, cache
<1>. QED BY <1>1, StoreUnchanged, SameTerms DEF Raise, Promise!Refuse

LEMMA CreateImplements ==
  ASSUME IInv, NEW s \in Seqs, CreateSequence(s)
  PROVE  Promise!Create(s)
<1>1. CASE s \in Live /\ Raise("ValueError")
  BY <1>1, RaiseRefuses, SameTerms DEF Promise!Create
<1>2. CASE s \notin Live /\ Appear(s)
  <2>1. Store' = Promise!Put(Store, s, <<>>)
    BY <1>2, AppearContents, StorePut
  <2>2. reply' = Promise!Reply("ok", 0) /\ Cardinality(free)' = Cardinality(free)
    BY <1>2, SameTerms DEF Appear
  <2>. QED BY <1>2, <2>1, <2>2, SameTerms DEF Promise!Create
<1>. QED BY <1>1, <1>2 DEF CreateSequence, Appear

LEMMA RemoveImplements ==
  ASSUME IInv, NEW s \in Seqs, RemoveSequence(s)
  PROVE  Promise!Remove(s)
<1>1. CASE s \notin Live /\ Raise("KeyError")
  BY <1>1, RaiseRefuses, SameTerms DEF Promise!Remove
<1>2. CASE s \in Live /\ ~(s \notin Live /\ Raise("KeyError"))
  <2>1. 0 \in 0..lengths[s] /\ lengths[s] \in Nat
    BY <1>2 DEF IInv, TypeOK
  <2>2. Vanish(s)
    BY <1>2, <2>1, NothingDirty DEF RemoveSequence, Vanish
  <2>3. BlocksFor(0) = 0 /\ BlocksFor(lengths[s]) \in Nat
    <3>1. BlocksFor(0) \in Nat /\ ~(0 < BlocksFor(0))
      BY BlocksForType, BlocksForMeaning, PoolAssumption
    <3>. QED BY <2>1, <3>1, BlocksForType
  <2>4. Store' = Promise!Without(Store, s)
    <3>1. Live' = Live \ {s} /\ \A t \in Live' : Keeps(t)
      BY <1>2, <2>2, VanishContents
    <3>2. \A t \in Live' : Contents(t)' = Contents(t)
      BY <3>1, KeepsContents
    <3>3. Store' = [t \in Live' |-> Contents(t)']
      BY DEF Store
    <3>4. Promise!Without(Store, s) = [t \in Live \ {s} |-> Store[t]]
      BY SameTerms DEF Promise!Without
    <3>. QED BY <3>1, <3>2, <3>3, <3>4, SameTerms
  <2>5. /\ Cardinality(free)' = Cardinality(free) + BlocksFor(lengths[s])
        /\ Cardinality(Released(s, 0)) = BlocksFor(lengths[s])
    <3>1. Cardinality(free') = Cardinality(free) + (BlocksFor(lengths[s]) - BlocksFor(0))
      BY <1>2, <2>1, <2>2, DiscardRoom DEF Vanish
    <3>2. Cardinality(Released(s, 0)) = BlocksFor(lengths[s]) - BlocksFor(0)
      BY <1>2, <2>1, ReleasedProperties
    <3>. QED BY <2>3, <3>1, <3>2
  <2>6. reply' = Reply("ok", BlocksFor(lengths[s]))
    BY <2>2, <2>5 DEF Vanish
  <2>. QED BY <1>2, <2>4, <2>5, <2>6, SameTerms DEF Promise!Remove
<1>. QED BY <1>1, <1>2 DEF RemoveSequence

LEMMA TruncateImplements ==
  ASSUME IInv, NEW s \in Seqs, NEW n \in Int, Truncate(s, n)
  PROVE  Promise!Truncate(s, n)
<1>1. CASE s \notin Live /\ Raise("KeyError")
  BY <1>1, RaiseRefuses, SameTerms DEF Promise!Truncate
<1>2. CASE s \in Live /\ n \notin 0..lengths[s] /\ Raise("ValueError")
  BY <1>2, RaiseRefuses, SameTerms DEF Promise!Truncate
<1>3. ASSUME s \in Live, n \in 0..lengths[s],
             Store' = Promise!Put(Store, s, SubSeq(Store[s], 1, n)),
             Cardinality(free)' = Cardinality(free) + (BlocksFor(lengths[s]) - BlocksFor(n)),
             reply' = Reply("ok", BlocksFor(lengths[s]) - BlocksFor(n))
      PROVE  Promise!Truncate(s, n)
  BY <1>3, SameTerms DEF Promise!Truncate
<1>4. CASE s \in Live /\ n = lengths[s] /\ reply' = Reply("ok", 0)
           /\ UNCHANGED <<cache, checkpoints>>
  <2>1. n \in Nat /\ n \in 0..lengths[s] /\ BlocksFor(n) \in Nat
    BY <1>4, BlocksForType DEF IInv, TypeOK
  <2>2. Store' = Store /\ Cardinality(free)' = Cardinality(free)
    BY <1>4, StoreUnchanged
  <2>3. SubSeq(Store[s], 1, n) = Store[s]
    BY <1>4, SameTerms, SubSeqFull
  <2>4. Store = Promise!Put(Store, s, Store[s])
    <3>1. Promise!Put(Store, s, Store[s])
            = [t \in Live \cup {s} |-> IF t = s THEN Store[s] ELSE Store[t]]
      BY SameTerms DEF Promise!Put
    <3>2. Store = [t \in Live |-> Store[t]]
      BY DEF Store
    <3>. QED BY <1>4, <3>1, <3>2
  <2>5. BlocksFor(lengths[s]) - BlocksFor(n) = 0
    BY <1>4, <2>1
  <2>6. Cardinality(free)' = Cardinality(free) + (BlocksFor(lengths[s]) - BlocksFor(n))
    BY <2>2, <2>5, FreeFinite
  <2>. QED BY <1>3, <1>4, <2>1, <2>2, <2>3, <2>4, <2>5, <2>6
<1>5. CASE s \in Live /\ n \in 0..lengths[s] - 1 /\ Cut(s, n) /\ Disturb(s, n)
  <2>1. n \in 0..lengths[s]
    BY <1>5 DEF IInv, TypeOK
  <2>2. Discard(s, n) /\ reply' = Reply("ok", Cardinality(Released(s, n)))
    BY <1>5, <2>1, NothingDirty DEF Cut
  <2>3. Store' = Promise!Put(Store, s, SubSeq(Store[s], 1, n))
    <3>1. /\ Live' = Live /\ \A t \in Live \ {s} : Keeps(t)
          /\ Contents(s)' = SubSeq(Contents(s), 1, n)
      BY <1>5, <2>1, ShrinkContents
    <3>2. Live' = Live \cup {s}
      BY <1>5, <3>1
    <3>3. Store[s] = Contents(s)
      BY <1>5, SameTerms
    <3>. QED BY <3>1, <3>2, <3>3, StorePut
  <2>4. Cardinality(Released(s, n)) = BlocksFor(lengths[s]) - BlocksFor(n)
    BY <1>5, <2>1, ReleasedProperties
  <2>5. Cardinality(free)' = Cardinality(free) + (BlocksFor(lengths[s]) - BlocksFor(n))
    BY <1>5, <2>1, <2>2, DiscardRoom
  <2>. QED BY <1>3, <1>5, <2>1, <2>2, <2>3, <2>4, <2>5
<1>. QED BY <1>1, <1>2, <1>4, <1>5 DEF Truncate

LEMMA AppendImplements ==
  ASSUME IInv, NEW s \in Seqs, NEW e \in Entries, AppendMany(s, e)
  PROVE  Promise!AppendMany(s, e)
<1>. DEFINE extra == BlocksFor(lengths[s] + Len(e)) - BlocksFor(lengths[s])
<1>1. CASE s \notin Live /\ Raise("KeyError")
  BY <1>1, RaiseRefuses, SameTerms DEF Promise!AppendMany
<1>2. SUFFICES ASSUME s \in Live PROVE Promise!AppendMany(s, e)
  BY <1>1 DEF AppendMany
<1>3. /\ Len(tables[s]) = BlocksFor(lengths[s])
      /\ Promise!Live = Live
      /\ Len(Store[s]) = lengths[s]
      /\ Promise!BlocksFor(Len(Store[s]) + Len(e)) - Promise!BlocksFor(Len(Store[s])) = extra
  BY <1>2, SameTerms DEF IInv, ValidateInvariants, Exact
<1>. HIDE DEF extra
<1>4. CASE extra > Cardinality(free) /\ Raise("KVCacheCapacityError")
  BY <1>2, <1>3, <1>4, RaiseRefuses DEF Promise!AppendMany
<1>5. CASE /\ extra <= Cardinality(free) /\ \E i \in DOMAIN e : e[i] = Bad
           /\ Raise("QuantizeError")
  BY <1>2, <1>3, <1>5, RaiseRefuses DEF Promise!AppendMany
<1>6. ASSUME extra <= Cardinality(free), \A i \in DOMAIN e : e[i] # Bad,
             Store' = Promise!Put(Store, s, Store[s] \o e),
             Cardinality(free)' = Cardinality(free) - extra,
             reply' = Reply("ok", lengths[s])
      PROVE  Promise!AppendMany(s, e)
  BY <1>2, <1>3, <1>6, SameTerms DEF Promise!AppendMany
<1>7. CASE e = <<>> /\ reply' = Reply("ok", lengths[s]) /\ UNCHANGED <<cache, checkpoints>>
  <2>1. Store' = Store /\ Cardinality(free)' = Cardinality(free)
    BY <1>7, StoreUnchanged
  <2>2. Len(e) = 0 /\ DOMAIN e = {}
    BY <1>7
  <2>3. extra = 0
    <3>1. lengths[s] \in Nat
      BY <1>2 DEF IInv, TypeOK
    <3>2. BlocksFor(lengths[s]) \in Nat /\ lengths[s] + Len(e) = lengths[s]
      BY <2>2, <3>1, BlocksForType
    <3>. QED BY <3>2 DEF extra
  <2>4. Store[s] \o e = Store[s]
    BY <1>2, <1>7, SameTerms, ConcatEmptySeq
  <2>5. Store = Promise!Put(Store, s, Store[s])
    <3>1. Promise!Put(Store, s, Store[s])
            = [t \in Live \cup {s} |-> IF t = s THEN Store[s] ELSE Store[t]]
      BY SameTerms DEF Promise!Put
    <3>2. Store = [t \in Live |-> Store[t]]
      BY DEF Store
    <3>. QED BY <1>2, <3>1, <3>2
  <2>6. extra <= Cardinality(free) /\ Cardinality(free)' = Cardinality(free) - extra
    BY <2>1, <2>3, FreeFinite
  <2>. QED BY <1>6, <1>7, <2>1, <2>2, <2>4, <2>5, <2>6
<1>8. ASSUME extra <= Cardinality(free), \A i \in DOMAIN e : e[i] # Bad,
             NEW popped \in LowestFree(BlocksFor(lengths[s] + Len(e)) - Len(tables[s])),
             Write(s, e, popped), UNCHANGED checkpoints
      PROVE  Promise!AppendMany(s, e)
  <2>1. e \in Seq(Tokens)
    BY <1>8, GoodEntries
  <2>2. PICK table : Grows(s, e, table)
    BY <1>2, <1>8, WriteGrows
  <2>3. Store' = Promise!Put(Store, s, Store[s] \o e)
    <3>1. /\ Live' = Live /\ \A t \in Live \ {s} : Keeps(t)
          /\ Contents(s)' = Contents(s) \o e
      BY <1>2, <1>8, <2>1, <2>2, GrowContents
    <3>2. Live' = Live \cup {s} /\ Store[s] = Contents(s)
      BY <1>2, <3>1, SameTerms
    <3>. QED BY <3>1, <3>2, StorePut
  <2>4. Cardinality(free)' = Cardinality(free) - extra
    BY <1>2, <2>1, <2>2, GrowRoom DEF extra
  <2>5. reply' = Reply("ok", lengths[s])
    BY <2>2 DEF Grows
  <2>. QED BY <1>6, <1>8, <2>3, <2>4, <2>5
<1>9. BlocksFor(lengths[s] + Len(e)) - Len(tables[s]) = extra
  BY <1>3 DEF extra
<1>. QED BY <1>2, <1>4, <1>5, <1>7, <1>8, <1>9 DEF AppendMany

-----------------------------------------------------------------------------
(* The theorem.                                                            *)

CheckpointsFit == \A c \in checkpoints : c.count <= Capacity

LEMMA CheckpointsFitStep ==
  ASSUME IInv, CheckpointsFit, [Next]_vars
  PROVE  CheckpointsFit'
<1>1. CASE UNCHANGED checkpoints
  BY <1>1 DEF CheckpointsFit
<1>2. ASSUME NEW s, NEW n, Disturb(s, n) PROVE CheckpointsFit'
  <2>1. SUFFICES ASSUME NEW c \in checkpoints' PROVE c.count <= Capacity
    BY DEF CheckpointsFit
  <2>2. PICK d \in checkpoints :
          c = IF d.seq = s /\ n < d.count THEN [d EXCEPT !.intact = FALSE] ELSE d
    BY <1>2 DEF Disturb
  <2>3. d \in CheckpointType
    BY DEF IInv, TypeOK, CheckpointType
  <2>4. c.count = d.count
    <3>1. CASE c = [d EXCEPT !.intact = FALSE]
      BY <2>3, <3>1 DEF CheckpointType
    <3>. QED BY <2>2, <3>1
  <2>. QED BY <2>4 DEF CheckpointsFit
<1>3. CASE Idle
  <2>1. \A c \in checkpoints' \ checkpoints : c.count <= Capacity
    BY <1>3, LengthBound DEF Idle
  <2>. QED BY <2>1 DEF CheckpointsFit
<1>. QED BY <1>1, <1>2, <1>3, StepKinds DEF Grow, Shrink, Vanish, Appear, vars

LEMMA StepImplements ==
  ASSUME IInv, CheckpointsFit, [Next]_vars
  PROVE  [Promise!Next]_(Promise!vars)
<1>1. CASE UNCHANGED vars
  <2>1. UNCHANGED cache /\ reply' = reply
    BY <1>1 DEF vars, cache
  <2>. QED BY <2>1, StoreUnchanged DEF Promise!vars
<1>2. CASE Next
  <2>1. PICK s \in Seqs :
        \/ CreateSequence(s)
        \/ RemoveSequence(s)
        \/ \E e \in Entries : AppendMany(s, e)
        \/ \E n \in Counts : Truncate(s, n)
        \/ TakeCheckpoint(s)
        \/ \E c \in checkpoints : Rollback(s, c)
    BY <1>2 DEF Next
  <2>2. Counts \subseteq Int /\ Promise!Entries = Entries /\ Promise!Counts = Counts
    BY SameTerms, PoolAssumption DEF Counts, Capacity
  <2>3. SUFFICES Promise!Next
    OBVIOUS
  <2>4. CASE CreateSequence(s)
    BY <2>4, CreateImplements DEF Promise!Next
  <2>5. CASE RemoveSequence(s)
    BY <2>5, RemoveImplements DEF Promise!Next
  <2>6. CASE \E e \in Entries : AppendMany(s, e)
    BY <2>2, <2>6, AppendImplements DEF Promise!Next
  <2>7. CASE \E n \in Counts : Truncate(s, n)
    BY <2>2, <2>7, TruncateImplements DEF Promise!Next
  <2>8. ASSUME NEW c \in checkpoints, Rollback(s, c) PROVE Promise!Next
    <3>1. c.count \in Counts
      <4>1. c.count \in Nat /\ c.count <= Capacity /\ Capacity \in Nat
        BY PoolAssumption DEF IInv, TypeOK, CheckpointsFit, Capacity
      <4>. QED BY <4>1 DEF Counts
    <3>2. Promise!Rollback(s, c.count)
      <4>1. CASE Raise("ValueError")
        BY <4>1, RaiseRefuses DEF Promise!Rollback
      <4>2. CASE Truncate(s, c.count)
        BY <2>2, <3>1, <4>2, TruncateImplements DEF Promise!Rollback
      <4>. QED BY <2>8, <4>1, <4>2 DEF Rollback
    <3>. QED BY <2>2, <3>1, <3>2 DEF Promise!Next
  <2>9. CASE TakeCheckpoint(s)
    <3>1. CASE s \notin Live /\ Raise("KeyError")
      BY <3>1, RaiseRefuses, SameTerms DEF Promise!Checkpoint, Promise!Next
    <3>2. CASE s \in Live /\ reply' = Reply("ok", 0) /\ UNCHANGED cache
      <4>1. Store' = Store /\ Cardinality(free)' = Cardinality(free)
        BY <3>2, StoreUnchanged
      <4>. QED BY <3>2, <4>1, SameTerms DEF Promise!Checkpoint, Promise!Next
    <3>. QED BY <2>9, <3>1, <3>2 DEF TakeCheckpoint
  <2>. QED BY <2>1, <2>4, <2>5, <2>6, <2>7, <2>8, <2>9
<1>. QED BY <1>1, <1>2

LEMMA InitImplements ==
  Init => Promise!Init /\ CheckpointsFit
<1>. SUFFICES ASSUME Init PROVE Promise!Init /\ CheckpointsFit
  OBVIOUS
<1>1. Store = [s \in {} |-> <<>>]
  BY DEF Init, Store, Live
<1>2. Cardinality(free) = NumBlocks
  BY BlockFinite DEF Init
<1>3. reply = Promise!Reply("ok", 0)
  BY DEF Init, Reply, Promise!Reply
<1>. QED BY <1>1, <1>2, <1>3 DEF Init, Promise!Init, CheckpointsFit

\* PagedKVCache keeps the promise of KVStore: every history of calls, seen
\* through the contents of the sequences and the number of free blocks, is a
\* history of the store, and the two agree on every reply and every refusal.
THEOREM Implementation == Spec => ImplementsStore
<1>1. Init => Promise!Init /\ CheckpointsFit
  BY InitImplements
<1>2. IInv /\ CheckpointsFit /\ [Next]_vars => CheckpointsFit'
  BY CheckpointsFitStep
<1>3. IInv /\ CheckpointsFit /\ [Next]_vars => [Promise!Next]_(Promise!vars)
  BY StepImplements
<1>. QED BY <1>1, <1>2, <1>3, Invariance, PTL DEF Spec, ImplementsStore, Promise!Spec
-----------------------------------------------------------------------------
(* The packed storage of MCPagedStorage: its caller waits, and its device  *)
(* does not fail.                                                          *)

Packed == INSTANCE DeviceCacheProofs
            WITH Entries <- Tokens, Waits <- TRUE, Faults <- {}, MaxTransfers <- 1, MaxFailed <- 1

LEMMA StoragePremise ==
  /\ NumBlocks \in Nat \ {0}
  /\ BlockSize \in Nat \ {0}
  /\ MaxTokens \in 0..NumBlocks * BlockSize
  /\ TRUE \in BOOLEAN
  /\ {} \subseteq {"stage", "update"}
  /\ Blank \notin Tokens /\ Unset \notin Tokens
BY DeviceStorageAssumption DEF Device!DeviceAssumption

LEMMA PackedIsCareful == Packed!Careful
BY DEF Packed!Careful

\* The module's theorems are about Packed, its runs about Device: one operator
\* after the other, they are the same.
LEMMA SameInit == Device!Init <=> Packed!Init
BY Zenon DEF Device!Init, Packed!Init, Device!Slots, Packed!Slots

LEMMA SameSnapshots == Device!Snapshots = Packed!Snapshots
BY Zenon DEF Device!Snapshots, Packed!Snapshots, Device!Active, Packed!Active, Device!Block,
     Packed!Block, Device!Injection, Packed!Injection, Device!IsInjective,
     Packed!IsInjective

LEMMA SameSlot == \A table, i : Device!Slot(table, i) = Packed!Slot(table, i)
BY Zenon DEF Device!Slot, Packed!Slot

LEMMA SamePlaced == \A x : Device!Placed(x) = Packed!Placed(x)
BY Zenon DEF Device!Placed, Packed!Placed, Device!Slot, Packed!Slot

LEMMA SameStable == \A old, new : Device!Stable(old, new) = Packed!Stable(old, new)
BY Zenon DEF Device!Stable, Packed!Stable, Device!Placed, Packed!Placed, Device!Slot,
     Packed!Slot, Device!CommonLength, Packed!CommonLength, Device!Smaller,
     Packed!Smaller

LEMMA SameStale == \A old, new : Device!Stale(old, new) = Packed!Stale(old, new)
BY Zenon, SameStable, SameSlot DEF Device!Stale, Packed!Stale

LEMMA SameListing == \A S : Device!Listing(S) = Packed!Listing(S)
BY Zenon DEF Device!Listing, Packed!Listing, Device!Cardinality, Packed!Cardinality

LEMMA SameSources == \A old, new : Device!Sources(old, new) = Packed!Sources(old, new)
BY Zenon, SamePlaced, SameStable, SameStale, SameListing
   DEF Device!Sources, Packed!Sources, Device!After, Packed!After

LEMMA SameAcquire == \A name, n : Device!Acquire(name, n) = Packed!Acquire(name, n)
BY Zenon DEF Device!Acquire, Packed!Acquire, Device!Rounded, Packed!Rounded,
     Device!PowerOfTwo, Packed!PowerOfTwo

LEMMA SameOverlay == \A b, c, s : Device!Overlay(b, c, s) = Packed!Overlay(b, c, s)
BY Zenon DEF Device!Overlay, Packed!Overlay

LEMMA SameKept == \A pins : Device!Kept(pins) = Packed!Kept(pins)
BY Zenon DEF Device!Kept, Packed!Kept

LEMMA SameStage == \A new, n, last : Device!Stage(new, n, last) <=> Packed!Stage(new, n, last)
<1>. TAKE new, n, last
<1>. DEFINE source == Device!Sources(host, new)
            staged == {name \in DOMAIN capacity : /\ source[name] # <<>>
                                                  /\ \E i \in 1..n : Device!Names[i] = name}
            buffer == [name \in DOMAIN capacity |->
                         IF name \in staged THEN Device!Acquire(name, Len(source[name]))
                         ELSE capacity[name]]
            size == [name \in DOMAIN capacity |->
                       IF name \in staged THEN Len(source[name]) ELSE 0]
            pins == [name \in DOMAIN pinned |->
                       IF name \in staged
                       THEN Device!Overlay(pinned[name], buffer[name], source[name])
                       ELSE pinned[name]]
            other == Packed!Sources(host, new)
            chosen == {name \in DOMAIN capacity : /\ other[name] # <<>>
                                                  /\ \E i \in 1..n : Packed!Names[i] = name}
            room == [name \in DOMAIN capacity |->
                       IF name \in chosen THEN Packed!Acquire(name, Len(other[name]))
                       ELSE capacity[name]]
            count == [name \in DOMAIN capacity |->
                        IF name \in chosen THEN Len(other[name]) ELSE 0]
            filled == [name \in DOMAIN pinned |->
                         IF name \in chosen
                         THEN Packed!Overlay(pinned[name], room[name], other[name])
                         ELSE pinned[name]]
<1>1. source = other
  BY SameSources
<1>2. Device!Names = Packed!Names
  BY DEF Device!Names, Packed!Names
<1>3. Device!Stage(new, n, last) <=>
        /\ capacity' = buffer
        /\ transfer' = IF \A i \in 1..last : i <= 3 /\ source[Device!Names[i]] = <<>>
                       THEN transfer
                       ELSE Append(transfer, [at |-> 1, last |-> last, buffer |-> buffer,
                                              size |-> size])
        /\ pinned' = Device!Kept(pins)
        /\ UNCHANGED <<device, memory, target>>
  BY Zenon DEF Device!Stage
<1>4. Packed!Stage(new, n, last) <=>
        /\ capacity' = room
        /\ transfer' = IF \A i \in 1..last : i <= 3 /\ other[Packed!Names[i]] = <<>>
                       THEN transfer
                       ELSE Append(transfer, [at |-> 1, last |-> last, buffer |-> room,
                                              size |-> count])
        /\ pinned' = Packed!Kept(filled)
        /\ UNCHANGED <<device, memory, target>>
  BY Zenon DEF Packed!Stage
<1>. HIDE DEF source, other
<1>5. staged = chosen
  BY <1>1, <1>2
<1>. HIDE DEF staged, chosen
<1>6. buffer = room
  BY <1>1, <1>5, SameAcquire
<1>7. size = count
  BY <1>1, <1>5
<1>. HIDE DEF buffer, room, size, count
<1>8. pins = filled
  BY <1>1, <1>5, <1>6, SameOverlay
<1>. HIDE DEF pins, filled
<1>9. Device!Kept(pins) = Packed!Kept(filled)
  BY Zenon, <1>8, SameKept
<1>. QED BY Zenon, <1>1, <1>2, <1>3, <1>4, <1>6, <1>7, <1>9

LEMMA SameSynchronize == \A new : Device!Synchronize(new) <=> Packed!Synchronize(new)
BY Zenon, SameStage, SameStable
   DEF Device!Synchronize, Packed!Synchronize, Device!MaySynchronize,
     Packed!MaySynchronize

LEMMA SameFails == \A new : Device!SynchronizeFails(new) <=> Packed!SynchronizeFails(new)
BY Zenon, SameStage, SameStable, SameSources
   DEF Device!SynchronizeFails, Packed!SynchronizeFails, Device!MaySynchronize,
     Packed!MaySynchronize, Device!Failures, Packed!Failures, Device!Names, Packed!Names

LEMMA SameCopy == \A at, name : Device!CopyToDevice(at, name) <=> Packed!CopyToDevice(at, name)
BY Zenon DEF Device!CopyToDevice, Packed!CopyToDevice, Device!Job, Packed!Job,
     Device!Proceed, Packed!Proceed, Device!Kept, Packed!Kept, Device!KeptOnDevice,
     Packed!KeptOnDevice, Device!Overlay, Packed!Overlay

LEMMA SameClear == Device!Clear <=> Packed!Clear
BY Zenon DEF Device!Clear, Packed!Clear, Device!Job, Packed!Job, Device!Proceed,
     Packed!Proceed, Device!Kept, Packed!Kept, Device!KeptOnDevice, Packed!KeptOnDevice,
     Device!OnDevice, Packed!OnDevice, Device!Slots, Packed!Slots

LEMMA SameWrite == Device!Write <=> Packed!Write
BY Zenon DEF Device!Write, Packed!Write, Device!Job, Packed!Job, Device!Proceed,
     Packed!Proceed, Device!Kept, Packed!Kept, Device!KeptOnDevice, Packed!KeptOnDevice,
     Device!OnDevice, Packed!OnDevice, Device!Slots, Packed!Slots

LEMMA SameNext == Device!Next <=> Packed!Next
BY Zenon, SameSnapshots, SameSynchronize, SameFails, SameCopy, SameClear, SameWrite
   DEF Device!Next, Packed!Next, Device!Awaited, Packed!Awaited,
     Device!SubmitAttention, Packed!SubmitAttention, Device!Attend, Packed!Attend,
     Device!Ready, Packed!Ready

LEMMA SameTypes == Device!DeviceUploaded <=> Packed!DeviceUploaded
BY Zenon DEF Device!DeviceUploaded, Packed!DeviceUploaded, Device!Uploaded, Packed!Uploaded,
     Device!TypeOK, Packed!TypeOK, Device!Snapshots, Packed!Snapshots, Device!Slots,
     Packed!Slots, Device!Active, Packed!Active, Device!Block, Packed!Block,
     Device!Injection, Packed!Injection, Device!IsInjective, Packed!IsInjective,
     Device!Slot, Packed!Slot

LEMMA SameReads == Device!AttentionReads <=> Packed!AttentionReads
BY Zenon DEF Device!AttentionReads, Packed!AttentionReads, Device!Ready, Packed!Ready,
     Device!Gathered, Packed!Gathered, Device!Active, Packed!Active, Device!Slot,
     Packed!Slot

\* The packed storage of the composition is that of DeviceCache.
LEMMA StorageIsPacked == StorageSpec => Packed!Spec
<1>1. StorageInit => Packed!Init
  BY SameInit DEF StorageInit
<1>2. [StorageNext]_storageVars => [Packed!Next]_(Packed!vars)
  BY SameNext DEF StorageNext, storageVars, deviceVars, Packed!vars
<1>. QED BY <1>1, <1>2, PTL DEF StorageSpec, Packed!Spec

\* Whatever becomes of a sequence between two synchronizations, the device ends
\* up with the tokens that the host counts as uploaded, each in its slot, and
\* with no entry elsewhere; and what is staged fits its buffer.
THEOREM StorageIsUploaded == StorageSpec => []DeviceUploaded
<1>1. Packed!Spec => []Packed!DeviceUploaded
  BY Zenon, StoragePremise, PackedIsCareful, Packed!DeviceUploadedAlways
<1>2. Packed!DeviceUploaded => DeviceUploaded
  BY SameTypes DEF DeviceUploaded
<1>. QED BY <1>1, <1>2, StorageIsPacked, PTL

\* An attention over the packed storage reads the entries it was submitted for.
THEOREM StorageAttentionReads == StorageSpec => []DeviceAttentionReads
<1>1. Packed!Spec => []Packed!AttentionReads
  BY Zenon, StoragePremise, PackedIsCareful, Packed!AttentionReadsAlways
<1>2. Packed!AttentionReads => DeviceAttentionReads
  BY SameReads DEF DeviceAttentionReads
<1>. QED BY <1>1, <1>2, StorageIsPacked, PTL
=============================================================================
