---------------------------- MODULE PagedKVCache ----------------------------
(***************************************************************************)
(* PagedKVCache of src/specdecode/kv_cache.py: a fixed pool of physical    *)
(* blocks, a heap of free blocks (lowest number first), and for every      *)
(* sequence a block table and a length.  The class is used by one thread   *)
(* at a time, so a public method is one action; the loops inside a method, *)
(* and the assertions that may stop them half-way, are part of it.         *)
(***************************************************************************)
EXTENDS Integers, Sequences, FiniteSets

CONSTANTS Seqs,            \* identifiers a caller may use
          Tokens,          \* quantized K/V entries, as opaque values
          Bad,             \* an entry the quantizer refuses
          Null,            \* an empty slot (None)
          NumBlocks, BlockSize,
          MaxAppend,       \* bound: entries in one append_many call
          MaxCheckpoints   \* bound: checkpoints a caller holds

ASSUME PoolAssumption == /\ NumBlocks \in Nat \ {0}
                         /\ BlockSize \in Nat \ {0}
                         /\ MaxAppend \in Nat
                         /\ MaxCheckpoints \in Nat

ASSUME TokenAssumption == /\ Null \notin Tokens
                          /\ Bad \notin Tokens

VARIABLES blocks,       \* _blocks: a token or Null in every slot
          free,         \* _free_blocks, the set of its members
          tables,       \* _block_tables: physical blocks in logical order
          lengths,      \* _lengths
          checkpoints,  \* checkpoints that callers hold (see TakeCheckpoint)
          reply         \* how the last call ended, and the number it returned

cache == <<blocks, free, tables, lengths>>
vars == <<blocks, free, tables, lengths, checkpoints, reply>>

Block == 0..NumBlocks - 1
Offset == 0..BlockSize - 1
Capacity == NumBlocks * BlockSize
Live == DOMAIN lengths

\* Token counts a caller may name, one outside either end of the valid range.
Counts == -1..Capacity + 1

Entries == UNION {[1..n -> Tokens \cup {Bad}] : n \in 0..MaxAppend}

Put(f, s, v) == [x \in DOMAIN f \cup {s} |-> IF x = s THEN v ELSE f[x]]
Without(f, s) == [x \in DOMAIN f \ {s} |-> f[x]]
First(S) == CHOOSE i \in S : \A j \in S : i <= j

Reply(kind, value) == [kind |-> kind, value |-> value]

\* Mutant of BlocksFor: a full last block is counted as open.
BlocksForOneMore(n) == n \div BlockSize + 1

BlocksFor(n) == (n + BlockSize - 1) \div BlockSize

\* Where token i (counted from 0) of a sequence with this table is kept.
Slot(table, i) == <<table[(i \div BlockSize) + 1], i % BlockSize>>

Contents(s) == [i \in 1..lengths[s] |-> blocks[Slot(tables[s], i - 1)]]

\* heappop, n times: the n lowest free blocks in ascending order.
LowestFree(n) ==
  {p \in [1..n -> free] :
     /\ \A i, j \in 1..n : i < j => p[i] < p[j]
     /\ \A b \in free, i \in 1..n : b < p[i] => \E j \in 1..n : p[j] = b}

Init == /\ blocks = [slot \in Block \X Offset |-> Null]
        /\ free = Block
        /\ tables = [s \in {} |-> <<>>]
        /\ lengths = [s \in {} |-> 0]
        /\ checkpoints = {}
        /\ reply = Reply("ok", 0)

\* An exception raised before anything is changed.
Raise(kind) == /\ reply' = Reply(kind, 0)
               /\ UNCHANGED <<blocks, free, tables, lengths, checkpoints>>
-----------------------------------------------------------------------------
\* Mutant of CreateSequence: the block table is not set up.
CreateWithoutTable(s) == /\ s \notin Live
                         /\ lengths' = Put(lengths, s, 0)
                         /\ reply' = Reply("ok", 0)
                         /\ UNCHANGED <<blocks, free, tables, checkpoints>>

CreateSequence(s) ==
  \/ /\ s \in Live
     /\ Raise("ValueError")
  \/ /\ s \notin Live
     /\ tables' = Put(tables, s, <<>>)
     /\ lengths' = Put(lengths, s, 0)
     /\ reply' = Reply("ok", 0)
     /\ UNCHANGED <<blocks, free, checkpoints>>

\* The mutating part of append_many.  The entries go to their slots in order;
\* an occupied slot stops the loop with the entries before it written, the
\* blocks popped and the length not updated.
Write(s, e, popped) ==
  LET start == lengths[s]
      final == start + Len(e)
      table == tables[s] \o popped
      occupied == {i \in start..final - 1 : blocks[Slot(table, i)] # Null}
      stop == IF occupied = {} THEN final ELSE First(occupied)
      written(slot) == {i \in start..stop - 1 : Slot(table, i) = slot}
  IN  /\ free' = free \ {popped[k] : k \in DOMAIN popped}
      /\ tables' = [tables EXCEPT ![s] = table]
      /\ blocks' = [slot \in Block \X Offset |->
                      IF written(slot) = {} THEN blocks[slot]
                      ELSE e[(CHOOSE i \in written(slot) : TRUE) - start + 1]]
      /\ IF occupied = {}
         THEN /\ lengths' = [lengths EXCEPT ![s] = final]
              /\ reply' = Reply("ok", start)
         ELSE /\ reply' = Reply("AssertionError", 0)
              /\ UNCHANGED lengths

\* Room is checked first, then every entry is quantized, then the blocks are
\* popped and written.
AppendMany(s, e) ==
  LET extra == BlocksFor(lengths[s] + Len(e)) - Len(tables[s])
  IN  \/ /\ s \notin Live
         /\ Raise("KeyError")
      \/ /\ s \in Live
         /\ e = <<>>
         /\ reply' = Reply("ok", lengths[s])
         /\ UNCHANGED <<cache, checkpoints>>
      \/ /\ s \in Live
         /\ e # <<>>
         /\ extra > Cardinality(free)
         /\ Raise("KVCacheCapacityError")
      \/ /\ s \in Live
         /\ e # <<>>
         /\ extra <= Cardinality(free)
         /\ \E i \in DOMAIN e : e[i] = Bad
         /\ Raise("QuantizeError")
      \/ /\ s \in Live
         /\ e # <<>>
         /\ extra <= Cardinality(free)
         /\ \A i \in DOMAIN e : e[i] # Bad
         /\ \E popped \in LowestFree(extra) : Write(s, e, popped)
         /\ UNCHANGED checkpoints

\* Mutants of Cleared: the last slot is missed; the whole block is emptied.
ClearedButLast(s, n) ==
  LET suffix == {Slot(tables[s], i) : i \in n..lengths[s] - 2}
  IN  [slot \in Block \X Offset |->
         IF slot \in suffix THEN Null ELSE blocks[slot]]
ClearedByBlock(s, n) ==
  LET suffix == {Slot(tables[s], i) : i \in n - (n % BlockSize)..lengths[s] - 1}
  IN  [slot \in Block \X Offset |->
         IF slot \in suffix THEN Null ELSE blocks[slot]]

\* Mutant of Released: the first block that is not needed is forgotten.
ReleasedButFirst(s, n) == BlocksFor(n) + 2..Len(tables[s])

\* The mutating part of truncate: the slots of the suffix are emptied, the
\* table is cut, and the blocks cut off are pushed on the heap one by one.
Cleared(s, n) ==
  LET suffix == {Slot(tables[s], i) : i \in n..lengths[s] - 1}
  IN  [slot \in Block \X Offset |->
         IF slot \in suffix THEN Null ELSE blocks[slot]]

Released(s, n) == BlocksFor(n) + 1..Len(tables[s])

\* A released block that is not empty stops the loop: the blocks before it are
\* on the heap and the length is not updated.
Dirty(s, n) == {k \in Released(s, n) :
                  \E o \in Offset : Cleared(s, n)[<<tables[s][k], o>>] # Null}

Discard(s, n) ==
  /\ blocks' = Cleared(s, n)
  /\ free' = free \cup {tables[s][k] : k \in {j \in Released(s, n) :
                                               \A d \in Dirty(s, n) : j < d}}

Stuck(s, n) == /\ tables' = [tables EXCEPT ![s] = SubSeq(@, 1, BlocksFor(n))]
               /\ reply' = Reply("AssertionError", 0)
               /\ UNCHANGED lengths

Cut(s, n) ==
  /\ Discard(s, n)
  /\ IF Dirty(s, n) # {} THEN Stuck(s, n)
     ELSE /\ tables' = [tables EXCEPT ![s] = SubSeq(@, 1, BlocksFor(n))]
          /\ lengths' = [lengths EXCEPT ![s] = n]
          /\ reply' = Reply("ok", Cardinality(Released(s, n)))

\* History only: a cut below its length, or the end of its sequence, disturbs
\* a checkpoint.
Disturb(s, n) ==
  checkpoints' = {IF c.seq = s /\ n < c.count THEN [c EXCEPT !.intact = FALSE]
                                              ELSE c : c \in checkpoints}

Truncate(s, n) ==
  \/ /\ s \notin Live
     /\ Raise("KeyError")
  \/ /\ s \in Live
     /\ n \notin 0..lengths[s]
     /\ Raise("ValueError")
  \/ /\ s \in Live
     /\ n = lengths[s]
     /\ reply' = Reply("ok", 0)
     /\ UNCHANGED <<cache, checkpoints>>
  \/ /\ s \in Live
     /\ n \in 0..lengths[s] - 1
     /\ Cut(s, n)
     /\ Disturb(s, n)

\* A checkpoint is the sequence's name and length.  The model also records
\* what the sequence held (snapshot) and whether anything below the length was
\* discarded since (intact); no action reads these two fields.
TakeCheckpoint(s) ==
  /\ Cardinality(checkpoints) < MaxCheckpoints
  /\ \/ /\ s \notin Live
        /\ Raise("KeyError")
     \/ /\ s \in Live
        /\ checkpoints' = checkpoints \cup
             {[seq |-> s, count |-> lengths[s], snapshot |-> Contents(s),
               intact |-> TRUE]}
        /\ reply' = Reply("ok", 0)
        /\ UNCHANGED cache

Rollback(s, c) == \/ /\ c.seq # s
                     /\ Raise("ValueError")
                  \/ /\ c.seq = s
                     /\ Truncate(s, c.count)

\* remove_sequence is truncate(0) and the removal of the two entries.
RemoveSequence(s) ==
  \/ /\ s \notin Live
     /\ Raise("KeyError")
  \/ /\ s \in Live
     /\ Discard(s, 0)
     /\ IF Dirty(s, 0) # {} THEN Stuck(s, 0)
        ELSE /\ tables' = Without(tables, s)
             /\ lengths' = Without(lengths, s)
             /\ reply' = Reply("ok", Cardinality(Released(s, 0)))
     /\ Disturb(s, 0)

Next == \E s \in Seqs :
          \/ CreateSequence(s)
          \/ RemoveSequence(s)
          \/ \E e \in Entries : AppendMany(s, e)
          \/ \E n \in Counts : Truncate(s, n)
          \/ TakeCheckpoint(s)
          \/ \E c \in checkpoints : Rollback(s, c)

Spec == Init /\ [][Next]_vars
-----------------------------------------------------------------------------
(* Properties.                                                             *)

\* Every variable has its type.
TypeOK ==
  /\ blocks \in [Block \X Offset -> Tokens \cup {Null}]
  /\ free \subseteq Block
  /\ lengths \in [Live -> Nat]
  /\ Live \subseteq Seqs
  /\ tables \in [Live -> Seq(Block)]
  /\ checkpoints \subseteq [seq : Seqs, count : Nat, snapshot : Seq(Tokens),
                           intact : BOOLEAN]
  /\ reply.value \in Nat

\* No physical block belongs to two logical blocks, of one sequence or of two.
Exclusive ==
  \A s, t \in Live : \A j \in DOMAIN tables[s], k \in DOMAIN tables[t] :
    tables[s][j] = tables[t][k] => s = t /\ j = k

\* Every block is in a table or free, and never both: none leaks.
Partitioned ==
  \A b \in Block : b \in free <=> \A s \in Live : \A j \in DOMAIN tables[s] :
                                                     tables[s][j] # b

\* A table has exactly the blocks its length needs, and exactly the slots
\* below the length are filled.
Exact ==
  \A s \in Live :
    /\ Len(tables[s]) = BlocksFor(lengths[s])
    /\ \A j \in DOMAIN tables[s], o \in Offset :
         blocks[<<tables[s][j], o>>] # Null
           <=> (j - 1) * BlockSize + o < lengths[s]

\* Free blocks are empty.
FreeEmpty == \A b \in free, o \in Offset : blocks[<<b, o>>] = Null

\* What validate_invariants audits holds after every call of every sequence of
\* calls, the failed ones included: ownership of blocks is exclusive and
\* complete, tables match lengths, and a slot is filled exactly when a live
\* token is mapped to it.
ValidateInvariants == Exclusive /\ Partitioned /\ Exact /\ FreeEmpty

\* The internal assertions of append_many ("cache slot was unexpectedly
\* occupied") and truncate ("released cache block still contains live
\* entries") never fire.
NoAssertionError == reply.kind # "AssertionError"

\* A checkpoint that nothing was discarded from below still names a prefix of
\* its sequence, entry for entry, whatever other sequences did and however
\* blocks were recycled: rolling back to it restores what was checkpointed.
CheckpointRestores ==
  \A c \in checkpoints :
    c.intact /\ c.seq \in Live =>
      /\ c.count <= lengths[c.seq]
      /\ SubSeq(Contents(c.seq), 1, c.count) = c.snapshot

\* No step moves a token that stays: its physical slot and its entry are the
\* same before and after.  CudaPagedKVCacheStorage uploads only what changed and
\* relies on it.
StablePlacement ==
  [][\A s \in Live \cap Live' :
       \A i \in 0..lengths[s] - 1 :
         i < lengths'[s] => /\ Slot(tables'[s], i) = Slot(tables[s], i)
                            /\ Contents(s)'[i + 1] = Contents(s)[i + 1]]_vars

\* The paged cache is the store of token sequences that KVStore describes,
\* with the free list as its room.
Store == [s \in Live |-> Contents(s)]
Promise == INSTANCE KVStore WITH store <- Store, room <- Cardinality(free)
ImplementsStore == Promise!Spec
=============================================================================
