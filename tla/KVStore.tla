------------------------------ MODULE KVStore ------------------------------
(***************************************************************************)
(* What a caller of PagedKVCache (src/specdecode/kv_cache.py) is promised: *)
(* named sequences of cached token entries, grown and cut at the end, that *)
(* share a pool of NumBlocks blocks of BlockSize tokens.  Nothing is said  *)
(* of physical blocks: a sequence is its contents, and the pool is the     *)
(* number of blocks that the lengths alone leave unused.                   *)
(***************************************************************************)
EXTENDS Integers, Sequences

CONSTANTS Seqs,       \* identifiers a caller may use
          Tokens,     \* quantized K/V entries
          Bad,        \* an entry that the quantizer refuses
          NumBlocks, BlockSize,
          MaxAppend   \* bound: entries in one append_many call

VARIABLES store,      \* contents of every sequence that exists
          room,       \* blocks that no sequence needs
          reply       \* how the last call ended, and the number it returned

vars == <<store, room, reply>>

Live == DOMAIN store

Reply(kind, value) == [kind |-> kind, value |-> value]

\* Blocks that n tokens need: the last one may be partly filled.
BlocksFor(n) == (n + BlockSize - 1) \div BlockSize

Entries == UNION {[1..n -> Tokens \cup {Bad}] : n \in 0..MaxAppend}

\* Token counts a caller may name, one outside either end of the valid range.
Counts == -1..NumBlocks * BlockSize + 1

Put(f, s, v) == [x \in DOMAIN f \cup {s} |-> IF x = s THEN v ELSE f[x]]
Without(f, s) == [x \in DOMAIN f \ {s} |-> f[x]]

Init == /\ store = [s \in {} |-> <<>>]
        /\ room = NumBlocks
        /\ reply = Reply("ok", 0)

\* A refused call changes nothing but the reply.
Refuse(kind) == /\ reply' = Reply(kind, 0)
                /\ UNCHANGED <<store, room>>

Create(s) == \/ /\ s \in Live
                /\ Refuse("ValueError")
             \/ /\ s \notin Live
                /\ store' = Put(store, s, <<>>)
                /\ reply' = Reply("ok", 0)
                /\ UNCHANGED room

\* All the entries are stored or none is, and room is refused only when the
\* blocks that are needed exceed the blocks that are left.
AppendMany(s, e) ==
  LET start == Len(store[s])
      extra == BlocksFor(start + Len(e)) - BlocksFor(start)
  IN  \/ /\ s \notin Live
         /\ Refuse("KeyError")
      \/ /\ s \in Live
         /\ extra > room
         /\ Refuse("KVCacheCapacityError")
      \/ /\ s \in Live
         /\ extra <= room
         /\ \E i \in DOMAIN e : e[i] = Bad
         /\ Refuse("QuantizeError")
      \/ /\ s \in Live
         /\ extra <= room
         /\ \A i \in DOMAIN e : e[i] # Bad
         /\ store' = Put(store, s, store[s] \o e)
         /\ room' = room - extra
         /\ reply' = Reply("ok", start)

\* The number returned is the number of blocks that become available.
Truncate(s, n) ==
  LET released == BlocksFor(Len(store[s])) - BlocksFor(n)
  IN  \/ /\ s \notin Live
         /\ Refuse("KeyError")
      \/ /\ s \in Live
         /\ n \notin 0..Len(store[s])
         /\ Refuse("ValueError")
      \/ /\ s \in Live
         /\ n \in 0..Len(store[s])
         /\ store' = Put(store, s, SubSeq(store[s], 1, n))
         /\ room' = room + released
         /\ reply' = Reply("ok", released)

\* A checkpoint of another sequence is refused; otherwise it is a Truncate.
Rollback(s, n) == Truncate(s, n) \/ Refuse("ValueError")

Remove(s) ==
  \/ /\ s \notin Live
     /\ Refuse("KeyError")
  \/ /\ s \in Live
     /\ store' = Without(store, s)
     /\ room' = room + BlocksFor(Len(store[s]))
     /\ reply' = Reply("ok", BlocksFor(Len(store[s])))

\* A checkpoint is a value that the caller keeps; the store does not change.
Checkpoint(s) == \/ /\ s \notin Live
                    /\ Refuse("KeyError")
                 \/ /\ s \in Live
                    /\ reply' = Reply("ok", 0)
                    /\ UNCHANGED <<store, room>>

Next == \E s \in Seqs : \/ Create(s)
                        \/ Remove(s)
                        \/ Checkpoint(s)
                        \/ \E e \in Entries : AppendMany(s, e)
                        \/ \E n \in Counts : Truncate(s, n) \/ Rollback(s, n)

Spec == Init /\ [][Next]_vars
=============================================================================
