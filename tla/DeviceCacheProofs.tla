------------------------- MODULE DeviceCacheProofs -------------------------
(***************************************************************************)
(* Proofs about DeviceCache, for every geometry and set of entries: a      *)
(* caller that waits, on a device whose copies may fail, uploads what it   *)
(* means to, and every attention reads what it is meant to read.  The      *)
(* invariant looks ahead: what the queue will have made of the memory is   *)
(* the sequence of the host.                                               *)
(***************************************************************************)
EXTENDS DeviceCache, SharedTheorems

\* The callers of the repository, and the failures that the storage survives.
Careful == Waits /\ "update" \notin Faults

Name == {"upload", "stale", "table"}
Cell == (Slots \X Entries) \cup Slots \cup Block

Jobs == [at : 1..5, last : {1, 2, 5}, buffer : [Name -> Nat], size : [Name -> Nat]]
Attentions == [awaits : Nat, due : Seq(Entries), buffer : Nat]

\* The step that copies what is staged under a name.
Stop == [upload |-> 1, stale |-> 2, table |-> 3]

\* Buffers of every name, by size, each with cells of some kind, and room for them.
Filled(buffers) ==
  /\ buffers = [name \in Name |-> buffers[name]]
  /\ \A name \in Name : \A c \in DOMAIN buffers[name] :
       /\ buffers[name][c] \in Seq(Cell)
       /\ c \in Nat /\ Len(buffers[name][c]) <= c

\* Every variable has its type, in the detail that proofs need.
Typed ==
  /\ host \in Snapshots
  /\ view \in Nat
  /\ capacity \in [Name -> Nat]
  /\ memory \in [Slots -> Entries \cup {Blank, Unset}]
  /\ transfer \in Seq(Jobs)
  /\ target \in Seq(Attentions)
  /\ Filled(pinned) /\ Filled(device)

\* A buffer of a name has at least n cells.
Has(buffers, name, c, n) == c \in DOMAIN buffers[name] /\ n <= Len(buffers[name][c])

\* Only the newest job may be one that was not broken off; what a job will copy
\* has been filled, and what it has copied is on the device.
Queue ==
  \A k \in DOMAIN transfer : LET job == transfer[k] IN
    /\ job.at <= job.last
    /\ k < Len(transfer) => job.last <= 2
    /\ k > 1 => job.at = 1
    /\ \A name \in Name : job.size[name] > 0 =>
         /\ Has(pinned, name, job.buffer[name], job.size[name])
         /\ job.at > Stop[name] => Has(device, name, job.buffer[name], job.size[name])

\* The synchronization that was queued last, if it is not done.
Newest == transfer[Len(transfer)]
Pending == transfer # <<>> /\ Newest.last = 5

\* What a job has staged under a name, on the host or on the device.
Carried(job, pins, dev, name) ==
  IF job.size[name] = 0 THEN <<>>
  ELSE SubSeq(IF job.at > Stop[name] THEN dev[name][job.buffer[name]]
                                     ELSE pins[name][job.buffer[name]],
              1, job.size[name])
Staged(name) == Carried(Newest, pinned, device, name)

Cleared(mem, stale) ==
  [s \in Slots |-> IF \E i \in DOMAIN stale : stale[i] = s THEN Blank ELSE mem[s]]
Written(mem, upload) ==
  [s \in Slots |-> IF \E i \in DOMAIN upload : upload[i][1] = s
                   THEN upload[CHOOSE i \in DOMAIN upload : upload[i][1] = s][2]
                   ELSE mem[s]]

\* The memory once the queue is empty.
Ahead == IF ~Pending THEN memory
         ELSE Written(IF Newest.at <= 4 THEN Cleared(memory, Staged("stale")) ELSE memory,
                      Staged("upload"))

\* A memory holds a sequence, and no other entry.
Image(mem, x) ==
  /\ \A i \in 1..Len(x.tokens) : mem[Slot(x.table, i)] = x.tokens[i]
  /\ \A s \in Slots : mem[s] \in Entries => \E i \in 1..Len(x.tokens) : s = Slot(x.table, i)

\* A buffer on the device begins with the first m blocks of a table.
TableAt(dev, c, table, m) ==
  /\ Has(dev, "table", c, m)
  /\ \A j \in 1..m : dev["table"][c][j] = table[j]

\* What is queued makes the memory that of the host, and its table the newest.
Upcoming ==
  /\ Image(Ahead, host)
  /\ Pending => /\ Staged("upload") \in Seq(Slots \X Entries)
                /\ Staged("stale") \in Seq(Slots)
                /\ Staged("table") = host.table
                /\ host.tokens # <<>> => Newest.buffer["table"] = view
  /\ host.tokens # <<>> /\ ~(Pending /\ Newest.at <= 3) =>
       TableAt(device, view, host.table, Len(host.table))

\* A slot that the pending synchronization neither clears nor overwrites.
Untouched(s) == /\ \A i \in DOMAIN Staged("stale") : Staged("stale")[i] # s
                /\ \A i \in DOMAIN Staged("upload") : Staged("upload")[i][1] # s

\* An attention is meant to read a beginning of the sequence.  If it does not wait
\* for the pending synchronization it finds that already, and keeps it.
Served(a) ==
  /\ a.awaits <= Len(transfer)
  /\ a.due # <<>> /\ Len(a.due) <= Len(host.tokens)
  /\ \A i \in 1..Len(a.due) : a.due[i] = host.tokens[i]
  /\ Pending /\ a.awaits = Len(transfer) => a.buffer = view
  /\ ~(Pending /\ a.awaits = Len(transfer)) =>
       /\ TableAt(device, a.buffer, host.table, Active(Len(a.due)))
       /\ \A i \in 1..Len(a.due) : memory[Slot(host.table, i)] = a.due[i]
       /\ Pending => \A i \in 1..Len(a.due) : Untouched(Slot(host.table, i))

IInv == Typed /\ Queue /\ Upcoming /\ \A k \in DOMAIN target : Served(target[k])
-----------------------------------------------------------------------------
(* Tokens and blocks.                                                      *)

\* The block of a token is the last one that is needed up to this token.
LEMMA ActiveOf ==
  ASSUME NEW i \in Nat \ {0}
  PROVE  Active(i) = ((i - 1) \div BlockSize) + 1 /\ Active(i) \in Nat \ {0}
<1>. DEFINE B == BlockSize
            q == (i - 1) \div B
            r == (i - 1) % B
            m == i + B - 1
<1>1. B \in Nat \ {0} /\ i - 1 \in Nat /\ m \in Nat
  BY DeviceAssumption
<1>2. q \in Nat /\ r \in 0..B - 1 /\ i - 1 = B * q + r
  BY <1>1, DivMod
<1>3. m \div B \in Nat /\ m % B \in 0..B - 1 /\ m = B * (m \div B) + (m % B)
  BY <1>1, DivMod
<1>4. B * (m \div B) + (m % B) = B * (q + 1) + r
  <2>1. B * (q + 1) = B * q + B
    BY <1>1, <1>2
  <2>2. m = (i - 1) + B
    BY <1>1
  <2>. HIDE DEF q, r, m, B
  <2>. QED BY <2>1, <2>2, <1>1, <1>2, <1>3
<1>5. m \div B = q + 1
  <2>. HIDE DEF q, r, m, B
  <2>. q + 1 \in Nat
    BY <1>2
  <2>. QED BY <1>1, <1>2, <1>3, <1>4, DivUnique
<1>. QED BY <1>2, <1>5 DEF Active

\* Later tokens need no fewer blocks; no token needs none.
LEMMA ActiveMonotone ==
  ASSUME NEW n \in Nat, NEW i \in 1..n
  PROVE  Active(n) \in Nat /\ Active(i) \in 1..Active(n)
<1>. DEFINE B == BlockSize
<1>1. B \in Nat \ {0} /\ i - 1 \in Nat /\ n - 1 \in Nat /\ i \in Nat \ {0} /\ n \in Nat \ {0}
  BY DeviceAssumption
<1>2. /\ Active(i) = ((i - 1) \div B) + 1 /\ Active(i) \in Nat \ {0}
      /\ Active(n) = ((n - 1) \div B) + 1 /\ Active(n) \in Nat \ {0}
  BY <1>1, ActiveOf
<1>3. /\ (i - 1) \div B \in Nat /\ (i - 1) % B \in 0..B - 1
      /\ i - 1 = B * ((i - 1) \div B) + ((i - 1) % B)
      /\ (n - 1) \div B \in Nat /\ (n - 1) % B \in 0..B - 1
      /\ n - 1 = B * ((n - 1) \div B) + ((n - 1) % B)
  BY <1>1, DivMod
<1>4. B * ((i - 1) \div B) + ((i - 1) % B) <= B * ((n - 1) \div B) + ((n - 1) % B)
  <2>. i - 1 <= n - 1
    BY <1>1
  <2>. QED BY <1>3
<1>. HIDE DEF B
<1>5. (i - 1) \div B <= (n - 1) \div B
  BY <1>1, <1>3, <1>4, DivOrder
<1>. QED BY <1>2, <1>3, <1>5

LEMMA ActiveOfNone == Active(0) = 0
<1>. DEFINE B == BlockSize
            m == 0 + B - 1
<1>1. B \in Nat \ {0} /\ m \in Nat
  BY DeviceAssumption
<1>2. m \div B \in Nat /\ m % B \in 0..B - 1 /\ m = B * (m \div B) + (m % B)
  BY <1>1, DivMod
<1>3. B * (m \div B) + (m % B) = B * 0 + (B - 1)
  <2>. HIDE DEF B
  <2>. QED BY <1>1, <1>2
<1>. HIDE DEF m
<1>4. m \div B = 0
  <2>. HIDE DEF B
  <2>. B - 1 \in 0..B - 1 /\ 0 \in Nat
    BY <1>1
  <2>. QED BY <1>1, <1>2, <1>3, DivUnique
<1>. QED BY <1>4 DEF Active, m
-----------------------------------------------------------------------------
(* A sequence and its slots.                                               *)

LEMMA SnapshotType ==
  ASSUME NEW x \in Snapshots
  PROVE  /\ x.tokens \in Seq(Entries) /\ Len(x.tokens) \in Nat
         /\ x.table \in Seq(Block) /\ Len(x.table) = Active(Len(x.tokens))
         /\ Len(x.table) \in Nat
         /\ \A j, k \in 1..Len(x.table) : x.table[j] = x.table[k] => j = k
<1>1. PICK n \in 0..MaxTokens : x \in [tokens: [1..n -> Entries],
                                       table: Injection(1..Active(n), Block)]
  BY DEF Snapshots
<1>2. n \in Nat
  BY DeviceAssumption
<1>3. x.tokens \in Seq(Entries) /\ Len(x.tokens) = n
  BY <1>1, <1>2
<1>4. Active(n) \in Nat
  <2>1. CASE n = 0
    BY <2>1, ActiveOfNone
  <2>2. CASE n # 0
    BY <1>2, <2>2, ActiveOf
  <2>. QED BY <2>1, <2>2
<1>5. /\ x.table \in [1..Active(n) -> Block]
      /\ \A j, k \in 1..Active(n) : x.table[j] = x.table[k] => j = k
  BY <1>1 DEF Injection, IsInjective
<1>6. x.table \in Seq(Block) /\ Len(x.table) = Active(n)
  BY <1>4, <1>5
<1>. QED BY <1>2, <1>3, <1>4, <1>5, <1>6

\* Every token has a slot, in the block of its table.
LEMMA SlotType ==
  ASSUME NEW x \in Snapshots, NEW i \in 1..Len(x.tokens)
  PROVE  /\ Active(i) \in 1..Len(x.table)
         /\ x.table[Active(i)] \in Block
         /\ (i - 1) % BlockSize \in 0..BlockSize - 1
         /\ Slot(x.table, i) = x.table[Active(i)] * BlockSize + ((i - 1) % BlockSize)
         /\ Slot(x.table, i) \in Slots
<1>. DEFINE B == BlockSize
            b == x.table[Active(i)]
            r == (i - 1) % B
<1>1. /\ B \in Nat \ {0} /\ NumBlocks \in Nat \ {0} /\ i - 1 \in Nat
      /\ Len(x.tokens) \in Nat /\ i \in Nat \ {0}
  BY DeviceAssumption, SnapshotType
<1>2. r \in 0..B - 1
  BY <1>1, DivMod
<1>3. Active(i) = ((i - 1) \div B) + 1
  BY <1>1, ActiveOf
<1>4. Active(i) \in 1..Len(x.table)
  BY <1>1, SnapshotType, ActiveMonotone
<1>5. b \in Block
  BY <1>4, SnapshotType, ElementOfSeq
<1>6. Slot(x.table, i) = b * B + r
  BY <1>3 DEF Slot
<1>7. b * B + r \in Slots
  <2>1. b \in Nat /\ b + 1 <= NumBlocks
    BY <1>1, <1>5 DEF Block
  <2>. HIDE DEF b, r, B
  <2>2. (b + 1) * B <= NumBlocks * B
    BY <1>1, <2>1
  <2>3. (b + 1) * B = b * B + B /\ b * B \in Nat
    BY <1>1, <2>1
  <2>4. b * B + r <= NumBlocks * B - 1 /\ b * B + r \in Nat
    BY <1>1, <1>2, <2>2, <2>3
  <2>5. NumBlocks * B \in Nat
    BY <1>1
  <2>. QED BY <2>4, <2>5 DEF Slots, B
<1>. QED BY <1>2, <1>4, <1>5, <1>6, <1>7

\* No two tokens share a slot.
LEMMA SlotInjective ==
  ASSUME NEW x \in Snapshots, NEW i \in 1..Len(x.tokens), NEW j \in 1..Len(x.tokens),
         Slot(x.table, i) = Slot(x.table, j)
  PROVE  i = j
<1>. DEFINE B == BlockSize
            b(k) == x.table[Active(k)]
            r(k) == (k - 1) % B
<1>1. /\ B \in Nat \ {0} /\ i - 1 \in Nat /\ j - 1 \in Nat /\ Len(x.tokens) \in Nat
      /\ i \in Nat \ {0} /\ j \in Nat \ {0}
  BY DeviceAssumption, SnapshotType
<1>2. /\ r(i) \in 0..B - 1 /\ b(i) \in Nat /\ Slot(x.table, i) = b(i) * B + r(i)
      /\ r(j) \in 0..B - 1 /\ b(j) \in Nat /\ Slot(x.table, j) = b(j) * B + r(j)
  BY <1>1, SlotType DEF Block
<1>3. b(i) * B + r(i) = b(j) * B + r(j)
  BY <1>2
<1>4. b(i) = b(j) /\ r(i) = r(j)
  <2>1. ASSUME NEW c \in Nat, NEW d \in Nat, NEW s \in 0..B - 1, NEW t \in 0..B - 1,
               c * B + s = d * B + t
        PROVE  c = d /\ s = t
    <3>1. B * c + s = B * d + t
      <4>. HIDE DEF B
      <4>. QED BY <1>1, <2>1
    <3>. QED BY <1>1, <3>1, DivUnique
  <2>. HIDE DEF b, r, B
  <2>. QED BY <1>2, <1>3, <2>1
<1>5. Active(i) = Active(j)
  BY <1>4, SlotType, SnapshotType
<1>6. (i - 1) \div B = (j - 1) \div B
  <2>. Active(i) = ((i - 1) \div B) + 1 /\ Active(j) = ((j - 1) \div B) + 1
    BY <1>1, ActiveOf
  <2>. (i - 1) \div B \in Nat /\ (j - 1) \div B \in Nat
    BY <1>1, DivMod
  <2>. QED BY <1>5
<1>7. /\ i - 1 = B * ((i - 1) \div B) + r(i)
      /\ j - 1 = B * ((j - 1) \div B) + r(j)
  BY <1>1, DivMod
<1>. QED BY <1>1, <1>4, <1>6, <1>7

\* Every block of a table is that of some token.
LEMMA TokenOfBlock ==
  ASSUME NEW n \in Nat, NEW j \in 1..Active(n)
  PROVE  \E i \in 1..n : Active(i) = j
<1>. DEFINE B == BlockSize
            i == B * (j - 1) + 1
<1>1. B \in Nat \ {0}
  BY DeviceAssumption
<1>2. n \in Nat \ {0} /\ n - 1 \in Nat
  BY ActiveOfNone
<1>3. /\ Active(n) = ((n - 1) \div B) + 1 /\ (n - 1) \div B \in Nat
      /\ (n - 1) % B \in 0..B - 1 /\ n - 1 = B * ((n - 1) \div B) + ((n - 1) % B)
  BY <1>1, <1>2, ActiveOf, DivMod
<1>4. j - 1 \in Nat /\ j - 1 <= (n - 1) \div B
  BY <1>3
<1>5. B * (j - 1) <= n - 1 /\ B * (j - 1) \in Nat
  <2>. DEFINE d == (n - 1) \div B
              r == (n - 1) % B
              c == j - 1
  <2>1. B * c <= B * d
    <3>. HIDE DEF B, c, d
    <3>. QED BY <1>1, <1>3, <1>4 DEF c, d
  <2>2. B * c \in Nat /\ B * d \in Nat
    <3>. HIDE DEF B, c, d
    <3>. QED BY <1>1, <1>3, <1>4 DEF c, d
  <2>. HIDE DEF B, c, d, r
  <2>3. B * c <= n - 1
    BY <1>1, <1>2, <1>3, <2>1, <2>2 DEF d, r
  <2>. QED BY <2>2, <2>3 DEF c
<1>6. i \in 1..n /\ i \in Nat \ {0} /\ i - 1 = B * (j - 1)
  BY <1>2, <1>5
<1>7. Active(i) = ((i - 1) \div B) + 1
  BY <1>6, ActiveOf
<1>8. (i - 1) \div B = j - 1
  <2>1. /\ (i - 1) \div B \in Nat /\ (i - 1) % B \in 0..B - 1
        /\ i - 1 = B * ((i - 1) \div B) + ((i - 1) % B)
    BY <1>1, <1>5, <1>6, DivMod
  <2>2. B * ((i - 1) \div B) + ((i - 1) % B) = B * (j - 1) + 0
    BY <1>5, <1>6, <2>1
  <2>. QED BY <1>1, <1>4, <2>1, <2>2, DivUnique
<1>. QED BY <1>4, <1>6, <1>7, <1>8

LEMMA PlacedType ==
  ASSUME NEW x \in Snapshots
  PROVE  /\ Placed(x) \in Seq(Slots \X Entries) /\ Len(Placed(x)) = Len(x.tokens)
         /\ \A i \in 1..Len(x.tokens) : Placed(x)[i] = <<Slot(x.table, i), x.tokens[i]>>
<1>1. Len(x.tokens) \in Nat /\ \A i \in 1..Len(x.tokens) : x.tokens[i] \in Entries
  BY SnapshotType, ElementOfSeq
<1>2. \A i \in 1..Len(x.tokens) : <<Slot(x.table, i), x.tokens[i]>> \in Slots \X Entries
  BY <1>1, SlotType
<1>. QED BY <1>1, <1>2 DEF Placed

\* What is stable was placed and is placed alike.
LEMMA StableProperties ==
  ASSUME NEW old \in Snapshots, NEW new \in Snapshots
  PROVE  /\ Stable(old, new) \in Nat
         /\ Stable(old, new) <= Len(old.tokens) /\ Stable(old, new) <= Len(new.tokens)
         /\ \A i \in 1..Stable(old, new) : /\ Slot(old.table, i) = Slot(new.table, i)
                                           /\ old.tokens[i] = new.tokens[i]
<1>. DEFINE s == Placed(old)
            t == Placed(new)
            n == CommonLength(s, t)
<1>1. /\ s \in Seq(Slots \X Entries) /\ Len(s) = Len(old.tokens) /\ Len(s) \in Nat
      /\ t \in Seq(Slots \X Entries) /\ Len(t) = Len(new.tokens) /\ Len(t) \in Nat
  BY PlacedType, SnapshotType
<1>2. n \in 0..Smaller(Len(s), Len(t)) /\ SubSeq(s, 1, n) = SubSeq(t, 1, n)
  <2>. HIDE DEF s, t
  <2>. QED BY <1>1, CommonLengthProperties
<1>3. n \in 0..Len(s) /\ n \in 0..Len(t)
  <2>. HIDE DEF s, t, n
  <2>. QED BY <1>1, <1>2 DEF Smaller
<1>4. \A i \in 1..n : s[i] = t[i]
  <2>. HIDE DEF s, t, n
  <2>1. \A i \in 1..n : SubSeq(s, 1, n)[i] = s[i] /\ SubSeq(t, 1, n)[i] = t[i]
    BY <1>1, <1>3, PrefixProperties
  <2>. QED BY <1>2, <2>1
<1>5. \A i \in 1..n : /\ s[i] = <<Slot(old.table, i), old.tokens[i]>>
                      /\ t[i] = <<Slot(new.table, i), new.tokens[i]>>
  <2>. \A i \in 1..n : i \in 1..Len(old.tokens) /\ i \in 1..Len(new.tokens)
    BY <1>1, <1>3
  <2>. QED BY PlacedType
<1>6. \A i \in 1..n : Slot(old.table, i) = Slot(new.table, i) /\ old.tokens[i] = new.tokens[i]
  <2>. HIDE DEF s, t, n
  <2>. QED BY <1>4, <1>5
<1>7. n = Stable(old, new)
  BY DEF Stable
<1>. QED BY <1>1, <1>3, <1>6, <1>7

\* A finite set is listed.
LEMMA ListingProperties ==
  ASSUME NEW S, IsFiniteSet(S)
  PROVE  /\ Listing(S) \in Seq(S)
         /\ \A x : x \in S <=> \E i \in DOMAIN Listing(S) : Listing(S)[i] = x
<1>1. Cardinality(S) \in Nat
  BY FS_CardinalityType
<1>2. \E f \in [1..Cardinality(S) -> S] : \A x \in S : \E i \in 1..Cardinality(S) : f[i] = x
  <2>1. PICK f : f \in Bijection(1..Cardinality(S), S)
    BY FS_CardinalityType, FS_NatBijection DEF ExistsBijection
  <2>. QED BY <2>1 DEF Bijection, Surjection, Injection
<1>3. /\ Listing(S) \in [1..Cardinality(S) -> S]
      /\ \A x \in S : \E i \in 1..Cardinality(S) : Listing(S)[i] = x
  BY <1>2 DEF Listing
<1>. QED BY <1>1, <1>3

LEMMA SlotsFinite == IsFiniteSet(Slots)
<1>. NumBlocks * BlockSize - 1 \in Int
  BY DeviceAssumption
<1>. QED BY FS_Interval DEF Slots
-----------------------------------------------------------------------------
(* What a synchronization uploads and clears.                              *)

\* The changed suffix, the released slots and the whole table.
LEMMA SourcesType ==
  ASSUME NEW old \in Snapshots, NEW new \in Snapshots
  PROVE  LET n == Stable(old, new)
             source == Sources(old, new)
         IN  /\ source.upload \in Seq(Slots \X Entries)
             /\ Len(source.upload) = Len(new.tokens) - n
             /\ \A i \in 1..Len(new.tokens) - n :
                  source.upload[i] = <<Slot(new.table, n + i), new.tokens[n + i]>>
             /\ source.stale \in Seq(Slots)
             /\ \A s : (\E i \in DOMAIN source.stale : source.stale[i] = s)
                         <=> s \in Stale(old, new)
             /\ source.table = new.table
<1>. DEFINE n == Stable(old, new)
            p == Placed(new)
            u == SubSeq(p, n + 1, Len(p))
<1>1. n \in Nat /\ n <= Len(new.tokens) /\ Len(new.tokens) \in Nat
  BY StableProperties, SnapshotType
<1>2. /\ p \in Seq(Slots \X Entries) /\ Len(p) = Len(new.tokens)
      /\ \A i \in 1..Len(new.tokens) : p[i] = <<Slot(new.table, i), new.tokens[i]>>
  BY PlacedType
<1>3. /\ u \in Seq(Slots \X Entries) /\ Len(u) = Len(new.tokens) - n
      /\ \A i \in 1..Len(new.tokens) - n : u[i] = p[n + i]
  <2>. HIDE DEF n, p
  <2>1. \A i \in n + 1..Len(p) : p[i] \in Slots \X Entries
    BY <1>1, <1>2, ElementOfSeq
  <2>2. /\ u \in Seq(Slots \X Entries)
        /\ Len(u) = IF n + 1 <= Len(p) THEN Len(p) - (n + 1) + 1 ELSE 0
        /\ \A i \in 1..Len(p) - (n + 1) + 1 : u[i] = p[(n + 1) + i - 1]
    BY <1>1, <1>2, <2>1, SubSeqProperties
  <2>3. Len(u) = Len(new.tokens) - n
    BY <1>1, <1>2, <2>2
  <2>. HIDE DEF u
  <2>. QED BY <1>1, <1>2, <2>2, <2>3
<1>4. \A i \in 1..Len(new.tokens) - n : u[i] = <<Slot(new.table, n + i), new.tokens[n + i]>>
  <2>. \A i \in 1..Len(new.tokens) - n : n + i \in 1..Len(new.tokens)
    BY <1>1
  <2>. HIDE DEF u, p, n
  <2>. QED BY <1>1, <1>2, <1>3
<1>5. Stale(old, new) \subseteq Slots
  <2>. \A i \in n + 1..Len(old.tokens) : i \in 1..Len(old.tokens)
    BY <1>1, SnapshotType
  <2>. QED BY SlotType DEF Stale
<1>6. IsFiniteSet(Stale(old, new))
  BY <1>5, SlotsFinite, FS_Subset
<1>7. /\ Listing(Stale(old, new)) \in Seq(Slots)
      /\ \A s : (\E i \in DOMAIN Listing(Stale(old, new)) : Listing(Stale(old, new))[i] = s)
                  <=> s \in Stale(old, new)
  <2>1. Listing(Stale(old, new)) \in Seq(Stale(old, new))
    BY <1>6, ListingProperties
  <2>2. Listing(Stale(old, new)) \in Seq(Slots)
    BY <1>5, <2>1
  <2>. QED BY <1>6, <2>2, ListingProperties
<1>8. Sources(old, new) = [upload |-> u, stale |-> Listing(Stale(old, new)), table |-> new.table]
  BY DEF Sources, After
<1>. HIDE DEF u
<1>. QED BY <1>3, <1>4, <1>7, <1>8

\* The tokens behind what is stable.
Changed(old, new) == Stable(old, new) + 1..Len(new.tokens)

\* The slots of the upload are theirs; they get their entries, and no other slot is
\* written.
LEMMA UploadSlots ==
  ASSUME NEW old \in Snapshots, NEW new \in Snapshots, NEW s \in Slots
  PROVE  (\E i \in DOMAIN Sources(old, new).upload : Sources(old, new).upload[i][1] = s)
           <=> \E i \in Changed(old, new) : s = Slot(new.table, i)
<1>. DEFINE n == Stable(old, new)
            upload == Sources(old, new).upload
            m == Len(new.tokens)
<1>1. n \in Nat /\ n <= m /\ m \in Nat
  BY StableProperties, SnapshotType
<1>2. /\ upload \in Seq(Slots \X Entries) /\ Len(upload) = m - n
      /\ \A i \in 1..m - n : upload[i] = <<Slot(new.table, n + i), new.tokens[n + i]>>
  BY SourcesType
<1>3. DOMAIN upload = 1..m - n
  BY <1>2
<1>4. \A i \in n + 1..m : /\ i \in 1..m /\ i - n \in 1..m - n /\ n + (i - n) = i
  BY <1>1
<1>5. \A i \in 1..m - n : n + i \in n + 1..m
  BY <1>1
<1>. HIDE DEF n, upload, m
<1>6. ASSUME NEW i \in DOMAIN upload, upload[i][1] = s
      PROVE  \E k \in n + 1..m : s = Slot(new.table, k)
  BY <1>2, <1>3, <1>5, <1>6
<1>7. ASSUME NEW i \in n + 1..m, s = Slot(new.table, i)
      PROVE  \E k \in DOMAIN upload : upload[k][1] = s
  <2>1. upload[i - n] = <<Slot(new.table, i), new.tokens[i]>> /\ i - n \in DOMAIN upload
    BY <1>2, <1>3, <1>4
  <2>. QED BY <1>7, <2>1
<1>. QED BY <1>6, <1>7 DEF n, upload, m, Changed

LEMMA UploadedSlot ==
  ASSUME NEW old \in Snapshots, NEW new \in Snapshots, NEW mem, NEW i \in Changed(old, new)
  PROVE  Written(mem, Sources(old, new).upload)[Slot(new.table, i)] = new.tokens[i]
<1>. DEFINE n == Stable(old, new)
            upload == Sources(old, new).upload
            m == Len(new.tokens)
            s == Slot(new.table, i)
            k == CHOOSE j \in DOMAIN upload : upload[j][1] = s
<1>1. /\ n \in Nat /\ n <= m /\ m \in Nat /\ i \in 1..m
      /\ \A j \in 1..m - n : n + j \in 1..m
  BY StableProperties, SnapshotType DEF Changed
<1>2. /\ upload \in Seq(Slots \X Entries) /\ Len(upload) = m - n /\ DOMAIN upload = 1..m - n
      /\ \A j \in 1..m - n : upload[j] = <<Slot(new.table, n + j), new.tokens[n + j]>>
  BY SourcesType
<1>3. s \in Slots
  BY <1>1, SlotType
<1>4. k \in DOMAIN upload /\ upload[k][1] = s
  BY <1>3, UploadSlots
<1>5. Written(mem, upload)[s] = upload[k][2]
  BY <1>3, <1>4 DEF Written
<1>. HIDE DEF n, upload, m, k
<1>6. Slot(new.table, n + k) = s /\ n + k \in 1..m /\ upload[k][2] = new.tokens[n + k]
  BY <1>1, <1>2, <1>4
<1>7. n + k = i
  BY <1>1, <1>6, SlotInjective DEF m
<1>. QED BY <1>5, <1>6, <1>7 DEF upload

LEMMA UploadedElsewhere ==
  ASSUME NEW old \in Snapshots, NEW new \in Snapshots, NEW mem, NEW s \in Slots,
         \A i \in Changed(old, new) : s # Slot(new.table, i)
  PROVE  Written(mem, Sources(old, new).upload)[s] = mem[s]
BY UploadSlots DEF Written

\* The slots of what is stable are neither cleared nor overwritten.
LEMMA StableUntouched ==
  ASSUME NEW old \in Snapshots, NEW new \in Snapshots, NEW i \in 1..Stable(old, new)
  PROVE  /\ Slot(new.table, i) \notin Stale(old, new)
         /\ \A k \in Stable(old, new) + 1..Len(new.tokens) : Slot(new.table, i) # Slot(new.table, k)
<1>. DEFINE n == Stable(old, new)
<1>1. /\ n \in Nat /\ n <= Len(old.tokens) /\ n <= Len(new.tokens)
      /\ Slot(old.table, i) = Slot(new.table, i)
  BY StableProperties
<1>2. /\ Len(old.tokens) \in Nat /\ Len(new.tokens) \in Nat
      /\ i \in 1..Len(old.tokens) /\ i \in 1..Len(new.tokens)
  BY <1>1, SnapshotType
<1>3. /\ \A k \in n + 1..Len(old.tokens) : k \in 1..Len(old.tokens) /\ k # i
      /\ \A k \in n + 1..Len(new.tokens) : k \in 1..Len(new.tokens) /\ k # i
  BY <1>1, <1>2
<1>4. \A k \in n + 1..Len(old.tokens) : Slot(old.table, i) # Slot(old.table, k)
  BY <1>2, <1>3, SlotInjective
<1>5. \A k \in n + 1..Len(new.tokens) : Slot(new.table, i) # Slot(new.table, k)
  BY <1>2, <1>3, SlotInjective
<1>. QED BY <1>1, <1>4, <1>5 DEF Stale

\* A memory that held the old sequence holds the new one once the released slots
\* are cleared and the changed suffix is written.
LEMMA UploadMakesImage ==
  ASSUME NEW old \in Snapshots, NEW new \in Snapshots, NEW mem, Image(mem, old)
  PROVE  Image(Written(Cleared(mem, Sources(old, new).stale), Sources(old, new).upload), new)
<1>. DEFINE n == Stable(old, new)
            m == Len(new.tokens)
            clean == Cleared(mem, Sources(old, new).stale)
            result == Written(clean, Sources(old, new).upload)
            behind(s) == \E i \in n + 1..m : s = Slot(new.table, i)
<1>1. /\ n \in Nat /\ n <= m /\ m \in Nat /\ n <= Len(old.tokens) /\ Len(old.tokens) \in Nat
      /\ \A i \in 1..n : Slot(old.table, i) = Slot(new.table, i) /\ old.tokens[i] = new.tokens[i]
  BY StableProperties, SnapshotType
<1>2. \A s \in Slots : clean[s] = IF s \in Stale(old, new) THEN Blank ELSE mem[s]
  BY SourcesType DEF Cleared
<1>3. /\ \A i \in n + 1..m : result[Slot(new.table, i)] = new.tokens[i]
      /\ \A s \in Slots : ~behind(s) => result[s] = clean[s]
  <2>. HIDE DEF clean
  <2>1. ASSUME NEW c, NEW i \in Changed(old, new)
        PROVE  Written(c, Sources(old, new).upload)[Slot(new.table, i)] = new.tokens[i]
    BY UploadedSlot
  <2>2. ASSUME NEW c, NEW s \in Slots, \A i \in Changed(old, new) : s # Slot(new.table, i)
        PROVE  Written(c, Sources(old, new).upload)[s] = c[s]
    BY <2>2, UploadedElsewhere
  <2>. QED BY <2>1, <2>2 DEF Changed
<1>. HIDE DEF clean, result
<1>4. ASSUME NEW i \in 1..m
      PROVE  result[Slot(new.table, i)] = new.tokens[i]
  <2>1. CASE i \in n + 1..m
    BY <1>3, <2>1
  <2>2. CASE i \in 1..n
    <3>1. /\ Slot(new.table, i) \in Slots
          /\ ~behind(Slot(new.table, i)) /\ Slot(new.table, i) \notin Stale(old, new)
      BY <2>2, SlotType, StableUntouched
    <3>2. result[Slot(new.table, i)] = mem[Slot(new.table, i)]
      BY <1>2, <1>3, <3>1
    <3>3. mem[Slot(old.table, i)] = old.tokens[i]
      <4>. i \in 1..Len(old.tokens)
        BY <1>1, <2>2
      <4>. QED BY DEF Image
    <3>. QED BY <1>1, <2>2, <3>2, <3>3
  <2>. QED BY <1>1, <2>1, <2>2
<1>5. ASSUME NEW s \in Slots, result[s] \in Entries, ~behind(s)
      PROVE  \E i \in 1..m : s = Slot(new.table, i)
  <2>1. s \notin Stale(old, new) /\ mem[s] \in Entries
    BY <1>2, <1>3, <1>5, DeviceAssumption
  <2>2. PICK i \in 1..Len(old.tokens) : s = Slot(old.table, i)
    BY <2>1 DEF Image
  <2>3. CASE i \in 1..n
    BY <1>1, <2>2, <2>3
  <2>4. CASE i \in n + 1..Len(old.tokens)
    BY <1>5, <2>1, <2>2, <2>4 DEF Stale
  <2>. QED BY <1>1, <2>3, <2>4
<1>6. \A s \in Slots : result[s] \in Entries => \E i \in 1..m : s = Slot(new.table, i)
  <2>. \A i \in n + 1..m : i \in 1..m
    BY <1>1
  <2>. QED BY <1>5
<1>. QED BY <1>4, <1>6 DEF Image, clean, result
-----------------------------------------------------------------------------
(* Buffers.                                                                *)

\* No buffer is lost or gets shorter.
Grown(old, new) ==
  \A name \in Name : \A c \in DOMAIN old[name] :
    c \in DOMAIN new[name] /\ Len(old[name][c]) <= Len(new[name][c])

LEMMA HasGrown ==
  ASSUME NEW old, NEW new, Filled(old), Filled(new), Grown(old, new),
         NEW name \in Name, NEW c, NEW n \in Nat, Has(old, name, c, n)
  PROVE  Has(new, name, c, n)
<1>1. c \in DOMAIN old[name] /\ n <= Len(old[name][c])
  BY DEF Has
<1>2. c \in DOMAIN new[name] /\ Len(old[name][c]) <= Len(new[name][c])
  BY <1>1 DEF Grown
<1>3. Len(old[name][c]) \in Nat /\ Len(new[name][c]) \in Nat
  BY <1>1, <1>2, LenProperties DEF Filled
<1>. QED BY <1>1, <1>2, <1>3 DEF Has

\* What is kept is as it was; all of it is while something is queued.
LEMMA KeptProperties ==
  ASSUME NEW pins, Filled(pins)
  PROVE  Filled(Kept(pins)) /\ (transfer' # <<>> => Kept(pins) = pins)
BY DEF Kept, Filled

LEMMA KeptOnDeviceProperties ==
  ASSUME NEW dev, Filled(dev)
  PROVE  /\ Filled(KeptOnDevice(dev)) /\ (transfer' # <<>> => KeptOnDevice(dev) = dev)
         /\ \A c, table, m :
              /\ TableAt(dev, c, table, m)
              /\ c = view \/ \E k \in DOMAIN target : c = target[k].buffer
              => TableAt(KeptOnDevice(dev), c, table, m)
<1>1. Filled(KeptOnDevice(dev)) /\ (transfer' # <<>> => KeptOnDevice(dev) = dev)
  BY DEF KeptOnDevice, Filled
<1>2. ASSUME NEW c, NEW table, NEW m, TableAt(dev, c, table, m),
             c = view \/ \E k \in DOMAIN target : c = target[k].buffer
      PROVE  TableAt(KeptOnDevice(dev), c, table, m)
  <2>1. c \in DOMAIN dev["table"] /\ DOMAIN dev = Name
    BY <1>2 DEF TableAt, Has, Filled
  <2>2. /\ c \in DOMAIN KeptOnDevice(dev)["table"]
        /\ KeptOnDevice(dev)["table"][c] = dev["table"][c]
    BY <1>2, <2>1 DEF KeptOnDevice, Name
  <2>. QED BY <1>2, <2>2 DEF TableAt, Has
<1>. QED BY <1>1, <1>2
-----------------------------------------------------------------------------
(* The queue of the transfer stream.                                       *)

\* Only the only job can be one that was not broken off while it is under way.
LEMMA QueueShape ==
  ASSUME Typed, Queue, transfer # <<>>
  PROVE  /\ Len(transfer) \in Nat \ {0}
         /\ Job \in Jobs /\ Job = transfer[1] /\ Newest \in Jobs
         /\ Job.at <= Job.last
         /\ Len(transfer) = 1 => Newest = Job
         /\ Len(transfer) # 1 => Job.last <= 2 /\ Newest.at = 1
         /\ Job.last <= 2 \/ (Len(transfer) = 1 /\ Pending /\ Newest = Job)
<1>1. transfer \in Seq(Jobs) /\ Len(transfer) \in Nat \ {0} /\ DOMAIN transfer = 1..Len(transfer)
  BY LenProperties, EmptySeq DEF Typed
<1>2. Job = transfer[1] /\ transfer[1] \in Jobs /\ Newest \in Jobs
  BY <1>1, HeadTailProperties, ElementOfSeq DEF Job, Newest
<1>3. \A k \in 1..Len(transfer) : /\ transfer[k].at <= transfer[k].last
                                  /\ k < Len(transfer) => transfer[k].last <= 2
                                  /\ k > 1 => transfer[k].at = 1
  BY <1>1 DEF Queue
<1>4. transfer[1].last \in {1, 2, 5}
  BY <1>2 DEF Jobs
<1>. QED BY <1>1, <1>2, <1>3, <1>4 DEF Newest, Pending

LEMMA JobProceeds ==
  ASSUME NEW job \in Jobs, job.at < job.last
  PROVE  /\ [job EXCEPT !.at = job.at + 1] \in Jobs
         /\ [job EXCEPT !.at = job.at + 1].at = job.at + 1
         /\ [job EXCEPT !.at = job.at + 1].last = job.last
         /\ [job EXCEPT !.at = job.at + 1].size = job.size
         /\ [job EXCEPT !.at = job.at + 1].buffer = job.buffer
<1>1. job.at + 1 \in 1..5
  <2>. job.at \in 1..5 /\ job.last \in {1, 2, 5}
    BY DEF Jobs
  <2>. QED OBVIOUS
<1>. QED BY <1>1 DEF Jobs

\* The head takes a step and the others stay, or the others move up.
LEMMA ProceedProperties ==
  ASSUME Typed, Queue, transfer # <<>>, Proceed
  PROVE  /\ transfer' \in Seq(Jobs) /\ target' \in Seq(Attentions)
         /\ Len(target') = Len(target)
         /\ \A k \in 1..Len(target) : target'[k].due = target[k].due
                                     /\ target'[k].buffer = target[k].buffer
         /\ Job.at < Job.last =>
              /\ target' = target /\ Len(transfer') = Len(transfer)
              /\ transfer'[1] = [Job EXCEPT !.at = Job.at + 1]
              /\ \A k \in 2..Len(transfer) : transfer'[k] = transfer[k]
         /\ ~(Job.at < Job.last) =>
              /\ Len(transfer') = Len(transfer) - 1
              /\ \A k \in 1..Len(transfer') : transfer'[k] = transfer[k + 1]
              /\ \A k \in 1..Len(target) :
                   target'[k].awaits = IF target[k].awaits = 0 THEN 0 ELSE target[k].awaits - 1
<1>. DEFINE rest == Tail(transfer)
            n == Len(transfer)
<1>1. /\ n \in Nat \ {0} /\ Job \in Jobs /\ Job.at <= Job.last /\ transfer \in Seq(Jobs)
      /\ target \in Seq(Attentions) /\ Len(target) \in Nat /\ DOMAIN target = 1..Len(target)
  BY QueueShape, LenProperties DEF Typed
<1>2. rest \in Seq(Jobs) /\ Len(rest) = n - 1 /\ \A k \in 1..n - 1 : rest[k] = transfer[k + 1]
  BY <1>1, HeadTailProperties
<1>3. CASE Job.at < Job.last
  <2>. DEFINE moved == [Job EXCEPT !.at = Job.at + 1]
  <2>1. moved \in Jobs
    BY <1>1, <1>3, JobProceeds
  <2>2. transfer' = <<moved>> \o rest /\ target' = target
    BY <1>3 DEF Proceed
  <2>. HIDE DEF moved
  <2>3. <<moved>> \in Seq(Jobs) /\ Len(<<moved>>) = 1 /\ <<moved>>[1] = moved
    BY <2>1
  <2>. HIDE DEF rest, n
  <2>4. /\ transfer' \in Seq(Jobs) /\ Len(transfer') = 1 + (n - 1)
        /\ \A k \in 1..1 + (n - 1) : transfer'[k] = IF k <= 1 THEN <<moved>>[k] ELSE rest[k - 1]
    BY <1>1, <1>2, <2>2, <2>3, ConcatProperties
  <2>5. /\ Len(transfer') = n /\ transfer'[1] = moved
        /\ \A k \in 2..n : transfer'[k] = transfer[k]
    <3>1. n \in Nat \ {0}
      BY <1>1 DEF n
    <3>2. Len(transfer') = n /\ transfer'[1] = moved
      BY <2>3, <2>4, <3>1
    <3>3. ASSUME NEW k \in 2..n
          PROVE  transfer'[k] = transfer[k]
      <4>1. k \in 1..1 + (n - 1) /\ ~(k <= 1) /\ k - 1 \in 1..n - 1 /\ (k - 1) + 1 = k
        BY <3>1
      <4>. QED BY <1>2, <2>4, <4>1
    <3>. QED BY <3>2, <3>3
  <2>. QED BY <1>1, <1>3, <2>2, <2>4, <2>5 DEF moved, n
<1>4. CASE ~(Job.at < Job.last)
  <2>. DEFINE less(k) == [target[k] EXCEPT !.awaits = IF target[k].awaits = 0 THEN 0
                                                      ELSE target[k].awaits - 1]
  <2>1. transfer' = rest /\ target' = [k \in 1..Len(target) |-> less(k)]
    BY <1>1, <1>4 DEF Proceed
  <2>2. ASSUME NEW k \in 1..Len(target)
        PROVE  /\ less(k) \in Attentions /\ less(k).due = target[k].due
               /\ less(k).buffer = target[k].buffer
               /\ less(k).awaits = IF target[k].awaits = 0 THEN 0 ELSE target[k].awaits - 1
    <3>. target[k] \in Attentions
      BY <1>1, ElementOfSeq
    <3>. QED BY DEF Attentions
  <2>. HIDE DEF less
  <2>3. target' \in Seq(Attentions) /\ Len(target') = Len(target)
    BY <1>1, <2>1, <2>2
  <2>. HIDE DEF rest
  <2>. QED BY <1>1, <1>2, <1>4, <2>1, <2>2, <2>3
<1>. QED BY <1>3, <1>4

\* Attentions wait for the newest job until it is done, and for no later one.
LEMMA AwaitsProceed ==
  ASSUME Typed, Queue, transfer # <<>>, Proceed, NEW k \in 1..Len(target),
         target[k].awaits <= Len(transfer)
  PROVE  /\ target'[k].awaits <= Len(transfer')
         /\ transfer' # <<>> =>
              (target'[k].awaits = Len(transfer') <=> target[k].awaits = Len(transfer))
<1>1. target[k] \in Attentions /\ target[k].awaits \in Nat
  <2>. target[k] \in Attentions
    BY ElementOfSeq DEF Typed
  <2>. QED BY DEF Attentions
<1>2. Len(transfer) \in Nat \ {0} /\ Job.at <= Job.last
  BY QueueShape
<1>3. /\ transfer' \in Seq(Jobs)
      /\ Job.at < Job.last => target' = target /\ Len(transfer') = Len(transfer)
      /\ ~(Job.at < Job.last) =>
           /\ Len(transfer') = Len(transfer) - 1
           /\ target'[k].awaits = IF target[k].awaits = 0 THEN 0 ELSE target[k].awaits - 1
  BY ProceedProperties
<1>4. transfer' # <<>> => Len(transfer') # 0
  BY <1>3, EmptySeq
<1>. QED BY <1>1, <1>2, <1>3, <1>4

\* What a step copies, if it copies something, is what the device needs of it.
LEMMA QueueProceeds ==
  ASSUME Typed, Queue, transfer # <<>>, Proceed, Filled(pinned)', Filled(device)',
         transfer' # <<>> => pinned' = pinned /\ Grown(device, device'),
         \A name \in Name : Stop[name] = Job.at /\ Job.size[name] > 0 /\ transfer' # <<>>
           => Has(device', name, Job.buffer[name], Job.size[name])
  PROVE  Queue'
<1>1. /\ Len(transfer) \in Nat \ {0} /\ Job \in Jobs /\ Job = transfer[1] /\ Job.at <= Job.last
      /\ transfer \in Seq(Jobs) /\ DOMAIN transfer = 1..Len(transfer)
  BY QueueShape, LenProperties DEF Typed
<1>2. transfer' \in Seq(Jobs) /\ DOMAIN transfer' = 1..Len(transfer') /\ Len(transfer') \in Nat
  BY ProceedProperties, LenProperties
<1>. SUFFICES ASSUME NEW k \in 1..Len(transfer')
              PROVE  LET job == transfer'[k] IN
                     /\ job.at <= job.last
                     /\ k < Len(transfer') => job.last <= 2
                     /\ k > 1 => job.at = 1
                     /\ \A name \in Name : job.size[name] > 0 =>
                          /\ Has(pinned', name, job.buffer[name], job.size[name])
                          /\ job.at > Stop[name] =>
                               Has(device', name, job.buffer[name], job.size[name])
  BY <1>2 DEF Queue, Has
<1>3. transfer' # <<>> /\ pinned' = pinned /\ Grown(device, device')
  BY <1>2, EmptySeq
<1>4. \A j \in 1..Len(transfer) : LET job == transfer[j] IN
        /\ job.at <= job.last
        /\ j < Len(transfer) => job.last <= 2
        /\ j > 1 => job.at = 1
        /\ \A name \in Name : job.size[name] > 0 =>
             /\ Has(pinned', name, job.buffer[name], job.size[name])
             /\ job.at > Stop[name] => Has(device', name, job.buffer[name], job.size[name])
  <2>1. \A j \in 1..Len(transfer) : \A name \in Name : transfer[j].size[name] \in Nat
    <3>. \A j \in 1..Len(transfer) : transfer[j] \in Jobs
      BY <1>1, ElementOfSeq
    <3>. QED BY DEF Jobs
  <2>2. Filled(device) /\ Filled(device')
    BY DEF Typed, Filled
  <2>. QED BY <1>1, <1>3, <2>1, <2>2, HasGrown DEF Queue
<1>5. CASE ~(Job.at < Job.last)
  <2>. Len(transfer') = Len(transfer) - 1 /\ transfer'[k] = transfer[k + 1]
    BY <1>5, ProceedProperties
  <2>. k + 1 \in 1..Len(transfer)
    BY <1>1, <1>2
  <2>. QED BY <1>1, <1>2, <1>4
<1>6. CASE Job.at < Job.last /\ k # 1
  <2>. Len(transfer') = Len(transfer) /\ transfer'[k] = transfer[k] /\ k \in 1..Len(transfer)
    <3>1. /\ Len(transfer') = Len(transfer)
          /\ \A j \in 2..Len(transfer) : transfer'[j] = transfer[j]
      BY <1>6, ProceedProperties
    <3>. QED BY <1>1, <1>2, <1>6, <3>1
  <2>. QED BY <1>4
<1>7. CASE Job.at < Job.last /\ k = 1
  <2>1. /\ Len(transfer') = Len(transfer) /\ transfer'[1] = [Job EXCEPT !.at = Job.at + 1]
    BY <1>7, ProceedProperties
  <2>2. /\ transfer'[1].at = Job.at + 1 /\ transfer'[1].last = Job.last
        /\ transfer'[1].size = Job.size /\ transfer'[1].buffer = Job.buffer
        /\ Job.at \in 1..5 /\ Job.last \in {1, 2, 5}
    BY <1>1, <2>1 DEF Jobs
  <2>3. \A name \in Name : Stop[name] \in 1..3
    BY DEF Stop, Name
  <2>4. \A name \in Name : Job.at + 1 > Stop[name] => Stop[name] = Job.at \/ Job.at > Stop[name]
    BY <2>2, <2>3
  <2>. QED BY <1>1, <1>3, <1>4, <1>7, <2>1, <2>2, <2>4
<1>. QED BY <1>5, <1>6, <1>7
-----------------------------------------------------------------------------
(* Copies.                                                                 *)

\* The device's buffers once the job's part of a pinned buffer is copied.
Part(name) == SubSeq(pinned[name][Job.buffer[name]], 1, Job.size[name])
Moved(name) == [device EXCEPT ![name] = IF Job.size[name] = 0 THEN @
                                        ELSE Overlay(@, Job.buffer[name], Part(name))]

\* What a job will copy is what was filled for it.
LEMMA PartProperties ==
  ASSUME Typed, Queue, transfer # <<>>, NEW name \in Name, Job.size[name] > 0
  PROVE  /\ Job.size[name] \in Nat /\ Job.buffer[name] \in DOMAIN pinned[name]
         /\ Part(name) \in Seq(Cell) /\ Len(Part(name)) = Job.size[name]
<1>1. Job \in Jobs /\ Job = transfer[1] /\ 1 \in DOMAIN transfer
  BY QueueShape, LenProperties DEF Typed
<1>2. Job.size[name] \in Nat /\ Job.buffer[name] \in Nat
  BY <1>1 DEF Jobs
<1>3. Has(pinned, name, Job.buffer[name], Job.size[name])
  BY <1>1 DEF Queue
<1>4. /\ Job.buffer[name] \in DOMAIN pinned[name]
      /\ Job.size[name] <= Len(pinned[name][Job.buffer[name]])
  BY <1>3 DEF Has
<1>5. pinned[name][Job.buffer[name]] \in Seq(Cell) /\ Len(pinned[name][Job.buffer[name]]) \in Nat
  BY <1>4, LenProperties DEF Typed, Filled
<1>6. Job.size[name] \in 0..Len(pinned[name][Job.buffer[name]])
  BY <1>2, <1>4, <1>5
<1>7. /\ SubSeq(pinned[name][Job.buffer[name]], 1, Job.size[name]) \in Seq(Cell)
      /\ Len(SubSeq(pinned[name][Job.buffer[name]], 1, Job.size[name])) = Job.size[name]
  BY <1>5, <1>6, PrefixProperties
<1>. QED BY <1>2, <1>4, <1>7 DEF Part

LEMMA MovedProperties ==
  ASSUME Typed, Queue, transfer # <<>>, NEW name \in Name
  PROVE  /\ Filled(Moved(name)) /\ Grown(device, Moved(name))
         /\ \A other \in Name : other # name => Moved(name)[other] = device[other]
         /\ \A c \in DOMAIN device[name] : c # Job.buffer[name] \/ Job.size[name] = 0 =>
              c \in DOMAIN Moved(name)[name] /\ Moved(name)[name][c] = device[name][c]
         /\ Job.size[name] > 0 =>
              /\ Has(Moved(name), name, Job.buffer[name], Job.size[name])
              /\ SubSeq(Moved(name)[name][Job.buffer[name]], 1, Job.size[name]) = Part(name)
              /\ \A i \in 1..Job.size[name] :
                   Moved(name)[name][Job.buffer[name]][i] = Part(name)[i]
<1>1. DOMAIN device = Name /\ \A n \in Name : \A c \in DOMAIN device[n] : device[n][c] \in Seq(Cell)
  BY DEF Typed, Filled
<1>2. Job.size[name] \in Nat
  <2>. Job \in Jobs
    BY QueueShape
  <2>. QED BY DEF Jobs
<1>3. Filled(device)
  BY DEF Typed
<1>4. \A n \in Name : \A c \in DOMAIN device[n] : Len(device[n][c]) \in Nat
  BY <1>1, LenProperties
<1>5. CASE Job.size[name] = 0
  <2>. Moved(name) = device
    BY <1>1, <1>3, <1>5 DEF Moved, Filled
  <2>. QED BY <1>3, <1>4, <1>5 DEF Grown
<1>6. CASE Job.size[name] > 0
  <2>. DEFINE c == Job.buffer[name]
              over == Overlay(device[name], c, Part(name))
  <2>1. Part(name) \in Seq(Cell) /\ Len(Part(name)) = Job.size[name]
    BY <1>6, PartProperties
  <2>2. Overlaid(Cell, device[name], c, Part(name), over)
    <3>. HIDE DEF c
    <3>. QED BY <1>1, <2>1, OverlayProperties
  <2>3. Moved(name) = [device EXCEPT ![name] = over]
    <3>. Job.size[name] # 0
      BY <1>6
    <3>. QED BY DEF Moved
  <2>. HIDE DEF over, c
  <2>4. /\ DOMAIN Moved(name) = Name /\ Moved(name)[name] = over
        /\ \A other \in Name : other # name => Moved(name)[other] = device[other]
        /\ Moved(name) = [n \in Name |-> Moved(name)[n]]
    BY <1>1, <2>3
  <2>5. Filled(Moved(name))
    <3>1. c \in Nat /\ Len(Part(name)) <= c
      <4>1. Has(pinned, name, c, Job.size[name])
        <5>. Job = transfer[1] /\ 1 \in DOMAIN transfer
          BY QueueShape, LenProperties DEF Typed
        <5>. QED BY <1>6 DEF Queue, c
      <4>2. /\ c \in Nat /\ Len(pinned[name][c]) <= c /\ Job.size[name] <= Len(pinned[name][c])
            /\ Len(pinned[name][c]) \in Nat
        BY <4>1, LenProperties DEF Typed, Filled, Has
      <4>. QED BY <1>2, <2>1, <4>2
    <3>2. ASSUME NEW d \in DOMAIN over
          PROVE  over[d] \in Seq(Cell) /\ d \in Nat /\ Len(over[d]) <= d
      <4>1. CASE d = c
        BY <1>3, <2>2, <3>1, <4>1 DEF Filled, Overlaid
      <4>2. CASE d # c
        BY <1>3, <2>2, <4>2 DEF Filled, Overlaid
      <4>. QED BY <4>1, <4>2
    <3>. QED BY <1>3, <2>4, <3>2 DEF Filled
  <2>6. Grown(device, Moved(name))
    BY <1>4, <2>2, <2>4 DEF Grown, Overlaid
  <2>7. Has(Moved(name), name, c, Job.size[name])
    BY <2>1, <2>2, <2>4 DEF Has, Overlaid
  <2>. QED BY <1>6, <2>1, <2>2, <2>4, <2>5, <2>6, <2>7 DEF c, Overlaid
<1>. QED BY <1>2, <1>5, <1>6

\* A copy keeps the types and the shape of the queue.
LEMMA CopyKeepsQueue ==
  ASSUME Typed, Queue, NEW name \in Name, CopyToDevice(Stop[name], name)
  PROVE  Typed' /\ Queue' /\ (transfer' # <<>> => pinned' = pinned /\ device' = Moved(name))
<1>1. /\ transfer # <<>> /\ Proceed /\ Job.at = Stop[name] /\ pinned' = Kept(pinned)
      /\ device' = KeptOnDevice(Moved(name)) /\ UNCHANGED <<host, view, capacity, memory>>
  BY DEF CopyToDevice, Moved, Part
<1>2. /\ Filled(Moved(name)) /\ Grown(device, Moved(name))
      /\ Job.size[name] > 0 => Has(Moved(name), name, Job.buffer[name], Job.size[name])
  BY <1>1, MovedProperties
<1>3. /\ Filled(pinned)' /\ Filled(device)'
      /\ transfer' # <<>> => pinned' = pinned /\ device' = Moved(name)
  <2>1. Filled(Kept(pinned)) /\ (transfer' # <<>> => Kept(pinned) = pinned)
    BY KeptProperties DEF Typed
  <2>2. /\ Filled(KeptOnDevice(Moved(name)))
        /\ transfer' # <<>> => KeptOnDevice(Moved(name)) = Moved(name)
    BY <1>2, KeptOnDeviceProperties
  <2>. QED BY <1>1, <2>1, <2>2 DEF Filled
<1>4. Typed'
  BY <1>1, <1>3, ProceedProperties DEF Typed
<1>5. Queue'
  <2>. \A other \in Name : Stop[other] = Job.at => other = name
    BY <1>1 DEF Stop, Name
  <2>. QED BY <1>1, <1>2, <1>3, QueueProceeds
<1>. QED BY <1>3, <1>4, <1>5
-----------------------------------------------------------------------------
(* Steps of jobs that were broken off.                                     *)

\* They leave the synchronization that is pending as it is.
LEMMA BrokenOffLeavesNewest ==
  ASSUME Typed, Queue, transfer # <<>>, Proceed, Job.last <= 2,
         transfer' # <<>> => pinned' = pinned
  PROVE  /\ Pending' <=> Pending
         /\ Pending => Newest' = Newest /\ Newest.at = 1 /\ Newest'.at = 1 /\ pinned' = pinned
<1>1. /\ Len(transfer) \in Nat \ {0} /\ Job.at <= Job.last
      /\ Len(transfer) = 1 => Newest = Job
      /\ Len(transfer) # 1 => Newest.at = 1
  BY QueueShape
<1>2. transfer' \in Seq(Jobs) /\ Len(transfer') \in Nat
  BY ProceedProperties, LenProperties
<1>3. CASE Len(transfer) = 1
  <2>1. ~Pending
    BY <1>1, <1>3 DEF Pending
  <2>2. CASE Job.at < Job.last
    <3>1. Len(transfer') = 1 /\ transfer'[1] = [Job EXCEPT !.at = Job.at + 1]
      BY <1>3, <2>2, ProceedProperties
    <3>2. transfer'[1].last = Job.last
      BY <2>2, <3>1, QueueShape, JobProceeds
    <3>. QED BY <2>1, <3>1, <3>2 DEF Pending, Newest
  <2>3. CASE ~(Job.at < Job.last)
    <3>1. Len(transfer') = 0
      BY <1>3, <2>3, ProceedProperties
    <3>. QED BY <1>2, <2>1, <3>1, EmptySeq DEF Pending
  <2>. QED BY <2>2, <2>3
<1>4. CASE Len(transfer) # 1
  <2>1. transfer' # <<>> /\ transfer'[Len(transfer')] = transfer[Len(transfer)]
    <3>1. CASE Job.at < Job.last
      <4>1. /\ Len(transfer') = Len(transfer)
            /\ \A k \in 2..Len(transfer) : transfer'[k] = transfer[k]
        BY <3>1, ProceedProperties
      <4>. QED BY <1>1, <1>2, <1>4, <4>1
    <3>2. CASE ~(Job.at < Job.last)
      <4>1. /\ Len(transfer') = Len(transfer) - 1
            /\ \A k \in 1..Len(transfer') : transfer'[k] = transfer[k + 1]
        BY <3>2, ProceedProperties
      <4>. QED BY <1>1, <1>2, <1>4, <4>1
    <3>. QED BY <3>1, <3>2
  <2>. QED BY <1>1, <1>4, <2>1 DEF Pending, Newest
<1>. QED BY <1>3, <1>4

LEMMA BrokenOffCopy ==
  ASSUME IInv, NEW name \in Name, CopyToDevice(Stop[name], name), Job.last <= 2
  PROVE  IInv'
<1>1. /\ transfer # <<>> /\ Proceed /\ Job.at = Stop[name] /\ Job.at <= Job.last
      /\ device' = KeptOnDevice(Moved(name)) /\ UNCHANGED <<host, view, capacity, memory>>
  BY QueueShape DEF CopyToDevice, Moved, Part, IInv
<1>2. Typed' /\ Queue' /\ (transfer' # <<>> => pinned' = pinned /\ device' = Moved(name))
  BY CopyKeepsQueue DEF IInv
<1>3. /\ Pending' <=> Pending
      /\ Pending => Newest' = Newest /\ Newest.at = 1 /\ Newest'.at = 1 /\ pinned' = pinned
  BY <1>1, <1>2, BrokenOffLeavesNewest DEF IInv
<1>4. Pending => \A n \in Name : Staged(n)' = Staged(n)
  <2>. \A n \in Name : ~(1 > Stop[n])
    BY DEF Stop, Name
  <2>. QED BY <1>3 DEF Staged, Carried
<1>5. Ahead' = Ahead
  <2>1. CASE ~Pending
    BY <1>1, <1>3, <2>1 DEF Ahead
  <2>2. CASE Pending
    <3>1. Staged("stale")' = Staged("stale") /\ Staged("upload")' = Staged("upload")
      BY <1>4, <2>2 DEF Name
    <3>. QED BY <1>1, <1>3, <2>2, <3>1 DEF Ahead, Cleared, Written
  <2>. QED BY <2>1, <2>2
<1>6. ASSUME NEW c, NEW m, TableAt(device, c, host.table, m),
             c = view \/ \E k \in DOMAIN target : c = target[k].buffer
      PROVE  TableAt(device, c, host.table, m)'
  <2>1. "table" # name /\ "table" \in Name
    <3>. Job.at \in 1..5 /\ Job.last \in {1, 2, 5}
      BY <1>1, QueueShape DEF IInv, Jobs
    <3>. QED BY <1>1 DEF Stop, Name
  <2>2. Filled(Moved(name)) /\ Moved(name)["table"] = device["table"]
    BY <1>1, <2>1, MovedProperties DEF IInv
  <2>3. TableAt(Moved(name), c, host.table, m)
    BY <1>6, <2>2 DEF TableAt, Has
  <2>4. TableAt(KeptOnDevice(Moved(name)), c, host.table, m)
    BY <1>6, <2>2, <2>3, KeptOnDeviceProperties
  <2>. QED BY <1>1, <2>4 DEF TableAt, Has
<1>7. Upcoming'
  <2>1. Image(Ahead, host)'
    BY <1>1, <1>5 DEF IInv, Upcoming, Image
  <2>2. (Pending => /\ Staged("upload") \in Seq(Slots \X Entries)
                    /\ Staged("stale") \in Seq(Slots)
                    /\ Staged("table") = host.table
                    /\ host.tokens # <<>> => Newest.buffer["table"] = view)'
    BY <1>1, <1>3, <1>4 DEF IInv, Upcoming, Name
  <2>3. (host.tokens # <<>> /\ ~(Pending /\ Newest.at <= 3) =>
           TableAt(device, view, host.table, Len(host.table)))'
    BY <1>1, <1>3, <1>6 DEF IInv, Upcoming
  <2>. QED BY <2>1, <2>2, <2>3 DEF Upcoming
<1>8. ASSUME NEW k \in DOMAIN target'
      PROVE  Served(target[k])'
  <2>1. /\ target'[k].due = target[k].due /\ target'[k].buffer = target[k].buffer
        /\ k \in 1..Len(target) /\ k \in DOMAIN target
    <3>. /\ target \in Seq(Attentions) /\ target' \in Seq(Attentions) /\ Len(target') = Len(target)
      BY <1>1, ProceedProperties DEF IInv, Typed
    <3>. k \in 1..Len(target) /\ k \in DOMAIN target
      BY LenProperties
    <3>. QED BY <1>1, ProceedProperties DEF IInv
  <2>2. Served(target[k])
    BY <2>1 DEF IInv
  <2>3. /\ target'[k].awaits <= Len(transfer')
        /\ transfer' # <<>> =>
             (target'[k].awaits = Len(transfer') <=> target[k].awaits = Len(transfer))
    BY <1>1, <2>1, <2>2, AwaitsProceed DEF IInv, Served
  <2>4. Pending => (target'[k].awaits = Len(transfer') <=> target[k].awaits = Len(transfer))
    BY <1>3, <2>3 DEF Pending
  <2>5. Pending => \A s : Untouched(s) => Untouched(s)'
    BY <1>4 DEF Untouched, Name
  <2>6. CASE Pending /\ target[k].awaits = Len(transfer)
    BY <1>1, <1>3, <2>1, <2>2, <2>3, <2>4, <2>6 DEF Served
  <2>7. CASE ~(Pending /\ target[k].awaits = Len(transfer))
    <3>1. TableAt(device, target[k].buffer, host.table, Active(Len(target[k].due)))'
      BY <1>1, <1>6, <2>1, <2>2, <2>7 DEF Served
    <3>2. \A i \in 1..Len(target[k].due) :
            /\ memory[Slot(host.table, i)] = target[k].due[i]
            /\ Pending => Untouched(Slot(host.table, i)) /\ Untouched(Slot(host.table, i))'
      BY <1>1, <2>2, <2>5, <2>7 DEF Served
    <3>. QED BY <1>1, <1>3, <2>1, <2>2, <2>3, <2>4, <2>7, <3>1, <3>2 DEF Served
  <2>. QED BY <2>6, <2>7
<1>. QED BY <1>2, <1>7, <1>8 DEF IInv
-----------------------------------------------------------------------------
(* Steps of the synchronization that is pending: it is the only job.       *)

\* A table that the device has stays there when the newest one is copied.
LEMMA TableMoved ==
  ASSUME Typed, Queue, Upcoming, Pending, Newest = Job, NEW name \in Name, Job.at = Stop[name],
         NEW c, NEW m \in 0..Len(host.table), TableAt(device, c, host.table, m)
  PROVE  TableAt(Moved(name), c, host.table, m)
<1>1. /\ transfer # <<>> /\ c \in DOMAIN device["table"] /\ m <= Len(device["table"][c])
      /\ \A j \in 1..m : device["table"][c][j] = host.table[j]
      /\ Len(host.table) \in Nat
  BY SnapshotType DEF TableAt, Has, Pending, Typed
<1>2. /\ Filled(device) /\ Filled(Moved(name)) /\ Grown(device, Moved(name))
      /\ \A other \in Name : other # name => Moved(name)[other] = device[other]
      /\ \A d \in DOMAIN device[name] : d # Job.buffer[name] \/ Job.size[name] = 0 =>
           d \in DOMAIN Moved(name)[name] /\ Moved(name)[name][d] = device[name][d]
      /\ Job.size[name] > 0 => \A i \in 1..Job.size[name] :
           Moved(name)[name][Job.buffer[name]][i] = Part(name)[i]
  BY <1>1, MovedProperties DEF Typed
<1>3. Has(Moved(name), "table", c, m)
  <2>. "table" \in Name /\ Has(device, "table", c, m) /\ m \in Nat
    BY <1>1 DEF Name, TableAt
  <2>. QED BY <1>2, HasGrown
<1>4. \A j \in 1..m : Moved(name)["table"][c][j] = host.table[j]
  <2>1. CASE name # "table"
    <3>. "table" \in Name
      BY DEF Name
    <3>. QED BY <1>1, <1>2, <2>1
  <2>2. CASE name = "table" /\ (c # Job.buffer[name] \/ Job.size[name] = 0)
    BY <1>1, <1>2, <2>2
  <2>3. CASE name = "table" /\ c = Job.buffer[name] /\ Job.size[name] # 0
    <3>1. Job.size[name] \in Nat
      <4>. Job \in Jobs
        BY <1>1, QueueShape
      <4>. QED BY DEF Jobs
    <3>2. Part(name) = host.table
      <4>. ~(Job.at > Stop[name])
        BY DEF Stop, Name
      <4>. QED BY <2>3 DEF Upcoming, Staged, Carried, Part
    <3>3. Len(host.table) = Job.size[name]
      BY <1>1, <2>3, <3>1, <3>2, PartProperties
    <3>4. \A j \in 1..m : j \in 1..Job.size[name]
      BY <1>1, <3>3
    <3>. QED BY <1>2, <2>3, <3>1, <3>2, <3>4
  <2>. QED BY <2>1, <2>2, <2>3
<1>. QED BY <1>3, <1>4 DEF TableAt

\* What is copied is what was staged.
LEMMA CopyKeepsStaged ==
  ASSUME Typed, Queue, Pending, Newest = Job, NEW name \in Name, Job.at = Stop[name],
         Newest'.size = Job.size, Newest'.buffer = Job.buffer, Newest'.at = Job.at + 1,
         pinned' = pinned, device' = Moved(name), NEW other \in Name
  PROVE  Staged(other)' = Staged(other)
<1>1. transfer # <<>> /\ Job \in Jobs /\ Job.at \in 1..5 /\ Stop[other] \in 1..3
  <2>. transfer # <<>> /\ Job \in Jobs
    BY QueueShape DEF Pending
  <2>. QED BY DEF Jobs, Stop, Name
<1>2. CASE other = name
  <2>1. Job.at + 1 > Stop[name] /\ ~(Job.at > Stop[name])
    BY <1>1, <1>2
  <2>2. CASE Job.size[name] = 0
    BY <1>2, <2>2 DEF Staged, Carried
  <2>3. CASE Job.size[name] # 0
    <3>1. Job.size[name] > 0
      BY <1>1, <2>3 DEF Jobs
    <3>2. SubSeq(device'[name][Job.buffer[name]], 1, Job.size[name]) = Part(name)
      BY <1>1, <3>1, MovedProperties
    <3>. QED BY <1>2, <2>1, <2>3, <3>2 DEF Staged, Carried, Part
  <2>. QED BY <2>2, <2>3
<1>3. CASE other # name
  <2>1. Job.at + 1 > Stop[other] <=> Job.at > Stop[other]
    <3>. Stop[other] # Stop[name]
      BY <1>3 DEF Stop, Name
    <3>. QED BY <1>1
  <2>2. device'[other] = device[other]
    BY <1>1, <1>3, MovedProperties
  <2>. QED BY <2>1, <2>2 DEF Staged, Carried
<1>. QED BY <1>2, <1>3

LEMMA SynchronizationCopy ==
  ASSUME IInv, NEW name \in Name, CopyToDevice(Stop[name], name), ~(Job.last <= 2)
  PROVE  IInv'
<1>1. /\ transfer # <<>> /\ Proceed /\ Job.at = Stop[name] /\ Job \in Jobs
      /\ Len(transfer) = 1 /\ Pending /\ Newest = Job
      /\ UNCHANGED <<host, view, capacity, memory>>
  BY QueueShape DEF CopyToDevice, IInv
<1>2. Job.last = 5 /\ Job.at \in 1..3
  <2>. Job.last \in {1, 2, 5}
    BY <1>1 DEF Jobs
  <2>. Stop[name] \in 1..3
    BY DEF Stop, Name
  <2>. QED BY <1>1
<1>3. /\ target' = target /\ Len(transfer') = 1 /\ transfer'[1] = [Job EXCEPT !.at = Job.at + 1]
      /\ transfer' # <<>>
  <2>. Job.at < Job.last
    BY <1>2
  <2>. QED BY <1>1, ProceedProperties DEF IInv
<1>4. Typed' /\ Queue' /\ pinned' = pinned /\ device' = Moved(name)
  BY <1>3, CopyKeepsQueue DEF IInv
<1>5. /\ Newest'.at = Job.at + 1 /\ Newest'.last = 5 /\ Newest'.size = Job.size
      /\ Newest'.buffer = Job.buffer /\ Pending'
  <2>. Job.at < Job.last
    BY <1>2
  <2>. QED BY <1>1, <1>2, <1>3, JobProceeds DEF Newest, Pending
<1>6. \A other \in Name : Staged(other)' = Staged(other)
  BY <1>1, <1>4, <1>5, CopyKeepsStaged DEF IInv
<1>7. Ahead' = Ahead
  <2>. Newest'.at <= 4 /\ Newest.at <= 4
    BY <1>1, <1>2, <1>5
  <2>. Staged("stale")' = Staged("stale") /\ Staged("upload")' = Staged("upload")
    BY <1>6 DEF Name
  <2>1. Ahead = Written(Cleared(memory, Staged("stale")), Staged("upload"))
    BY <1>1 DEF Ahead
  <2>2. Ahead' = Written(Cleared(memory', Staged("stale")'), Staged("upload")')
    BY <1>5 DEF Ahead, Cleared, Written
  <2>. QED BY <1>1, <2>1, <2>2
<1>8. ASSUME NEW c, NEW m \in 0..Len(host.table), TableAt(device, c, host.table, m)
      PROVE  TableAt(device, c, host.table, m)'
  <2>. TableAt(Moved(name), c, host.table, m)
    BY <1>1, <1>8, TableMoved DEF IInv
  <2>. QED BY <1>1, <1>4 DEF TableAt, Has
<1>9. Upcoming'
  <2>1. Image(Ahead, host)'
    BY <1>1, <1>7 DEF IInv, Upcoming, Image
  <2>2. (Pending => /\ Staged("upload") \in Seq(Slots \X Entries)
                    /\ Staged("stale") \in Seq(Slots)
                    /\ Staged("table") = host.table
                    /\ host.tokens # <<>> => Newest.buffer["table"] = view)'
    BY <1>1, <1>5, <1>6 DEF IInv, Upcoming, Name
  <2>3. ASSUME host.tokens # <<>>, name = "table"
        PROVE  TableAt(device, view, host.table, Len(host.table))'
    <3>1. Staged("table") = host.table /\ Job.buffer["table"] = view
      BY <1>1, <2>3 DEF IInv, Upcoming
    <3>2. Len(host.table) \in Nat /\ host.table # <<>>
      <4>1. host \in Snapshots
        BY DEF IInv, Typed
      <4>2. Len(host.tokens) \in Nat \ {0}
        BY <2>3, <4>1, SnapshotType, EmptySeq
      <4>3. Len(host.table) = Active(Len(host.tokens)) /\ Active(Len(host.tokens)) \in Nat \ {0}
        BY <4>1, <4>2, SnapshotType, ActiveOf
      <4>. QED BY <4>3
    <3>3. Job.size["table"] \in Nat \ {0}
      <4>1. Job.size["table"] \in Nat
        BY <1>1 DEF Jobs, Name
      <4>2. Job.size["table"] # 0
        BY <1>1, <3>1, <3>2 DEF Staged, Carried
      <4>. QED BY <4>1, <4>2
    <3>4. Part("table") = host.table
      <4>. ~(Job.at > Stop["table"])
        BY <1>1, <2>3 DEF Stop
      <4>. QED BY <1>1, <3>1, <3>3 DEF Staged, Carried, Part
    <3>5. Len(host.table) = Job.size["table"]
      BY <1>1, <2>3, <3>3, <3>4, PartProperties DEF IInv
    <3>6. /\ Has(Moved("table"), "table", view, Len(host.table))
          /\ \A i \in 1..Len(host.table) : Moved("table")["table"][view][i] = host.table[i]
      BY <1>1, <2>3, <3>1, <3>3, <3>4, <3>5, MovedProperties DEF IInv
    <3>. QED BY <1>1, <1>4, <2>3, <3>6 DEF TableAt, Has
  <2>4. (host.tokens # <<>> /\ ~(Pending /\ Newest.at <= 3) =>
           TableAt(device, view, host.table, Len(host.table)))'
    <3>. Job.at = 3 => name = "table"
      BY <1>1 DEF Stop, Name
    <3>. QED BY <1>1, <1>2, <1>5, <2>3
  <2>. QED BY <2>1, <2>2, <2>4 DEF Upcoming
<1>10. ASSUME NEW k \in DOMAIN target'
       PROVE  Served(target[k])'
  <2>1. Served(target[k]) /\ target[k] \in Attentions
    BY <1>3, ElementOfSeq DEF IInv, Typed
  <2>2. \A s : Untouched(s) => Untouched(s)'
    BY <1>6 DEF Untouched, Name
  <2>3. Active(Len(target[k].due)) \in 0..Len(host.table)
    <3>1. Len(target[k].due) \in Nat \ {0} /\ Len(target[k].due) <= Len(host.tokens)
      <4>. target[k].due \in Seq(Entries) /\ target[k].due # <<>>
        BY <2>1 DEF Served, Attentions
      <4>. QED BY <2>1, LenProperties, EmptySeq DEF Served
    <3>2. Len(host.tokens) \in Nat /\ Len(host.table) = Active(Len(host.tokens))
      BY SnapshotType DEF IInv, Typed
    <3>3. Len(target[k].due) \in 1..Len(host.tokens)
      BY <3>1, <3>2
    <3>. QED BY <3>2, <3>3, ActiveMonotone
  <2>4. TableAt(device, target[k].buffer, host.table, Active(Len(target[k].due)))
          => TableAt(device, target[k].buffer, host.table, Active(Len(target[k].due)))'
    <3>1. TableAt(device, target[k].buffer, host.table, Active(Len(target[k].due)))
            => TableAt(Moved(name), target[k].buffer, host.table, Active(Len(target[k].due)))
      BY <1>1, <2>3, TableMoved DEF IInv
    <3>. QED BY <1>1, <1>3, <1>4, <3>1 DEF TableAt, Has, Active
  <2>. QED BY <1>1, <1>3, <1>5, <2>1, <2>2, <2>4 DEF Served
<1>. QED BY <1>4, <1>9, <1>10 DEF IInv

\* From its fourth step on, all that the job needs is on the device.
LEMMA OnDeviceIsStaged ==
  ASSUME Newest = Job, Job.at \in {4, 5}, NEW name \in Name
  PROVE  OnDevice(name) = Staged(name)
<1>. Job.at > Stop[name]
  BY DEF Stop, Name
<1>. QED BY DEF OnDevice, Staged, Carried

LEMMA CarriesOut ==
  ASSUME IInv, transfer # <<>>, Job.at \in {4, 5}
  PROVE  /\ Len(transfer) = 1 /\ Pending /\ Newest = Job /\ Job \in Jobs /\ Job.last = 5
         /\ \A k \in DOMAIN target : target[k] \in Attentions /\ Served(target[k])
<1>1. Job \in Jobs /\ Job.last \in {1, 2, 5} /\ Job.at <= Job.last
  BY QueueShape DEF IInv, Jobs
<1>2. ~(Job.last <= 2) /\ Job.last = 5
  BY <1>1
<1>. QED BY <1>1, <1>2, QueueShape, ElementOfSeq DEF IInv, Typed

LEMMA ClearStep ==
  ASSUME IInv, Clear
  PROVE  IInv'
<1>1. /\ transfer # <<>> /\ Proceed /\ Job.at = 4 /\ pinned' = Kept(pinned)
      /\ device' = KeptOnDevice(device) /\ UNCHANGED <<host, view, capacity>>
      /\ memory' = Cleared(memory, OnDevice("stale"))
  BY DEF Clear, Cleared
<1>2. /\ Len(transfer) = 1 /\ Pending /\ Newest = Job /\ Job \in Jobs /\ Job.last = 5
      /\ \A k \in DOMAIN target : target[k] \in Attentions /\ Served(target[k])
  BY <1>1, CarriesOut
<1>3. /\ target' = target /\ Len(transfer') = 1 /\ transfer'[1] = [Job EXCEPT !.at = Job.at + 1]
      /\ transfer' # <<>>
  <2>. Job.at < Job.last
    BY <1>1, <1>2
  <2>. QED BY <1>1, <1>2, ProceedProperties DEF IInv
<1>4. pinned' = pinned /\ device' = device
  BY <1>1, <1>3, KeptProperties, KeptOnDeviceProperties DEF IInv, Typed
<1>5. memory' \in [Slots -> Entries \cup {Blank, Unset}]
  BY <1>1 DEF Cleared, IInv, Typed
<1>6. Typed'
  BY <1>1, <1>3, <1>4, <1>5, ProceedProperties DEF IInv, Typed, Filled
<1>7. Queue'
  <2>1. \A name \in Name : Stop[name] # Job.at
    BY <1>1 DEF Stop, Name
  <2>2. Filled(device)' /\ Filled(pinned)'
    BY <1>6 DEF Typed
  <2>3. Grown(device, device')
    <3>1. \A name \in Name : \A c \in DOMAIN device[name] : Len(device[name][c]) \in Nat
      BY LenProperties DEF IInv, Typed, Filled
    <3>. QED BY <1>4, <3>1 DEF Grown
  <2>. QED BY <1>1, <1>4, <2>1, <2>2, <2>3, QueueProceeds DEF IInv
<1>8. /\ Newest'.at = 5 /\ Newest'.last = 5 /\ Newest'.size = Job.size
      /\ Newest'.buffer = Job.buffer /\ Pending'
  <2>. Job.at < Job.last
    BY <1>1, <1>2
  <2>. QED BY <1>1, <1>2, <1>3, JobProceeds DEF Newest, Pending
<1>9. ASSUME NEW name \in Name
      PROVE  Staged(name)' = Staged(name)
  <2>. Newest.at > Stop[name] /\ Newest'.at > Stop[name]
    BY <1>1, <1>2, <1>8 DEF Stop, Name
  <2>. QED BY <1>2, <1>4, <1>8 DEF Staged, Carried
<1>10. memory' = Cleared(memory, Staged("stale"))
  BY <1>1, <1>2, OnDeviceIsStaged DEF Name
<1>11. Ahead' = Ahead
  <2>1. Ahead = Written(Cleared(memory, Staged("stale")), Staged("upload"))
    BY <1>1, <1>2 DEF Ahead
  <2>2. Ahead' = Written(memory', Staged("upload")')
    BY <1>8 DEF Ahead, Written
  <2>. QED BY <1>9, <1>10, <2>1, <2>2 DEF Name
<1>12. Upcoming'
  <2>1. Image(Ahead, host)'
    BY <1>1, <1>11 DEF IInv, Upcoming, Image
  <2>2. (Pending => /\ Staged("upload") \in Seq(Slots \X Entries)
                    /\ Staged("stale") \in Seq(Slots)
                    /\ Staged("table") = host.table
                    /\ host.tokens # <<>> => Newest.buffer["table"] = view)'
    BY <1>1, <1>2, <1>8, <1>9 DEF IInv, Upcoming, Name
  <2>3. (host.tokens # <<>> /\ ~(Pending /\ Newest.at <= 3) =>
           TableAt(device, view, host.table, Len(host.table)))'
    BY <1>1, <1>2, <1>4 DEF IInv, Upcoming, TableAt, Has
  <2>. QED BY <2>1, <2>2, <2>3 DEF Upcoming
<1>13. ASSUME NEW k \in DOMAIN target'
       PROVE  Served(target[k])'
  <2>1. Served(target[k]) /\ target[k] \in Attentions /\ Len(target[k].due) \in Nat
    BY <1>2, <1>3, LenProperties DEF Attentions
  <2>2. \A s : Untouched(s) => Untouched(s)'
    BY <1>9 DEF Untouched, Name
  <2>3. ASSUME NEW i \in 1..Len(target[k].due),
               Untouched(Slot(host.table, i)), memory[Slot(host.table, i)] = target[k].due[i]
        PROVE  memory'[Slot(host.table, i)] = target[k].due[i]
    <3>. host \in Snapshots /\ i \in 1..Len(host.tokens)
      BY <2>1, SnapshotType DEF Served, IInv, Typed
    <3>. Slot(host.table, i) \in Slots
      BY SlotType
    <3>. QED BY <1>10, <2>3 DEF Cleared, Untouched
  <2>4. TableAt(device, target[k].buffer, host.table, Active(Len(target[k].due)))
          => TableAt(device, target[k].buffer, host.table, Active(Len(target[k].due)))'
    BY <1>1, <1>3, <1>4 DEF TableAt, Has, Active
  <2>5. (\A i \in 1..Len(target[k].due) :
           Untouched(Slot(host.table, i)) /\ memory[Slot(host.table, i)] = target[k].due[i])
        => (\A i \in 1..Len(target[k].due) :
           Untouched(Slot(host.table, i)) /\ memory[Slot(host.table, i)] = target[k].due[i])'
    <3>. Len(target[k].due)' = Len(target[k].due)
      BY <1>3
    <3>. \A i : Slot(host.table, i)' = Slot(host.table, i)
      BY <1>1 DEF Slot
    <3>. QED BY <1>3, <2>2, <2>3
  <2>. QED BY <1>1, <1>2, <1>3, <1>8, <2>1, <2>4, <2>5 DEF Served
<1>. QED BY <1>6, <1>7, <1>12, <1>13 DEF IInv

LEMMA WriteStep ==
  ASSUME IInv, Write
  PROVE  IInv'
<1>1. /\ transfer # <<>> /\ Proceed /\ Job.at = 5 /\ pinned' = Kept(pinned)
      /\ device' = KeptOnDevice(device) /\ UNCHANGED <<host, view, capacity>>
      /\ memory' = Written(memory, OnDevice("upload"))
  BY DEF Write, Written
<1>2. /\ Len(transfer) = 1 /\ Pending /\ Newest = Job /\ Job \in Jobs /\ Job.last = 5
      /\ \A k \in DOMAIN target : target[k] \in Attentions /\ Served(target[k])
  BY <1>1, CarriesOut
<1>3. /\ transfer' = <<>> /\ target' \in Seq(Attentions) /\ Len(target') = Len(target)
      /\ \A k \in 1..Len(target) : /\ target'[k].due = target[k].due
                                   /\ target'[k].buffer = target[k].buffer
                                   /\ target'[k].awaits \in Nat /\ target'[k].awaits <= 0
  <2>1. ~(Job.at < Job.last)
    BY <1>1, <1>2
  <2>2. transfer' \in Seq(Jobs) /\ Len(transfer') = 0
    BY <1>1, <1>2, <2>1, ProceedProperties DEF IInv
  <2>3. transfer' = <<>>
    BY <2>2, EmptySeq
  <2>4. ASSUME NEW k \in 1..Len(target)
        PROVE  target'[k].awaits \in Nat /\ target'[k].awaits <= 0
    <3>. k \in DOMAIN target
      BY LenProperties DEF IInv, Typed
    <3>1. target[k].awaits \in Nat /\ target[k].awaits <= 1
      BY <1>2 DEF Attentions, Served
    <3>2. target'[k].awaits = IF target[k].awaits = 0 THEN 0 ELSE target[k].awaits - 1
      BY <1>1, <2>1, ProceedProperties DEF IInv
    <3>. QED BY <3>1, <3>2
  <2>. QED BY <1>1, <2>3, <2>4, ProceedProperties DEF IInv
<1>4. memory' = Written(memory, Staged("upload"))
  BY <1>1, <1>2, OnDeviceIsStaged DEF Name
<1>5. memory' = Ahead
  BY <1>1, <1>2, <1>4 DEF Ahead
<1>6. Typed'
  <2>1. memory' \in [Slots -> Entries \cup {Blank, Unset}]
    <3>1. Staged("upload") \in Seq(Slots \X Entries)
      BY <1>2 DEF IInv, Upcoming
    <3>2. ASSUME NEW s \in Slots, NEW i \in DOMAIN Staged("upload"), Staged("upload")[i][1] = s
          PROVE  Staged("upload")[CHOOSE j \in DOMAIN Staged("upload") :
                                    Staged("upload")[j][1] = s][2] \in Entries
      <4>. DEFINE j == CHOOSE j \in DOMAIN Staged("upload") : Staged("upload")[j][1] = s
      <4>1. j \in DOMAIN Staged("upload")
        BY <3>2
      <4>. HIDE DEF j
      <4>2. Staged("upload")[j] \in Slots \X Entries
        BY <3>1, <4>1
      <4>. QED BY <4>2 DEF j
    <3>. QED BY <1>4, <3>2 DEF Written, IInv, Typed
  <2>2. Filled(pinned)' /\ Filled(device)'
    <3>. Filled(Kept(pinned)) /\ Filled(KeptOnDevice(device))
      BY KeptProperties, KeptOnDeviceProperties DEF IInv, Typed
    <3>. QED BY <1>1 DEF Filled
  <2>. QED BY <1>1, <1>3, <2>1, <2>2, ProceedProperties DEF IInv, Typed
<1>7. Queue' /\ ~Pending'
  BY <1>3 DEF Queue, Pending
<1>8. ASSUME NEW c, NEW m, TableAt(device, c, host.table, m),
             c = view \/ \E k \in DOMAIN target : c = target[k].buffer
      PROVE  TableAt(device, c, host.table, m)'
  <2>. TableAt(KeptOnDevice(device), c, host.table, m)
    BY <1>8, KeptOnDeviceProperties DEF IInv, Typed
  <2>. QED BY <1>1 DEF TableAt, Has
<1>9. host.tokens # <<>> => TableAt(device, view, host.table, Len(host.table))
  BY <1>1, <1>2 DEF IInv, Upcoming
<1>10. Image(memory', host)
  BY <1>5 DEF IInv, Upcoming
<1>11. Upcoming'
  <2>. (host.tokens # <<>> => TableAt(device, view, host.table, Len(host.table)))'
    BY <1>1, <1>8, <1>9
  <2>. Ahead' = memory'
    BY <1>7 DEF Ahead
  <2>. QED BY <1>1, <1>7, <1>10 DEF Upcoming, Image
<1>12. ASSUME NEW k \in DOMAIN target'
       PROVE  Served(target[k])'
  <2>1. k \in 1..Len(target) /\ k \in DOMAIN target
    BY <1>3, LenProperties DEF IInv, Typed
  <2>2. Served(target[k]) /\ target[k] \in Attentions
    BY <1>2, <2>1
  <2>3. /\ Len(target[k].due) \in Nat \ {0} /\ Len(target[k].due) <= Len(host.tokens)
        /\ Len(host.tokens) \in Nat /\ host \in Snapshots /\ host.tokens # <<>>
    <3>. target[k].due \in Seq(Entries) /\ target[k].due # <<>> /\ host \in Snapshots
      BY <2>2 DEF Served, Attentions, IInv, Typed
    <3>. Len(target[k].due) \in Nat \ {0} /\ Len(host.tokens) \in Nat
      BY LenProperties, EmptySeq, SnapshotType
    <3>. QED BY <2>2 DEF Served
  <2>4. /\ Len(target[k].due) \in 1..Len(host.tokens)
        /\ Active(Len(target[k].due)) \in 1..Len(host.table) /\ Len(host.table) \in Nat
    <3>. Len(target[k].due) \in 1..Len(host.tokens)
      BY <2>3
    <3>. QED BY <2>3, SnapshotType, ActiveMonotone
  <2>5. TableAt(device, target[k].buffer, host.table, Active(Len(target[k].due)))
    <3>1. CASE target[k].awaits = Len(transfer)
      <4>. target[k].buffer = view /\ TableAt(device, view, host.table, Len(host.table))
        BY <1>2, <1>9, <2>2, <2>3, <3>1 DEF Served
      <4>. Active(Len(target[k].due)) \in Nat
        BY <2>4
      <4>. view \in DOMAIN device["table"] => Len(device["table"][view]) \in Nat
        BY LenProperties DEF IInv, Typed, Filled, Name
      <4>. QED BY <2>4 DEF TableAt, Has
    <3>2. CASE target[k].awaits # Len(transfer)
      BY <2>2, <3>2 DEF Served
    <3>. QED BY <3>1, <3>2
  <2>6. TableAt(device, target[k].buffer, host.table, Active(Len(target[k].due)))'
    <3>1. TableAt(device', target[k].buffer, host'.table, Active(Len(target[k].due)))
      BY <1>8, <1>1, <2>1, <2>5 DEF TableAt, Has
    <3>. QED BY <1>3, <2>1, <3>1 DEF TableAt, Has, Active
  <2>7. ASSUME NEW i \in 1..Len(target[k].due)
        PROVE  memory'[Slot(host.table, i)] = target[k].due[i]
    <3>. i \in 1..Len(host.tokens)
      BY <2>3
    <3>. QED BY <1>10, <2>2 DEF Image, Served
  <2>8. target'[k].awaits <= Len(transfer')
    BY <1>3, <2>1
  <2>9. target'[k].due = target[k].due
    BY <1>3, <2>1
  <2>10. \A i : Slot(host.table, i)' = Slot(host.table, i)
    BY <1>1 DEF Slot
  <2>. QED BY <1>1, <1>7, <2>2, <2>6, <2>7, <2>8, <2>9, <2>10 DEF Served
<1>. QED BY <1>6, <1>7, <1>11, <1>12 DEF IInv
-----------------------------------------------------------------------------
(* Steps of the target stream and of the host.                             *)

\* Nothing but attentions and the capacity changes.
LEMMA AttentionsChange ==
  ASSUME IInv, UNCHANGED <<host, view, pinned, device, memory, transfer>>,
         capacity' \in [Name -> Nat], target' \in Seq(Attentions),
         \A k \in DOMAIN target' : Served(target'[k])
  PROVE  IInv'
<1>1. Typed'
  BY DEF IInv, Typed, Filled
<1>2. Queue'
  BY DEF IInv, Queue, Has
<1>3. /\ Pending' <=> Pending
      /\ Newest' = Newest /\ \A name : Staged(name)' = Staged(name)
      /\ \A c, table, m : TableAt(device', c, table, m) <=> TableAt(device, c, table, m)
  BY DEF Pending, Newest, Staged, Carried
<1>4. Ahead' = Ahead
  <2>. DEFINE kept == IF Newest.at <= 4 THEN Cleared(memory, Staged("stale")) ELSE memory
              kept2 == IF Newest'.at <= 4 THEN Cleared(memory', Staged("stale")') ELSE memory'
  <2>1. kept2 = kept
    BY <1>3
  <2>2. Ahead = IF ~Pending THEN memory ELSE Written(kept, Staged("upload"))
    BY DEF Ahead
  <2>3. Ahead' = IF ~Pending' THEN memory' ELSE Written(kept2, Staged("upload")')
    BY DEF Ahead, Cleared, Written
  <2>. HIDE DEF kept, kept2
  <2>. QED BY <1>3, <2>1, <2>2, <2>3
<1>5. Upcoming'
  <2>1. Image(Ahead, host)'
    BY <1>4 DEF IInv, Upcoming, Image
  <2>. QED BY <1>3, <2>1 DEF IInv, Upcoming, TableAt, Has
<1>6. ASSUME NEW k \in DOMAIN target'
      PROVE  Served(target[k])'
  <2>1. Served(target'[k])
    OBVIOUS
  <2>2. \A s : Untouched(s)' <=> Untouched(s)
    BY <1>3 DEF Untouched
  <2>3. TableAt(device', target'[k].buffer, host'.table, Active(Len(target'[k].due)))
          <=> TableAt(device, target'[k].buffer, host.table, Active(Len(target'[k].due)))
    BY <1>3
  <2>4. \A i : Slot(host.table, i)' = Slot(host.table, i)
    BY DEF Slot
  <2>. QED BY <1>3, <2>1, <2>2, <2>3, <2>4 DEF Served, TableAt, Has, Active
<1>. QED BY <1>1, <1>2, <1>5, <1>6 DEF IInv

LEMMA AttendStep ==
  ASSUME IInv, Attend
  PROVE  IInv'
<1>1. target \in Seq(Attentions) /\ target # <<>> /\ target' = Tail(target)
  BY DEF IInv, Typed, Attend, Ready
<1>2. /\ target' \in Seq(Attentions) /\ Len(target') = Len(target) - 1 /\ Len(target) \in Nat \ {0}
      /\ \A k \in 1..Len(target') : target'[k] = target[k + 1]
  BY <1>1, HeadTailProperties, LenProperties, EmptySeq
<1>3. ASSUME NEW k \in DOMAIN target'
      PROVE  Served(target'[k])
  <2>. k \in 1..Len(target') /\ k + 1 \in DOMAIN target
    BY <1>1, <1>2, LenProperties
  <2>. QED BY <1>2 DEF IInv
<1>. QED BY <1>2, <1>3, AttentionsChange DEF Attend, IInv, Typed

\* An attention is submitted with all of the sequence, and waits for what is queued.
LEMMA SubmitAttentionStep ==
  ASSUME IInv, SubmitAttention
  PROVE  IInv'
<1>. DEFINE a == [awaits |-> Len(transfer), due |-> host.tokens, buffer |-> view]
<1>1. /\ target \in Seq(Attentions) /\ target' = Append(target, a) /\ host.tokens # <<>>
      /\ host \in Snapshots /\ view \in Nat
  BY DEF IInv, Typed, SubmitAttention
<1>2. a \in Attentions
  <2>. Len(transfer) \in Nat /\ host.tokens \in Seq(Entries)
    BY <1>1, LenProperties, SnapshotType DEF IInv, Typed
  <2>. QED BY <1>1 DEF Attentions
<1>3. Served(a)
  <2>1. /\ host.tokens \in Seq(Entries) /\ Len(host.tokens) \in Nat
        /\ Len(host.table) = Active(Len(host.tokens)) /\ Len(transfer) \in Nat
    BY <1>1, SnapshotType, LenProperties DEF IInv, Typed
  <2>2. ASSUME ~Pending
        PROVE  /\ TableAt(device, view, host.table, Active(Len(host.tokens)))
               /\ \A i \in 1..Len(host.tokens) : memory[Slot(host.table, i)] = host.tokens[i]
    BY <1>1, <2>1, <2>2 DEF IInv, Upcoming, Ahead, Image
  <2>. QED BY <1>1, <2>1, <2>2 DEF Served
<1>. HIDE DEF a
<1>4. /\ target' \in Seq(Attentions) /\ Len(target') = Len(target) + 1 /\ Len(target) \in Nat
      /\ \A k \in 1..Len(target) : target'[k] = target[k]
      /\ target'[Len(target) + 1] = a
  BY <1>1, <1>2, AppendProperties, LenProperties
<1>5. ASSUME NEW k \in DOMAIN target'
      PROVE  Served(target'[k])
  <2>. k \in 1..Len(target) + 1
    BY <1>4, LenProperties
  <2>1. CASE k \in 1..Len(target)
    <3>. k \in DOMAIN target
      BY <1>1, <2>1, LenProperties
    <3>. QED BY <1>4, <2>1 DEF IInv
  <2>2. CASE k = Len(target) + 1
    BY <1>3, <1>4, <2>2
  <2>. QED BY <1>4, <2>1, <2>2
<1>. QED BY <1>4, <1>5, AttentionsChange DEF SubmitAttention, IInv, Typed
-----------------------------------------------------------------------------
(* Synchronizations.                                                       *)

Sized(new, n) == [name \in Name |-> IF \E i \in 1..n : Names[i] = name
                                    THEN Len(Sources(host, new)[name]) ELSE 0]
Queued(new, n, last) == [at |-> 1, last |-> last, buffer |-> capacity', size |-> Sized(new, n)]

\* What is staged under a name fills a buffer of cells.
LEMMA SourceCells ==
  ASSUME NEW old \in Snapshots, NEW new \in Snapshots, NEW name \in Name
  PROVE  Sources(old, new)[name] \in Seq(Cell) /\ Len(Sources(old, new)[name]) \in Nat
<1>1. /\ Sources(old, new).upload \in Seq(Slots \X Entries)
      /\ Sources(old, new).stale \in Seq(Slots) /\ Sources(old, new).table \in Seq(Block)
  BY SourcesType, SnapshotType
<1>2. /\ Slots \X Entries \subseteq Cell /\ Slots \subseteq Cell /\ Block \subseteq Cell
  BY DEF Cell
<1>3. \A S, s : S \subseteq Cell /\ s \in Seq(S) => s \in Seq(Cell)
  OBVIOUS
<1>4. Sources(old, new)[name] \in Seq(Cell)
  BY <1>1, <1>2, <1>3 DEF Name
<1>. QED BY <1>4, LenProperties

\* The buffers that are filled, and the job that is queued unless it is empty.
LEMMA StageProperties ==
  ASSUME IInv, NEW new \in Snapshots, NEW n \in 0..3, NEW last \in {0, 1, 2, 5},
         Stage(new, n, last)
  PROVE  /\ capacity' \in [Name -> Nat] /\ Filled(pinned') /\ Filled(pinned)
         /\ transfer' = transfer \/ (transfer' = Append(transfer, Queued(new, n, last)) /\ last # 0)
         /\ last = 5 => transfer' = Append(transfer, Queued(new, n, last))
         /\ last # 0 => Queued(new, n, last) \in Jobs
         /\ transfer' # <<>> =>
              /\ Grown(pinned, pinned')
              /\ \A name \in Name : Sized(new, n)[name] > 0 =>
                   /\ Has(pinned', name, capacity'[name], Sized(new, n)[name])
                   /\ SubSeq(pinned'[name][capacity'[name]], 1, Sized(new, n)[name])
                        = Sources(host, new)[name]
<1>. DEFINE source == Sources(host, new)
            staged == {name \in Name : source[name] # <<>> /\ \E i \in 1..n : Names[i] = name}
            buffer == [name \in Name |-> IF name \in staged THEN Acquire(name, Len(source[name]))
                                         ELSE capacity[name]]
            filled == [name \in Name |-> IF name \in staged
                                         THEN Overlay(pinned[name], buffer[name], source[name])
                                         ELSE pinned[name]]
            size == [name \in Name |-> IF name \in staged THEN Len(source[name]) ELSE 0]
<1>1. /\ DOMAIN capacity = Name /\ \A name \in Name : capacity[name] \in Nat
      /\ DOMAIN pinned = Name /\ Filled(pinned) /\ host \in Snapshots
      /\ \A name \in Name : \A c \in DOMAIN pinned[name] : pinned[name][c] \in Seq(Cell)
  BY DEF IInv, Typed, Filled
<1>2. /\ capacity' = buffer /\ pinned' = Kept(filled)
      /\ transfer' = IF \A i \in 1..last : i <= 3 /\ source[Names[i]] = <<>> THEN transfer
                     ELSE Append(transfer, [at |-> 1, last |-> last, buffer |-> buffer, size |-> size])
  BY <1>1 DEF Stage
<1>3. \A name \in Name : source[name] \in Seq(Cell) /\ Len(source[name]) \in Nat
  BY <1>1, SourceCells
<1>. HIDE DEF source
<1>4. \A name \in Name : source[name] = <<>> <=> Len(source[name]) = 0
  BY <1>3, EmptySeq
<1>5. size = Sized(new, n)
  BY <1>4 DEF Sized, source
<1>6. /\ buffer \in [Name -> Nat]
      /\ \A name \in staged : Len(source[name]) <= buffer[name]
  <2>1. ASSUME NEW name \in staged
        PROVE  buffer[name] \in Nat /\ Len(source[name]) <= buffer[name]
    <3>1. name \in Name /\ Len(source[name]) \in Nat \ {0} /\ capacity[name] \in Nat
          /\ buffer[name] = Acquire(name, Len(source[name]))
      BY <1>1, <1>3, <1>4
    <3>. HIDE DEF staged, buffer
    <3>2. Rounded(Len(source[name])) \in Nat /\ Len(source[name]) <= Rounded(Len(source[name]))
      BY <3>1, RoundedProperties
    <3>. QED BY <3>1, <3>2 DEF Acquire
  <2>2. \A name \in Name \ staged : buffer[name] = capacity[name] /\ capacity[name] \in Nat
    BY <1>1
  <2>3. buffer = [name \in Name |-> buffer[name]] /\ staged \subseteq Name
    OBVIOUS
  <2>. HIDE DEF buffer, staged
  <2>. QED BY <2>1, <2>2, <2>3
<1>7. ASSUME NEW name \in staged
      PROVE  Overlaid(Cell, pinned[name], buffer[name], source[name], filled[name])
  <2>. HIDE DEF buffer, staged
  <2>1. name \in Name
    BY DEF staged
  <2>2. Overlaid(Cell, pinned[name], buffer[name], source[name],
                 Overlay(pinned[name], buffer[name], source[name]))
    BY <1>1, <1>3, <2>1, OverlayProperties
  <2>. QED BY <2>1, <2>2
<1>8. \A name \in Name \ staged : filled[name] = pinned[name]
  OBVIOUS
<1>9. staged \subseteq Name /\ filled = [name \in Name |-> filled[name]]
  OBVIOUS
<1>. HIDE DEF buffer, filled, staged
<1>10. Filled(filled)
  <2>1. ASSUME NEW name \in staged, NEW c \in DOMAIN filled[name]
        PROVE  filled[name][c] \in Seq(Cell) /\ c \in Nat /\ Len(filled[name][c]) <= c
    <3>1. Overlaid(Cell, pinned[name], buffer[name], source[name], filled[name])
      BY <1>7
    <3>2. /\ name \in Name /\ buffer[name] \in Nat /\ Len(source[name]) <= buffer[name]
          /\ \A d \in DOMAIN pinned[name] : d \in Nat /\ Len(pinned[name][d]) <= d
      BY <1>1, <1>6, <1>9 DEF Filled
    <3>3. CASE c = buffer[name]
      BY <3>1, <3>2, <3>3 DEF Overlaid
    <3>4. CASE c # buffer[name]
      BY <3>1, <3>2, <3>4 DEF Overlaid
    <3>. QED BY <3>3, <3>4
  <2>2. \A name \in Name \ staged : \A c \in DOMAIN filled[name] :
          filled[name][c] \in Seq(Cell) /\ c \in Nat /\ Len(filled[name][c]) <= c
    BY <1>1, <1>8 DEF Filled
  <2>. QED BY <1>9, <2>1, <2>2 DEF Filled
<1>11. Grown(pinned, filled)
  <2>. \A name \in Name : \A c \in DOMAIN pinned[name] : Len(pinned[name][c]) \in Nat
    BY <1>1, LenProperties
  <2>. QED BY <1>7, <1>8 DEF Grown, Overlaid
<1>12. ASSUME NEW name \in Name, size[name] > 0
       PROVE  /\ Has(filled, name, buffer[name], size[name])
              /\ SubSeq(filled[name][buffer[name]], 1, size[name]) = source[name]
  <2>. name \in staged /\ size[name] = Len(source[name])
    BY <1>12
  <2>. QED BY <1>7 DEF Overlaid, Has
<1>13. Filled(pinned') /\ (transfer' # <<>> => pinned' = filled)
  BY <1>2, <1>10, KeptProperties
<1>14. size \in [Name -> Nat]
  BY <1>3
<1>15. /\ capacity' \in [Name -> Nat]
       /\ Queued(new, n, last) = [at |-> 1, last |-> last, buffer |-> buffer, size |-> size]
       /\ last # 0 => Queued(new, n, last) \in Jobs
  <2>. HIDE DEF size
  <2>. QED BY <1>2, <1>5, <1>6, <1>14 DEF Queued, Jobs
<1>16. /\ transfer' = transfer \/ (transfer' = Append(transfer, Queued(new, n, last)) /\ last # 0)
       /\ last = 5 => transfer' = Append(transfer, Queued(new, n, last))
  <2>1. last = 5 => 4 \in 1..last /\ ~(4 <= 3)
    OBVIOUS
  <2>2. last = 0 => 1..last = {}
    OBVIOUS
  <2>. HIDE DEF size
  <2>. QED BY <1>2, <1>15, <2>1, <2>2
<1>. HIDE DEF size
<1>. QED BY <1>1, <1>2, <1>5, <1>11, <1>12, <1>13, <1>15, <1>16 DEF source

\* Behind jobs that were broken off any job may be queued.
LEMMA StageKeepsQueue ==
  ASSUME IInv, NEW new \in Snapshots, NEW n \in 0..3, NEW last \in {0, 1, 2, 5},
         Stage(new, n, last), \A k \in DOMAIN transfer : transfer[k].last < 5
  PROVE  Queue' /\ transfer' \in Seq(Jobs)
<1>. DEFINE job == Queued(new, n, last)
            size == Sized(new, n)
<1>1. /\ transfer \in Seq(Jobs) /\ Len(transfer) \in Nat /\ DOMAIN transfer = 1..Len(transfer)
      /\ device' = device
  BY LenProperties DEF IInv, Typed, Stage
<1>2. \A k \in 1..Len(transfer) : /\ transfer[k] \in Jobs /\ transfer[k].at <= transfer[k].last
                                  /\ transfer[k].last <= 2
                                  /\ k > 1 => transfer[k].at = 1
  <2>. TAKE k \in 1..Len(transfer)
  <2>1. transfer[k] \in Jobs
    BY <1>1, ElementOfSeq
  <2>2. transfer[k].last \in {1, 2, 5} /\ transfer[k].last < 5
    BY <1>1, <2>1 DEF Jobs
  <2>. QED BY <1>1, <2>1, <2>2 DEF IInv, Queue
<1>3. /\ Filled(pinned') /\ Filled(pinned)
      /\ transfer' = transfer \/ (transfer' = Append(transfer, job) /\ last # 0 /\ job \in Jobs)
      /\ transfer' # <<>> =>
           /\ Grown(pinned, pinned')
           /\ \A name \in Name : size[name] > 0 => Has(pinned', name, capacity'[name], size[name])
  BY StageProperties
<1>4. job.at = 1 /\ job.last = last /\ job.size = size /\ job.buffer = capacity'
  BY DEF Queued
<1>. HIDE DEF job, size
<1>. DEFINE fits(j) == \A name \in Name : j.size[name] > 0 =>
                         /\ Has(pinned', name, j.buffer[name], j.size[name])
                         /\ j.at > Stop[name] => Has(device', name, j.buffer[name], j.size[name])
<1>5. ASSUME transfer' # <<>>, NEW k \in 1..Len(transfer)
      PROVE  fits(transfer[k])
  <2>. SUFFICES ASSUME NEW name \in Name, transfer[k].size[name] > 0
                PROVE  /\ Has(pinned', name, transfer[k].buffer[name], transfer[k].size[name])
                       /\ transfer[k].at > Stop[name] =>
                            Has(device', name, transfer[k].buffer[name], transfer[k].size[name])
    OBVIOUS
  <2>1. transfer[k].size[name] \in Nat
    BY <1>2 DEF Jobs
  <2>2. /\ Has(pinned, name, transfer[k].buffer[name], transfer[k].size[name])
        /\ transfer[k].at > Stop[name] =>
             Has(device, name, transfer[k].buffer[name], transfer[k].size[name])
    BY <1>1 DEF IInv, Queue
  <2>. QED BY <1>1, <1>3, <1>5, <2>1, <2>2, HasGrown
<1>6. transfer' # <<>> => fits(job)
  <2>. \A name \in Name : ~(1 > Stop[name])
    BY DEF Stop, Name
  <2>. QED BY <1>3, <1>4
<1>7. (\A k \in DOMAIN transfer' : fits(transfer'[k])) =>
        ((\A k \in DOMAIN transfer' : /\ transfer'[k].at <= transfer'[k].last
                                      /\ k < Len(transfer') => transfer'[k].last <= 2
                                      /\ k > 1 => transfer'[k].at = 1) => Queue')
  BY DEF Queue, Has
<1>. HIDE DEF fits
<1>8. CASE transfer' = transfer
  <2>1. \A k \in 1..Len(transfer') : k \in 1..Len(transfer) /\ transfer' # <<>>
    BY <1>1, <1>8, EmptySeq
  <2>2. \A k \in 1..Len(transfer') : fits(transfer'[k])
    BY <1>5, <1>8, <2>1
  <2>3. ASSUME NEW k \in 1..Len(transfer')
        PROVE  /\ transfer'[k].at <= transfer'[k].last
               /\ k < Len(transfer') => transfer'[k].last <= 2
               /\ k > 1 => transfer'[k].at = 1
    BY <1>2, <1>8, <2>1
  <2>. QED BY <1>1, <1>7, <1>8, <2>2, <2>3
<1>9. CASE transfer' = Append(transfer, job) /\ last # 0 /\ job \in Jobs
  <2>1. /\ transfer' \in Seq(Jobs) /\ Len(transfer') = Len(transfer) + 1 /\ transfer' # <<>>
        /\ DOMAIN transfer' = 1..Len(transfer')
        /\ \A k \in 1..Len(transfer) : transfer'[k] = transfer[k]
        /\ transfer'[Len(transfer) + 1] = job
    BY <1>1, <1>9, AppendProperties, LenProperties
  <2>2. \A k \in 1..Len(transfer') : k \in 1..Len(transfer) \/ k = Len(transfer) + 1
    BY <1>1, <2>1, LenProperties
  <2>3. \A k \in 1..Len(transfer') : fits(transfer'[k])
    BY <1>5, <1>6, <2>1, <2>2
  <2>4. job.at <= job.last
    BY <1>4, <1>9
  <2>5. ASSUME NEW k \in 1..Len(transfer')
        PROVE  /\ transfer'[k].at <= transfer'[k].last
               /\ k < Len(transfer') => transfer'[k].last <= 2
               /\ k > 1 => transfer'[k].at = 1
    <3>1. CASE k \in 1..Len(transfer)
      BY <1>2, <2>1, <3>1
    <3>2. CASE k = Len(transfer) + 1
      BY <1>1, <1>4, <2>1, <2>4, <3>2
    <3>. QED BY <2>2, <3>1, <3>2
  <2>. QED BY <1>7, <2>1, <2>3, <2>5
<1>. QED BY <1>3, <1>8, <1>9

LEMMA SynchronizeFailsStep ==
  ASSUME Careful, IInv, Awaited, NEW new \in Snapshots, SynchronizeFails(new)
  PROVE  IInv'
<1>1. PICK f \in Failures(new) : Stage(new, f[1], f[2])
  BY DEF SynchronizeFails
<1>2. f[1] \in 0..3 /\ f[2] \in {0, 1, 2}
  BY DEF Failures, Careful
<1>3. \A k \in DOMAIN transfer : transfer[k].last < 5
  BY DEF Careful, Awaited
<1>4. UNCHANGED <<host, view, device, memory, target>>
  BY <1>1 DEF SynchronizeFails, Stage
<1>5. /\ capacity' \in [Name -> Nat] /\ Filled(pinned')
      /\ \/ transfer' = transfer
         \/ /\ transfer' = Append(transfer, Queued(new, f[1], f[2]))
            /\ Queued(new, f[1], f[2]) \in Jobs
  BY <1>1, <1>2, StageProperties
<1>6. Queue' /\ transfer' \in Seq(Jobs)
  BY <1>1, <1>2, <1>3, StageKeepsQueue
<1>7. Typed'
  BY <1>4, <1>5, <1>6 DEF IInv, Typed, Filled
<1>8. ~Pending
  <2>. SUFFICES ASSUME transfer # <<>>
                PROVE  Len(transfer) \in DOMAIN transfer
    BY <1>3 DEF Pending, Newest
  <2>. QED BY LenProperties, EmptySeq DEF IInv, Typed
<1>9. ~Pending' /\ Len(transfer) <= Len(transfer') /\ Len(transfer') \in Nat /\ Len(transfer) \in Nat
  <2>. DEFINE job == Queued(new, f[1], f[2])
  <2>1. job.last \in {0, 1, 2}
    BY <1>2 DEF Queued
  <2>. HIDE DEF job
  <2>2. transfer \in Seq(Jobs) /\ Len(transfer) \in Nat
    BY LenProperties DEF IInv, Typed
  <2>3. CASE transfer' = transfer
    BY <1>8, <2>2, <2>3 DEF Pending, Newest
  <2>4. CASE transfer' = Append(transfer, job) /\ job \in Jobs
    <3>. Len(transfer') = Len(transfer) + 1 /\ transfer'[Len(transfer')] = job
      BY <2>2, <2>4, AppendProperties
    <3>. QED BY <2>1, <2>2 DEF Pending, Newest
  <2>. QED BY <1>5, <2>3, <2>4 DEF job
<1>10. Upcoming'
  <2>1. Ahead' = memory /\ Ahead = memory
    BY <1>4, <1>8, <1>9 DEF Ahead
  <2>. QED BY <1>4, <1>8, <1>9, <2>1 DEF IInv, Upcoming, Image, TableAt, Has
<1>11. ASSUME NEW k \in DOMAIN target'
       PROVE  Served(target[k])'
  <2>1. Served(target[k]) /\ target[k].awaits \in Nat
    <3>. k \in DOMAIN target
      BY <1>4
    <3>. target[k] \in Attentions
      BY ElementOfSeq DEF IInv, Typed
    <3>. QED BY DEF IInv, Attentions
  <2>2. \A i : Slot(host.table, i)' = Slot(host.table, i)
    BY <1>4 DEF Slot
  <2>. QED BY <1>4, <1>8, <1>9, <2>1, <2>2 DEF Served, TableAt, Has, Active
<1>. QED BY <1>6, <1>7, <1>10, <1>11 DEF IInv

\* A token that kept its slot kept its block.
LEMMA StableTable ==
  ASSUME NEW old \in Snapshots, NEW new \in Snapshots, NEW n \in 1..Stable(old, new),
         NEW j \in 1..Active(n)
  PROVE  old.table[j] = new.table[j]
<1>1. /\ Stable(old, new) \in Nat
      /\ Stable(old, new) <= Len(old.tokens) /\ Stable(old, new) <= Len(new.tokens)
      /\ \A i \in 1..Stable(old, new) : Slot(old.table, i) = Slot(new.table, i)
      /\ Len(old.tokens) \in Nat /\ Len(new.tokens) \in Nat
  BY StableProperties, SnapshotType
<1>2. n \in Nat
  BY <1>1
<1>3. PICK i \in 1..n : Active(i) = j
  BY <1>2, TokenOfBlock
<1>4. /\ i \in 1..Len(old.tokens) /\ i \in 1..Len(new.tokens) /\ i \in 1..Stable(old, new)
  BY <1>1, <1>2
<1>. DEFINE B == BlockSize
            r == (i - 1) % B
            b == old.table[Active(i)]
            d == new.table[Active(i)]
<1>5. /\ b \in Nat /\ d \in Nat /\ r \in 0..B - 1 /\ B \in Nat \ {0}
      /\ Slot(old.table, i) = b * B + r /\ Slot(new.table, i) = d * B + r
  <2>1. b \in Block /\ r \in 0..B - 1 /\ Slot(old.table, i) = b * B + r
    BY <1>4, SlotType
  <2>2. d \in Block /\ Slot(new.table, i) = d * B + r
    BY <1>4, SlotType
  <2>3. \A c \in Block : c \in Nat
    BY DEF Block
  <2>. HIDE DEF b, d, r
  <2>. QED BY <2>1, <2>2, <2>3, DeviceAssumption
<1>6. b * B + r = d * B + r
  BY <1>1, <1>4, <1>5
<1>7. b = d
  <2>. HIDE DEF b, d, r, B
  <2>. B * b + r = B * d + r
    BY <1>5, <1>6
  <2>. QED BY <1>5, DivUnique
<1>. QED BY <1>3, <1>7

LEMMA SynchronizeStep ==
  ASSUME Careful, IInv, Awaited, NEW new \in Snapshots, Synchronize(new)
  PROVE  IInv'
<1>. DEFINE job == Queued(new, 3, 5)
            size == Sized(new, 3)
            source == Sources(host, new)
<1>1. /\ Stage(new, 3, 5) /\ host' = new /\ view' = capacity'["table"] /\ host \in Snapshots
      /\ target = <<>> \/ Stable(host, new) = Len(host.tokens)
      /\ \A k \in DOMAIN transfer : transfer[k].last < 5
      /\ UNCHANGED <<device, memory, target>>
  BY DEF Careful, Awaited, Synchronize, MaySynchronize, Stage, IInv, Typed
<1>2. /\ capacity' \in [Name -> Nat] /\ Filled(pinned') /\ job \in Jobs
      /\ transfer' = Append(transfer, job)
      /\ transfer' # <<>> => \A name \in Name : size[name] > 0 =>
           SubSeq(pinned'[name][capacity'[name]], 1, size[name]) = source[name]
  BY <1>1, StageProperties
<1>3. Queue' /\ transfer' \in Seq(Jobs)
  BY <1>1, StageKeepsQueue
<1>4. job.at = 1 /\ job.last = 5 /\ job.size = size /\ job.buffer = capacity'
  BY DEF Queued
<1>5. \A name \in Name : size[name] = Len(source[name])
  BY DEF Sized, Names, Name
<1>6. \A name \in Name : source[name] \in Seq(Cell) /\ Len(source[name]) \in Nat
  BY <1>1, SourceCells
<1>. HIDE DEF job, size, source
<1>7. Typed'
  <2>. view' \in Nat
    BY <1>1, <1>2 DEF Name
  <2>. QED BY <1>1, <1>2, <1>3 DEF IInv, Typed, Filled
<1>8. ~Pending /\ Len(transfer) \in Nat
  <2>1. Len(transfer) \in Nat /\ (transfer # <<>> => Len(transfer) \in DOMAIN transfer)
    BY LenProperties, EmptySeq DEF IInv, Typed
  <2>. QED BY <1>1, <2>1 DEF Pending, Newest
<1>9. /\ Len(transfer') = Len(transfer) + 1 /\ transfer' # <<>> /\ Newest' = job /\ Pending'
  <2>. /\ Len(transfer') = Len(transfer) + 1 /\ transfer'[Len(transfer) + 1] = job
       /\ transfer' # <<>>
    BY <1>2, AppendProperties DEF IInv, Typed
  <2>. QED BY <1>4 DEF Newest, Pending
<1>10. ASSUME NEW name \in Name
       PROVE  Staged(name)' = source[name]
  <2>1. ~(1 > Stop[name])
    BY DEF Stop, Name
  <2>2. Staged(name)' = IF size[name] = 0 THEN <<>>
                        ELSE SubSeq(pinned'[name][capacity'[name]], 1, size[name])
    BY <1>4, <1>9, <2>1 DEF Staged, Carried
  <2>3. CASE size[name] = 0
    BY <1>5, <1>6, <2>2, <2>3, EmptySeq
  <2>4. CASE size[name] # 0
    <3>. size[name] > 0
      BY <1>5, <1>6, <2>4
    <3>. QED BY <1>2, <1>9, <2>2, <2>4
  <2>. QED BY <2>3, <2>4
<1>11. /\ source.upload \in Seq(Slots \X Entries) /\ source.stale \in Seq(Slots)
       /\ source.table = new.table
       /\ \A s : (\E i \in DOMAIN source.stale : source.stale[i] = s) <=> s \in Stale(host, new)
  BY <1>1, SourcesType DEF source
<1>12. Image(Ahead', new)
  <2>1. Ahead' = Written(Cleared(memory', Staged("stale")'), Staged("upload")')
    BY <1>4, <1>9 DEF Ahead, Cleared, Written
  <2>2. Ahead' = Written(Cleared(memory, source.stale), source.upload)
    BY <1>1, <1>10, <2>1 DEF Name
  <2>3. Image(memory, host)
    BY <1>8 DEF IInv, Upcoming, Ahead
  <2>. QED BY <1>1, <2>2, <2>3, UploadMakesImage DEF source
<1>13. Upcoming'
  <2>1. Image(Ahead, host)'
    BY <1>1, <1>12 DEF Image
  <2>2. /\ Staged("upload")' \in Seq(Slots \X Entries) /\ Staged("stale")' \in Seq(Slots)
        /\ Staged("table")' = host'.table /\ Newest'.buffer["table"] = view'
    BY <1>1, <1>4, <1>9, <1>10, <1>11 DEF Name
  <2>. QED BY <1>4, <1>9, <2>1, <2>2 DEF Upcoming
<1>14. ASSUME NEW k \in DOMAIN target'
       PROVE  Served(target[k])'
  <2>1. Served(target[k]) /\ target[k] \in Attentions /\ Stable(host, new) = Len(host.tokens)
    <3>1. k \in DOMAIN target /\ target # <<>>
      BY <1>1
    <3>2. target[k] \in Attentions
      BY <3>1, ElementOfSeq DEF IInv, Typed
    <3>. QED BY <1>1, <3>1, <3>2 DEF IInv
  <2>. DEFINE due == target[k].due
              n == Len(due)
  <2>2. /\ target[k].awaits <= Len(transfer) /\ target[k].awaits \in Nat
        /\ n \in Nat \ {0} /\ n <= Len(host.tokens) /\ due # <<>>
        /\ \A i \in 1..n : due[i] = host.tokens[i]
        /\ TableAt(device, target[k].buffer, host.table, Active(n))
        /\ \A i \in 1..n : memory[Slot(host.table, i)] = due[i]
    BY <1>8, <2>1, LenProperties, EmptySeq DEF Served, Attentions
  <2>3. target[k].awaits <= Len(transfer') /\ target[k].awaits # Len(transfer')
    BY <1>8, <1>9, <2>2
  <2>4. /\ Len(host.tokens) \in Nat /\ Len(host.tokens) <= Len(new.tokens) /\ Len(new.tokens) \in Nat
        /\ \A i \in 1..Len(host.tokens) : /\ Slot(host.table, i) = Slot(new.table, i)
                                          /\ host.tokens[i] = new.tokens[i]
    <3>1. Len(host.tokens) \in Nat /\ Len(new.tokens) \in Nat
      BY <1>1, SnapshotType
    <3>2. /\ Stable(host, new) <= Len(new.tokens)
          /\ \A i \in 1..Stable(host, new) : /\ Slot(host.table, i) = Slot(new.table, i)
                                              /\ host.tokens[i] = new.tokens[i]
      BY <1>1, StableProperties
    <3>. QED BY <2>1, <3>1, <3>2
  <2>. HIDE DEF due
  <2>5. \A i \in 1..n : i \in 1..Len(host.tokens)
    BY <2>2, <2>4
  <2>6. TableAt(device, target[k].buffer, new.table, Active(n))
    <3>. n \in 1..Stable(host, new)
      BY <2>1, <2>2, <2>4
    <3>. \A j \in 1..Active(n) : host.table[j] = new.table[j]
      BY <1>1, StableTable
    <3>. HIDE DEF n
    <3>. QED BY <2>2 DEF TableAt
  <2>7. ASSUME NEW i \in 1..n
        PROVE  /\ memory[Slot(new.table, i)] = due[i] /\ due[i] = new.tokens[i]
               /\ Slot(new.table, i) \notin Stale(host, new) /\ Slot(new.table, i) \in Slots
               /\ \A j \in Changed(host, new) : Slot(new.table, i) # Slot(new.table, j)
    <3>. i \in 1..Stable(host, new) /\ i \in 1..Len(new.tokens)
      BY <2>1, <2>4, <2>5
    <3>. QED BY <1>1, <2>2, <2>4, <2>5, StableUntouched, SlotType DEF Changed
  <2>8. ASSUME NEW i \in 1..n
        PROVE  Untouched(Slot(new.table, i))'
    <3>. DEFINE s == Slot(new.table, i)
    <3>1. \A j \in DOMAIN source.stale : source.stale[j] # s
      BY <1>11, <2>7
    <3>2. \A j \in DOMAIN source.upload : source.upload[j][1] # s
      BY <1>1, <2>7, UploadSlots DEF source
    <3>3. Staged("stale")' = source.stale /\ Staged("upload")' = source.upload
      BY <1>10 DEF Name
    <3>. HIDE DEF s
    <3>. QED BY <3>1, <3>2, <3>3 DEF Untouched, s, Slot
  <2>9. target'[k] = target[k]
    BY <1>1
  <2>10. TableAt(device, target[k].buffer, host.table, Active(Len(target[k].due)))'
    BY <1>1, <2>6 DEF TableAt, Has, Active, n, due
  <2>11. \A i \in 1..n : /\ memory'[Slot(host'.table, i)] = due[i]
                          /\ Untouched(Slot(host.table, i))'
    BY <1>1, <2>7, <2>8 DEF Untouched, Slot
  <2>. QED BY <1>1, <1>9, <2>2, <2>3, <2>4, <2>7, <2>9, <2>10, <2>11 DEF Served, n, due, Slot
<1>. QED BY <1>3, <1>7, <1>13, <1>14 DEF IInv
-----------------------------------------------------------------------------
(* The theorems.                                                           *)

LEMMA InitIInv ==
  ASSUME Init
  PROVE  IInv
<1>1. /\ host = [tokens |-> <<>>, table |-> <<>>] /\ view = 0 /\ transfer = <<>> /\ target = <<>>
      /\ capacity = [name \in Name |-> 0] /\ memory = [s \in Slots |-> Unset]
      /\ pinned = [name \in Name |-> <<>>] /\ device = [name \in Name |-> <<>>]
  BY DEF Init, Name
<1>2. host \in Snapshots
  <2>1. <<>> \in [1..0 -> Entries] /\ <<>> \in Injection(1..Active(0), Block)
    BY ActiveOfNone DEF Injection, IsInjective
  <2>2. 0 \in 0..MaxTokens
    BY DeviceAssumption
  <2>. QED BY <1>1, <2>1, <2>2 DEF Snapshots
<1>3. Typed
  BY <1>1, <1>2 DEF Typed, Filled
<1>4. Queue /\ ~Pending /\ \A k \in DOMAIN target : Served(target[k])
  BY <1>1 DEF Queue, Pending
<1>5. Upcoming
  <2>1. Ahead = memory
    BY <1>4 DEF Ahead
  <2>2. \A s \in Slots : memory[s] \notin Entries
    BY <1>1, DeviceAssumption
  <2>3. Image(memory, host)
    BY <1>1, <2>2 DEF Image
  <2>. QED BY <1>1, <1>4, <2>1, <2>3 DEF Upcoming
<1>. QED BY <1>3, <1>4, <1>5 DEF IInv

LEMMA NextIInv ==
  ASSUME Careful, IInv, [Next]_vars
  PROVE  IInv'
<1>1. ASSUME Awaited, NEW new \in Snapshots, Synchronize(new)
      PROVE  IInv'
  BY <1>1, SynchronizeStep
<1>2. ASSUME Awaited, NEW new \in Snapshots, SynchronizeFails(new)
      PROVE  IInv'
  BY <1>2, SynchronizeFailsStep
<1>3. CASE SubmitAttention
  BY <1>3, SubmitAttentionStep
<1>4. ASSUME NEW name \in Name, CopyToDevice(Stop[name], name)
      PROVE  IInv'
  BY <1>4, BrokenOffCopy, SynchronizationCopy
<1>5. CASE Clear
  BY <1>5, ClearStep
<1>6. CASE Write
  BY <1>6, WriteStep
<1>7. CASE Attend
  BY <1>7, AttendStep
<1>8. CASE UNCHANGED vars
  <2>. capacity \in [Name -> Nat] /\ target \in Seq(Attentions)
    BY DEF IInv, Typed
  <2>. QED BY <1>8, AttentionsChange DEF vars, IInv
<1>9. CopyToDevice(1, "upload") \/ CopyToDevice(2, "stale") \/ CopyToDevice(3, "table") => IInv'
  <2>. Stop["upload"] = 1 /\ Stop["stale"] = 2 /\ Stop["table"] = 3
    BY DEF Stop
  <2>. QED BY <1>4 DEF Name
<1>. QED BY <1>1, <1>2, <1>3, <1>5, <1>6, <1>7, <1>8, <1>9 DEF Next

\* What is queued makes the memory that of the host, and what attentions will read
\* is there or on its way, in every state: IInv holds of a caller that waits, on a
\* device whose copies may fail.
THEOREM Invariance == ASSUME Careful PROVE Spec => []IInv
<1>1. Init => IInv
  BY InitIInv
<1>2. IInv /\ [Next]_vars => IInv'
  BY NextIInv
<1>. QED BY <1>1, <1>2, PTL DEF Spec

\* Once the transfer stream is idle, the packed tensors hold the sequence that
\* synchronize was last given, and no entry of an earlier one, however often a copy
\* raised in between.
THEOREM UploadedAlways == ASSUME Careful PROVE Spec => []Uploaded
<1>1. IInv => Uploaded
  BY DEF IInv, Upcoming, Ahead, Pending, Image, Uploaded
<1>. QED BY <1>1, Invariance, PTL

\* What is staged fits the buffer that _pinned_buffers or _workspaces has for its
\* name, also one that was filled for a longer suffix before; and what is uploaded
\* is the sequence.
THEOREM DeviceUploadedAlways == ASSUME Careful PROVE Spec => []DeviceUploaded
<1>1. IInv => TypeOK
  <2>. SUFFICES ASSUME IInv PROVE TypeOK
    OBVIOUS
  <2>1. /\ host \in Snapshots /\ memory \in [Slots -> Entries \cup {Blank, Unset}]
        /\ capacity \in [Name -> Nat] /\ view \in Nat
    BY DEF IInv, Typed
  <2>2. \A buffers \in {pinned, device} : \A name \in Name :
          \A c \in DOMAIN buffers[name] : Len(buffers[name][c]) <= c
    BY DEF IInv, Typed, Filled
  <2>3. ASSUME NEW k \in DOMAIN transfer
        PROVE  transfer[k].at \in 1..transfer[k].last
    <3>1. transfer[k] \in Jobs
      BY ElementOfSeq, LenProperties DEF IInv, Typed
    <3>. QED BY <3>1 DEF IInv, Queue, Jobs
  <2>4. ASSUME NEW k \in DOMAIN target
        PROVE  target[k].awaits \in 0..Len(transfer)
    <3>1. target[k] \in Attentions /\ Len(transfer) \in Nat
      BY ElementOfSeq, LenProperties DEF IInv, Typed
    <3>. QED BY <3>1 DEF IInv, Served, Attentions
  <2>. QED BY <2>1, <2>2, <2>3, <2>4 DEF TypeOK, Name
<1>. QED BY <1>1, Invariance, UploadedAlways, PTL DEF DeviceUploaded

\* An attention that waited for the synchronization it depends on gathers, through
\* the block table that it was given, the entries of the sequence that was
\* synchronized when it was submitted.
THEOREM AttentionReadsAlways == ASSUME Careful PROVE Spec => []AttentionReads
<1>1. ASSUME IInv, Ready
      PROVE  Gathered(Head(target)) = Head(target).due
  <2>. DEFINE a == Head(target)
              n == Len(a.due)
  <2>1. /\ a \in Attentions /\ Served(a) /\ a.awaits = 0 /\ host \in Snapshots
        /\ Len(transfer) \in Nat /\ (transfer # <<>> => Len(transfer) # 0)
    <3>1. target \in Seq(Attentions) /\ target # <<>> /\ transfer \in Seq(Jobs)
      BY <1>1 DEF Ready, IInv, Typed
    <3>2. a = target[1] /\ 1 \in DOMAIN target
      BY <3>1, HeadTailProperties, LenProperties, EmptySeq
    <3>. QED BY <1>1, <3>1, <3>2, ElementOfSeq, LenProperties, EmptySeq DEF Ready, IInv, Typed
  <2>2. ~(Pending /\ a.awaits = Len(transfer))
    BY <2>1 DEF Pending
  <2>. HIDE DEF a
  <2>3. /\ a.due \in Seq(Entries) /\ n \in Nat /\ n <= Len(host.tokens)
        /\ TableAt(device, a.buffer, host.table, Active(n))
        /\ \A i \in 1..n : memory[Slot(host.table, i)] = a.due[i]
    BY <2>1, <2>2, LenProperties DEF Served, Attentions
  <2>. DEFINE table == device["table"][a.buffer]
  <2>4. /\ a.buffer \in DOMAIN device["table"] /\ Active(n) <= Len(table) /\ Len(table) \in Nat
        /\ \A j \in 1..Active(n) : table[j] = host.table[j]
    BY <1>1, <2>3, LenProperties DEF TableAt, Has, IInv, Typed, Filled, Name
  <2>. HIDE DEF n, table
  <2>5. ASSUME NEW i \in 1..n
        PROVE  Active(i) <= Len(table) /\ memory[Slot(table, i)] = a.due[i]
    <3>1. /\ i \in Nat \ {0} /\ Active(i) = ((i - 1) \div BlockSize) + 1
          /\ Active(n) \in Nat /\ Active(i) \in 1..Active(n)
      <4>1. n \in Nat /\ i \in Nat \ {0}
        BY <2>3
      <4>2. Active(n) \in Nat /\ Active(i) \in 1..Active(n)
        BY <4>1, ActiveMonotone
      <4>. QED BY <4>1, <4>2, ActiveOf
    <3>2. Slot(table, i) = Slot(host.table, i)
      BY <2>4, <3>1 DEF Slot
    <3>. QED BY <2>3, <2>4, <3>1, <3>2
  <2>6. Gathered(a) = [i \in 1..n |-> a.due[i]]
    BY <2>4, <2>5 DEF Gathered, n, table
  <2>7. a.due = [i \in 1..n |-> a.due[i]]
    BY <2>3 DEF n
  <2>. QED BY <2>6, <2>7 DEF a
<1>2. IInv => AttentionReads
  BY <1>1 DEF AttentionReads
<1>. QED BY <1>2, Invariance, PTL
=============================================================================
