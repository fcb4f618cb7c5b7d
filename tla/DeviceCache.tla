---------------------------- MODULE DeviceCache ----------------------------
(***************************************************************************)
(* CudaPagedKVCacheStorage of src/specdecode/cuda_kv_cache.py on the       *)
(* streams and reused buffers of CudaExecutionRuntime (cuda.py): the host  *)
(* compares a sequence with what it uploaded last, fills pinned buffers    *)
(* and queues copies and updates on the transfer stream; attention waits   *)
(* for them on the target stream.  What is queued is done later, in the    *)
(* order of its stream.  The four packed tensors are one, an entry per     *)
(* slot, and the five buffers of an upload are one, of slots and entries.  *)
(***************************************************************************)
EXTENDS Prefixes, Buffers, FiniteSets, Functions

CONSTANTS Entries,             \* quantized K/V entries
          Blank,               \* a slot that was zeroed
          Unset,               \* a slot as torch.empty left it
          NumBlocks, BlockSize,
          Waits,               \* the caller waits for the tasks that it was
                               \* given before it synchronizes again, but for
                               \* an attention only if the sequence was cut
          Faults,              \* what PyTorch may raise in: "stage", a copy to
                               \* the device; "update", the storage's update
          MaxTokens,           \* bound: length of the sequence
          MaxTransfers,        \* bound: synchronizations that are queued
          MaxFailed,           \* bound: one fails only if fewer than these are
          MaxAttentions        \* bound: attentions that are queued

ASSUME DeviceAssumption == /\ NumBlocks \in Nat \ {0}
                           /\ BlockSize \in Nat \ {0}
                           /\ MaxTokens \in 0..NumBlocks * BlockSize
                           /\ Waits \in BOOLEAN
                           /\ Faults \subseteq {"stage", "update"}
                           /\ Blank \notin Entries /\ Unset \notin Entries

VARIABLES host,       \* what the host believes is uploaded: _tokens, _block_table
          view,       \* the buffer of the newest view's block table
          capacity,   \* size of the newest buffer of each name
          pinned,     \* _pinned_buffers: by name, then by size
          device,     \* _workspaces of the same names and sizes
          memory,     \* the packed tensors, by slot
          transfer,   \* synchronizations queued on the transfer stream
          target      \* attentions queued on the target stream, each with
                      \* the entries it is meant to read

vars == <<host, view, capacity, pinned, device, memory, transfer, target>>

Block == 0..NumBlocks - 1
Slots == 0..NumBlocks * BlockSize - 1
Active(n) == (n + BlockSize - 1) \div BlockSize

\* What a PagedKVCache may hold of the sequence when it is synchronized: any
\* number of its operations may lie between two synchronizations.
Snapshots ==
  UNION {[tokens: [1..n -> Entries], table: Injection(1..Active(n), Block)] : n \in 0..MaxTokens}

\* Slot of the i-th token, counted from one.
Slot(table, i) ==
  table[((i - 1) \div BlockSize) + 1] * BlockSize + ((i - 1) % BlockSize)

Placed(x) == [i \in 1..Len(x.tokens) |-> <<Slot(x.table, i), x.tokens[i]>>]

Init == /\ host = [tokens |-> <<>>, table |-> <<>>]
        /\ view = 0
        /\ capacity = [name \in {"upload", "stale", "table"} |-> 0]
        /\ pinned = [name \in {"upload", "stale", "table"} |-> <<>>]
        /\ device = [name \in {"upload", "stale", "table"} |-> <<>>]
        /\ memory = [s \in Slots |-> Unset]
        /\ transfer = <<>>
        /\ target = <<>>
-----------------------------------------------------------------------------
(* The host.                                                               *)

\* Mutant of Stable: slots are not compared.
StableByEntry(old, new) == CommonLength(old.tokens, new.tokens)

\* _stable_prefix: tokens that kept both their slot and their entry.
Stable(old, new) == CommonLength(Placed(old), Placed(new))

After(s, n) == SubSeq(s, n + 1, Len(s))

\* Slots that held a token and hold none now.
Stale(old, new) ==
  LET n == Stable(old, new)
      slots(x) == {Slot(x.table, i) : i \in n + 1..Len(x.tokens)}
  IN  slots(old) \ slots(new)

\* The elements of a set in some order.
Listing(S) == CHOOSE s \in [1..Cardinality(S) -> S] :
                \A x \in S : \E i \in 1..Cardinality(S) : s[i] = x

Sources(old, new) == [upload |-> After(Placed(new), Stable(old, new)),
                      stale |-> Listing(Stale(old, new)),
                      table |-> new.table]

\* Mutant of Acquire: a larger request is served by the old buffer.
AcquireSmall(name, n) == IF capacity[name] > 0 THEN capacity[name] ELSE Rounded(n)

\* A request is served by the buffer of its name if that is large enough, else
\* by a new one, which replaces it.
Acquire(name, n) == IF n <= capacity[name] THEN capacity[name] ELSE Rounded(n)

Names == <<"upload", "stale", "table">>

\* What is forgotten: buffers that nothing queued will read.
Kept(pins) == IF transfer' = <<>> THEN [name \in DOMAIN pins |-> <<>>] ELSE pins
KeptOnDevice(dev) ==
  IF transfer' # <<>> THEN dev
  ELSE [name \in DOMAIN dev |->
          [c \in {b \in DOMAIN dev[name] :
                    /\ name = "table"
                    /\ \/ b = view
                       \/ \E k \in DOMAIN target : b = target[k].buffer} |-> dev[name][c]]]

\* The buffers of the first n names, for what is not empty, are acquired and
\* filled, and the first `last` steps of the job are queued: a copy for each
\* name, then clearing, then writing.
Stage(new, n, last) ==
  LET source == Sources(host, new)
      staged == {name \in DOMAIN capacity : /\ source[name] # <<>>
                                            /\ \E i \in 1..n : Names[i] = name}
      buffer == [name \in DOMAIN capacity |->
                   IF name \in staged THEN Acquire(name, Len(source[name])) ELSE capacity[name]]
  IN  /\ capacity' = buffer
      /\ transfer' = IF \A i \in 1..last : i <= 3 /\ source[Names[i]] = <<>> THEN transfer ELSE
           Append(transfer, [at |-> 1, last |-> last, buffer |-> buffer,
                             size |-> [name \in DOMAIN capacity |->
                                         IF name \in staged THEN Len(source[name]) ELSE 0]])
      /\ pinned' = Kept([name \in DOMAIN pinned |->
                           IF name \in staged
                           THEN Overlay(pinned[name], buffer[name], source[name])
                           ELSE pinned[name]])
      /\ UNCHANGED <<device, memory, target>>

\* docs/cuda-benchmarking.md: "Callers must not reuse one logical buffer name
\* concurrently before its dependent operation finishes".  A call that raised
\* gave the caller nothing to wait for.
Awaited == Waits => \A k \in DOMAIN transfer : transfer[k].last < 5
MaySynchronize(new) == Waits => target = <<>> \/ Stable(host, new) = Len(host.tokens)

\* synchronize up to its return.  The host does not wait; the order of its
\* copies is that of the steps of the queued job.  Calls for another sequence,
\* an unknown one or another configuration are refused and change nothing.
Synchronize(new) == /\ MaySynchronize(new)
                    /\ Stage(new, 3, 5)
                    /\ host' = new
                    /\ view' = capacity'["table"]

\* Mutant of SynchronizeFails: what is about to be uploaded is noted too early.
SynchronizeFailsNoted(new) == /\ MaySynchronize(new)
                              /\ Len(transfer) < MaxFailed
                              /\ "stage" \in Faults
                              /\ Stage(new, 1, 1)
                              /\ host' = new
                              /\ UNCHANGED view

\* Where a call may end: one of the copies raises, before or after its pinned
\* buffer is filled; or the update does, before clearing or between clearing
\* and writing.  What is filled, and what is queued.
Failures(new) ==
  {f \in (0..3) \X (0..4) :
     LET n == f[1]
         last == f[2]
     IN  \/ /\ "stage" \in Faults /\ last < 3
            /\ Sources(host, new)[Names[last + 1]] # <<>> /\ n \in {last, last + 1}
         \/ /\ "update" \in Faults /\ n = 3 /\ last \in {3, 4}}

\* What was queued stays queued; the host notes nothing.
SynchronizeFails(new) == /\ MaySynchronize(new)
                         /\ Len(transfer) < MaxFailed
                         /\ \E f \in Failures(new) : Stage(new, f[1], f[2])
                         /\ UNCHANGED <<host, view>>

\* Mutant of SubmitAttention: the block table is that of the newest buffer.
SubmitAttentionNewest ==
  /\ host.tokens # <<>>
  /\ Len(target) < MaxAttentions
  /\ target' = Append(target, [awaits |-> Len(transfer), due |-> host.tokens,
                               buffer |-> capacity["table"]])
  /\ UNCHANGED <<host, view, capacity, pinned, device, memory, transfer>>

\* submit_paged_attention with the newest view, after the newest synchronization.
\* It waits for all that is queued on the transfer stream: the event of that
\* synchronization is recorded behind what a failed call left there.  What a call
\* that failed later has queued is named by nothing in the code; the model waits
\* for it too, and such a job may clear slots but writes none.
SubmitAttention ==
  /\ host.tokens # <<>>
  /\ Len(target) < MaxAttentions
  /\ target' = Append(target, [awaits |-> Len(transfer), due |-> host.tokens,
                               buffer |-> view])
  /\ UNCHANGED <<host, view, capacity, pinned, device, memory, transfer>>
-----------------------------------------------------------------------------
(* The transfer stream.                                                    *)

Job == Head(transfer)

\* On to the next step, or to the next job: attentions that waited for this
\* one, or were queued behind it, wait for one less.
Proceed ==
  IF Job.at < Job.last
  THEN transfer' = <<[Job EXCEPT !.at = @ + 1]>> \o Tail(transfer) /\ UNCHANGED target
  ELSE /\ transfer' = Tail(transfer)
       /\ target' = [k \in DOMAIN target |->
                       [target[k] EXCEPT !.awaits = IF @ = 0 THEN 0 ELSE @ - 1]]

\* A copy of the job's part of a pinned buffer, as it is now.
CopyToDevice(at, name) ==
  /\ transfer # <<>>
  /\ Job.at = at
  /\ Proceed
  /\ pinned' = Kept(pinned)
  /\ device' = KeptOnDevice([device EXCEPT ![name] =
                  IF Job.size[name] = 0 THEN @
                  ELSE Overlay(@, Job.buffer[name],
                               SubSeq(pinned[name][Job.buffer[name]], 1, Job.size[name]))])
  /\ UNCHANGED <<host, view, capacity, memory>>

OnDevice(name) == IF Job.size[name] = 0 THEN <<>>
                  ELSE SubSeq(device[name][Job.buffer[name]], 1, Job.size[name])

\* Zero the slots that were released.
Clear ==
  /\ transfer # <<>>
  /\ Job.at = 4
  /\ Proceed
  /\ LET stale == OnDevice("stale")
     IN  memory' = [s \in Slots |->
                      IF \E i \in DOMAIN stale : stale[i] = s THEN Blank ELSE memory[s]]
  /\ pinned' = Kept(pinned) /\ device' = KeptOnDevice(device)
  /\ UNCHANGED <<host, view, capacity>>

\* Write the changed suffix; the job's completion event lets attentions run.
Write ==
  /\ transfer # <<>>
  /\ Job.at = 5
  /\ LET upload == OnDevice("upload")
     IN  memory' = [s \in Slots |->
                      IF \E i \in DOMAIN upload : upload[i][1] = s
                      THEN upload[CHOOSE i \in DOMAIN upload : upload[i][1] = s][2]
                      ELSE memory[s]]
  /\ Proceed
  /\ pinned' = Kept(pinned) /\ device' = KeptOnDevice(device)
  /\ UNCHANGED <<host, view, capacity>>
-----------------------------------------------------------------------------
(* The target stream.                                                      *)

\* Mutant of Ready: attention does not wait for the synchronization.
ReadyAtOnce == target # <<>>

Ready == target # <<>> /\ Head(target).awaits = 0

\* What attention gathers through the device's block table, cut to length.
Gathered(a) ==
  LET table == IF a.buffer \in DOMAIN device["table"] THEN device["table"][a.buffer] ELSE <<>>
  IN  [i \in 1..Len(a.due) |-> IF Active(i) <= Len(table) THEN memory[Slot(table, i)] ELSE Unset]

Attend == /\ Ready
          /\ target' = Tail(target)
          /\ UNCHANGED <<host, view, capacity, pinned, device, memory, transfer>>

Next == \/ /\ Awaited /\ Len(transfer) < MaxTransfers
           /\ \E new \in Snapshots : Synchronize(new) \/ SynchronizeFails(new)
        \/ SubmitAttention
        \/ CopyToDevice(1, "upload") \/ CopyToDevice(2, "stale") \/ CopyToDevice(3, "table")
        \/ Clear \/ Write
        \/ Attend

Spec == Init /\ [][Next]_vars
-----------------------------------------------------------------------------
(* Properties.                                                             *)

\* Every variable has its type, and what is staged fits its buffer.
TypeOK ==
  /\ host \in Snapshots
  /\ memory \in [Slots -> Entries \cup {Blank, Unset}]
  /\ capacity \in [{"upload", "stale", "table"} -> Nat]
  /\ \A buffers \in {pinned, device} : \A name \in DOMAIN capacity :
       \A c \in DOMAIN buffers[name] : Len(buffers[name][c]) <= c
  /\ \A k \in DOMAIN transfer : transfer[k].at \in 1..transfer[k].last
  /\ view \in Nat
  /\ \A k \in DOMAIN target : target[k].awaits \in 0..Len(transfer)

\* docs/kv-cache.md, "CUDA packed storage": whatever became of the sequence since
\* the last synchronization, the changed suffix and the released slots are all
\* that had to change: each token is in its slot, and no other slot keeps an entry.
Uploaded ==
  transfer = <<>> =>
    /\ \A i \in 1..Len(host.tokens) : memory[Slot(host.table, i)] = host.tokens[i]
    /\ \A s \in Slots : memory[s] \in Entries =>
         \E i \in 1..Len(host.tokens) : s = Slot(host.table, i)

\* What is staged fits its buffer; and the device has the sequence that the host
\* counts as uploaded, and no more.
DeviceUploaded == TypeOK /\ Uploaded

\* CudaPagedKVCacheStorage: "a task whose result is safe for a later kernel to
\* consume".  An attention that may run reads the entries it is meant to read.
AttentionReads == Ready => Gathered(Head(target)) = Head(target).due
=============================================================================
