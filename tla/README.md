# A verification of specdecode

specdecode is a speculative-decoding engine: a small draft model proposes a few
tokens, a large target model verifies them, and the output must have exactly the
target's distribution. This directory holds TLA+ models of its core, TLC runs
that check them on small instances, and TLAPS proofs that hold for every value
of the constants. Paths below are those of the repository; line numbers are in
`PROJECT.json` under `map`.

## 1. Inventory

| component | state it keeps | operations | what makes it correct |
|---|---|---|---|
| paged KV cache, `kv_cache.py` | pool of blocks, heap of free blocks, a block table and a length per sequence | create, append (atomic, many), truncate, rollback to a checkpoint, remove, read, audit | exclusive and complete ownership of blocks, all-or-nothing appends, no leak, checkpoints that restore |
| INT8 quantizer, `kv_cache.py`, `native.cpp` | none | quantize, dequantize | bounded error, no overflow, agreement of the two implementations |
| speculative decoder, `decoder.py` | output, draft window, statistics, the generator of random numbers | one `generate` call: draft, score, accept, correct, bonus, fallback | target's distribution, limits, accounting, termination |
| target-only decoder, `decoder.py` | output, statistics | one `generate` call | the baseline of both tests and benchmark |
| sampling arithmetic, `sampling.py`, `backends.py` | none | normalize, categorical, acceptance, residual | the rejection-sampling law |
| native kernels, `native.cpp`, `native.py` | a loaded library | the same arithmetic through a C ABI | parity with Python, no wrong fallback |
| backend selection, `backends.py` | none | choose Python or native from mode, path and environment | the documented table |
| Hugging Face adapter, `huggingface.py` | tokens that are cached, past key values, the row that follows them, counters | next row, score a proposal, crop, reset | every row is that of its own context |
| paged mirror, `hf_paged_cache.py` | one sequence of a paged KV cache | synchronize, truncate, materialize, reset | the mirror has the tokens of the model's cache |
| CUDA runtime, `cuda.py` | streams, device workspaces and pinned buffers that are reused by name | submit, copy to device, wait | dependencies by events, no buffer overwritten while a copy reads it |
| CUDA paged storage, `cuda_kv_cache.py` | device slots, device block table, and the host's view of what was uploaded | synchronize, attend | the device holds what the host believes |
| forward passes on CUDA, `huggingface.py`, `cuda.py` | inputs in pinned buffers, work queued on three streams | copy inputs, queue the model on its role's stream, wait | a pass reads its own inputs, the host goes on |
| HTTP server, `server.py` | one service, one model lock | generate, health | requests do not mix their caches, every request is answered |
| tokenizers, `tokenizers.py` | text emitted so far | push, flush, encode, check compatibility | text is never repeated or retracted |
| benchmark, `benchmark.py` | samples | schedule runs, measure, aggregate | both paths get the same prompts and seeds |
| table model, `models.py` | a table | look a row up | for tests and the demo |
| command line, `cli.py` | none | parse, validate, load a pair of models, run it | only what goes together is loaded, errors are reported |

How they interact. The decoder calls two models (`next_token_probs`,
`score_proposal`), a sampling backend, a generator of random numbers and a
callback, all synchronously and on one thread. A Hugging Face adapter behind a
model keeps a cache from one call to the next, so the decoder's rounds become a
sequence of growths and cuts of that cache, and of its mirror in the paged KV
cache. The CUDA runtime makes copies and forwards asynchronous. The server is
the only place with several threads: they share the two adapters under a lock.

What is hard. In the decoder: rounds cut short at any point by the limit, the
end of the sequence, a rejection or an exception, with rows, statistics, window
and draws to be kept aligned. In the caches: long histories of growth and
rollback, with several sequences recycling each other's blocks. In the adapter:
a cache that must match whatever context is asked next. On the GPU: buffers
that are written by the host while queued copies still have to read them. The
list with lines is `hazards` in `PROJECT.json`.

## 2. Modules

    KVStore                     abstract: named token sequences over a pool of room
      ^ implemented by
    PagedKVCache                blocks, tables, free heap, checkpoints
    DeviceCache                 packed storage on the GPU, its streams and buffers
      DeviceCacheProofs         what is uploaded, what attention reads
      MCDeviceCache             TLC: DeviceCache with faults, or without waiting
      MCPagedStorage            TLC: PagedKVCache and DeviceCache
      PagedKVCacheProofs        invariants, implements KVStore; DeviceCache in MCPagedStorage

    Sampling                    which outcomes a draw may have
      ^ justified by SamplingLaw   the arithmetic, draw by draw, in rational numbers
    TargetOnlyDecoder           abstract: one target token at a time
      ^ implemented by
    SpeculativeDecoder          generate, step by step
      ^ implemented by
    CachedDecoder               SpeculativeDecoder composed with two of CausalLMCache
      DecoderProofs             of both: invariants, accounts, implements TargetOnlyDecoder
      MCCachedDecoder           TLC: both, on the models of MCSpeculativeDecoder
    GenerationLaw               the distribution of a whole call, several rounds
      MCGenerationLaw           TLC: models that answer from the last token

    CausalLMCache               a Hugging Face model's cache, with a mirror in KVStore
      CausalLMCacheProofs       coherence, mirror, rows
      MCCausalLMCache           TLC: models that retain a window
    ForwardStreams              forward passes of both models on the GPU
    Quantizer                   INT8 entries of a mirror
      MCAdapter                 TLC: CausalLMCache, ForwardStreams and Quantizer
      AdapterProofs             inputs of passes, quantized entries
    GenerationServer            connections, request threads, lock and shared caches
      MCGenerationServer        TLC
      GenerationProofs          isolation, lock; and the law of a call (GenerationLaw)
    TextStream                  the text that generate prints, token by token
      MCTextStream              a tokenizer
    BackendChoice, ModelPair, BenchmarkSchedule
      MCCommands                TLC: these three, TextStream and SamplingLaw
      CommandProofs             of all five
    Prefixes                    common prefixes, used by CausalLMCache, CachedDecoder,
                                DeviceCache, GenerationServer and GenerationLaw
    Buffers                     buffers that are reused by name, used by DeviceCache and
                                ForwardStreams; powers of two also by Quantizer
      SharedTheorems            lemmas about both, finite sums, and what else proofs share

Some MC modules instantiate several components that do not interact: in each
behaviour one of them (`subject`) runs and the others rest, so that one run asks
the questions of all of them. The assumptions of such components are plain
definitions, which the MC module asserts.

A run's property is often a conjunction of the properties of one component, each
of which is stated, with the code it is about, in the component's module:

| property | its parts |
|---|---|
| `OutputIsSound` | `StopsInTime`, `TargetSupported` |
| `CacheServes` | `CachedTypeOK`, `OnePrefill`, `OnlyRejectedIsCropped` |
| `ExactProposal` | `ExactLaw`, `CorrectionIsUndervalued` |
| `LawOfTheTarget` | `IsLaw`, `ExactGeneration`, `NeverOverdrawn` |
| `SoundEntry` | `ValidEntry`, `Symmetric`, `NormalWithinHalfStep`, `Repeatable` |
| `NoQuietChange` | `NeverHidden`, `ArgumentDecides`, `FallsBackOnlyIfUnfound` |
| `GoesTogether` | `WeightsLast`, `OneTokenSpace`, `MirrorHasRoom`, `OneDevice`, `ReportedMode` |
| `ShownText` | `NothingTwice`, `WholeWords`, `FlushCompletes`, `NothingLost` |
| `FairComparison` | `SameRuns`, `WarmedUp`, `FreshSeeds`, `Balanced`, `OwnWork`, `OwnPeak` |

The type invariant of the component is a part too, unless the run checks it by
itself. `PROJECT.json` has a mutant of the code for nearly every part.

### PagedKVCache and KVStore

The class is used by one thread at a time, so a public method is one action.
`blocks`, `free`, `tables`, `lengths` are `_blocks`, `_free_blocks`,
`_block_tables` and `_lengths`; the heap is the set of its members, popped
lowest first. Every exception path is an alternative of its action: an unknown
or existing sequence, a count outside the range, no room, an entry that the
quantizer refuses. The two internal assertions are not assumed away: a slot
that is occupied stops the loop of `append_many` with the entries before it
written (`Write`), and a released block that is not empty stops the loop of
`truncate` half-way (`Stuck`); that neither happens is a property. `reply` is
the outcome of the last call. `checkpoints` are values that callers hold; the
model adds what the sequence contained and whether it was cut below the
checkpoint since, which no action reads. K/V entries are opaque.

`KVStore` is what a caller may rely on: sequences of entries, all-or-nothing
appends, and refusals for lack of room exactly when the lengths alone leave too
little of the pool. Physical blocks do not occur in it.

### SpeculativeDecoder, TargetOnlyDecoder, Sampling and SamplingLaw

A step of `SpeculativeDecoder` ends where the outside takes part: a model call,
a draw, the callback. `pc` is the place in `generate`; `prefix`, `proposed`,
`accepted` and `rejected` are the variables of a round; `window` is
`_DraftWindow.size`; `stats` is `DecodeStats`; `draws` counts the uniforms
taken. The two models are the constant operators `P` and `Q` from a context to a
row, so that a run or a theorem quantifies over what they answer. `DraftFails`
is an exception that the draft loop catches, `Raise` one that leaves
`generate` (the statistics are local and lost with it), and each emission may
end in an exception of the callback, after the token was appended.

A draw is abstracted to the outcomes it can have (`Sampling`): a token with
mass, an acceptance or a rejection that has positive probability, a token of
the residual. `SamplingLaw` makes the draws explicit and checks both that these
are the outcomes, and how probable they are.

`TargetOnlyDecoder` is the baseline class, and the abstract specification of
the speculative one: its variables are the output and the way the call ends.

### GenerationLaw

`SamplingLaw` is about one proposal. `GenerationLaw` is about a whole call: its
state is the law of the call, the probability of every configuration it can be
in, and its only step moves each configuration to its successors with the
probabilities of the draws, in exact fractions. The models answer from what they
see of the tokens before (`Seen`, a parameter: the last token in the run, anything in
the theorem), so that acceptances, corrections and bonus tokens of one round change
what the next one is asked; the draft may fail on some contexts, and the window
moves as in the code (a window that `dynamic_draft` leaves alone is one with
`MinDraft`, `InitialDraft` and `MaxDraft` equal). `ExactGeneration` compares the law of the finished outputs
with the product of the target's rows: neither the window, which depends on what
was accepted, nor a failing draft, nor the limit, nor the end of the sequence
shifts it.

### CausalLMCache

The adapter of `huggingface.py` with `use_kv_cache`, and its mirror of
`hf_paged_cache.py`, which is a sequence `"model"` of a `KVStore`: the module
composes the two through `INSTANCE`, so that the mirror can fail for lack of
room as the paged cache does. `cacheTokens`, `past` and `boundary` are
`_cache_tokens`, `_past_key_values` and `_cached_next_probabilities`. A call is
`Prepare` (look up, cut, materialize) and `Forward` (the forward pass, the
mirror, the rows), because the model in between may raise after it extended its
cache in place: `ForwardFails`. `AnswerHit` is the call that needs no forward
pass. `container` is the form of past key values that the model returns, which
decides how they are cut, or that they cannot be.

The key and value of a position are abstracted to its token, and a row of
probabilities to the sequence of tokens that were attended to for it. So a row
is right when it is the row of its context, and any slip of an index, of a cut
or of a stale cache shows in it. `Retained` is the number of positions that the
model's own cache keeps. `Logit` counts a negative index from the end, as Python
does. Counters (full prefills, hits, cropped tokens) are left out.

### CachedDecoder and ModelPair

`CachedDecoder` EXTENDS `SpeculativeDecoder` and has two instances of `CausalLMCache`,
one for each model, with variables of their own. `cached` says which of the models
have a cache: both, as `HuggingFaceModelPair` makes them, one, or none. `generate`
resets the adapters; each call of a model with a cache is that adapter's `Prepare`
and `Forward`, and the return of the call is the decoder's step. That step takes
the row that the adapter answered, whatever it is: `DraftFrom`, `FallbackFrom`,
`AcceptWith`, `RejectWith` and `BonusFrom` are the decoder's steps with a row as a
parameter, and `rows` keeps `draft_distributions` and `target_distributions` of the
round, each as the context that it follows. So an adapter that answers with a row of
another context changes what is drafted, accepted or emitted.
An adapter that raises is a draft failure or the end of the call, as in the decoder.
An earlier request may have left full caches (`Leftovers`). `RowsAreOfTheRound` says
that the rows the decoder holds are those of the positions it uses them for;
`OnePrefill` and `OnlyRejectedIsCropped` say what caching is for. `ImplementsDecoder`
says that nobody can tell the caches from the models: the whole implements
`SpeculativeDecoder!Spec`, in which each row is computed afresh, fairness included.
One adapter object that serves as both models (`decoder.py:157`) is not modelled.

`ModelPair` runs from the options of a command to a pair that is ready, refused
with a message, or lost in a traceback: validation in the command, tokenizers,
their compatibility, one device for both, adapters, output vocabularies,
mirrors, the shared CUDA runtime. What an artifact contains is chosen when it is
loaded, and each load may fail. The checks of two tokenizers are the equality of
what they compare, and the number of input embeddings (`huggingface.py:114`) goes
with the output vocabulary.

### DeviceCache

`CudaPagedKVCacheStorage` with the part of `CudaExecutionRuntime` that it uses.
`host` is the pair `_tokens`, `_block_table`; `pinned` and `device` are the
buffers that are reused by name (five of an upload are one, whose elements are
pairs of a slot and an entry); `memory` is the packed tensors. `Synchronize` is
the call up to its return: it compares, fills the pinned buffers, queues a job
and advances `host`. The job is then done one step at a time by the transfer
stream (`CopyToDevice` for each buffer, `Clear`, `Write`), in any interleaving
with further calls and with the target stream. An attention waits for the jobs
that were queued before it (`Ready`), and reads through `view`, the buffer that
the newest block table was copied to. What the cache holds at a synchronization
is any legal table and any entries: any number of appends, rollbacks and
re-creations may lie between two of them. A fresh tensor is `Unset`
(`torch.empty`); a released slot is `Blank`. A buffer that nothing queued reads
is forgotten, which keeps the states few; its size is kept.

`Waits` is a caller that waits for its tasks before it synchronizes again, except
that an attention may stay queued while the sequence only grows: the transfer
stream then overtakes it, which is harmless because no slot it reads changes.
`Faults` are the calls of PyTorch that may raise (`SynchronizeFails`): a copy to
the device, before or after its pinned buffer was filled, with the copies of the
call queued so far left behind; or the update of the tensors, before clearing or between
clearing and writing. An attention waits for all that is queued when it is submitted.
In the code it waits for the event of the newest synchronization that returned, which
on one stream comes behind what earlier calls left; what a failed call left after
it, nothing names.

### ForwardStreams

`_forward` on a CUDA device: two inputs through the pinned buffers of the role's
names, the model queued on the role's stream behind an event of the transfer
stream, and a wait. A call that raises leaves what it has queued by then
(orphans), and the next call reuses the buffers. `ReadsOwnInputs` is about the
passes that are waited for; an orphan may read anything, nobody sees it.
One `capacity` stands for the pinned buffer and the workspace of a name, whose sizes
differ after a failure between `cuda.py:290` and `292`; each is large enough all the same.

### TextStream

`IncrementalTextDecoder` and its caller in `cli.py`. A tokenizer is any function
`Decode` from tokens to text, so that a later token may revise earlier text, as
byte-level and byte-fallback tokenizers do. Strings are sequences of characters,
because the properties are about what has been printed.

### BackendChoice, Quantizer and BenchmarkSchedule

`BackendChoice` is `load_sampling_backend` with the search and the loading behind
it; what lies at each of five places is chosen in `Init`. `Quantizer` is
`PythonKVQuantizer` in integers whose unit is small enough that every input is
one; only the scale is rounded, to a float format with a parameterised significand,
smallest and largest value. `BenchmarkSchedule` is `run_comparison_benchmark`:
loops, seeds, alternating order, synchronizations and the peak of memory, with
a device that does queued work in its own time. Time and memory are the calls
whose work was charged to a sample.

### GenerationServer

One thread serves a connection: `pc` is where it is, `conn` what the connection
has seen, `work` the locals of its generation, `lock` is `_model_lock`. Bodies
arrive when they please, clients leave at any point, the tokenizer and the models
may raise, and an interrupt ends the process with its daemon threads. `cached`
is the context in the adapters' caches: a model call is again two steps, and its
row is what was attended to, so a row shows whether another request came
between. One adapter stands for both, which are reset, used and kept alike;
which tokens a row yields is left to `SpeculativeDecoder`. `stray` records a body
that was not read before the answer; what the base class makes of it is an error page.
A body that is a whole request by itself would be served, which is left out.

## 3. Runs

| run | asks | bounds |
|---|---|---|
| `paged_storage` | audit, assertions, placement, checkpoints, refinement of `KVStore` | 2 sequences, 2 blocks of 2 slots, appends of up to 2 entries of 2 kinds or a refused one, 1 checkpoint held across everything else: appends cross block boundaries, room runs out, blocks change owner |
| | what the device holds, and what attention reads, when the caller waits | 2 blocks of 2 slots, up to 3 tokens of 2 kinds: every change of length, values and blocks, slots passed from one token to another, buffers that grow and are reused; 1 attention queued at any moment |
| `device_cache_faults` | the same when copies to the device raise | 2 blocks of 1 slot, up to 2 tokens, 2 jobs queued, one of which may be that of a failed call |
| `device_cache_update_fails` | the same when the update raises (violated, see below) | 2 blocks of 1 slot |
| `device_cache_pipelined` | the same without waiting (violated, see below) | 2 blocks of 1 slot, 2 synchronizations queued |
| `speculative_decoder` | limits, alignment, accounts, window, refinement, termination; what an adapter keeps and cuts | 5 tokens of room, window 1 to 4 starting at 3: rounds of every length, the limit inside a round, window both at its minimum and its maximum; caches of none, either or both models, whose contents can be cut or cannot, each empty or with 3 tokens left over that begin like the prompt, and a mirror of 4 blocks of 2 that is read back: every length of acceptance and of what has to be cut (about 390,000 states) |
| `generation_law` | exactness of a whole call | all pairs of models over 2 tokens in thirds that answer from the last token, a draft that fails on any contexts, with and without an end token; 3 new tokens, window 1 to 3 starting at 2: up to three rounds, with the window at both ends |
| `model_cache` | rows, coherence, mirror of one adapter | contexts of up to 5 tokens of 2 kinds, a mirror of 4 tokens that is read back; every pair of shared and diverging prefixes, all cuts, refusals for lack of room |
| | inputs of forward passes; the host goes on | inputs and masks of up to 2 tokens of 2 kinds, so that buffers grow; a call fails only while nothing is queued, so at most the rest of one failed call is left behind |
| | error bound, order and sign, idempotence of quantized entries | all vectors of 2 integers up to 70, a float format of 3 bits (integers below 8 are exact) with its least value 2 and greatest 20, limit 3: zero, subnormal, normal and overflowing scales, ties |
| `model_cache_windowed` | rows of a model that retains 2 positions (violated, see below) | contexts of up to 5 tokens |
| `server` | isolation of requests, the lock, and answers | 2 connections with 2 requests each, 2 new tokens: a later call reuses an earlier one's cache, threads wait for the lock |
| `server_keep_alive` | answers of the handler (violated, see below) | 1 connection, 2 requests |
| `commands` | errors of the backend that must not be hidden, fallback | every combination of 4 modes, 3 paths, both variables and 4 conditions at 5 places |
| | what is loaded, and what goes together | 4 commands (one is a direct call that nothing validated), 3 devices, vocabularies of 2 tokens over 3 identifiers, 2 output sizes, block sizes 0 and 2, block counts none, 0 and 1, 2 context lengths: each validation has inputs on both of its sides |
| | exactness of one verified proposal; the outcomes the decoder's model chooses from | all pairs of rows over 3 tokens in quarters, draws in twelfths: every denominator that occurs divides 12, so counting draws is exact |
| | whole words only, nothing twice, nothing lost | generations of up to 5 tokens of 6 kinds: a character may be split by any other token, and a newline already shown may be revised, for a while or for good |
| | same runs, fresh seeds, balance, own work and memory | up to 3 prompts, 2 warm-ups, 3 repetitions, 2 tokens a call: odd and even counts of everything that alternates |
| `model_pair_serve` | errors are reported (violated, see below) | `serve` alone |

What `model_cache_windowed` shows. `_crop_cache` knows caches that retain only
the last positions, and starts from nothing when it has to go back before the
first of them. It cuts in every other case, also when the cut leaves fewer
positions than the model attends to; when the cut falls exactly on the first
retained position, the cache that is left is empty and the tokens before it
still count as cached. Three tokens are scored, two positions are retained, and
a row after two tokens is asked for: one token is reused with an empty cache,
and the row does not depend on it. The models that the repository uses retain
every position; for these the theorems of `CausalLMCacheProofs` hold.

A mirror of such a model copies the positions behind its length by their physical
index in past key values (`hf_paged_cache.py:215`). When the window has moved on,
index 0 is not token 0; and once the window is full the lengths are equal and
nothing is copied. No option or test combines the two, and `MirrorTracks` is
checked and proved of models that retain every position only.

What `model_pair_serve` shows. `_validate_cache_args` reads
`args.paged_cache_reference_attention`, which `serve`'s parser does not define:
unless an earlier check refuses the options, `specdecode serve` ends in an
`AttributeError` before it has loaded anything. The other commands define it.

What `commands` takes as it is. A library that exists and cannot be loaded is
reported like an absent one (`native.py:81`), so that automatic selection falls
back silently; an empty `SPECDECODE_NATIVE_LIBRARY` counts as unset for the
selection and as a path for the search (`native.py:58`), which then looks nowhere
else. `docs/native.md:37` and the docstring at `backends.py:123` know neither
case: `FallsBackOnlyIfUnfound` names both and says that there is no third. Packaged
libraries are tried before development builds (`native.py:50`), the other way
round than `docs/native.md:22` has it. What must not be hidden otherwise (an
explicit path, an ABI mismatch) is not: `NeverHidden`.

What `model_cache` takes as it is. A scale below the normal range of float32 loses
up to half of its step when it is stored, the quotients grow beyond 127 and are
clamped, and the bound of `docs/kv-cache.md:134`, half a step for each finite
value, fails. With a normal scale it holds (`NormalWithinHalfStep`).

What `server_keep_alive` shows. A POST to an unknown path, or without a length,
is answered before its body is read, as is a GET that has one, and the connection
stays open. The next
request on it is parsed from the middle of the old body, and answered with the
error page of Python's base class, although the documentation promises JSON.

What `device_cache_pipelined` shows. The pinned buffer of a name is refilled by
the next `copy_to_device` of that name, at once, while the copy that reads it is
only queued. A second synchronization that does not wait for the first can
therefore send its own slots and entries twice; the slot of the first stays
unwritten, and the host counts it as uploaded from then on. Nothing in the
docstring asks the caller to wait; all tests do. With a caller that waits for
its tasks (`Waits`), `paged_storage` finds no such loss.

What `device_cache_update_fails` shows. The host's view is advanced only at the
end of `synchronize`. An exception before clearing does no harm; one between
clearing and writing leaves the old view, of which slots are gone; a later synchronization trusts them. A failure of
a copy, which comes before, does no harm: `device_cache_faults`.

Sequences and entries of the caches are symmetric (`Interchangeable`); the runs
with symmetry check no liveness.
`CHECK_DEADLOCK FALSE` appears where the program stops: `generate` returns (also
on a caching adapter, or as a law), a proposal or a vector is done, connections
are closed, a pair is ready or refused, a backend is chosen, the benchmark has
its report, the text is flushed; and in `model_cache`, where nobody need call
again.

Fairness is assumed in four places. In the server, weak fairness of what a thread does by
itself (`Handler`): the operating system schedules every thread, and the lock is
eventually given to a thread that waits while it stays free. No fairness is
assumed of clients, and none of model calls: `EveryRequestServed` names it as its
hypothesis, `HealthServed` does without. Requests are finitely many in a run, and
`threading.Lock` is not first come, first served: with an endless stream of other
requests a thread may wait for ever, which is not excluded by the code.

In the decoder, weak fairness of its whole `Next`: `generate` runs on one thread and blocks on nothing but its own calls, so as
long as models, backend and callback return or raise, a step that can be taken
is taken. No fairness is assumed between alternatives: the draft may fail, and
the target may reject, every time. In `CachedDecoder` it is the same thread and
the same fairness, of `CachedNext`: a forward pass returns or raises. In
`ForwardStreams`, weak fairness of the transfer stream and of each model's stream: a
device does what is queued in order. None is assumed of the host, which may stop
calling; `Returns` says that a host that waits for a pass goes on, which needs
that no stream waits for an event that is never recorded.

## 4. Proofs

TLAPS proves the following for every value of the constants that satisfies the
named assumptions of the modules; TLC evaluates these on every run. Each
theorem module EXTENDS the module it is about, or the MC module in which that
one is instantiated, so that theorem and run state the same property.

`PagedKVCacheProofs`. The inductive invariant is `TypeOK /\ ValidateInvariants`:
the four conjuncts of the audit need each other (that a popped block is empty
needs `FreeEmpty`; that it is nobody else's needs `Partitioned`; that a slot
found through a table is the token's own needs `Exclusive` and `Exact`).
From it follow `NeverAsserts`, `PlacementIsStable`, and, with the history of
checkpoints added, `CheckpointsRestore`. `Implementation` proves
`Spec => ImplementsStore`: the free list has exactly as many blocks as the
lengths leave, by counting, and each action is the abstract action of its name
with the same reply. Assumptions: at least one block, of at least one slot; `None`
and a refused entry are not entries; identifiers are finitely many.

`DeviceCacheProofs`. `Uploaded` compares the device with the host only when
nothing is queued, so the invariant looks ahead: what the queued job will have
made of the packed memory is the sequence of the host (`Upcoming`, `Image`), at
each of the five places where the job may be. `Queue` says that what a job will
copy is still in its pinned buffers and what it has copied is in the workspaces,
and `Served` that an attention which does not wait for the newest job finds its
entries already, in slots that the job leaves alone. The step that matters is a new
synchronization: a slot that the old sequence occupied and the new one does not is
among the stale ones, because slots are injective (division by the block size).
The theorems have a hypothesis, `Careful`: the caller waits, and the update of
the tensors does not raise. It is needed: `device_cache_pipelined` and
`device_cache_update_fails` violate the same properties without either half. A copy
may still raise anywhere. `PagedKVCacheProofs` carries the two theorems over to
`StorageSpec`, where the components are checked together (`StorageIsUploaded`,
`StorageAttentionReads`).

`DecoderProofs`, the decoder. `Shape` relates the round to the output and to the
limit and is inductive with the types; `StopsInTime` follows. `Origin` adds
that a token waiting to be verified was drawn from the draft's row of its
position; `OutputIsTargetSupported` follows, and with it `OutputSoundness`,
because a rejection leaves a residual or the target itself. `Accounts` carries the statistics and the draws
through the middle of a round. `Implementation` proves that the decoder
implements `TargetOnlyDecoder`: an emission is one abstract emission, everything
else stutters. Assumptions: `DecodeConfig`'s validation, a prompt of tokens, and
rows of naturals.

`DecoderProofs`, the decoder with caches. That a step of `CachedDecoder` is one of the
decoder's or none (`StepImplements`, and with it `CacheIsInvisible`, the safety half of
`ImplementsDecoder`) needs the whole invariant `CachedInv`: the decoder drafts, tests
and corrects with the rows it was given, so these must be right. An answered row is
that of its context because the adapter's invariant holds of either instance: this
part is `CausalLMCacheProofs`, whose lemmas are used through an INSTANCE of it for
each adapter (the lemmas `Same...` say that a definition is the same in both
instances). `RowsAreOfTheRound` and `Recorded` keep the rows right until they are used
(`AnswersServe`, `VerifiesServe`). Since the decoder's own steps follow, the layers
above hold with caches too (`CachedOutputIsSound`, `CachedImplementation`). While one
adapter is called the other one rests, so each has its part of the invariant, which
is stated once, for a model (`m`), what it holds and what was cut. What is new is what a cache holds in
terms of the round: before its model is called, a prefix of the output
and proposals of the last round that were not accepted (`HeldBefore`); while the
draft proposes, the output and all proposals but the newest (`HeldAmid`); after
the calls, the output and some of the proposals (`HeldAfter`). `Budget` counts:
what was cut, and may still have to be, was proposed and not accepted. From these
follows `CacheServes` (one full forward pass per call of
`generate` unless one failed, and only rejected proposals are cut). Two
assumptions were added to the modules for this. `CacheAssumption`: the model
retains, and its mirror can be asked for, every position of a call, the models
of the repository and not those of `model_cache_windowed`. `SumAssumption`: of two
rows, if one exceeds the other somewhere, it is exceeded elsewhere, because
`normalize_probabilities` gives all rows one sum (`ExcessBalanced` derives it for the rows
of `SamplingLaw`). It is what makes the token
of a correction differ from the rejected one, on which the account of what is cut
rests. With floating-point sums it can fail in the last bit: `residual_distribution`
then returns the target's row, and the correction may be the rejected token, which
the draft's cache still has. The theorems about the composition leave this case out;
those about the decoder alone and about the adapter alone do not use the assumption.

`CausalLMCacheProofs` is about a model that retains every position of the
contexts it is asked (`Unwindowed`, the hypothesis of each theorem). The
invariant says that cached tokens, past key values, boundary row and mirror are
the same sequence (`Cached`), and that a call between its two steps holds
exactly a prefix of its own context and at most its first row (`Waiting`). From
it follow that every row is the one of its context, whatever was asked before.
Assumptions: those of `__init__`.

`AdapterProofs`, forward passes. `ReadsOwnInputs` is about a pass at the head of its
stream whose inputs have been copied. The invariant follows the two inputs of each
pass that is waited for from the call on (`Supplied`): their copies are the last of
their names in the queue and the pinned buffers hold them, or they are in the
workspaces already; jobs left by calls that raised come earlier, and the host is
waiting, so nothing comes later. Buffers grow to powers of two (`PowerExists`).

`AdapterProofs`, quantized entries. `SoundEntry` has no interesting induction: what
is stored is a function of the vector. What is hard is the arithmetic of a scale that
is rounded twice. `Float` describes the numbers of the format: a multiple of the
least one times a power of two, with a full significand unless the power is one.
Rounding a quotient yields such a number within half a spacing (`FloatExists`), and one
that already is such a number stays as it is, also at the upper end of a binade
(`FloatExact`). A normal scale has at least half of the significands below it, more
than the limit of 127, so it lies so close to the exact quotient that the
greatest value rounds to the limit and not beyond (`NormalScale`): nothing is clamped,
every value is within half a step (`NormalEntry`), and reading and storing again
finds the same scale (`NormalRepeats`). Assumption: an even significand of more than
twice the limit, which 2^24 and 127 satisfy.

`GenerationProofs`, the server. The invariant adds to the types and the lock what holds
between the two steps of a model call: what is cached is the prefix of the
caller's context that the call reuses (`Calling`). Another thread cannot change it,
because it would have to hold the lock (`OnlyCaller`). So the row of a forward
pass is that of the whole context.

`GenerationProofs`, the law of a whole call: `OutputsFollowTheTarget`, for every
vocabulary, pair of models, context they look at, limit, window and end token, and
for a draft that fails anywhere. `LawOfTheTarget` is far from inductive: in the middle
of a round the configurations do not have the probabilities that the target gives
their outputs. The proof fixes an output `u` and weighs a configuration by the
probability that the call goes on from it to an output that begins with `u`
(`Worth`). Of what a configuration still has pending, this only depends on the
proposals and on what was emitted before them (`Gain`), not on the window or on the
place in the round, and that is why windows and failures of the draft change nothing.

- `Values` defines the worth, from the last position of `u` backwards: a proposal
  of the right token is worth what keeping it and losing it are, another one what losing it is.
  `Exact` is the argument of rejection sampling with a continuation: whatever
  the worth of going on is, a proposal drawn from the draft's row is worth the
  target's row at that position.
- `Follows`: the successors of a configuration, each with its probability, are worth
  together what the configuration is. There is one lemma for each kind of move: a
  proposal (or none), a verdict, and a draw from the target's row.
- `Legal` says what configurations there are: an output that has not ended, with
  proposals that fit into the limit and have mass in the draft's rows, or an ended one.
- `Measured`, with the types the invariant `LawInv`: the law is finite, its
  configurations are legal, and for every `u` they are worth together what the call
  was at its beginning. A step keeps it, because it regroups the successors (`Mixes`).

What the call is worth at its beginning is what the target gives `u`, by `Exact` at
every position. For `u = <<>>`, of which every output is a continuation, this is `IsLaw`. At the end,
no output is the beginning of another one, so for an output `u` it is
`ExactGeneration`; and those that have emitted `u` are some of those worth
something for it, which is `NeverOverdrawn`. Fractions in lowest terms are
awkward to add, so all probabilities are whole numbers of one denominator
(`Stands`): there is a number that every total of a row up to the mass divides (`Whole`),
and a power of it for every position (`Scale`). Recursion over the
output is a function whose existence is proved first (`RecursionExists`), and a sum over
a finite set is one along an enumeration of it (`Sum`). Assumptions: `LawAssumption`,
the validation of `DecodeConfig` with a limit above zero and a finite vocabulary.

`CommandProofs`, the text, is about every tokenizer. That the terminal shows what counts
as emitted (`ShowsWhatIsEmitted`) and that the final text is shown in full when
it still begins with what was shown (`FlushIsComplete`) need no more than the
types. `LosesNothing` and `ShowsWholeWords`, the other parts of `ShowsTheText`,
need an invariant: while the generation runs, what was shown is a beginning of the stable part of the decoded
text and ends in a blank. That nothing is lost has a hypothesis (`Unrevised`):
no token so far has revised what stood before a blank; without it it is false, as
the tokenizer of `commands` shows. Assumption: `Decode` yields text.

`CommandProofs`, the backend. The end of the selection is a function of the
inputs (`Choice`), and the invariant says that what is left to do leads there.

`CommandProofs`, the pair of models. The invariant (`Loading`) says what is settled at
each step of the loading, and stays so after a refusal: options are validated before
tokenizers are loaded, the tokenizers are equal before weights are, and a loaded
adapter is what the options make of its model (`Good`). Assumptions: a tokenizer's
vocabulary is finite, and `None` is neither a number nor a mirror.

`CommandProofs`, the benchmark. A call is told by its number: its path, prompt, repetition
and seed are arithmetic on it (`Position`, `Calls`, `Sampled`), so that
no seed is drawn with twice on one path and both paths have the same ones. The balance
(`Even`) follows from parities: which path goes first alternates with the number
of the repetition and of the prompt. That a sample is charged with its own
work and memory follows the queue of the device (`Charged`): when a call is
timed, everything that is queued is its own, because the synchronization before it
left nothing.

`CommandProofs`, the law of one proposal: rejection sampling is exact, for every vocabulary,
mass and resolution. The invariant (`ProposalInv`) is small; what is hard is the counting.
The draws that lead to a token are an interval as long as its weight (`DrawsOf`), those
that accept it another (`AcceptsOf`), and the pairs of draws that propose and accept it
their product: its share is what the two rows have in common (`KeptShare`). Added up over
the tokens, one union at a time, this gives the share that is rejected, which is the sum
of what the target's row has above the draft's (`RejectedShare`, `Excess`); the
correction is drawn in proportion to the same differences, so the excess cancels
(`ExactShare`). If it is zero, nothing is rejected, and the fallback of
`residual_distribution` to the target's row is never drawn from. Two rows of one sum that
differ are each above the other somewhere (`ExcessBalanced`), so what is emitted after a
rejection is a token that the draft undervalued. Assumption: every fraction of the mass
divides the resolution of a draw (`ResolutionAssumption`), so that counting draws
measures probability. It also follows that `Sampling`, from which
`SpeculativeDecoder` takes its choices, has exactly the outcomes that some draw has.

`SharedTheorems` holds what several of these need: prefixes and the longest common one,
powers of two and the buffers of their sizes, copying into a reused buffer, division by
the block size, that a finite set of numbers has a greatest element, the partial sums
of a row, and sums over finite sets: split, scaled, compared, and exchanged (`SumTable`). A
power of two is defined by its divisors. Induction as a rule for every predicate is out of
the prover's reach; in its place stands a least element of a well-founded order, or a
set that contains zero and every successor up to a number (`Climb`).

Every safety and action property of a passing run is a theorem. Model-checked only:

- liveness, which is outside the prover's reach: `Terminates`, the server's answers,
  `Returns`, and the fairness in `ImplementsDecoder`;
- the properties that a run finds violated, on the instance of that run.

## 5. Not modelled

- Floating point of probabilities. Rows are rational; the branch of
  `sampling.py:56` that rounding can reach (the last token is returned even if it
  has no mass), and the threshold 1e-15 in place of zero, are left out. The
  quantizer rounds only its scale.
- One adapter object as both draft and target (`decoder.py:157`).
- The stateless adapter (`--no-kv-cache`), which keeps nothing between calls,
  counters, and the conversion of a prompt by an external tokenizer.
- The native kernels as C++ code: buffers, status codes and threads of the
  binding. Their arithmetic is that of `Sampling` and `Quantizer`.
- Statistics in bytes, formatting, logging, percentiles and the report.
- Validation of arguments that no caller in the repository can get wrong
  (types, hashability).
- On the GPU: the reuse of freed device memory by the allocator, timing events,
  and `stage_token_ids` and `run_speculative_round`, which only tests call.
- The table model and the demo.
- `first_rejection`, which the decoder does not call.

## 6. Plan

What remains, in this order:

1. Categorical sampling with sums that are rounded: the branch of `sampling.py:56`
   for a row of three tokens, in a format of a few bits as in `Quantizer`.
2. More action properties as theorems, where a property of a state says less: that
   an append changes no other sequence of the packed memory, that a forward pass
   changes nothing of the other model's workspaces.
