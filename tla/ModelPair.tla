----------------------------- MODULE ModelPair -----------------------------
(***************************************************************************)
(* From the options of a command (src/specdecode/cli.py) to a validated    *)
(* pair of models (HuggingFaceModelPair.from_pretrained, huggingface.py)   *)
(* with its mirrors (hf_paged_cache.py) and its CUDA runtime.  What the    *)
(* artifacts contain is found out when they are loaded; any load may fail. *)
(***************************************************************************)
EXTENDS Integers, Functions, FiniteSetsExt

CONSTANTS None,
          Commands,     \* "generate", "benchmark", "serve", or "library": a
                        \* direct call, which no command has validated
          Devices,      \* what may be asked for: "auto" or a device
          Tokens, Ids,  \* tokens of the vocabularies, and their identifiers
          Sizes,        \* output vocabularies of models
          BlockSizes, BlockCounts,  \* what may be asked for; 0 is invalid
          Positions     \* context lengths of models

Sides == {"draft", "target"}

PairAssumption ==
  /\ Commands \subseteq {"generate", "benchmark", "serve", "library"}
  /\ Devices \subseteq {"auto", "cuda", "cuda:0", "cuda:1", "cpu"}
  /\ Ids \subseteq Nat /\ BlockSizes \subseteq Nat /\ BlockCounts \subseteq Nat
  /\ Sizes \subseteq Nat \ {0} /\ Positions \subseteq Nat \ {0}
  /\ IsFiniteSet(Tokens)   \* a tokenizer's get_vocab is a dict
  /\ None \notin Nat /\ None \notin [size : Nat, blocks : Nat]

VARIABLES command, options,
          step,        \* what comes next, or how it ended: "ready", "refused"
                       \* with a message, or "crashed"
          tokenizers,  \* by side
          loaded,      \* sides whose weights were loaded
          adapters,    \* by side: the adapter of a model, or None
          runtime,     \* device of the shared CUDA runtime, or None
          mode         \* kv_cache_mode of the benchmark's report, or None

vars == <<command, options, step, tokenizers, loaded, adapters, runtime, mode>>

Vocabularies == {f \in [Tokens -> Ids] : IsInjective(f)}
Tokenizers == [ids : Vocabularies, special : Ids]

Options == [stateless : BOOLEAN,    \* --no-kv-cache
            mirror : BOOLEAN,       \* --paged-cache-mirror
            reference : BOOLEAN,    \* --paged-cache-reference-attention
            blockSize : BlockSizes,
            blocks : BlockCounts \cup {None},
            device : Devices,           \* of both models; "auto": any two
            shared : Devices \cup {"no", "target"}]  \* of the runtime, if any

\* build_parser: serve has no option for reference attention, and no attribute
\* of that name; only the benchmark and a direct call have a runtime.
Defined(c) == {o \in Options : /\ c = "serve" => ~o.reference
                               /\ c = "benchmark" => o.shared = o.device
                               /\ c # "benchmark" => o.device = "auto"
                               /\ c \in {"generate", "serve"} => o.shared = "no"}

Init == /\ command \in Commands
        /\ options \in Defined(command)
        /\ step = IF command = "library" THEN "tokenizers" ELSE "validate"
        /\ tokenizers = <<>>
        /\ loaded = {}
        /\ adapters = [s \in Sides |-> None]
        /\ runtime = None
        /\ mode = None

\* An exception that main reports: ImportError, OSError, RuntimeError, ValueError.
Refuse(at) == step = at /\ step' = "refused"
              /\ UNCHANGED <<command, options, tokenizers, loaded, adapters, runtime, mode>>

\* Mutant of Conflict: reference attention alone is let through.
ConflictOfModes(o) == o.stateless /\ (o.mirror \/ o.reference)

Conflict(o) == \/ o.stateless /\ (o.mirror \/ o.reference)
               \/ o.reference /\ ~o.mirror

\* The attribute that serve's parser does not define is read unless the
\* two conditions before it have decided.
ReadsMissing == command = "serve" /\ ~(options.stateless /\ options.mirror)

ValidateCacheArgs ==
  /\ step = "validate"
  /\ step' = CASE ReadsMissing -> "crashed"
               [] ~ReadsMissing /\ (Conflict(options) \/ options.blockSize < 1 \/ options.blocks = 0)
                  -> "refused"
               [] OTHER -> "tokenizers"
  /\ UNCHANGED <<command, options, tokenizers, loaded, adapters, runtime, mode>>

\* Mutant of Compatible: special tokens are not compared.
CompatibleByVocabulary(d, t) == d.ids = t.ids

\* validate_tokenizer_compatibility: its checks of lengths, identifiers, added
\* vocabularies and special tokens are equality here.
Compatible(d, t) == d = t

LoadTokenizers ==
  /\ step = "tokenizers"
  /\ \E d, t \in Tokenizers :
       /\ tokenizers' = [s \in Sides |-> IF s = "draft" THEN d ELSE t]
       /\ step' = IF Compatible(d, t) THEN "draft" ELSE "refused"
  /\ UNCHANGED <<command, options, loaded, adapters, runtime, mode>>

\* Mutant of Needed: the last block is missing.
NeededWhole(positions) == positions \div options.blockSize

\* Blocks for all positions of the model.
Needed(positions) == (positions + options.blockSize - 1) \div options.blockSize

\* What a mirror is refused for, once the weights are there.
MirrorRefused == /\ options.mirror
                 /\ options.stateless \/ options.blockSize < 1 \/ options.blocks = 0

Mirror(positions) ==
  IF ~options.mirror THEN None
  ELSE [size |-> options.blockSize,
        blocks |-> IF options.blocks = None THEN Needed(positions) ELSE options.blocks]

\* Where a model goes that is asked for on a device.
Placed(d) == IF d = "auto" THEN {"cuda:0", "cuda:1", "cpu"}
             ELSE IF d = "cuda" THEN {"cuda:0"} ELSE {d}

\* Mutant of Fits: identifiers are counted, not compared.
FitsByCount(s, size) == Cardinality(Tokens) <= size

\* The model has a row entry for each identifier of the tokenizer.
Fits(s, size) == Max(Range(tokenizers[s].ids)) < size

\* HuggingFaceCausalLM.from_pretrained and __init__.
LoadModel(s, next) ==
  /\ step = s
  /\ loaded' = loaded \cup {s}
  /\ \E size \in Sizes, positions \in Positions, device \in Placed(options.device) :
       IF MirrorRefused \/ (options.reference /\ ~options.mirror) \/ ~Fits(s, size)
       THEN step' = "refused" /\ UNCHANGED adapters
       ELSE /\ step' = next
            /\ adapters' = [adapters EXCEPT ![s] =
                 [size |-> size, positions |-> positions, device |-> device,
                  cached |-> ~options.stateless, mirror |-> Mirror(positions),
                  reference |-> options.reference, role |-> "target", runtime |-> None]]
  /\ UNCHANGED <<command, options, tokenizers, runtime, mode>>

\* cuda_device or target_device.
Selected == IF options.shared = "target" THEN adapters["target"].device ELSE options.shared

\* Mutant of Shareable: only the target's device is compared.
ShareableTarget == Selected = adapters["target"].device /\ Selected # "cpu"

\* One runtime for both models, on the device that was asked for by its name.
Shareable == /\ adapters["draft"].device = adapters["target"].device
             /\ Selected = adapters["target"].device
             /\ Selected # "cpu"

\* Mutant of MakePair: output vocabularies are not compared.
MakePairUnequal ==
  /\ step = "pair"
  /\ step' = "wire"
  /\ UNCHANGED <<command, options, tokenizers, loaded, adapters, runtime, mode>>

\* The rest of HuggingFaceModelPair.from_pretrained.
MakePair ==
  /\ step = "pair"
  /\ IF \/ adapters["draft"].size # adapters["target"].size
        \/ options.shared # "no" /\ ~Shareable
     THEN step' = "refused" /\ UNCHANGED <<adapters, runtime>>
     ELSE /\ step' = "wire"
          /\ \/ options.shared # "no"
                /\ runtime' = Selected
                /\ adapters' = [s \in Sides |->
                     [adapters[s] EXCEPT !.role = s, !.runtime = Selected]]
             \/ options.shared = "no" /\ UNCHANGED <<adapters, runtime>>
  /\ UNCHANGED <<command, options, tokenizers, loaded, mode>>

\* Mutant of CacheMode: the mirror is looked at first.
CacheModeMirrorFirst(o) == IF o.stateless THEN "stateless"
                           ELSE IF o.mirror THEN "mirror"
                           ELSE IF o.reference THEN "reference" ELSE "native"

\* What run_benchmark_command writes into the report's settings.
CacheMode(o) == IF o.stateless THEN "stateless"
                ELSE IF o.reference THEN "reference"
                ELSE IF o.mirror THEN "mirror" ELSE "native"

\* The prompts are encoded, and decoder, backend, benchmark or server configured.
Wire == /\ step = "wire"
        /\ step' = "ready"
        /\ mode' = IF command = "benchmark" THEN CacheMode(options) ELSE None
        /\ UNCHANGED <<command, options, tokenizers, loaded, adapters, runtime>>

Next == \/ ValidateCacheArgs \/ LoadTokenizers
        \/ LoadModel("draft", "target") \/ LoadModel("target", "pair")
        \/ MakePair \/ Wire
        \/ \E at \in {"tokenizers", "draft", "target", "pair", "wire"} : Refuse(at)

Spec == Init /\ [][Next]_vars
-----------------------------------------------------------------------------
(* Properties.                                                             *)

\* Every variable has its type: in particular no mirror is without blocks.
TypeOK ==
  /\ step \in {"validate", "tokenizers", "draft", "target", "pair", "wire",
               "ready", "refused", "crashed"}
  /\ tokenizers = <<>> \/ tokenizers \in [Sides -> Tokenizers]
  /\ runtime \in {"cuda:0", "cuda:1", None}
  /\ {s \in Sides : adapters[s] # None} \subseteq loaded
  /\ \A s \in Sides : adapters[s] # None /\ adapters[s].mirror # None =>
       adapters[s].mirror.size >= 1 /\ adapters[s].mirror.blocks >= 1

\* test_conflicting_cache_modes_fail_before_model_loading and
\* test_pair_rejects_tokenizers_before_loading_model_weights: weights, which take
\* minutes, are loaded only for options and tokenizers that go together, by
\* every command and in every combination.
WeightsLast ==
  loaded # {} =>
    /\ tokenizers["draft"] = tokenizers["target"]
    /\ command # "library" => /\ options.reference => options.mirror
                              /\ options.mirror => ~options.stateless

\* HuggingFaceModelPair: "sharing one token-ID space".  In a pair that is ready
\* every token has one identifier, a row entry in both models, and rows are
\* equally long, whatever the four artifacts contained.
OneTokenSpace ==
  step = "ready" =>
    /\ \A t \in Tokens, s \in Sides :
         /\ tokenizers["draft"].ids[t] = tokenizers["target"].ids[t]
         /\ tokenizers[s].ids[t] < adapters[s].size
    /\ adapters["draft"].size = adapters["target"].size

\* docs/kv-cache.md: unless the caller limits it, the mirror has room for every
\* position of the model, also for a length that fills no whole number of blocks;
\* otherwise a long context would fail in the middle of a generation.
MirrorHasRoom ==
  \A s \in Sides : adapters[s] # None /\ adapters[s].mirror # None /\ options.blocks = None =>
    LET m == adapters[s].mirror
    IN  /\ m.size * m.blocks >= adapters[s].positions
        /\ m.size * (m.blocks - 1) < adapters[s].positions

\* docs/cuda-benchmarking.md: "draft and target models must use the same CUDA
\* device"; each has the stream of its own role on the one runtime.
OneDevice ==
  step = "ready" /\ options.shared # "no" =>
    /\ runtime \in {"cuda:0", "cuda:1"}
    /\ \A s \in Sides : /\ adapters[s].device = runtime /\ adapters[s].runtime = runtime
                        /\ adapters[s].role = s

\* docs/cuda-benchmarking.md: the mode that a report records is the one in which
\* both adapters worked.
ReportedMode ==
  mode # None => \A s \in Sides :
    mode = CASE ~adapters[s].cached -> "stateless"
             [] adapters[s].cached /\ adapters[s].mirror = None -> "native"
             [] adapters[s].mirror # None /\ adapters[s].reference -> "reference"
             [] adapters[s].mirror # None /\ ~adapters[s].reference -> "mirror"

\* README.md, "Serve generation over HTTP": "Load the model pair once and expose
\* request-safe JSON generation" with `specdecode serve`.  A command that cannot
\* go on says so (main); it never ends in a traceback.
ReportsErrors == step # "crashed"

\* HuggingFaceModelPair, "A validated draft/target pair": whatever was asked for
\* and whatever the artifacts contain, what is loaded goes together.
GoesTogether == /\ TypeOK
                /\ WeightsLast /\ OneTokenSpace /\ MirrorHasRoom /\ OneDevice
                /\ ReportedMode
=============================================================================
