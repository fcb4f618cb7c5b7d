--------------------------- MODULE CausalLMCache ---------------------------
(***************************************************************************)
(* HuggingFaceCausalLM of src/specdecode/huggingface.py with use_kv_cache: *)
(* the past key values of the last call are cut back to what the next call *)
(* shares with it and extended by one forward pass, and a paged cache      *)
(* mirrors them (hf_paged_cache.py).  A call is two steps, what happens    *)
(* before the forward pass and what happens after it.  Callers are one at  *)
(* a time.  The key and value of a position are abstracted to its token,   *)
(* and a row of probabilities to the tokens that were attended to for it.  *)
(***************************************************************************)
EXTENDS Prefixes

CONSTANTS Tokens,
          Null,
          MaxContext,   \* bound: length of a context
          Retained,     \* positions that the model's own cache keeps
          Containers,   \* the forms of past_key_values the model may return
          Mirrored,     \* there is a paged mirror
          Reference,    \* the forward pass reads the mirror
          NumBlocks, BlockSize

\* __init__ refuses a reference without a mirror.
ASSUME AdapterAssumption == /\ MaxContext \in Nat
                            /\ Retained \in Nat \ {0}
                            /\ Containers \subseteq {"object", "legacy", "opaque"}
                            /\ Mirrored \in BOOLEAN
                            /\ Reference \in BOOLEAN
                            /\ Reference => Mirrored
                            /\ NumBlocks \in Nat \ {0}
                            /\ BlockSize \in Nat \ {0}
                            /\ Null \notin Tokens

VARIABLES container,     \* an object with crop and get_seq_length, a legacy
                         \* tuple of tensors, or neither
          cacheTokens,   \* _cache_tokens
          past,          \* _past_key_values: the last positions of cacheTokens
          boundary,      \* _cached_next_probabilities: a row, or Null
          call,          \* the call that waits for its forward pass, or Null
          answer,        \* the last call that returned, and its rows; or Null
          store, room, reply   \* the mirror's paged cache

adapter == <<cacheTokens, past, boundary>>
paged == <<store, room, reply>>
vars == <<container, adapter, call, answer, paged>>

Paged == INSTANCE KVStore WITH Seqs <- {"model"}, Bad <- Null,
                               MaxAppend <- MaxContext

Mirror == store["model"]

Latest(s, n) == SubSeq(s, Len(s) - Smaller(n, Len(s)) + 1, Len(s))

\* The row of the last position of a context, as a model computes it that
\* attends to a position and to the Retained positions before it.
Row(context) == Latest(context, Retained + 1)

Contexts == UNION {[1..n -> Tokens] : n \in 1..MaxContext}

Init == /\ container \in Containers
        /\ cacheTokens = <<>>
        /\ past = <<>>
        /\ boundary = Null
        /\ call = Null
        /\ answer = Null
        /\ store = [s \in {"model"} |-> <<>>]
        /\ room = NumBlocks
        /\ reply = [kind |-> "ok", value |-> 0]

CutMirror(n) == IF Mirrored THEN Paged!Truncate("model", n)
                            ELSE UNCHANGED paged

\* reset_cache; an empty mirror is left alone.
Forget == /\ cacheTokens' = <<>>
          /\ past' = <<>>
          /\ boundary' = Null
          /\ IF Mirror # <<>> THEN CutMirror(0) ELSE UNCHANGED paged
-----------------------------------------------------------------------------
(* Before the forward pass.                                                *)

\* The row after everything that is cached is at hand, and is asked for first.
Hit(tokens, first) == /\ boundary # Null
                      /\ first = Len(cacheTokens)
                      /\ SubSeq(tokens, 1, first) = cacheTokens

\* Mutant of Reuse: no position is left to compute the first row from.
ReuseAll(tokens, first) == CommonLength(cacheTokens, tokens)

\* Mutant of Reuse: one position is computed again that need not be.
ReuseLess(tokens, first) ==
  LET n == Smaller(CommonLength(cacheTokens, tokens), first - 1)
  IN  IF Hit(tokens, first) THEN Len(cacheTokens) ELSE IF n > 1 THEN n - 1 ELSE n

Reuse(tokens, first) ==
  IF Hit(tokens, first) THEN Len(cacheTokens)
  ELSE Smaller(CommonLength(cacheTokens, tokens), first - 1)

\* What _crop_cache does to reach n positions.  A windowed cache that no longer
\* has position n starts from nothing; one that cannot be cut, or whose mirror
\* is shorter, raises.
Keeps(n) == n = Len(cacheTokens)
Refills(n) == /\ n < Len(cacheTokens)
              /\ \/ n = 0
                 \/ /\ container = "object"
                    /\ n < Len(cacheTokens) - Len(past)
Cuts(n) == /\ n < Len(cacheTokens)
           /\ ~Refills(n)
           /\ container # "opaque"
           /\ Mirrored => n <= Len(Mirror)

Cropped(n) == IF container = "object"
              THEN SubSeq(past, 1, Len(past) - (Len(cacheTokens) - n))
              ELSE SubSeq(past, 1, Smaller(n, Len(past)))

\* Mutant of Cut: the mirror is not cut.
CutOnlyNative(n) == /\ Cuts(n)
                    /\ cacheTokens' = SubSeq(cacheTokens, 1, n)
                    /\ past' = Cropped(n)
                    /\ boundary' = Null
                    /\ UNCHANGED paged

Cut(n) == /\ Cuts(n)
          /\ cacheTokens' = SubSeq(cacheTokens, 1, n)
          /\ past' = Cropped(n)
          /\ boundary' = Null
          /\ CutMirror(n)

Crop(n) == \/ Keeps(n) /\ UNCHANGED <<adapter, paged>>
           \/ Refills(n) /\ Forget
           \/ Cut(n)

\* next_token_probs asks for the row after the whole context (first is its
\* length), score_proposal for the rows from the end of the prefix on.
AnswerHit(tokens) == /\ call = Null
                     /\ Hit(tokens, Len(tokens))
                     /\ answer' = [tokens |-> tokens, first |-> Len(tokens),
                                   rows |-> <<boundary>>]
                     /\ UNCHANGED <<container, adapter, call, paged>>

Prepare(tokens, first) ==
  LET n == Reuse(tokens, first)
  IN  /\ call = Null
      /\ ~(first = Len(tokens) /\ Hit(tokens, first))
      /\ Crop(n)
      /\ call' = [tokens |-> tokens, first |-> first,
                  held |-> IF Hit(tokens, first) THEN <<boundary>> ELSE <<>>,
                  reuse |-> Len(cacheTokens'),
                  source |-> IF Reference /\ cacheTokens' # <<>>
                             THEN store'["model"] ELSE past']
      /\ UNCHANGED <<container, answer>>

\* The cache cannot be cut, or the mirror cannot be given the container's form.
PrepareFails(tokens, first) ==
  LET n == Reuse(tokens, first)
  IN  /\ call = Null
      /\ ~(first = Len(tokens) /\ Hit(tokens, first))
      /\ \/ ~Keeps(n) /\ ~Refills(n) /\ ~Cuts(n)
         \/ Reference /\ n > 0 /\ ~Refills(n)
      /\ Forget
      /\ UNCHANGED <<container, call, answer>>
-----------------------------------------------------------------------------
(* The forward pass and after it.                                          *)

Inputs == SubSeq(call.tokens, call.reuse + 1, Len(call.tokens))

\* The logit at an index, counted from the end when negative.
Logit(i) == LET j == IF i < 0 THEN i + Len(Inputs) ELSE i
            IN  Row(call.source \o SubSeq(Inputs, 1, j + 1))

\* Mutant of Rows: a row that is held is computed again.
RowsAgain ==
  call.held \o [k \in 1..Len(call.tokens) - call.first + 1 |->
                  Logit(call.first + k - 1 - call.reuse - 1)]

Rows ==
  LET from == call.first + Len(call.held)
  IN  call.held \o [k \in 1..Len(call.tokens) - from + 1 |->
                      Logit(from + k - 1 - call.reuse - 1)]

Output == Latest(call.source \o Inputs, Retained)

\* The mirror takes the positions that it does not have yet.
Synchronize ==
  \/ /\ ~Mirrored \/ Len(Output) = Len(Mirror)
     /\ UNCHANGED paged
  \/ /\ Mirrored
     /\ Len(Output) > Len(Mirror)
     /\ Paged!AppendMany("model", SubSeq(Output, Len(Mirror) + 1, Len(Output)))
     /\ reply'.kind = "ok"

Forward ==
  /\ call # Null
  /\ Inputs # <<>>
  /\ Synchronize
  /\ cacheTokens' = call.tokens
  /\ past' = Output
  /\ boundary' = Logit(Len(Inputs) - 1)
  /\ answer' = [tokens |-> call.tokens, first |-> call.first, rows |-> Rows]
  /\ call' = Null
  /\ UNCHANGED container

\* Mutant of ForwardFails: the cache is kept, which the model has extended.
ForwardFailsKeeping == /\ call # Null
                       /\ past' = Output
                       /\ call' = Null
                       /\ UNCHANGED <<container, cacheTokens, boundary, answer, paged>>

\* The model, the mirror or the logits: any exception forgets the cache, which
\* the model or the mirror may have extended by then.
ForwardFails == /\ call # Null
                /\ Forget
                /\ call' = Null
                /\ UNCHANGED <<container, answer>>

ResetCache == /\ call = Null
              /\ Forget
              /\ UNCHANGED <<container, call, answer>>

Next == \/ \E tokens \in Contexts :
             \/ AnswerHit(tokens)
             \/ \E first \in 1..Len(tokens) : \/ Prepare(tokens, first)
                                              \/ PrepareFails(tokens, first)
        \/ Forward \/ ForwardFails \/ ResetCache

Spec == Init /\ [][Next]_vars
-----------------------------------------------------------------------------
(* Properties.                                                             *)

\* Every variable has its type, and a call that waits for its forward pass has
\* a token to give it (_forward raises without one).
TypeOK ==
  /\ container \in Containers
  /\ cacheTokens \in Seq(Tokens)
  /\ past \in Seq(Tokens)
  /\ boundary \in Seq(Tokens) \cup {Null}
  /\ call \in {Null} \cup [tokens : Seq(Tokens), first : Nat,
                           held : Seq(Seq(Tokens)), reuse : Nat,
                           source : Seq(Tokens)]
  /\ call # Null => call.reuse < Len(call.tokens)
  /\ answer \in {Null} \cup [tokens : Seq(Tokens), first : Nat,
                             rows : Seq(Seq(Tokens))]
  /\ store \in [{"model"} -> Seq(Tokens)]
  /\ room \in 0..NumBlocks

\* models.py, ProposalScoringModel: "Row i predicts the token after prefix +
\* proposal[:i]".  Whatever was asked before, for this prompt or another, and
\* whatever failed, each row that is returned is that of its own context.
RowsMatch ==
  answer # Null =>
    answer.rows = [k \in 1..Len(answer.tokens) - answer.first + 1 |->
                     Row(SubSeq(answer.tokens, 1, answer.first + k - 1))]

\* What is cached belongs together: past key values are those of the last
\* cached tokens, and the boundary row is the one that follows them all.
Coherent == /\ past = Latest(cacheTokens, Len(past))
            /\ boundary # Null => boundary = Row(cacheTokens)
            /\ cacheTokens = <<>> => past = <<>> /\ boundary = Null

\* docs/architecture.md, "Hugging Face": cropping, refills and resets reach the
\* mirror too.  It holds the cached tokens, neither more nor fewer, also while
\* a forward pass is under way and after a failed one.
MirrorTracks == Mirrored => Mirror = cacheTokens
=============================================================================
