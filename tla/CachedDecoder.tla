--------------------------- MODULE CachedDecoder ---------------------------
(***************************************************************************)
(* SpeculativeDecoder.generate with its models behind adapters that keep a *)
(* cache, both of them, one or none: SpeculativeDecoder composed with two  *)
(* instances of CausalLMCache.  An adapter may hold what an earlier        *)
(* request left.  A call of a model with a cache is two steps, as in       *)
(* CausalLMCache; a model without one answers in the step that uses it.    *)
(* The decoder goes on with the rows that it was given, right or wrong.    *)
(* The statistics of an adapter count from the start of the request.       *)
(***************************************************************************)
EXTENDS SpeculativeDecoder

CONSTANTS Cachings,    \* sets of models that may be the ones with a cache
          Null,
          Leftovers,   \* contexts of earlier requests
          MaxContext,  \* bound: length of a context
          Containers, Mirrored, Reference, NumBlocks, BlockSize

Models == {"draft", "target"}

ASSUME CachingAssumption == Cachings \subseteq SUBSET Models /\ Prompt # <<>>

VARIABLES cached,    \* the models that have a cache
          dContainer, dTokens, dPast, dBoundary, dCall, dAnswer,  \* the draft's
          dStore, dRoom, dReply,                                  \* adapter
          tContainer, tTokens, tPast, tBoundary, tCall, tAnswer,  \* the target's
          tStore, tRoom, tReply,
          begun,     \* generate has reset the adapters
          rows,      \* draft_distributions and target_distributions
          prefills,  \* by model, _full_prefills
          cropped,   \* by model, _cropped_tokens
          lost       \* by model, calls that raised: the cache was given up

\* All positions are retained; a row is the context that it follows.
DraftCache == INSTANCE CausalLMCache
                WITH Retained <- MaxContext, container <- dContainer,
                     cacheTokens <- dTokens, past <- dPast, boundary <- dBoundary,
                     call <- dCall, answer <- dAnswer,
                     store <- dStore, room <- dRoom, reply <- dReply
TargetCache == INSTANCE CausalLMCache
                 WITH Retained <- MaxContext, container <- tContainer,
                      cacheTokens <- tTokens, past <- tPast, boundary <- tBoundary,
                      call <- tCall, answer <- tAnswer,
                      store <- tStore, room <- tRoom, reply <- tReply

ASSUME CacheAssumption ==
  /\ DraftCache!AdapterAssumption
  /\ Len(Prompt) + MaxNew <= MaxContext
  /\ "object" \in Containers
  /\ \A left \in Leftovers :
       /\ left = <<>> \/ left \in DraftCache!Contexts
       /\ Mirrored => DraftCache!Paged!BlocksFor(Len(left)) <= NumBlocks

dAdapter == <<dContainer, dTokens, dPast, dBoundary, dCall, dAnswer, dStore, dRoom, dReply>>
tAdapter == <<tContainer, tTokens, tPast, tBoundary, tCall, tAnswer, tStore, tRoom, tReply>>
counters == <<prefills, cropped, lost>>
cachedVars == <<vars, cached, dAdapter, tAdapter, begun, rows, counters>>

\* What there is of an adapter before the request.
Containing(m) == IF m \in cached THEN Containers ELSE {"object"}
Leaving(m) == IF m \in cached THEN Leftovers ELSE {<<>>}
Mirroring(left) == [s \in {"model"} |-> IF Mirrored THEN left ELSE <<>>]
Unused(left) == NumBlocks - IF Mirrored THEN DraftCache!Paged!BlocksFor(Len(left)) ELSE 0
RowAfter(left) == IF left = <<>> THEN Null ELSE left

NoRows == [draft |-> <<>>, target |-> <<>>]
NoneYet == [m \in Models |-> 0]

CachedInit ==
  /\ Init
  /\ cached \in Cachings
  /\ dContainer \in Containing("draft")
  /\ tContainer \in Containing("target")
  /\ \E left \in Leaving("draft") :
       /\ dTokens = left /\ dPast = left /\ dBoundary = RowAfter(left)
       /\ dStore = Mirroring(left) /\ dRoom = Unused(left)
  /\ \E left \in Leaving("target") :
       /\ tTokens = left /\ tPast = left /\ tBoundary = RowAfter(left)
       /\ tStore = Mirroring(left) /\ tRoom = Unused(left)
  /\ dCall = Null /\ dAnswer = Null /\ dReply = [kind |-> "ok", value |-> 0]
  /\ tCall = Null /\ tAnswer = Null /\ tReply = [kind |-> "ok", value |-> 0]
  /\ begun = FALSE
  /\ rows = NoRows
  /\ prefills = NoneYet /\ cropped = NoneYet /\ lost = NoneYet

\* Mutant of Reset: the caches of the last request are kept.
ResetNot == UNCHANGED <<dAdapter, tAdapter>>

Reset == DraftCache!ResetCache /\ TargetCache!ResetCache

\* Reset the adapters, if the decoder has validated the prompt.
Begin == /\ ~begun
         /\ begun' = TRUE
         /\ Reset
         /\ UNCHANGED <<vars, rows, counters>>
-----------------------------------------------------------------------------
(* Calls of a model that has a cache.                                      *)

\* The decoder is where it calls the model: in the loop over the draft, or
\* behind it.
Calls(m) == /\ m \in cached
            /\ \/ m = "draft" /\ pc = "draft" /\ Drafting
               \/ m = "target" /\ Drafted

\* Mutant of First: the rows of the whole prompt are asked for.
FirstOfAll(m) == 1

\* The first row that the call is asked for: next_token_probs of the draft, or
\* of the target without a proposal, returns one; score_proposal one for each
\* proposal and one more.
First(m) == IF m = "draft" THEN Len(Context(Len(proposed))) ELSE Len(Context(0))

Waiting(m) == IF m = "draft" THEN dCall # Null ELSE tCall # Null
Idle == dCall = Null /\ tCall = Null

\* The steps of the adapter that is called; the other one rests.
Prepare(m, tokens) ==
  IF m = "draft" THEN DraftCache!Prepare(tokens, First(m)) /\ UNCHANGED tAdapter
                 ELSE TargetCache!Prepare(tokens, First(m)) /\ UNCHANGED dAdapter
PrepareFails(m, tokens) ==
  IF m = "draft" THEN DraftCache!PrepareFails(tokens, First(m)) /\ UNCHANGED tAdapter
                 ELSE TargetCache!PrepareFails(tokens, First(m)) /\ UNCHANGED dAdapter
Forward(m) == IF m = "draft" THEN DraftCache!Forward /\ UNCHANGED tAdapter
                             ELSE TargetCache!Forward /\ UNCHANGED dAdapter
ForwardFails(m) == IF m = "draft" THEN DraftCache!ForwardFails /\ UNCHANGED tAdapter
                                  ELSE TargetCache!ForwardFails /\ UNCHANGED dAdapter

\* What a call of _crop_cache counts as cut before anything can raise.
Excess(m, tokens) ==
  IF m = "draft" THEN Len(dTokens) - DraftCache!Reuse(tokens, First(m))
                 ELSE Len(tTokens) - TargetCache!Reuse(tokens, First(m))
Croppable(m) == "opaque" # IF m = "draft" THEN dContainer ELSE tContainer

\* Mutant of GivesUp: the call fails, and what was drafted is thrown away.
GivesUpAll(m) == /\ pc' = "score"
                 /\ proposed' = <<>>
                 /\ UNCHANGED <<generated, sources, prefix, accepted, rejected, window, stats,
                                draws, rows>>

\* What generate does about a call that raised.
RaiseAtOnce == Raise /\ draws' = draws
GivesUp(m) == /\ RaiseAtOnce \/ (m = "draft" /\ DraftFails)
              /\ UNCHANGED rows

Ask(m) ==
  /\ begun /\ Idle /\ Calls(m)
  /\ Prepare(m, Context(Len(proposed)))
  /\ cropped' = [cropped EXCEPT ![m] = @ + Excess(m, Context(Len(proposed)))]
  /\ UNCHANGED <<vars, begun, rows, prefills, lost>>

\* The cache cannot be cut, or it is cut and cannot be read back.
AskFails(m) ==
  /\ begun /\ Idle /\ Calls(m)
  /\ PrepareFails(m, Context(Len(proposed)))
  /\ GivesUp(m)
  /\ cropped' = IF Croppable(m)
                THEN [cropped EXCEPT ![m] = @ + Excess(m, Context(Len(proposed)))]
                ELSE cropped
  /\ lost' = [lost EXCEPT ![m] = @ + 1]
  /\ UNCHANGED <<begun, prefills>>

\* The rows arrive and are used as they are; normalize_probabilities may refuse
\* one of them, and what is done with them may raise.
Answered(m) ==
  /\ Waiting(m)
  /\ Forward(m)
  /\ prefills' = [prefills EXCEPT ![m] =
                    @ + IF (IF m = "draft" THEN dCall.reuse ELSE tCall.reuse) = 0 THEN 1 ELSE 0]
  /\ \/ /\ m = "draft"
        /\ DraftFrom(Q(dAnswer'.rows[1]))
        /\ rows' = [rows EXCEPT !.draft = Append(@, dAnswer'.rows[1])]
     \/ /\ m = "target"
        /\ \/ /\ Score
              /\ Len(tAnswer'.rows) = Len(proposed) + 1
              /\ rows' = [rows EXCEPT !.target = tAnswer'.rows]
           \/ FallbackFrom(P(tAnswer'.rows[1])) /\ UNCHANGED rows
     \/ GivesUp(m)
     \/ Raise /\ UNCHANGED rows
  /\ UNCHANGED <<begun, cropped, lost>>

AnswerFails(m) == /\ Waiting(m)
                  /\ ForwardFails(m)
                  /\ GivesUp(m)
                  /\ lost' = [lost EXCEPT ![m] = @ + 1]
                  /\ UNCHANGED <<begun, prefills, cropped>>
-----------------------------------------------------------------------------
(* What the decoder does without a cache.                                  *)

\* A model without a cache computes the row that it is asked for.
Uncached ==
  \/ /\ "draft" \notin cached
     /\ \/ /\ Draft
           /\ rows' = [rows EXCEPT !.draft = Append(@, Context(Len(proposed)))]
        \/ DraftFails /\ UNCHANGED rows
  \/ /\ "target" \notin cached
     /\ \/ /\ Score
           /\ rows' = [rows EXCEPT !.target =
                         [k \in 1..Len(proposed) + 1 |-> Context(k - 1)]]
        \/ Fallback /\ UNCHANGED rows

\* Mutant of Verifies: a proposal is tested with the rows of the one after it.
VerifiesNext ==
  /\ \/ AcceptWith(P(rows.target[accepted + 2]), Q(rows.draft[accepted + 1]))
     \/ RejectWith(P(rows.target[accepted + 2]), Q(rows.draft[accepted + 1]))
     \/ Settle
     \/ BonusFrom(P(rows.target[Len(rows.target)]))
  /\ rows' = IF proposed' = <<>> THEN NoRows ELSE rows

\* Rows are kept for the round.
Verifies ==
  /\ \/ AcceptWith(P(rows.target[accepted + 1]), Q(rows.draft[accepted + 1]))
     \/ RejectWith(P(rows.target[accepted + 1]), Q(rows.draft[accepted + 1]))
     \/ Settle
     \/ BonusFrom(P(rows.target[Len(rows.target)]))
  /\ rows' = IF proposed' = <<>> THEN NoRows ELSE rows

Alone == /\ begun /\ Idle
         /\ \/ Uncached
            \/ Verifies
            \/ Raise /\ UNCHANGED rows /\ \A m \in Models : ~Calls(m)
         /\ UNCHANGED <<dAdapter, tAdapter, begun, counters>>

CachedNext == /\ \/ Begin
                 \/ \E m \in Models : Ask(m) \/ AskFails(m) \/ Answered(m) \/ AnswerFails(m)
                 \/ Alone
              /\ UNCHANGED cached

CachedSpec == CachedInit /\ [][CachedNext]_cachedVars /\ WF_cachedVars(CachedNext)
-----------------------------------------------------------------------------
(* Properties.                                                             *)

\* The adapters' variables have their types, and no call finds its row at the
\* boundary: the prefix of every call has a token that the adapter never saw.
CachedTypeOK ==
  /\ DraftCache!TypeOK /\ TargetCache!TypeOK
  /\ begun \in BOOLEAN
  /\ {prefills, cropped, lost} \subseteq [Models -> Nat]
  /\ begun /\ Idle /\ Calls("draft") =>
       ~DraftCache!Hit(Context(Len(proposed)), First("draft"))
  /\ begun /\ Idle /\ Calls("target") =>
       ~TargetCache!Hit(Context(Len(proposed)), First("target"))

\* docs/architecture.md, "Model scoring": a proposal is verified with the rows
\* of its own positions.  The rows that the adapters returned, over all calls
\* of a round, are those of the contexts that generate uses them for: each
\* token was drafted from the row of the context before it, and while generate
\* goes through a proposal it has the target's row of every position.
RowsAreOfTheRound ==
  /\ rows.draft = [k \in 1..Len(proposed) |-> Context(k - 1)]
  /\ pc \in {"verify", "settle", "bonus"} =>
       rows.target = [k \in 1..Len(proposed) + 1 |-> Context(k - 1)]

\* docs/architecture.md: "Decoders reset cache-aware models before every
\* generation request", and "the first call prefills the prompt".  Nothing that
\* an earlier request left is used, and after the first call no other starts
\* from nothing, unless one of the same model raised in between.
OnePrefill == /\ \A m \in Models : prefills[m] <= 1 + lost[m]
              /\ dAnswer # Null => prefills["draft"] >= 1
              /\ tAnswer # Null => prefills["target"] >= 1

\* "Later calls ... crop a speculatively cached suffix when necessary": what is
\* cut from a cache are proposals that were not accepted, each at most once:
\* no position that the output keeps is cut and computed again.
OnlyRejectedIsCropped ==
  pc # "failed" => \A m \in Models : cropped[m] <= stats.drafted - stats.accepted

\* What generate relies on in a cache, and what the cache is for.
CacheServes == CachedTypeOK /\ OnePrefill /\ OnlyRejectedIsCropped

\* With caches, generate is still the decoder of SpeculativeDecoder, which asks
\* the models themselves: every token is sampled, tested and corrected with the
\* rows of its own position, and the call ends whatever the caches do.
ImplementsDecoder == Spec
=============================================================================
