--------------------------- MODULE DecoderProofs ---------------------------
(***************************************************************************)
(* Proofs about SpeculativeDecoder, for every pair of models, prompt,      *)
(* limit and draft window, and about CachedDecoder, its composition with   *)
(* the two adapters.                                                       *)
(*                                                                         *)
(* The decoder: the argument goes in layers, each proved from the ones     *)
(* before: types; the shape of a round (what of the output the round has   *)
(* produced, and that the proposal fits in what is left); the origin of    *)
(* every token; the accounts.  The refinement of TargetOnlyDecoder rests   *)
(* on the first three.                                                     *)
(*                                                                         *)
(* The composition: the invariant of each adapter is that of               *)
(* CausalLMCacheProofs.  What is new is what a cache holds in terms of the *)
(* round (HeldBefore, HeldAmid, HeldAfter), what has been cut of it in     *)
(* terms of the statistics (Budget), and which rows generate has been      *)
(* given (RowsAreOfTheRound).  With these, the rows that it samples from   *)
(* are those of the models themselves, so every step of the composition is *)
(* one of the decoder's, and the decoder's layers hold.  What is said of   *)
(* one adapter is said with the adapter as a parameter; what is proved of  *)
(* its own steps is proved of the draft's and then of the target's, which  *)
(* are two instances of one module.                                        *)
(***************************************************************************)
EXTENDS CachedDecoder, SequenceTheorems, FiniteSetTheorems, TLAPS

Stat == [drafted : Nat, accepted : Nat, rejected : Nat, target : Nat,
         rounds : Nat, fallback : Nat]

\* What the round has added to the output, at every place in generate.
RoundShape ==
  /\ pc \in {"draft", "score"} =>
       generated = prefix /\ accepted = 0 /\ ~rejected
  /\ pc = "verify" => /\ generated = prefix \o SubSeq(proposed, 1, accepted)
                      /\ accepted < Len(proposed)
                      /\ ~rejected
  /\ pc = "settle" =>
       IF rejected THEN accepted < Len(proposed)
       ELSE /\ accepted = Len(proposed)
            /\ generated = prefix \o proposed
  /\ pc = "bonus" => generated = prefix \o proposed

\* Where generate goes on emitting, the output is not finished.
Open == pc \in {"draft", "score", "verify", "bonus"} => ~Stops(generated)

\* The proposal fits in what is left, and only its last token ends it.
ProposalFits ==
  pc \in {"draft", "score", "verify"} =>
    /\ Len(prefix) + Len(proposed) <= MaxNew
    /\ \A i \in 1..Len(proposed) - 1 : proposed[i] # Eos

Shape == RoundShape /\ Open /\ ProposalFits /\ StopsInTime

\* A proposal is what the draft model could say there.
DraftSupported ==
  pc \in {"draft", "score", "verify"} =>
    \A i \in 1..Len(proposed) :
      proposed[i] \in Support(Q(Prompt \o prefix \o SubSeq(proposed, 1, i - 1)))

\* Tokens of the target's own lag the rounds by the bonus token that is due.
Rounds ==
  /\ pc \notin {"done", "failed"} =>
       stats.rounds + stats.fallback =
         stats.target + IF \/ pc \in {"verify", "bonus"}
                           \/ pc = "settle" /\ ~rejected THEN 1 ELSE 0
  /\ pc = "settle" =>
       /\ generated # <<>>
       /\ sources[Len(sources)] = IF rejected THEN "target_correction"
                                              ELSE "accepted_draft"

\* The drafted tokens that no verdict has been passed on yet.
Drafts ==
  /\ pc \in {"draft", "score", "verify"} =>
       stats.drafted + accepted >= stats.accepted + stats.rejected + Len(proposed)
-----------------------------------------------------------------------------
(* Types.                                                                  *)

LEMMA LimitType ==
  ASSUME TypeOK
  PROVE  /\ Limit \in Int
         /\ Limit <= window
         /\ Limit <= MaxNew - Len(prefix)
<1>1. Len(prefix) \in Nat /\ window \in Int /\ MaxNew \in Nat
  BY ConfigAssumption DEF TypeOK
<1>. QED BY <1>1 DEF Limit, Smaller

LEMMA ObserveType ==
  ASSUME NEW size \in MinDraft..MaxDraft, NEW right \in Nat, NEW total \in Nat
  PROVE  Observe(size, right, total) \in MinDraft..MaxDraft
<1>1. /\ size \in Nat /\ MinDraft \in Nat /\ MaxDraft \in Nat
      /\ MinDraft <= size /\ size <= MaxDraft
  BY ConfigAssumption
<1>2. size \div 2 \in Nat /\ size \div 2 <= size
  BY <1>1
<1>. HIDE DEF Observe
<1>3. Smaller(MaxDraft, size + 1) \in MinDraft..MaxDraft
  BY <1>1 DEF Smaller
<1>4. Larger(MinDraft, size - 1) \in MinDraft..MaxDraft
  BY <1>1 DEF Larger
<1>5. Larger(MinDraft, size \div 2) \in MinDraft..MaxDraft
  BY <1>1, <1>2 DEF Larger
<1>. QED BY <1>3, <1>4, <1>5 DEF Observe

\* Each statement that counts keeps the statistics natural numbers.
LEMMA StatType ==
  ASSUME NEW s \in Stat
  PROVE  /\ [s EXCEPT !.drafted = @ + 1] \in Stat
         /\ [s EXCEPT !.accepted = @ + 1] \in Stat
         /\ [s EXCEPT !.rejected = @ + 1, !.target = @ + 1] \in Stat
         /\ [s EXCEPT !.target = @ + 1, !.fallback = @ + 1] \in Stat
         /\ [s EXCEPT !.target = @ + 1] \in Stat
         /\ [s EXCEPT !.rounds = @ + 1] \in Stat
<1>1. [s EXCEPT !.drafted = @ + 1] \in Stat
  BY DEF Stat
<1>2. [s EXCEPT !.accepted = @ + 1] \in Stat
  BY DEF Stat
<1>3. [s EXCEPT !.rejected = @ + 1, !.target = @ + 1] \in Stat
  <2>1. [s EXCEPT !.rejected = @ + 1, !.target = @ + 1]
          = [s EXCEPT !.rejected = s.rejected + 1, !.target = s.target + 1]
    OBVIOUS
  <2>2. \A m, n \in Nat : [s EXCEPT !.rejected = m, !.target = n] \in Stat
    BY Zenon DEF Stat
  <2>3. s.rejected + 1 \in Nat /\ s.target + 1 \in Nat
    BY DEF Stat
  <2>. QED BY <2>1, <2>2, <2>3
<1>4. [s EXCEPT !.target = @ + 1, !.fallback = @ + 1] \in Stat
  <2>1. [s EXCEPT !.target = @ + 1, !.fallback = @ + 1]
          = [s EXCEPT !.target = s.target + 1, !.fallback = s.fallback + 1]
    OBVIOUS
  <2>2. \A m, n \in Nat : [s EXCEPT !.target = m, !.fallback = n] \in Stat
    BY Zenon DEF Stat
  <2>3. s.target + 1 \in Nat /\ s.fallback + 1 \in Nat
    BY DEF Stat
  <2>. QED BY <2>1, <2>2, <2>3
<1>5. [s EXCEPT !.target = @ + 1] \in Stat
  BY DEF Stat
<1>6. [s EXCEPT !.rounds = @ + 1] \in Stat
  BY DEF Stat
<1>. QED BY <1>1, <1>2, <1>3, <1>4, <1>5, <1>6

LEMMA EmitType ==
  ASSUME TypeOK, NEW x \in Tokens, NEW source \in Source, Emit(x, source)
  PROVE  generated' \in Seq(Tokens) /\ sources' \in Seq(Source)
BY DEF TypeOK, Emit

LEMMA SupportType ==
  ASSUME NEW row, NEW x \in Support(row)
  PROVE  x \in Tokens
BY DEF Support

LEMMA ResidualType ==
  ASSUME NEW p, NEW q, NEW x \in Residual(p, q)
  PROVE  x \in Tokens
BY DEF Residual, Support

LEMMA RaisesType ==
  ASSUME TypeOK, CallbackRaises, draws' \in Nat,
         generated' \in Seq(Tokens), sources' \in Seq(Source)
  PROVE  TypeOK'
BY DEF TypeOK, CallbackRaises, round

LEMMA NewRoundType ==
  ASSUME TypeOK, NewRound, draws' \in Nat, window' \in MinDraft..MaxDraft,
         stats' \in Stat, generated' \in Seq(Tokens), sources' \in Seq(Source)
  PROVE  TypeOK'
<1>1. /\ prefix' \in Seq(Tokens) /\ proposed' \in Seq(Tokens)
      /\ accepted' \in Nat /\ rejected' \in BOOLEAN
  <2>1. prefix' = generated' /\ proposed' = <<>> /\ accepted' = 0 /\ rejected' = FALSE
    BY DEF NewRound
  <2>2. <<>> \in Seq(Tokens) /\ 0 \in Nat
    OBVIOUS
  <2>3. FALSE \in BOOLEAN
    OBVIOUS
  <2>. QED BY <2>1, <2>2, <2>3, Zenon
<1>2. pc' = "draft" \/ pc' = "done"
  <2>1. CASE Stops(generated')
    BY <2>1 DEF NewRound
  <2>2. CASE ~Stops(generated')
    BY <2>2 DEF NewRound
  <2>. QED BY <2>1, <2>2
<1>. QED BY <1>1, <1>2 DEF TypeOK, Stat

LEMMA TypeStep ==
  ASSUME TypeOK, [Next]_vars, RoundShape
  PROVE  TypeOK'
<1>0. /\ draws \in Nat /\ draws + 1 \in Nat /\ draws + 2 \in Nat
      /\ accepted \in Nat /\ Len(proposed) \in Nat
      /\ stats \in Stat
  BY DEF TypeOK, Stat
<1>1. CASE Draft
  <2>1. PICK x \in Support(Q(Context(Len(proposed)))) :
          proposed' = Append(proposed, x)
    BY <1>1 DEF Draft, DraftFrom
  <2>2. x \in Tokens
    BY <2>1, SupportType
  <2>3. proposed' \in Seq(Tokens)
    BY <2>1, <2>2 DEF TypeOK
  <2>4. stats' \in Stat
    BY <1>0, <1>1, StatType DEF Draft, DraftFrom
  <2>. QED BY <1>0, <1>1, <2>3, <2>4 DEF Draft, DraftFrom, TypeOK, Stat
<1>2. CASE DraftFails
  BY <1>2 DEF DraftFails, TypeOK, round
<1>3. CASE Fallback
  <2>1. PICK x \in Support(P(Context(0))) : Emit(x, "target_fallback")
    BY <1>3 DEF Fallback, FallbackFrom
  <2>2. generated' \in Seq(Tokens) /\ sources' \in Seq(Source)
    BY <2>1, SupportType, EmitType DEF Source
  <2>3. stats' = [stats EXCEPT !.target = @ + 1, !.fallback = @ + 1] => stats' \in Stat
    BY <1>0, StatType
  <2>. QED BY <1>0, <1>3, <2>2, <2>3, RaisesType, NewRoundType DEF Fallback, FallbackFrom, TypeOK
<1>4. CASE Score
  <2>1. stats' \in Stat
    BY <1>0, <1>4, StatType DEF Score
  <2>. QED BY <1>4, <2>1 DEF Score, TypeOK, round, Stat
<1>5. CASE Accept
  <2>1. proposed[accepted + 1] \in Tokens
    BY <1>5 DEF Accept, AcceptWith, RoundShape, TypeOK
  <2>2. generated' \in Seq(Tokens) /\ sources' \in Seq(Source)
    BY <1>5, <2>1, EmitType DEF Accept, AcceptWith, Source
  <2>3. CASE CallbackRaises
    BY <1>0, <1>5, <2>2, <2>3, RaisesType DEF Accept, AcceptWith
  <2>4. CASE ~CallbackRaises
    <3>1. stats' \in Stat
      BY <1>0, <1>5, <2>4, StatType DEF Accept, AcceptWith
    <3>2. pc' = "settle" \/ pc' = "verify"
      BY <1>5, <2>4, Zenon DEF Accept, AcceptWith
    <3>3. /\ UNCHANGED <<prefix, proposed, rejected, window>>
          /\ accepted' = accepted + 1 /\ draws' = draws + 1
      BY <1>5, <2>4 DEF Accept, AcceptWith
    <3>. QED BY <1>0, <2>2, <3>1, <3>2, <3>3 DEF TypeOK, Stat
  <2>. QED BY <2>3, <2>4
<1>6. CASE Reject
  <2>1. PICK y \in Residual(P(Context(accepted)), Q(Context(accepted))) :
          Emit(y, "target_correction")
    BY <1>6 DEF Reject, RejectWith
  <2>2. generated' \in Seq(Tokens) /\ sources' \in Seq(Source)
    BY <2>1, ResidualType, EmitType DEF Source
  <2>3. CASE CallbackRaises
    BY <1>0, <1>6, <2>2, <2>3, RaisesType DEF Reject, RejectWith
  <2>4. CASE ~CallbackRaises
    <3>1. stats' \in Stat
      BY <1>0, <1>6, <2>4, StatType DEF Reject, RejectWith
    <3>. QED BY <1>0, <1>6, <2>2, <2>4, <3>1 DEF Reject, RejectWith, TypeOK, Stat
  <2>. QED BY <2>3, <2>4
<1>7. CASE Settle
  <2>1. window' \in MinDraft..MaxDraft
    BY <1>0, <1>7, ObserveType DEF Settle, TypeOK
  <2>2. CASE NewRound
    BY <1>0, <1>7, <2>1, <2>2, NewRoundType DEF Settle, TypeOK
  <2>. QED BY <1>7, <2>1, <2>2 DEF Settle, TypeOK, round
<1>8. CASE Bonus
  <2>1. PICK x \in Support(P(Context(Len(proposed)))) : Emit(x, "target_bonus")
    BY <1>8 DEF Bonus, BonusFrom
  <2>2. generated' \in Seq(Tokens) /\ sources' \in Seq(Source)
    BY <2>1, SupportType, EmitType DEF Source
  <2>3. stats' = [stats EXCEPT !.target = @ + 1] => stats' \in Stat
    BY <1>0, StatType
  <2>. QED BY <1>0, <1>8, <2>2, <2>3, RaisesType, NewRoundType DEF Bonus, BonusFrom, TypeOK
<1>9. CASE Raise
  BY <1>9 DEF Raise, TypeOK, round
<1>10. CASE UNCHANGED vars
  BY <1>10 DEF vars, TypeOK, round
<1>. QED BY <1>1, <1>2, <1>3, <1>4, <1>5, <1>6, <1>7, <1>8, <1>9, <1>10 DEF Next

-----------------------------------------------------------------------------
(* Shape: the output inside a round.                                       *)

\* Taking one more proposal is appending it.
LEMMA OneMore ==
  ASSUME NEW a \in Seq(Tokens), NEW s \in Seq(Tokens), NEW k \in 0..Len(s) - 1
  PROVE  Append(a \o SubSeq(s, 1, k), s[k + 1]) = a \o SubSeq(s, 1, k + 1)
<1>1. /\ SubSeq(s, 1, k) \in Seq(Tokens) /\ Len(SubSeq(s, 1, k)) = k
      /\ SubSeq(s, 1, k + 1) \in Seq(Tokens) /\ Len(SubSeq(s, 1, k + 1)) = k + 1
      /\ s[k + 1] \in Tokens
  OBVIOUS
<1>2. /\ a \o SubSeq(s, 1, k) \in Seq(Tokens)
      /\ Len(a \o SubSeq(s, 1, k)) = Len(a) + k
      /\ a \o SubSeq(s, 1, k + 1) \in Seq(Tokens)
      /\ Len(a \o SubSeq(s, 1, k + 1)) = Len(a) + k + 1
  BY <1>1, ConcatProperties
<1>3. ASSUME NEW i \in 1..Len(a) + k + 1
      PROVE  Append(a \o SubSeq(s, 1, k), s[k + 1])[i] = (a \o SubSeq(s, 1, k + 1))[i]
  <2>. DEFINE t == SubSeq(s, 1, k)
              u == SubSeq(s, 1, k + 1)
  <2>1. Len(a) \in Nat /\ k \in Nat
    BY LenProperties
  <2>2. /\ \A j \in 1..Len(a) + k : (a \o t)[j] = IF j <= Len(a) THEN a[j] ELSE t[j - Len(a)]
        /\ \A j \in 1..Len(a) + (k + 1) :
             (a \o u)[j] = IF j <= Len(a) THEN a[j] ELSE u[j - Len(a)]
    <3>1. t \in Seq(Tokens) /\ Len(t) = k /\ u \in Seq(Tokens) /\ Len(u) = k + 1
      BY <1>1
    <3>. HIDE DEF t, u
    <3>2. \A j \in 1..Len(a) + Len(t) : (a \o t)[j] = IF j <= Len(a) THEN a[j] ELSE t[j - Len(a)]
      BY <3>1, ConcatProperties
    <3>3. \A j \in 1..Len(a) + Len(u) : (a \o u)[j] = IF j <= Len(a) THEN a[j] ELSE u[j - Len(a)]
      BY <3>1, ConcatProperties
    <3>. QED BY <3>1, <3>2, <3>3
  <2>3. /\ \A j \in 1..k : t[j] = s[j]
        /\ \A j \in 1..k + 1 : u[j] = s[j]
    OBVIOUS
  <2>4. Append(a \o t, s[k + 1])[i] = IF i <= Len(a) + k THEN (a \o t)[i] ELSE s[k + 1]
    <3>1. a \o t \in Seq(Tokens) /\ Len(a \o t) = Len(a) + k /\ s[k + 1] \in Tokens
      BY <1>1, <1>2
    <3>. HIDE DEF t
    <3>2. Append(a \o t, s[k + 1])[i] = IF i <= Len(a \o t) THEN (a \o t)[i] ELSE s[k + 1]
      <4>1. i \in 1..Len(a \o t) + 1
        BY <3>1
      <4>. QED BY <3>1, <4>1, AppendProperties
    <3>. QED BY <3>1, <3>2
  <2>. HIDE DEF t, u
  <2>5. CASE i <= Len(a)
    BY <2>1, <2>2, <2>4, <2>5
  <2>6. CASE ~(i <= Len(a)) /\ i <= Len(a) + k
    <3>1. i - Len(a) \in 1..k /\ i - Len(a) \in 1..k + 1
      BY <2>1, <2>6
    <3>. QED BY <2>1, <2>2, <2>3, <2>4, <2>6, <3>1
  <2>7. CASE ~(i <= Len(a) + k)
    <3>1. i - Len(a) = k + 1 /\ k + 1 \in 1..k + 1
      BY <2>1, <2>7
    <3>. QED BY <2>1, <2>2, <2>3, <2>4, <2>7, <3>1
  <2>. QED BY <2>5, <2>6, <2>7 DEF t, u
<1>4. /\ Append(a \o SubSeq(s, 1, k), s[k + 1]) \in Seq(Tokens)
      /\ Len(Append(a \o SubSeq(s, 1, k), s[k + 1])) = Len(a) + k + 1
  BY <1>1, <1>2
<1>. QED BY <1>2, <1>3, <1>4, SeqEqual

LEMMA OpenOutput ==
  ASSUME TypeOK, Shape, pc \in {"draft", "score", "verify", "bonus"}
  PROVE  /\ Len(generated) < MaxNew
         /\ \A i \in 1..Len(generated) : generated[i] # Eos
<1>1. generated \in Seq(Tokens) /\ Len(generated) \in Nat /\ MaxNew \in Nat
  BY ConfigAssumption DEF TypeOK
<1>2. Len(generated) # MaxNew
  BY DEF Shape, Open, Stops
<1>3. Len(generated) <= MaxNew /\ \A i \in 1..Len(generated) - 1 : generated[i] # Eos
  BY DEF Shape, StopsInTime
<1>4. generated # <<>> => generated[Len(generated)] # Eos
  BY DEF Shape, Open, Stops
<1>. QED BY <1>1, <1>2, <1>3, <1>4

LEMMA EmitShape ==
  ASSUME TypeOK, Shape, pc \in {"draft", "score", "verify", "bonus"},
         NEW x \in Tokens, NEW source \in Source, Emit(x, source)
  PROVE  /\ generated' = Append(generated, x)
         /\ generated' \in Seq(Tokens)
         /\ Len(generated') = Len(generated) + 1
         /\ StopsInTime'
<1>1. generated \in Seq(Tokens) /\ generated' = Append(generated, x)
  BY DEF TypeOK, Emit
<1>2. /\ generated' \in Seq(Tokens) /\ Len(generated') = Len(generated) + 1
      /\ \A i \in 1..Len(generated) : generated'[i] = generated[i]
  BY <1>1
<1>3. Len(generated') <= MaxNew
  BY <1>1, <1>2, OpenOutput, ConfigAssumption
<1>4. \A i \in 1..Len(generated') - 1 : generated'[i] # Eos
  BY <1>1, <1>2, OpenOutput
<1>. QED BY <1>1, <1>2, <1>3, <1>4 DEF StopsInTime

LEMMA FailedShape ==
  ASSUME pc' = "failed", StopsInTime'
  PROVE  Shape'
BY DEF Shape, RoundShape, Open, ProposalFits

LEMMA NewRoundFacts ==
  ASSUME NewRound
  PROVE  /\ pc' = "draft" \/ pc' = "done"
         /\ pc' = "draft" => ~Stops(generated')
         /\ prefix' = generated' /\ proposed' = <<>>
         /\ accepted' = 0 /\ ~rejected'
<1>1. CASE Stops(generated')
  BY <1>1 DEF NewRound
<1>2. CASE ~Stops(generated')
  BY <1>2 DEF NewRound
<1>. QED BY <1>1, <1>2

LEMMA NewRoundShape ==
  ASSUME NewRound, StopsInTime', generated' \in Seq(Tokens)
  PROVE  Shape'
<1>1. RoundShape'
  BY NewRoundFacts DEF RoundShape
<1>2. Open'
  BY NewRoundFacts DEF Open, Stops
<1>3. ProposalFits'
  <2>1. Len(proposed') = 0 /\ Len(prefix') \in Nat /\ Len(prefix') <= MaxNew
    BY NewRoundFacts DEF StopsInTime
  <2>. QED BY <2>1, ConfigAssumption DEF ProposalFits
<1>. QED BY <1>1, <1>2, <1>3 DEF Shape

LEMMA DraftShape ==
  ASSUME TypeOK, Shape, Draft
  PROVE  Shape'
<1>1. PICK x \in Support(Q(Context(Len(proposed)))) : proposed' = Append(proposed, x)
  BY DEF Draft, DraftFrom
<1>2. x \in Tokens /\ proposed \in Seq(Tokens) /\ Len(proposed) \in Nat
  BY <1>1, SupportType DEF TypeOK
<1>3. /\ Len(proposed') = Len(proposed) + 1
      /\ \A i \in 1..Len(proposed) : proposed'[i] = proposed[i]
  BY <1>1, <1>2
<1>4. pc = "draft" /\ UNCHANGED <<pc, generated, sources, prefix, accepted, rejected, window>>
  BY DEF Draft, DraftFrom
<1>5. RoundShape' /\ Open' /\ StopsInTime'
  BY <1>4 DEF Shape, RoundShape, Open, StopsInTime, Stops
<1>6. ProposalFits'
  <2>1. Len(proposed) < Limit /\ (proposed # <<>> => proposed[Len(proposed)] # Eos)
    BY DEF Draft, DraftFrom, Drafting
  <2>2. Len(proposed) < MaxNew - Len(prefix)
    BY <1>2, <2>1, LimitType, ConfigAssumption DEF TypeOK
  <2>3. Len(prefix') + Len(proposed') <= MaxNew
    BY <1>2, <1>3, <1>4, <2>2, ConfigAssumption DEF TypeOK
  <2>4. \A i \in 1..Len(proposed) : proposed[i] # Eos
    BY <1>2, <1>4, <2>1 DEF Shape, ProposalFits
  <2>. QED BY <1>2, <1>3, <2>3, <2>4 DEF ProposalFits
<1>. QED BY <1>5, <1>6 DEF Shape

LEMMA StayShape ==
  ASSUME TypeOK, Shape, pc \in {"draft", "score"}, pc' \in {"draft", "score"},
         UNCHANGED <<generated, prefix, proposed, accepted, rejected>>
  PROVE  Shape'
BY DEF Shape, RoundShape, Open, ProposalFits, StopsInTime, Stops

LEMMA ScoreShape ==
  ASSUME TypeOK, Shape, Score
  PROVE  Shape'
<1>1. /\ pc \in {"draft", "score"} /\ pc' = "verify" /\ proposed # <<>>
      /\ UNCHANGED <<generated, prefix, proposed, accepted, rejected>>
  BY DEF Score, Drafted, round
<1>2. generated = prefix /\ accepted = 0 /\ ~rejected
  BY <1>1 DEF Shape, RoundShape
<1>3. SubSeq(proposed, 1, 0) = <<>> /\ prefix \o <<>> = prefix /\ Len(proposed) > 0
  BY <1>1 DEF TypeOK
<1>4. RoundShape'
  BY <1>1, <1>2, <1>3 DEF RoundShape
<1>. QED BY <1>1, <1>4 DEF Shape, Open, ProposalFits, StopsInTime, Stops

LEMMA FallbackShape ==
  ASSUME TypeOK, Shape, Fallback
  PROVE  Shape'
<1>1. PICK x \in Support(P(Context(0))) : Emit(x, "target_fallback")
  BY DEF Fallback, FallbackFrom
<1>2. pc \in {"draft", "score"}
  BY DEF Fallback, FallbackFrom, Drafted
<1>3. generated' \in Seq(Tokens) /\ StopsInTime'
  BY <1>1, <1>2, SupportType, EmitShape DEF Source
<1>. QED BY <1>3, FailedShape, NewRoundShape DEF Fallback, FallbackFrom, CallbackRaises

LEMMA AcceptShape ==
  ASSUME TypeOK, Shape, Accept
  PROVE  Shape'
<1>. DEFINE x == proposed[accepted + 1]
<1>0. pc = "verify"
  BY DEF Accept, AcceptWith
<1>1. /\ pc = "verify" /\ accepted \in 0..Len(proposed) - 1 /\ ~rejected
      /\ generated = prefix \o SubSeq(proposed, 1, accepted)
      /\ proposed \in Seq(Tokens) /\ prefix \in Seq(Tokens)
  <2>1. proposed \in Seq(Tokens) /\ prefix \in Seq(Tokens) /\ accepted \in Nat
    BY DEF TypeOK
  <2>2. /\ ~rejected /\ accepted < Len(proposed)
        /\ generated = prefix \o SubSeq(proposed, 1, accepted)
    BY <1>0 DEF Shape, RoundShape
  <2>. QED BY <1>0, <2>1, <2>2
<1>2. x \in Tokens /\ Emit(x, "accepted_draft")
  BY <1>1 DEF Accept, AcceptWith
<1>. HIDE DEF x
<1>3. /\ generated' = Append(generated, x)
      /\ generated' \in Seq(Tokens)
      /\ Len(generated') = Len(generated) + 1
      /\ StopsInTime'
  BY <1>1, <1>2, EmitShape DEF Source
<1>4. CASE CallbackRaises
  BY <1>3, <1>4, FailedShape DEF CallbackRaises
<1>5. CASE ~CallbackRaises
  <2>1. /\ accepted' = accepted + 1
        /\ UNCHANGED <<prefix, proposed, rejected, window>>
    BY <1>5 DEF Accept, AcceptWith
  <2>2. generated' = prefix \o SubSeq(proposed, 1, accepted + 1)
    BY <1>1, <1>3, OneMore DEF x
  <2>3. Len(generated') = Len(prefix) + accepted + 1
    BY <1>1, <2>2, ConcatProperties
  <2>4. CASE Stops(generated') \/ accepted' = Len(proposed)
    <3>1. pc' = "settle"
      BY <1>5, <2>4 DEF Accept, AcceptWith
    <3>2. accepted + 1 = Len(proposed)
      <4>1. Len(prefix) + Len(proposed) <= MaxNew
        BY <1>1 DEF Shape, ProposalFits
      <4>2. CASE Len(generated') = MaxNew
        BY <1>1, <2>3, <4>1, <4>2, ConfigAssumption
      <4>3. CASE generated'[Len(generated')] = Eos
        <5>1. generated'[Len(generated')] = x
          BY <1>2, <1>3 DEF TypeOK
        <5>2. \A i \in 1..Len(proposed) - 1 : proposed[i] # Eos
          BY <1>1 DEF Shape, ProposalFits
        <5>3. accepted + 1 \in 1..Len(proposed) /\ proposed[accepted + 1] = Eos
          BY <1>1, <4>3, <5>1 DEF x
        <5>. QED BY <1>1, <5>2, <5>3
      <4>. QED BY <2>1, <2>4, <4>2, <4>3 DEF Stops
    <3>3. SubSeq(proposed, 1, accepted + 1) = proposed
      BY <1>1, <3>2, SubSeqFull
    <3>4. RoundShape'
      BY <1>1, <2>1, <2>2, <3>1, <3>2, <3>3 DEF RoundShape
    <3>. QED BY <1>3, <3>1, <3>4 DEF Shape, Open, ProposalFits
  <2>5. CASE ~(Stops(generated') \/ accepted' = Len(proposed))
    <3>1. pc' = "verify"
      BY <1>5, <2>5 DEF Accept, AcceptWith
    <3>2. RoundShape'
      BY <1>1, <2>1, <2>2, <2>5, <3>1 DEF RoundShape
    <3>3. Open'
      BY <2>5 DEF Open, Stops
    <3>4. ProposalFits'
      BY <1>1, <2>1 DEF Shape, ProposalFits
    <3>. QED BY <1>3, <3>2, <3>3, <3>4 DEF Shape
  <2>. QED BY <2>4, <2>5
<1>. QED BY <1>4, <1>5

LEMMA RejectShape ==
  ASSUME TypeOK, Shape, Reject
  PROVE  Shape'
<1>1. PICK y \in Residual(P(Context(accepted)), Q(Context(accepted))) :
        Emit(y, "target_correction")
  BY DEF Reject, RejectWith
<1>2. pc = "verify" /\ accepted < Len(proposed)
  BY DEF Reject, RejectWith, Shape, RoundShape
<1>3. generated' \in Seq(Tokens) /\ StopsInTime'
  BY <1>1, <1>2, ResidualType, EmitShape DEF Source
<1>4. CASE CallbackRaises
  BY <1>3, <1>4, FailedShape DEF CallbackRaises
<1>5. CASE ~CallbackRaises
  <2>1. /\ rejected' = TRUE /\ pc' = "settle"
        /\ UNCHANGED <<prefix, proposed, accepted, window>>
    BY <1>5 DEF Reject, RejectWith
  <2>. QED BY <1>2, <1>3, <2>1 DEF Shape, RoundShape, Open, ProposalFits
<1>. QED BY <1>4, <1>5

LEMMA SettleShape ==
  ASSUME TypeOK, Shape, Settle
  PROVE  Shape'
<1>1. pc = "settle" /\ UNCHANGED generated /\ StopsInTime' /\ generated' \in Seq(Tokens)
  BY DEF Settle, Shape, StopsInTime, TypeOK
<1>2. CASE Stops(generated) \/ rejected
  BY <1>1, <1>2, NewRoundShape DEF Settle
<1>3. CASE ~(Stops(generated) \/ rejected)
  <2>1. pc' = "bonus" /\ UNCHANGED <<generated, prefix, proposed>>
    BY <1>3 DEF Settle, round
  <2>2. generated = prefix \o proposed
    BY <1>1, <1>3 DEF Shape, RoundShape
  <2>3. RoundShape'
    BY <2>1, <2>2 DEF RoundShape
  <2>4. Open'
    BY <1>3, <2>1 DEF Open, Stops
  <2>. QED BY <1>1, <2>1, <2>3, <2>4 DEF Shape, ProposalFits
<1>. QED BY <1>2, <1>3

LEMMA BonusShape ==
  ASSUME TypeOK, Shape, Bonus
  PROVE  Shape'
<1>1. PICK x \in Support(P(Context(Len(proposed)))) : Emit(x, "target_bonus")
  BY DEF Bonus, BonusFrom
<1>2. generated' \in Seq(Tokens) /\ StopsInTime'
  BY <1>1, SupportType, EmitShape DEF Source, Bonus, BonusFrom
<1>. QED BY <1>2, FailedShape, NewRoundShape DEF Bonus, BonusFrom, CallbackRaises

LEMMA ShapeStep ==
  ASSUME TypeOK, Shape, [Next]_vars
  PROVE  Shape'
<1>1. CASE DraftFails
  BY <1>1, StayShape DEF DraftFails, round
<1>2. CASE Raise
  <2>1. StopsInTime' /\ pc' = "failed"
    BY <1>2 DEF Raise, Shape, StopsInTime
  <2>. QED BY <2>1, FailedShape
<1>3. CASE UNCHANGED vars
  BY <1>3 DEF vars, round, Shape, RoundShape, Open, ProposalFits, StopsInTime, Stops
<1>. QED BY <1>1, <1>2, <1>3, DraftShape, FallbackShape, ScoreShape, AcceptShape,
            RejectShape, SettleShape, BonusShape DEF Next

LEMMA InitShape ==
  ASSUME Init
  PROVE  TypeOK /\ Shape
<1>1. Len(generated) = 0 /\ Len(proposed) = 0 /\ Len(prefix) = 0
  BY DEF Init
<1>2. stats \in Stat
  BY DEF Init, Stat
<1>3. pc = "done" \/ (pc = "draft" /\ MaxNew # 0)
  <2>1. CASE MaxNew = 0
    BY <2>1 DEF Init
  <2>2. CASE MaxNew # 0
    BY <2>2 DEF Init
  <2>. QED BY <2>1, <2>2
<1>4. TypeOK
  <2>1. rejected \in BOOLEAN
    BY Zenon DEF Init
  <2>2. window \in MinDraft..MaxDraft
    BY ConfigAssumption DEF Init
  <2>3. /\ generated = <<>> /\ sources = <<>> /\ prefix = <<>> /\ proposed = <<>>
        /\ accepted = 0 /\ draws = 0
    BY DEF Init
  <2>. QED BY <1>2, <1>3, <2>1, <2>2, <2>3 DEF TypeOK, Stat
<1>5. RoundShape /\ StopsInTime
  BY <1>1, <1>3, ConfigAssumption DEF Init, RoundShape, StopsInTime
<1>6. Open /\ ProposalFits
  BY <1>1, <1>3, ConfigAssumption DEF Init, Open, Stops, ProposalFits
<1>. QED BY <1>4, <1>5, <1>6 DEF Shape

\* Types and shape together are inductive.
THEOREM Invariance == Spec => [](TypeOK /\ Shape)
<1>1. Init => TypeOK /\ Shape
  BY InitShape
<1>2. TypeOK /\ Shape /\ [Next]_vars => (TypeOK /\ Shape)'
  BY TypeStep, ShapeStep DEF Shape
<1>. QED BY <1>1, <1>2, PTL DEF Spec

\* Every variable of generate has its type in every reachable state, and the
\* draft window is always inside its configured range.
THEOREM TypeCorrect == Spec => []TypeOK
BY Invariance, PTL

\* The output of generate never exceeds max_new_tokens and ends with the first
\* end-of-sequence token, for every limit, window and pair of models.
THEOREM OutputStopsInTime == Spec => []StopsInTime
<1>1. TypeOK /\ Shape => StopsInTime
  BY DEF Shape
<1>. QED BY <1>1, Invariance, PTL

-----------------------------------------------------------------------------
(* Origin: every emitted token is one the target could have sampled there. *)

LEMMA ContextType ==
  ASSUME TypeOK, NEW i \in 0..Len(proposed)
  PROVE  Context(i) = Prompt \o (prefix \o SubSeq(proposed, 1, i))
<1>1. /\ Prompt \in Seq(Tokens) /\ prefix \in Seq(Tokens)
      /\ SubSeq(proposed, 1, i) \in Seq(Tokens)
  BY PromptAssumption DEF TypeOK
<1>2. \A s, u, v \in Seq(Tokens) : (s \o u) \o v = s \o (u \o v)
  BY ConcatAssociative
<1>. QED BY <1>1, <1>2 DEF Context

LEMMA RowType ==
  ASSUME TypeOK, StopsInTime
  PROVE  /\ P(Prompt \o generated) \in [Tokens -> Nat]
         /\ Q(Prompt \o generated) \in [Tokens -> Nat]
<1>1. generated \in [1..Len(generated) -> Tokens] /\ Len(generated) \in 0..MaxNew
  BY LenProperties, ConfigAssumption DEF TypeOK, StopsInTime
<1>. QED BY <1>1, RowAssumption

\* What an emission adds to the output.
Grown == \E x \in Support(P(Prompt \o generated)) : generated' = Append(generated, x)

LEMMA FallbackGrows ==
  ASSUME TypeOK, Shape, Fallback
  PROVE  Grown
<1>1. PICK x \in Support(P(Context(0))) : generated' = Append(generated, x)
  BY DEF Fallback, FallbackFrom, Emit
<1>2. generated = prefix
  BY DEF Fallback, FallbackFrom, Drafted, Shape, RoundShape
<1>3. Context(0) = Prompt \o (prefix \o SubSeq(proposed, 1, 0))
  <2>1. 0 \in 0..Len(proposed)
    BY LenProperties DEF TypeOK
  <2>. QED BY <2>1, ContextType
<1>4. prefix \o SubSeq(proposed, 1, 0) = prefix
  BY DEF TypeOK
<1>. QED BY <1>1, <1>2, <1>3, <1>4 DEF Grown

LEMMA AcceptGrows ==
  ASSUME TypeOK, Shape, DraftSupported, Accept
  PROVE  Grown
<1>. DEFINE x == proposed[accepted + 1]
<1>0. pc = "verify"
  BY DEF Accept, AcceptWith
<1>1. /\ accepted \in 0..Len(proposed) - 1
      /\ generated = prefix \o SubSeq(proposed, 1, accepted)
  BY <1>0 DEF Shape, RoundShape, TypeOK
<1>2. Context(accepted) = Prompt \o generated
  BY <1>1, ContextType
<1>3. x \in Support(Q(Context(accepted)))
  <2>1. accepted + 1 \in 1..Len(proposed) /\ (accepted + 1) - 1 = accepted
    BY <1>1
  <2>2. proposed[accepted + 1] \in
          Support(Q(Prompt \o prefix \o SubSeq(proposed, 1, (accepted + 1) - 1)))
    BY <1>0, <2>1 DEF DraftSupported
  <2>. QED BY <2>1, <2>2 DEF Context
<1>4. /\ MayAccept(P(Context(accepted)), Q(Context(accepted)), x)
      /\ generated' = Append(generated, x)
  BY DEF Accept, AcceptWith, Emit
<1>. HIDE DEF x
<1>5. x \in Support(P(Prompt \o generated))
  BY <1>2, <1>3, <1>4 DEF MayAccept, Support
<1>. QED BY <1>4, <1>5 DEF Grown

LEMMA RejectGrows ==
  ASSUME TypeOK, Shape, Reject
  PROVE  Grown
<1>. DEFINE p == P(Prompt \o generated)
            q == Q(Prompt \o generated)
<1>0. pc = "verify"
  BY DEF Reject, RejectWith
<1>1. /\ accepted \in 0..Len(proposed) - 1
      /\ generated = prefix \o SubSeq(proposed, 1, accepted)
  BY <1>0 DEF Shape, RoundShape, TypeOK
<1>2. Context(accepted) = Prompt \o generated
  BY <1>1, ContextType
<1>3. PICK y \in Residual(p, q) : generated' = Append(generated, y)
  BY <1>2 DEF Reject, RejectWith, Emit
<1>4. p \in [Tokens -> Nat] /\ q \in [Tokens -> Nat]
  BY RowType DEF Shape
<1>. HIDE DEF p, q
<1>5. y \in Support(p)
  BY <1>3, <1>4 DEF Residual, Support
<1>. QED BY <1>3, <1>5 DEF Grown, p

LEMMA BonusGrows ==
  ASSUME TypeOK, Shape, Bonus
  PROVE  Grown
<1>1. PICK x \in Support(P(Context(Len(proposed)))) : generated' = Append(generated, x)
  BY DEF Bonus, BonusFrom, Emit
<1>2. generated = prefix \o proposed
  BY DEF Bonus, BonusFrom, Shape, RoundShape
<1>3. Len(proposed) \in 0..Len(proposed) /\ SubSeq(proposed, 1, Len(proposed)) = proposed
  BY SubSeqFull DEF TypeOK
<1>4. Context(Len(proposed)) = Prompt \o generated
  BY <1>2, <1>3, ContextType
<1>. QED BY <1>1, <1>4 DEF Grown

LEMMA GrownSupported ==
  ASSUME TypeOK, TargetSupported, Grown
  PROVE  TargetSupported'
<1>1. PICK x \in Support(P(Prompt \o generated)) : generated' = Append(generated, x)
  BY DEF Grown
<1>2. x \in Tokens /\ generated \in Seq(Tokens) /\ Len(generated) \in Nat
  BY <1>1, SupportType DEF TypeOK
<1>3. /\ generated' \in Seq(Tokens) /\ Len(generated') = Len(generated) + 1
      /\ generated'[Len(generated) + 1] = x
      /\ \A i \in 1..Len(generated) : generated'[i] = generated[i]
  BY <1>1, <1>2
<1>4. ASSUME NEW i \in 1..Len(generated) + 1
      PROVE  SubSeq(generated', 1, i - 1) = SubSeq(generated, 1, i - 1)
  <2>1. \A j \in 1..i - 1 : generated[j] \in Tokens /\ generated'[j] = generated[j]
    BY <1>2, <1>3, <1>4
  <2>2. /\ SubSeq(generated, 1, i - 1) \in Seq(Tokens)
        /\ SubSeq(generated', 1, i - 1) \in Seq(Tokens)
        /\ Len(SubSeq(generated, 1, i - 1)) = i - 1
        /\ Len(SubSeq(generated', 1, i - 1)) = i - 1
        /\ \A j \in 1..i - 1 : SubSeq(generated', 1, i - 1)[j] = SubSeq(generated, 1, i - 1)[j]
    BY <1>2, <1>3, <1>4, <2>1
  <2>. QED BY <2>2, SeqEqual
<1>5. SubSeq(generated, 1, Len(generated)) = generated
  BY <1>2, SubSeqFull
<1>6. ASSUME NEW i \in 1..Len(generated')
      PROVE  generated'[i] \in Support(P(Prompt \o SubSeq(generated', 1, i - 1)))
  <2>1. CASE i \in 1..Len(generated)
    BY <1>2, <1>3, <1>4, <2>1 DEF TargetSupported
  <2>2. CASE i = Len(generated) + 1
    <3>1. i - 1 = Len(generated) /\ i \in 1..Len(generated) + 1
      BY <1>2, <2>2
    <3>2. SubSeq(generated', 1, i - 1) = generated
      BY <1>4, <1>5, <3>1
    <3>. QED BY <1>1, <1>3, <2>2, <3>2
  <2>. QED BY <1>2, <1>3, <2>1, <2>2
<1>. QED BY <1>6 DEF TargetSupported

LEMMA DraftSupports ==
  ASSUME TypeOK, DraftSupported, Draft
  PROVE  DraftSupported'
<1>1. PICK x \in Support(Q(Context(Len(proposed)))) : proposed' = Append(proposed, x)
  BY DEF Draft, DraftFrom
<1>2. x \in Tokens /\ proposed \in Seq(Tokens) /\ Len(proposed) \in Nat
  BY <1>1, SupportType DEF TypeOK
<1>3. /\ proposed' \in Seq(Tokens) /\ Len(proposed') = Len(proposed) + 1
      /\ proposed'[Len(proposed) + 1] = x
      /\ \A i \in 1..Len(proposed) : proposed'[i] = proposed[i]
  BY <1>1, <1>2
<1>4. ASSUME NEW i \in 1..Len(proposed) + 1
      PROVE  SubSeq(proposed', 1, i - 1) = SubSeq(proposed, 1, i - 1)
  <2>1. \A j \in 1..i - 1 : proposed[j] \in Tokens /\ proposed'[j] = proposed[j]
    BY <1>2, <1>3, <1>4
  <2>2. /\ SubSeq(proposed, 1, i - 1) \in Seq(Tokens)
        /\ SubSeq(proposed', 1, i - 1) \in Seq(Tokens)
        /\ Len(SubSeq(proposed, 1, i - 1)) = i - 1
        /\ Len(SubSeq(proposed', 1, i - 1)) = i - 1
        /\ \A j \in 1..i - 1 : SubSeq(proposed', 1, i - 1)[j] = SubSeq(proposed, 1, i - 1)[j]
    BY <1>2, <1>3, <1>4, <2>1
  <2>. QED BY <2>2, SeqEqual
<1>5. pc = "draft" /\ prefix' = prefix
  BY DEF Draft, DraftFrom
<1>6. ASSUME NEW i \in 1..Len(proposed')
      PROVE  proposed'[i] \in
               Support(Q(Prompt \o prefix' \o SubSeq(proposed', 1, i - 1)))
  <2>1. CASE i \in 1..Len(proposed)
    BY <1>2, <1>3, <1>4, <1>5, <2>1 DEF DraftSupported
  <2>2. CASE i = Len(proposed) + 1
    <3>1. i - 1 = Len(proposed) /\ i \in 1..Len(proposed) + 1
      BY <1>2, <2>2
    <3>2. SubSeq(proposed', 1, i - 1) = SubSeq(proposed, 1, Len(proposed))
      BY <1>4, <3>1
    <3>. QED BY <1>1, <1>3, <1>5, <2>2, <3>2 DEF Context
  <2>. QED BY <1>2, <1>3, <2>1, <2>2
<1>. QED BY <1>6 DEF DraftSupported

Origin == TargetSupported /\ DraftSupported

LEMMA OriginStep ==
  ASSUME TypeOK, Shape, Origin, [Next]_vars
  PROVE  Origin'
<1>1. CASE Grown /\ (pc' \in {"settle", "done", "failed"} \/ proposed' = <<>>)
  <2>1. DraftSupported'
    <3>1. proposed' = <<>> => Len(proposed') = 0
      OBVIOUS
    <3>. QED BY <1>1, <3>1 DEF DraftSupported
  <2>. QED BY <1>1, <2>1, GrownSupported DEF Origin
<1>2. CASE /\ UNCHANGED generated
           /\ pc' \in {"settle", "bonus", "done", "failed"} \/ proposed' = <<>>
  <2>1. DraftSupported'
    <3>1. proposed' = <<>> => Len(proposed') = 0
      OBVIOUS
    <3>. QED BY <1>2, <3>1 DEF DraftSupported
  <2>. QED BY <1>2, <2>1 DEF Origin, TargetSupported
<1>3. CASE UNCHANGED <<generated, prefix, proposed>> /\ pc \in {"draft", "score", "verify"}
  BY <1>3 DEF Origin, TargetSupported, DraftSupported
<1>4. CASE Draft
  BY <1>4, DraftSupports DEF Draft, DraftFrom, Origin, TargetSupported
<1>5. CASE DraftFails \/ Score
  BY <1>3, <1>5 DEF DraftFails, Score, Drafted, round
<1>6. CASE Fallback
  BY <1>1, <1>6, FallbackGrows, NewRoundFacts DEF Fallback, FallbackFrom, CallbackRaises
<1>7. CASE Accept
  <2>1. Grown
    BY <1>7, AcceptGrows DEF Origin
  <2>2. CASE pc' = "failed" \/ pc' = "settle"
    BY <1>1, <2>1, <2>2
  <2>3. CASE ~(pc' = "failed" \/ pc' = "settle")
    <3>1. pc = "verify" /\ UNCHANGED <<prefix, proposed>>
      BY <1>7, <2>3 DEF Accept, AcceptWith, CallbackRaises
    <3>2. DraftSupported'
      BY <3>1 DEF Origin, DraftSupported
    <3>. QED BY <2>1, <3>2, GrownSupported DEF Origin
  <2>. QED BY <2>2, <2>3
<1>8. CASE Reject
  <2>1. pc' = "failed" \/ pc' = "settle"
    BY <1>8 DEF Reject, RejectWith, CallbackRaises
  <2>. QED BY <1>1, <1>8, <2>1, RejectGrows
<1>9. CASE Settle
  BY <1>2, <1>9, NewRoundFacts DEF Settle
<1>10. CASE Bonus
  BY <1>1, <1>10, BonusGrows, NewRoundFacts DEF Bonus, BonusFrom, CallbackRaises
<1>11. CASE Raise
  BY <1>2, <1>11 DEF Raise
<1>12. CASE UNCHANGED vars
  BY <1>12 DEF vars, round, Origin, TargetSupported, DraftSupported
<1>. QED BY <1>4, <1>5, <1>6, <1>7, <1>8, <1>9, <1>10, <1>11, <1>12 DEF Next

LEMMA InitOrigin ==
  ASSUME Init
  PROVE  Origin
<1>1. Len(generated) = 0 /\ Len(proposed) = 0
  BY DEF Init
<1>. QED BY <1>1 DEF Origin, TargetSupported, DraftSupported

\* Where tokens come from is invariant: what is emitted or proposed is supported
\* by the model it was drawn from.
THEOREM OriginInvariance == Spec => []Origin
<1>1. Init => Origin
  BY InitOrigin
<1>2. TypeOK /\ Shape /\ Origin /\ [Next]_vars => Origin'
  BY OriginStep
<1>. QED BY <1>1, <1>2, Invariance, PTL DEF Spec

\* Every token that generate emits, by whichever of the four ways, has positive
\* target probability after the tokens before it.
THEOREM OutputIsTargetSupported == Spec => []TargetSupported
<1>1. Origin => TargetSupported
  BY DEF Origin
<1>. QED BY <1>1, OriginInvariance, PTL

\* The output stops in time and is one that the target could have given.
THEOREM OutputSoundness == Spec => []OutputIsSound
<1>1. StopsInTime /\ TargetSupported => OutputIsSound
  BY DEF OutputIsSound
<1>. QED BY <1>1, OutputStopsInTime, OutputIsTargetSupported, PTL

-----------------------------------------------------------------------------
(* The refinement of TargetOnlyDecoder.                                    *)

LEMMA StatusValues ==
  /\ pc = "done" => Status = "done"
  /\ pc = "failed" => Status = "failed"
  /\ pc \in {"draft", "score", "verify", "settle", "bonus"} => Status = "running"
  /\ pc' = "done" => Status' = "done"
  /\ pc' = "failed" => Status' = "failed"
  /\ pc' \in {"draft", "score", "verify", "settle", "bonus"} => Status' = "running"
BY DEF Status

LEMMA SameStops ==
  /\ Baseline!Stops(generated) <=> Stops(generated)
  /\ Baseline!Stops(generated') <=> Stops(generated')
BY DEF Stops, Baseline!Stops

\* An emission is the baseline's, however the call goes on.
LEMMA EmissionRefines ==
  ASSUME Shape, Grown, pc \in {"draft", "score", "verify", "bonus"},
         \/ pc' \in {"draft", "verify", "settle", "failed"}
         \/ pc' = "done" /\ Stops(generated')
  PROVE  Baseline!Next
<1>1. Status = "running" /\ ~Baseline!Stops(generated)
  BY StatusValues, SameStops DEF Shape, Open
<1>2. \E x \in Baseline!Support(P(Prompt \o generated)) : generated' = Append(generated, x)
  BY DEF Grown, Support, Baseline!Support
<1>3. \/ Status' \in {"running", "failed"}
      \/ Baseline!Stops(generated') /\ Status' = "done"
  BY StatusValues, SameStops
<1>4. Baseline!Emit
  BY <1>1, <1>2, <1>3 DEF Baseline!Emit
<1>. QED BY <1>4 DEF Baseline!Next

LEMMA NewRoundPlace ==
  ASSUME NewRound
  PROVE  \/ pc' = "draft"
         \/ pc' = "done" /\ Stops(generated')
<1>1. CASE Stops(generated')
  BY <1>1 DEF NewRound
<1>2. CASE ~Stops(generated')
  BY <1>2 DEF NewRound
<1>. QED BY <1>1, <1>2

LEMMA StepRefines ==
  ASSUME TypeOK, Shape, Origin, [Next]_vars
  PROVE  [Baseline!Next]_(Baseline!vars)
<1>1. CASE /\ UNCHANGED generated
           /\ pc \in {"draft", "score", "verify", "settle", "bonus"}
           /\ pc' \in {"draft", "score", "verify", "settle", "bonus"}
  BY <1>1, StatusValues DEF Baseline!vars
<1>2. CASE Draft \/ DraftFails \/ Score
  BY <1>1, <1>2 DEF Draft, DraftFrom, DraftFails, Score, Drafted
<1>3. CASE Fallback
  BY <1>3, FallbackGrows, EmissionRefines, NewRoundPlace
     DEF Fallback, FallbackFrom, Drafted, CallbackRaises
<1>4. CASE Accept
  <2>1. pc = "verify" /\ pc' \in {"verify", "settle", "failed"}
    BY <1>4 DEF Accept, AcceptWith, CallbackRaises
  <2>. QED BY <1>4, <2>1, AcceptGrows, EmissionRefines DEF Origin
<1>5. CASE Reject
  <2>1. pc = "verify" /\ pc' \in {"settle", "failed"}
    BY <1>5 DEF Reject, RejectWith, CallbackRaises
  <2>. QED BY <1>5, <2>1, RejectGrows, EmissionRefines
<1>6. CASE Bonus
  BY <1>6, BonusGrows, EmissionRefines, NewRoundPlace DEF Bonus, BonusFrom, CallbackRaises
<1>7. CASE Settle
  <2>1. pc = "settle" /\ UNCHANGED generated
    BY <1>7 DEF Settle
  <2>2. CASE pc' = "done" /\ Stops(generated')
    <3>1. Status = "running" /\ Status' = "done" /\ Baseline!Stops(generated)
      BY <2>1, <2>2, StatusValues, SameStops
    <3>2. Baseline!Return
      BY <2>1, <3>1 DEF Baseline!Return
    <3>. QED BY <3>2 DEF Baseline!Next
  <2>3. CASE pc' \in {"draft", "bonus"}
    BY <1>1, <2>1, <2>3
  <2>. QED BY <1>7, <2>2, <2>3, NewRoundPlace DEF Settle
<1>8. CASE Raise
  <2>1. /\ pc \in {"draft", "score", "verify", "bonus"} /\ pc' = "failed"
        /\ UNCHANGED generated
    BY <1>8 DEF Raise
  <2>2. Status = "running" /\ Status' = "failed" /\ ~Baseline!Stops(generated)
    BY <2>1, StatusValues, SameStops DEF Shape, Open
  <2>3. Baseline!Fail
    BY <2>1, <2>2 DEF Baseline!Fail
  <2>. QED BY <2>3 DEF Baseline!Next
<1>9. CASE UNCHANGED vars
  <2>1. UNCHANGED <<pc, generated>>
    BY <1>9 DEF vars
  <2>2. UNCHANGED Status
    BY <2>1 DEF Status
  <2>. QED BY <2>1, <2>2 DEF Baseline!vars
<1>. QED BY <1>2, <1>3, <1>4, <1>5, <1>6, <1>7, <1>8, <1>9 DEF Next

LEMMA InitRefines ==
  ASSUME Init
  PROVE  Baseline!Init
<1>1. CASE MaxNew = 0
  BY <1>1, StatusValues DEF Init, Baseline!Init
<1>2. CASE MaxNew # 0
  <2>1. pc = "draft" /\ generated = <<>>
    BY <1>2 DEF Init
  <2>. QED BY <1>2, <2>1, StatusValues DEF Baseline!Init
<1>. QED BY <1>1, <1>2

\* Seen through its tokens and its outcome, speculative decoding is decoding by
\* the target alone: each emission is a step of TargetOnlyDecoder, and nothing
\* else that generate does shows.
THEOREM Implementation == Spec => ImplementsTargetOnly
<1>1. Init => Baseline!Init
  BY InitRefines
<1>2. TypeOK /\ Shape /\ Origin /\ [Next]_vars => [Baseline!Next]_(Baseline!vars)
  BY StepRefines
<1>. QED BY <1>1, <1>2, Invariance, OriginInvariance, PTL
        DEF Spec, ImplementsTargetOnly, Baseline!Spec

-----------------------------------------------------------------------------
(* The draft window.                                                       *)

LEMMA ObserveFollows ==
  ASSUME NEW size \in MinDraft..MaxDraft, NEW right \in Nat, NEW total \in Nat
  PROVE  /\ right = total => Observe(size, right, total) >= size
         /\ right # total => Observe(size, right, total) <= size
<1>1. /\ size \in Nat /\ MinDraft \in Nat \ {0} /\ MaxDraft \in Nat
      /\ MinDraft <= size /\ size <= MaxDraft
  BY ConfigAssumption
<1>2. size \div 2 \in Nat /\ size \div 2 <= size
  BY <1>1
<1>3. Smaller(MaxDraft, size + 1) >= size
  BY <1>1 DEF Smaller
<1>4. Larger(MinDraft, size - 1) <= size
  BY <1>1 DEF Larger
<1>5. Larger(MinDraft, size \div 2) <= size
  BY <1>1, <1>2 DEF Larger
<1>. QED BY <1>1, <1>3, <1>4, <1>5 DEF Observe

LEMMA WindowStep ==
  ASSUME TypeOK, Shape, [Next]_vars
  PROVE  /\ window' < window => rejected
         /\ window' > window => ~rejected
<1>1. window \in Int
  BY ConfigAssumption DEF TypeOK
<1>2. CASE window' = window
  BY <1>1, <1>2
<1>3. CASE Settle
  <2>1. /\ rejected => accepted # Len(proposed)
        /\ ~rejected => accepted = Len(proposed)
    BY <1>3 DEF Settle, Shape, RoundShape, TypeOK
  <2>2. accepted \in Nat /\ Len(proposed) \in Nat /\ window \in MinDraft..MaxDraft
    BY DEF TypeOK
  <2>3. window' = Observe(window, accepted, Len(proposed))
    BY <1>3 DEF Settle
  <2>4. window' \in Int
    BY <2>2, <2>3, ObserveType, ConfigAssumption
  <2>5. CASE rejected
    BY <1>1, <2>1, <2>2, <2>3, <2>4, <2>5, ObserveFollows
  <2>6. CASE ~rejected
    BY <1>1, <2>1, <2>2, <2>3, <2>4, <2>6, ObserveFollows
  <2>. QED BY <2>5, <2>6
<1>4. CASE Next /\ ~Settle
  <2>1. window' = window
    BY <1>4 DEF Next, Draft, DraftFrom, DraftFails, Fallback, FallbackFrom, Score, Accept,
             AcceptWith, Reject, RejectWith, Bonus, BonusFrom,
                Raise, CallbackRaises
  <2>. QED BY <1>2, <2>1
<1>5. CASE UNCHANGED vars
  BY <1>2, <1>5 DEF vars
<1>. QED BY <1>3, <1>4, <1>5

\* No round cut short by the limit or by the end of the sequence shrinks the
\* window, and no round with a rejection grows it.
THEOREM WindowIsFair == Spec => WindowFollowsVerdict
<1>1. TypeOK /\ Shape /\ [Next]_vars =>
        [/\ window' < window => rejected
         /\ window' > window => ~rejected]_vars
  BY WindowStep
<1>. QED BY <1>1, Invariance, PTL DEF Spec, WindowFollowsVerdict

-----------------------------------------------------------------------------
(* Accounts: statistics, events and draws.                                 *)

\* From(source) as Emit leaves it.
LEMMA EmitCounts ==
  ASSUME TypeOK, NEW x, NEW source \in Source, Emit(x, source)
  PROVE  /\ Cardinality(From(source))' = Cardinality(From(source)) + 1
         /\ \A other \in Source \ {source} :
              Cardinality(From(other))' = Cardinality(From(other))
         /\ Len(sources') = Len(sources) + 1
         /\ sources'[Len(sources')] = source
<1>. DEFINE n == Len(sources) + 1
<1>1. /\ sources \in Seq(Source) /\ sources' = Append(sources, source)
      /\ Len(sources) \in Nat /\ DOMAIN sources = 1..Len(sources)
  BY DEF TypeOK, Emit
<1>2. /\ DOMAIN sources' = 1..n /\ Len(sources') = n /\ sources'[n] = source
      /\ \A i \in 1..Len(sources) : sources'[i] = sources[i]
  BY <1>1
<1>3. \A s : From(s)' = {i \in 1..n : sources'[i] = s}
  BY <1>2 DEF From
<1>4. \A s : From(s) = {i \in 1..Len(sources) : sources[i] = s}
  BY <1>1 DEF From
<1>5. \A s : IsFiniteSet(From(s))
  <2>1. IsFiniteSet(1..Len(sources))
    BY <1>1, FS_Interval
  <2>. QED BY <1>4, <2>1, FS_Subset
<1>6. From(source)' = From(source) \cup {n}
  <2>1. 1..n = (1..Len(sources)) \cup {n} /\ n \notin 1..Len(sources)
    BY <1>1
  <2>2. \A i : i \in From(source)' <=> i \in From(source) \/ i = n
    BY <1>2, <1>3, <1>4, <2>1
  <2>. QED BY <2>2
<1>7. n \notin From(source)
  BY <1>1, <1>4
<1>8. ASSUME NEW other \in Source \ {source} PROVE From(other)' = From(other)
  <2>1. 1..n = (1..Len(sources)) \cup {n} /\ n \notin 1..Len(sources)
    BY <1>1
  <2>2. \A i : i \in From(other)' <=> i \in From(other)
    BY <1>2, <1>3, <1>4, <2>1
  <2>. QED BY <2>2
<1>. HIDE DEF n
<1>9. Cardinality(From(source) \cup {n}) = Cardinality(From(source)) + 1
  BY <1>5, <1>7, FS_AddElement
<1>. QED BY <1>2, <1>6, <1>8, <1>9 DEF n

LEMMA CountType ==
  ASSUME TypeOK
  PROVE  \A s : Cardinality(From(s)) \in Nat
<1>1. DOMAIN sources = 1..Len(sources) /\ Len(sources) \in Nat
  BY DEF TypeOK
<1>2. IsFiniteSet(1..Len(sources))
  BY <1>1, FS_Interval
<1>3. \A s : From(s) \subseteq 1..Len(sources)
  BY <1>1 DEF From
<1>4. \A s : IsFiniteSet(From(s))
  BY <1>2, <1>3, FS_Subset
<1>. QED BY <1>4, FS_CardinalityType

\* The statements that count, field by field.
LEMMA StatFields ==
  ASSUME NEW s \in Stat
  PROVE  /\ LET r == [s EXCEPT !.drafted = @ + 1]
            IN  /\ r.drafted = s.drafted + 1
                /\ r.accepted = s.accepted /\ r.rejected = s.rejected
                /\ r.target = s.target /\ r.rounds = s.rounds
                /\ r.fallback = s.fallback
         /\ LET r == [s EXCEPT !.accepted = @ + 1]
            IN  /\ r.accepted = s.accepted + 1
                /\ r.drafted = s.drafted /\ r.rejected = s.rejected
                /\ r.target = s.target /\ r.rounds = s.rounds
                /\ r.fallback = s.fallback
         /\ LET r == [s EXCEPT !.rejected = @ + 1, !.target = @ + 1]
            IN  /\ r.rejected = s.rejected + 1 /\ r.target = s.target + 1
                /\ r.drafted = s.drafted /\ r.accepted = s.accepted
                /\ r.rounds = s.rounds /\ r.fallback = s.fallback
         /\ LET r == [s EXCEPT !.target = @ + 1, !.fallback = @ + 1]
            IN  /\ r.target = s.target + 1 /\ r.fallback = s.fallback + 1
                /\ r.drafted = s.drafted /\ r.accepted = s.accepted
                /\ r.rejected = s.rejected /\ r.rounds = s.rounds
         /\ LET r == [s EXCEPT !.target = @ + 1]
            IN  /\ r.target = s.target + 1
                /\ r.drafted = s.drafted /\ r.accepted = s.accepted
                /\ r.rejected = s.rejected /\ r.rounds = s.rounds
                /\ r.fallback = s.fallback
         /\ LET r == [s EXCEPT !.rounds = @ + 1]
            IN  /\ r.rounds = s.rounds + 1
                /\ r.drafted = s.drafted /\ r.accepted = s.accepted
                /\ r.rejected = s.rejected /\ r.target = s.target
                /\ r.fallback = s.fallback
BY DEF Stat

Accounts == Ledger /\ DrawsAccounted /\ OneTargetTokenPerRound /\ Rounds /\ Drafts

LEMMA Numbers ==
  ASSUME TypeOK
  PROVE  /\ stats \in Stat
         /\ stats.drafted \in Nat /\ stats.accepted \in Nat
         /\ stats.rejected \in Nat /\ stats.target \in Nat
         /\ stats.rounds \in Nat /\ stats.fallback \in Nat
         /\ draws \in Nat /\ accepted \in Nat
         /\ Len(proposed) \in Nat /\ Len(generated) \in Nat /\ Len(sources) \in Nat
<1>1. stats \in Stat
  BY DEF TypeOK, Stat
<1>. QED BY <1>1 DEF TypeOK, Stat

LEMMA FailedAccounts ==
  ASSUME pc' = "failed"
  PROVE  Accounts'
BY DEF Accounts, Ledger, DrawsAccounted, OneTargetTokenPerRound, Rounds, Drafts

LEMMA DraftAccounts ==
  ASSUME TypeOK, Accounts, Draft
  PROVE  Accounts'
<1>1. PICK x \in Support(Q(Context(Len(proposed)))) : proposed' = Append(proposed, x)
  BY DEF Draft, DraftFrom
<1>2. Len(proposed') = Len(proposed) + 1
  BY <1>1, SupportType DEF TypeOK
<1>3. /\ pc = "draft" /\ pc' = "draft" /\ accepted' = accepted
      /\ UNCHANGED <<generated, sources>> /\ draws' = draws + 1
      /\ stats' = [stats EXCEPT !.drafted = @ + 1]
  BY DEF Draft, DraftFrom
<1>4. /\ stats'.drafted = stats.drafted + 1 /\ stats'.accepted = stats.accepted
      /\ stats'.rejected = stats.rejected /\ stats'.target = stats.target
      /\ stats'.rounds = stats.rounds /\ stats'.fallback = stats.fallback
  BY <1>3, Numbers, StatFields
<1>5. Ledger'
  BY <1>3, <1>4, Numbers DEF Accounts, Ledger, From
<1>6. DrawsAccounted'
  <2>1. draws = stats.drafted + (stats.accepted + stats.rejected) + stats.target
    BY <1>3 DEF Accounts, DrawsAccounted
  <2>2. /\ stats.drafted \in Nat /\ stats.accepted \in Nat
        /\ stats.rejected \in Nat /\ stats.target \in Nat
    BY Numbers
  <2>3. draws + 1 = (stats.drafted + 1) + (stats.accepted + stats.rejected) + stats.target
    BY <2>1, <2>2
  <2>. QED BY <1>3, <1>4, <2>3 DEF DrawsAccounted
<1>7. OneTargetTokenPerRound' /\ Rounds'
  BY <1>3, <1>4 DEF Accounts, OneTargetTokenPerRound, Rounds
<1>8. Drafts'
  <2>1. stats.drafted + accepted >= stats.accepted + stats.rejected + Len(proposed)
    BY <1>3 DEF Accounts, Drafts
  <2>2. stats'.drafted + accepted' >= stats'.accepted + stats'.rejected + Len(proposed')
    <3>1. /\ stats.drafted \in Nat /\ stats.accepted \in Nat
          /\ stats.rejected \in Nat /\ accepted \in Nat /\ Len(proposed) \in Nat
      BY Numbers
    <3>2. (stats.drafted + 1) + accepted
            >= stats.accepted + stats.rejected + (Len(proposed) + 1)
      BY <2>1, <3>1
    <3>. QED BY <1>2, <1>3, <1>4, <3>2
  <2>. QED BY <2>2 DEF Drafts
<1>. QED BY <1>5, <1>6, <1>7, <1>8 DEF Accounts

LEMMA ScoreAccounts ==
  ASSUME TypeOK, Accounts, Score
  PROVE  Accounts'
<1>1. /\ pc \in {"draft", "score"} /\ pc' = "verify"
      /\ UNCHANGED <<generated, sources, proposed, accepted, draws>>
      /\ stats' = [stats EXCEPT !.rounds = @ + 1]
  BY DEF Score, Drafted, round
<1>2. /\ stats'.drafted = stats.drafted /\ stats'.accepted = stats.accepted
      /\ stats'.rejected = stats.rejected /\ stats'.target = stats.target
      /\ stats'.rounds = stats.rounds + 1 /\ stats'.fallback = stats.fallback
  BY <1>1, Numbers, StatFields
<1>3. Ledger' /\ DrawsAccounted' /\ OneTargetTokenPerRound'
  BY <1>1, <1>2 DEF Accounts, Ledger, From, DrawsAccounted, OneTargetTokenPerRound
<1>4. Rounds'
  <2>1. stats.rounds \in Nat /\ stats.fallback \in Nat /\ stats.target \in Nat
    BY Numbers
  <2>2. stats.rounds + stats.fallback = stats.target
    <3>1. Rounds
      BY DEF Accounts
    <3>2. pc \notin {"done", "failed"} /\ pc \notin {"verify", "bonus"} /\ pc # "settle"
      BY <1>1
    <3>. QED BY <2>1, <3>1, <3>2 DEF Rounds
  <2>3. (stats.rounds + 1) + stats.fallback = stats.target + 1
    BY <2>1, <2>2
  <2>. QED BY <1>1, <1>2, <2>3 DEF Rounds
<1>5. Drafts'
  BY <1>1, <1>2 DEF Accounts, Drafts
<1>. QED BY <1>3, <1>4, <1>5 DEF Accounts

LEMMA Regroup ==
  \A d, a, r, t \in Nat :
    /\ d + ((a + 1) + r) + t = (d + (a + r) + t) + 1
    /\ d + (a + (r + 1)) + (t + 1) = (d + (a + r) + t) + 2
    /\ d + (a + r) + (t + 1) = (d + (a + r) + t) + 1
    /\ (a + 1) + t = (a + t) + 1 /\ a + (t + 1) = (a + t) + 1
    /\ d >= a + r + 1 => d >= (a + 1) + r /\ d >= a + (r + 1)
OBVIOUS

LEMMA Slack ==
  ASSUME NEW d \in Nat, NEW k \in Nat, NEW a \in Nat, NEW r \in Nat, NEW n \in Nat,
         d + k >= a + r + n
  PROVE  /\ k < n => d >= a + r + 1
         /\ d + (k + 1) >= (a + 1) + r + n
OBVIOUS

\* The counters that move with an emission of each source.
Counted(source) ==
  /\ stats'.drafted = stats.drafted
  /\ source = "accepted_draft" =>
       /\ stats'.accepted = stats.accepted + 1 /\ stats'.rejected = stats.rejected
       /\ stats'.fallback = stats.fallback /\ stats'.target = stats.target
       /\ draws' = draws + 1
       /\ stats.drafted >= stats.accepted + stats.rejected + 1
  /\ source = "target_correction" =>
       /\ stats'.accepted = stats.accepted /\ stats'.rejected = stats.rejected + 1
       /\ stats'.fallback = stats.fallback /\ stats'.target = stats.target + 1
       /\ draws' = draws + 2
       /\ stats.drafted >= stats.accepted + stats.rejected + 1
  /\ source = "target_bonus" =>
       /\ stats'.accepted = stats.accepted /\ stats'.rejected = stats.rejected
       /\ stats'.fallback = stats.fallback /\ stats'.target = stats.target + 1
       /\ draws' = draws + 1
  /\ source = "target_fallback" =>
       /\ stats'.accepted = stats.accepted /\ stats'.rejected = stats.rejected
       /\ stats'.fallback = stats.fallback + 1 /\ stats'.target = stats.target + 1
       /\ draws' = draws + 1

LEMMA EmitAccounts ==
  ASSUME TypeOK, Accounts, pc # "failed", NEW x, NEW source \in Source,
         Emit(x, source), Len(generated') = Len(generated) + 1, Counted(source)
  PROVE  Ledger' /\ DrawsAccounted' /\ sources'[Len(sources')] = source
<1>0. /\ stats.drafted \in Nat /\ stats.accepted \in Nat
      /\ stats.rejected \in Nat /\ stats.target \in Nat
  BY Numbers
<1>1. /\ Cardinality(From(source))' = Cardinality(From(source)) + 1
      /\ \A other \in Source \ {source} :
           Cardinality(From(other))' = Cardinality(From(other))
      /\ Len(sources') = Len(sources) + 1
      /\ sources'[Len(sources')] = source
  BY EmitCounts
<1>2. /\ Len(sources) = Len(generated)
      /\ stats.accepted = Cardinality(From("accepted_draft"))
      /\ stats.rejected = Cardinality(From("target_correction"))
      /\ stats.fallback = Cardinality(From("target_fallback"))
      /\ stats.accepted + stats.target = Len(generated)
      /\ stats.drafted >= stats.accepted + stats.rejected
  BY DEF Accounts, Ledger
<1>3. draws = stats.drafted + (stats.accepted + stats.rejected) + stats.target
  BY DEF Accounts, DrawsAccounted
<1>4. \/ source = "accepted_draft" \/ source = "target_correction"
      \/ source = "target_bonus" \/ source = "target_fallback"
  BY DEF Source
<1>5. CASE source = "accepted_draft"
  <2>1. /\ stats'.accepted = stats.accepted + 1 /\ stats'.rejected = stats.rejected
        /\ stats'.fallback = stats.fallback /\ stats'.target = stats.target
        /\ stats'.drafted = stats.drafted
        /\ draws' = draws + 1
    BY <1>5 DEF Counted
  <2>2. /\ Cardinality(From("accepted_draft"))' = Cardinality(From("accepted_draft")) + 1
        /\ Cardinality(From("target_correction"))' = Cardinality(From("target_correction"))
        /\ Cardinality(From("target_fallback"))' = Cardinality(From("target_fallback"))
    BY <1>1, <1>5 DEF Source
  <2>3. stats'.drafted >= stats'.accepted + stats'.rejected
    BY <1>0, <1>5, <2>1, Regroup DEF Counted
  <2>4. stats'.accepted + stats'.target = Len(generated')
    BY <1>0, <1>2, <2>1, Regroup
  <2>5. draws' = stats'.drafted + (stats'.accepted + stats'.rejected) + stats'.target
    <3>1. stats.drafted + ((stats.accepted + 1) + stats.rejected) + stats.target
            = (stats.drafted + (stats.accepted + stats.rejected) + stats.target) + 1
      <4>. DEFINE d == stats.drafted
                  a == stats.accepted
                  r == stats.rejected
                  k == stats.target
      <4>1. d \in Nat /\ a \in Nat /\ r \in Nat /\ k \in Nat
        BY <1>0
      <4>. HIDE DEF d, a, r, k
      <4>2. d + ((a + 1) + r) + k = (d + (a + r) + k) + 1
        BY <4>1
      <4>. QED BY <4>2 DEF d, a, r, k
    <3>. QED BY <1>3, <2>1, <3>1
  <2>. QED BY <1>1, <1>2, <2>1, <2>2, <2>3, <2>4, <2>5 DEF Ledger, DrawsAccounted
<1>6. CASE source = "target_correction"
  <2>1. /\ stats'.accepted = stats.accepted /\ stats'.rejected = stats.rejected + 1
        /\ stats'.fallback = stats.fallback /\ stats'.target = stats.target + 1
        /\ stats'.drafted = stats.drafted
        /\ draws' = draws + 2
    BY <1>6 DEF Counted
  <2>2. /\ Cardinality(From("accepted_draft"))' = Cardinality(From("accepted_draft"))
        /\ Cardinality(From("target_correction"))' = Cardinality(From("target_correction")) + 1
        /\ Cardinality(From("target_fallback"))' = Cardinality(From("target_fallback"))
    BY <1>1, <1>6 DEF Source
  <2>3. stats'.drafted >= stats'.accepted + stats'.rejected
    BY <1>0, <1>6, <2>1, Regroup DEF Counted
  <2>4. stats'.accepted + stats'.target = Len(generated')
    BY <1>0, <1>2, <2>1, Regroup
  <2>5. draws' = stats'.drafted + (stats'.accepted + stats'.rejected) + stats'.target
    <3>1. draws' = (stats.drafted + (stats.accepted + stats.rejected) + stats.target) + 2
      BY <1>3, <2>1
    <3>2. stats.drafted + (stats.accepted + (stats.rejected + 1)) + (stats.target + 1)
            = (stats.drafted + (stats.accepted + stats.rejected) + stats.target) + 2
      <4> DEFINE d == stats.drafted
                 a == stats.accepted
                 r == stats.rejected
                 t == stats.target
      <4>1. d \in Nat /\ a \in Nat /\ r \in Nat /\ t \in Nat
        BY <1>0
      <4> HIDE DEF d, a, r, t
      <4>2. d + (a + (r + 1)) + (t + 1) = (d + (a + r) + t) + 2
        BY <4>1
      <4>. QED BY <4>2 DEF d, a, r, t
    <3>. QED BY <2>1, <3>1, <3>2
  <2>. QED BY <1>1, <1>2, <2>1, <2>2, <2>3, <2>4, <2>5 DEF Ledger, DrawsAccounted
<1>7. CASE source = "target_bonus"
  <2>1. /\ stats'.accepted = stats.accepted /\ stats'.rejected = stats.rejected
        /\ stats'.fallback = stats.fallback /\ stats'.target = stats.target + 1
        /\ stats'.drafted = stats.drafted
        /\ draws' = draws + 1
    BY <1>7 DEF Counted
  <2>2. /\ Cardinality(From("accepted_draft"))' = Cardinality(From("accepted_draft"))
        /\ Cardinality(From("target_correction"))' = Cardinality(From("target_correction"))
        /\ Cardinality(From("target_fallback"))' = Cardinality(From("target_fallback"))
    BY <1>1, <1>7 DEF Source
  <2>3. stats'.drafted >= stats'.accepted + stats'.rejected
    BY <1>2, <2>1
  <2>4. stats'.accepted + stats'.target = Len(generated')
    BY <1>0, <1>2, <2>1, Regroup
  <2>5. draws' = stats'.drafted + (stats'.accepted + stats'.rejected) + stats'.target
    BY <1>0, <1>3, <2>1, Regroup
  <2>. QED BY <1>1, <1>2, <2>1, <2>2, <2>3, <2>4, <2>5 DEF Ledger, DrawsAccounted
<1>8. CASE source = "target_fallback"
  <2>1. /\ stats'.accepted = stats.accepted /\ stats'.rejected = stats.rejected
        /\ stats'.fallback = stats.fallback + 1 /\ stats'.target = stats.target + 1
        /\ stats'.drafted = stats.drafted
        /\ draws' = draws + 1
    BY <1>8 DEF Counted
  <2>2. /\ Cardinality(From("accepted_draft"))' = Cardinality(From("accepted_draft"))
        /\ Cardinality(From("target_correction"))' = Cardinality(From("target_correction"))
        /\ Cardinality(From("target_fallback"))' = Cardinality(From("target_fallback")) + 1
    BY <1>1, <1>8 DEF Source
  <2>3. stats'.drafted >= stats'.accepted + stats'.rejected
    BY <1>2, <2>1
  <2>4. stats'.accepted + stats'.target = Len(generated')
    BY <1>0, <1>2, <2>1, Regroup
  <2>5. draws' = stats'.drafted + (stats'.accepted + stats'.rejected) + stats'.target
    BY <1>0, <1>3, <2>1, Regroup
  <2>. QED BY <1>1, <1>2, <2>1, <2>2, <2>3, <2>4, <2>5 DEF Ledger, DrawsAccounted
<1>. QED BY <1>4, <1>5, <1>6, <1>7, <1>8

LEMMA FallbackAccounts ==
  ASSUME TypeOK, Shape, Accounts, Fallback
  PROVE  Accounts'
<1>1. PICK x \in Support(P(Context(0))) : Emit(x, "target_fallback")
  BY DEF Fallback, FallbackFrom
<1>2. /\ pc \in {"draft", "score"} /\ draws' = draws + 1
      /\ Len(generated') = Len(generated) + 1
  BY <1>1, SupportType DEF Fallback, FallbackFrom, Drafted, Emit, TypeOK
<1>3. CASE CallbackRaises
  BY <1>3, FailedAccounts DEF CallbackRaises
<1>4. CASE ~CallbackRaises
  <2>1. /\ stats' = [stats EXCEPT !.target = @ + 1, !.fallback = @ + 1]
        /\ NewRound
    BY <1>4 DEF Fallback, FallbackFrom
  <2>2. /\ stats'.drafted = stats.drafted /\ stats'.accepted = stats.accepted
        /\ stats'.rejected = stats.rejected /\ stats'.target = stats.target + 1
        /\ stats'.rounds = stats.rounds /\ stats'.fallback = stats.fallback + 1
    BY <2>1, Numbers, StatFields
  <2>3. Ledger' /\ DrawsAccounted' /\ sources'[Len(sources')] = "target_fallback"
    BY <1>1, <1>2, <2>2, EmitAccounts DEF Source, Counted
  <2>4. stats.rounds + stats.fallback = stats.target
    BY <1>2, Numbers DEF Accounts, Rounds
  <2>5. stats'.rounds + stats'.fallback = stats'.target
    BY <2>2, <2>4, Numbers
  <2>6. pc' \in {"draft", "done"} /\ accepted' = 0 /\ Len(proposed') = 0
    BY <2>1, NewRoundFacts
  <2>7. stats'.drafted >= stats'.accepted + stats'.rejected /\ stats' \in Stat
    BY <1>2, <2>1, <2>2, Numbers, StatType DEF Accounts, Ledger
  <2>8. OneTargetTokenPerRound' /\ Rounds'
    BY <2>3, <2>5, <2>6, <2>7 DEF OneTargetTokenPerRound, Rounds, Stat
  <2>9. Drafts'
    BY <2>6, <2>7 DEF Drafts, Stat
  <2>. QED BY <2>3, <2>8, <2>9 DEF Accounts
<1>. QED BY <1>3, <1>4

LEMMA AcceptAccounts ==
  ASSUME TypeOK, Shape, Accounts, Accept
  PROVE  Accounts'
<1>1. /\ pc = "verify" /\ accepted < Len(proposed)
      /\ Emit(proposed[accepted + 1], "accepted_draft") /\ draws' = draws + 1
      /\ Len(generated') = Len(generated) + 1
  BY DEF Accept, AcceptWith, Emit, Shape, RoundShape, TypeOK
<1>2. CASE CallbackRaises
  BY <1>2, FailedAccounts DEF CallbackRaises
<1>3. CASE ~CallbackRaises
  <2>1. /\ stats' = [stats EXCEPT !.accepted = @ + 1]
        /\ accepted' = accepted + 1
        /\ UNCHANGED <<proposed, rejected>>
    BY <1>3 DEF Accept, AcceptWith
  <2>2. /\ stats'.drafted = stats.drafted /\ stats'.accepted = stats.accepted + 1
        /\ stats'.rejected = stats.rejected /\ stats'.target = stats.target
        /\ stats'.rounds = stats.rounds /\ stats'.fallback = stats.fallback
    BY <2>1, Numbers, StatFields
  <2>3. stats.drafted + accepted >= stats.accepted + stats.rejected + Len(proposed)
    BY <1>1 DEF Accounts, Drafts
  <2>4. stats.drafted >= stats.accepted + stats.rejected + 1
    BY <1>1, <2>3, Numbers, Slack
  <2>5. Ledger' /\ DrawsAccounted' /\ sources'[Len(sources')] = "accepted_draft"
    BY <1>1, <2>2, <2>4, EmitAccounts DEF Source, Counted
  <2>6. stats.rounds + stats.fallback = stats.target + 1 /\ ~rejected
    BY <1>1 DEF Accounts, Rounds, Shape, RoundShape
  <2>7. stats'.rounds + stats'.fallback = stats'.target + 1 /\ ~rejected'
    BY <2>1, <2>2, <2>6
  <2>8. pc' = "verify" \/ pc' = "settle"
    BY <1>3, Zenon DEF Accept, AcceptWith
  <2>9. generated' # <<>>
    <3>1. Len(generated') > 0 /\ Len(<<>>) = 0
      BY <1>1, Numbers
    <3>. QED BY <3>1
  <2>10. Rounds' /\ OneTargetTokenPerRound'
    BY <2>5, <2>7, <2>8, <2>9 DEF Rounds, OneTargetTokenPerRound
  <2>11. Drafts'
    <3>1. stats.drafted + (accepted + 1)
            >= (stats.accepted + 1) + stats.rejected + Len(proposed)
      BY <2>3, Numbers, Slack
    <3>2. stats'.drafted + accepted' >= stats'.accepted + stats'.rejected + Len(proposed')
      BY <2>1, <2>2, <3>1
    <3>. QED BY <3>2 DEF Drafts
  <2>. QED BY <2>5, <2>10, <2>11 DEF Accounts
<1>. QED BY <1>2, <1>3

LEMMA RejectAccounts ==
  ASSUME TypeOK, Shape, Accounts, Reject
  PROVE  Accounts'
<1>1. PICK y \in Residual(P(Context(accepted)), Q(Context(accepted))) :
        Emit(y, "target_correction")
  BY DEF Reject, RejectWith
<1>2. /\ pc = "verify" /\ accepted < Len(proposed) /\ draws' = draws + 2
      /\ Len(generated') = Len(generated) + 1
  BY <1>1, ResidualType DEF Reject, RejectWith, Emit, Shape, RoundShape, TypeOK
<1>3. CASE CallbackRaises
  BY <1>3, FailedAccounts DEF CallbackRaises
<1>4. CASE ~CallbackRaises
  <2>1. /\ stats' = [stats EXCEPT !.rejected = @ + 1, !.target = @ + 1]
        /\ rejected' = TRUE /\ pc' = "settle"
    BY <1>4 DEF Reject, RejectWith
  <2>2. /\ stats'.drafted = stats.drafted /\ stats'.accepted = stats.accepted
        /\ stats'.rejected = stats.rejected + 1 /\ stats'.target = stats.target + 1
        /\ stats'.rounds = stats.rounds /\ stats'.fallback = stats.fallback
    BY <2>1, Numbers, StatFields
  <2>3. stats.drafted + accepted >= stats.accepted + stats.rejected + Len(proposed)
    BY <1>2 DEF Accounts, Drafts
  <2>4. stats.drafted >= stats.accepted + stats.rejected + 1
    BY <1>2, <2>3, Numbers, Slack
  <2>5. Ledger' /\ DrawsAccounted' /\ sources'[Len(sources')] = "target_correction"
    BY <1>1, <1>2, <2>2, <2>4, EmitAccounts DEF Source, Counted
  <2>6. stats.rounds + stats.fallback = stats.target + 1
    BY <1>2 DEF Accounts, Rounds
  <2>7. stats'.rounds + stats'.fallback = stats'.target /\ stats'.target \in Nat
    BY <2>2, <2>6, Numbers
  <2>8. generated' # <<>>
    <3>1. Len(generated') > 0 /\ Len(<<>>) = 0
      BY <1>2, Numbers
    <3>. QED BY <3>1
  <2>9. Rounds' /\ OneTargetTokenPerRound' /\ Drafts'
    BY <2>1, <2>5, <2>7, <2>8 DEF Rounds, OneTargetTokenPerRound, Drafts
  <2>. QED BY <2>5, <2>9 DEF Accounts
<1>. QED BY <1>3, <1>4

LEMMA SettleAccounts ==
  ASSUME TypeOK, Shape, Accounts, Settle
  PROVE  Accounts'
<1>1. pc = "settle" /\ UNCHANGED <<generated, sources, stats, draws>>
  BY DEF Settle
<1>2. Ledger' /\ DrawsAccounted'
  BY <1>1 DEF Accounts, Ledger, DrawsAccounted, From
<1>3. /\ rejected => stats.rounds + stats.fallback = stats.target
      /\ ~rejected => stats.rounds + stats.fallback = stats.target + 1
      /\ rejected => sources[Len(sources)] = "target_correction"
      /\ ~rejected => sources[Len(sources)] = "accepted_draft"
  BY <1>1, Numbers DEF Accounts, Rounds
<1>4. CASE Stops(generated)
  <2>1. pc' = "done"
    BY <1>1, <1>4 DEF Settle, NewRound
  <2>2. OneTargetTokenPerRound'
    BY <1>1, <1>3, <2>1, Numbers DEF OneTargetTokenPerRound
  <2>. QED BY <1>2, <2>1, <2>2 DEF Accounts, Rounds, Drafts
<1>5. CASE ~Stops(generated) /\ rejected
  <2>1. pc' = "draft" /\ accepted' = 0 /\ proposed' = <<>> /\ Len(<<>>) = 0
    BY <1>1, <1>5 DEF Settle, NewRound
  <2>2. stats.drafted >= stats.accepted + stats.rejected
    BY <1>1 DEF Accounts, Ledger
  <2>3. Drafts'
    <3>1. stats.drafted + 0 >= stats.accepted + stats.rejected + 0
      BY <2>2, Numbers
    <3>. QED BY <1>1, <2>1, <3>1 DEF Drafts
  <2>4. Rounds' /\ OneTargetTokenPerRound'
    BY <1>1, <1>3, <1>5, <2>1, Numbers DEF Rounds, OneTargetTokenPerRound
  <2>. QED BY <1>2, <2>3, <2>4 DEF Accounts
<1>6. CASE ~Stops(generated) /\ ~rejected
  <2>1. pc' = "bonus"
    BY <1>6 DEF Settle
  <2>2. Rounds'
    BY <1>1, <1>3, <1>6, <2>1 DEF Rounds
  <2>. QED BY <1>2, <2>1, <2>2 DEF Accounts, OneTargetTokenPerRound, Drafts
<1>. QED BY <1>4, <1>5, <1>6

LEMMA BonusAccounts ==
  ASSUME TypeOK, Shape, Accounts, Bonus
  PROVE  Accounts'
<1>1. PICK x \in Support(P(Context(Len(proposed)))) : Emit(x, "target_bonus")
  BY DEF Bonus, BonusFrom
<1>2. /\ pc = "bonus" /\ draws' = draws + 1
      /\ Len(generated') = Len(generated) + 1
  BY <1>1, SupportType DEF Bonus, BonusFrom, Emit, TypeOK
<1>3. CASE CallbackRaises
  BY <1>3, FailedAccounts DEF CallbackRaises
<1>4. CASE ~CallbackRaises
  <2>1. stats' = [stats EXCEPT !.target = @ + 1] /\ NewRound
    BY <1>4 DEF Bonus, BonusFrom
  <2>2. /\ stats'.drafted = stats.drafted /\ stats'.accepted = stats.accepted
        /\ stats'.rejected = stats.rejected /\ stats'.target = stats.target + 1
        /\ stats'.rounds = stats.rounds /\ stats'.fallback = stats.fallback
    BY <2>1, Numbers, StatFields
  <2>3. Ledger' /\ DrawsAccounted' /\ sources'[Len(sources')] = "target_bonus"
    BY <1>1, <1>2, <2>2, EmitAccounts DEF Source, Counted
  <2>4. stats.rounds + stats.fallback = stats.target + 1
    BY <1>2 DEF Accounts, Rounds
  <2>5. stats'.rounds + stats'.fallback = stats'.target
    BY <2>2, <2>4
  <2>6. pc' \in {"draft", "done"} /\ accepted' = 0 /\ Len(proposed') = 0
    BY <2>1, NewRoundFacts
  <2>7. stats'.drafted >= stats'.accepted + stats'.rejected /\ stats' \in Stat
    BY <1>2, <2>1, <2>2, Numbers, StatType DEF Accounts, Ledger
  <2>8. OneTargetTokenPerRound' /\ Rounds'
    BY <2>3, <2>5, <2>6, <2>7 DEF OneTargetTokenPerRound, Rounds, Stat
  <2>9. Drafts'
    BY <2>6, <2>7 DEF Drafts, Stat
  <2>. QED BY <2>3, <2>8, <2>9 DEF Accounts
<1>. QED BY <1>3, <1>4

LEMMA AccountsStep ==
  ASSUME TypeOK, Shape, Accounts, [Next]_vars
  PROVE  Accounts'
<1>1. CASE DraftFails
  <2>1. /\ pc = "draft" /\ pc' = "score"
        /\ UNCHANGED <<generated, sources, proposed, accepted, stats, draws>>
    BY <1>1 DEF DraftFails, round
  <2>. QED BY <2>1 DEF Accounts, Ledger, From, DrawsAccounted,
                      OneTargetTokenPerRound, Rounds, Drafts
<1>2. CASE Raise
  BY <1>2, FailedAccounts DEF Raise
<1>3. CASE UNCHANGED vars
  BY <1>3 DEF vars, round, Accounts, Ledger, From, DrawsAccounted,
             OneTargetTokenPerRound, Rounds, Drafts
<1>. QED BY <1>1, <1>2, <1>3, DraftAccounts, ScoreAccounts, FallbackAccounts,
            AcceptAccounts, RejectAccounts, SettleAccounts, BonusAccounts DEF Next

LEMMA InitAccounts ==
  ASSUME Init
  PROVE  Accounts
<1>1. /\ generated = <<>> /\ sources = <<>> /\ Len(proposed) = 0 /\ accepted = 0
      /\ stats.drafted = 0 /\ stats.accepted = 0 /\ stats.rejected = 0
      /\ stats.target = 0 /\ stats.rounds = 0 /\ stats.fallback = 0 /\ draws = 0
  BY DEF Init
<1>2. pc = "done" \/ pc = "draft"
  <2>1. CASE MaxNew = 0
    BY <2>1 DEF Init
  <2>2. CASE MaxNew # 0
    BY <2>2 DEF Init
  <2>. QED BY <2>1, <2>2
<1>3. \A s : Cardinality(From(s)) = 0
  BY <1>1, FS_EmptySet DEF From
<1>4. Ledger /\ DrawsAccounted
  BY <1>1, <1>2, <1>3 DEF Ledger, DrawsAccounted
<1>5. OneTargetTokenPerRound /\ Rounds /\ Drafts
  BY <1>1, <1>2 DEF OneTargetTokenPerRound, Rounds, Drafts
<1>. QED BY <1>4, <1>5 DEF Accounts

\* The accounts of a call, its statistics, draws and rounds against its events,
\* are invariant, in the middle of a round too.
THEOREM AccountsInvariance == Spec => []Accounts
<1>1. Init => Accounts
  BY InitAccounts
<1>2. TypeOK /\ Shape /\ Accounts /\ [Next]_vars => Accounts'
  BY AccountsStep
<1>. QED BY <1>1, <1>2, Invariance, PTL DEF Spec

\* The statistics of a result are its event stream counted, and every drafted
\* token is accounted for at most once.
THEOREM StatisticsAddUp == Spec => []Ledger
<1>1. Accounts => Ledger
  BY DEF Accounts
<1>. QED BY <1>1, AccountsInvariance, PTL

\* The number of uniforms drawn follows from the statistics, as the contract of
\* the native backend has it.
THEOREM DrawsAddUp == Spec => []DrawsAccounted
<1>1. Accounts => DrawsAccounted
  BY DEF Accounts
<1>. QED BY <1>1, AccountsInvariance, PTL

\* A finished call made one target token in each round and each fallback step,
\* but for a last round that an accepted proposal ended.
THEOREM RoundsAddUp == Spec => []OneTargetTokenPerRound
<1>1. Accounts => OneTargetTokenPerRound
  BY DEF Accounts
<1>. QED BY <1>1, AccountsInvariance, PTL
-----------------------------------------------------------------------------
(* The composition with the adapters.                                      *)

\* The adapters' theorems.
DraftFacts == INSTANCE CausalLMCacheProofs
                WITH Retained <- MaxContext, container <- dContainer,
                     cacheTokens <- dTokens, past <- dPast, boundary <- dBoundary,
                     call <- dCall, answer <- dAnswer,
                     store <- dStore, room <- dRoom, reply <- dReply
TargetFacts == INSTANCE CausalLMCacheProofs
                 WITH Retained <- MaxContext, container <- tContainer,
                      cacheTokens <- tTokens, past <- tPast, boundary <- tBoundary,
                      call <- tCall, answer <- tAnswer,
                      store <- tStore, room <- tRoom, reply <- tReply

\* A correction is not the proposal that it stands in for.
Corrected ==
  pc = "settle" /\ rejected =>
    \E y \in Tokens : /\ generated = prefix \o SubSeq(proposed, 1, accepted) \o <<y>>
                      /\ y # proposed[accepted + 1]

\* No more is accepted than was proposed.
Reached == pc # "failed" => accepted <= Len(proposed)

\* What is verified has a token.
Proposing == pc \in {"verify", "settle", "bonus"} => proposed # <<>>

Decoding == TypeOK /\ Shape /\ Corrected /\ Reached /\ Proposing

(* What follows is said of one adapter, that of model m: held are the      *)
(* tokens it has cached, waiting its call, cut, passes and raised its      *)
(* statistics.                                                             *)

\* Between its two steps a call is the one that generate is at.
InCall(m, waiting) == waiting # Null => /\ begun /\ Calls(m)
                                        /\ waiting.tokens = Context(Len(proposed))
                                        /\ waiting.first = First(m)

\* The model has not been called in this round; is being called (a draft is
\* called for each proposal); will not be called any more.
Before(m) == /\ m \in cached
             /\ \/ m = "target" /\ pc \in {"draft", "score"}
                \/ m = "draft" /\ pc = "draft" /\ proposed = <<>>
Amid(m) == m \in cached /\ m = "draft" /\ pc = "draft" /\ proposed # <<>>
After(m) == /\ m \in cached
            /\ \/ m = "target" /\ pc \in {"verify", "settle", "bonus"}
               \/ m = "draft" /\ pc \in {"score", "verify", "settle", "bonus"}

\* Cached positions that stay: all that the output has, but its last.
Kept(held) == Smaller(Len(held), Len(Context(0)) - 1)

\* What a cache holds before the calls of a round: of an earlier round, more
\* than nothing of the output, and proposals that were not accepted.
HeldBefore(m, held, cut) ==
  begun /\ Before(m) /\ held # <<>> =>
    /\ prefix # <<>>
    /\ Len(Prompt) <= Len(held)
    /\ SubSeq(held, 1, Kept(held)) = SubSeq(Context(0), 1, Kept(held))
    /\ held # Context(0)
    /\ cut + (Len(held) - Kept(held)) + Len(proposed) + stats.accepted <= stats.drafted

HeldAmid(m, held) == begun /\ Amid(m) => held = Context(Len(proposed) - 1)

HeldAfter(m, held) == begun /\ After(m) /\ held # <<>> =>
                        \E i \in 0..Len(proposed) : held = Context(i)

Held(m, held, cut) == HeldBefore(m, held, cut) /\ HeldAmid(m, held) /\ HeldAfter(m, held)

\* What has been cut, and what of the round may yet be.
Budget(cut) == pc # "failed" => cut + Len(proposed) + stats.accepted <= stats.drafted + accepted

Prefilled(held, passes, raised, answered) ==
  /\ ~begun => passes = 0 /\ ~answered
  /\ begun /\ held # <<>> => passes >= 1
  /\ answered => passes >= 1
  /\ passes <= raised + IF begun /\ held # <<>> THEN 1 ELSE 0

\* Before the adapters are reset, generate has not begun.
NotBegun == ~begun => /\ pc \in {"draft", "done"} /\ proposed = <<>> /\ accepted = 0
                      /\ dCall = Null /\ tCall = Null /\ ~rejected
                      /\ \A m \in Models : cropped[m] = 0

Recorded == rows = [draft |-> rows.draft, target |-> rows.target]

Counts == {prefills, cropped, lost} \subseteq [Models -> Nat]

DraftSide == /\ DraftFacts!IInv
             /\ InCall("draft", dCall)
             /\ Held("draft", dTokens, cropped["draft"])
             /\ Budget(cropped["draft"])
             /\ Prefilled(dTokens, prefills["draft"], lost["draft"], dAnswer # Null)
TargetSide == /\ TargetFacts!IInv
              /\ InCall("target", tCall)
              /\ Held("target", tTokens, cropped["target"])
              /\ Budget(cropped["target"])
              /\ Prefilled(tTokens, prefills["target"], lost["target"], tAnswer # Null)
CachedInv == /\ Decoding /\ RowsAreOfTheRound /\ Recorded /\ NotBegun
             /\ begun \in BOOLEAN /\ cached \subseteq Models /\ Counts
             /\ DraftSide /\ TargetSide
-----------------------------------------------------------------------------
(* The adapters' theorems, for the adapters of the composition.            *)

LEMMA FactsAssumption == /\ DraftFacts!AdapterAssumption /\ DraftFacts!Unwindowed
                         /\ TargetFacts!AdapterAssumption /\ TargetFacts!Unwindowed
BY CacheAssumption DEF DraftCache!AdapterAssumption, DraftFacts!AdapterAssumption,
                       DraftFacts!Unwindowed, TargetFacts!AdapterAssumption,
                       TargetFacts!Unwindowed

\* The longest common prefix with what an adapter holds, but for the position
\* that the first row is computed from.
Reused(m, held) == Smaller(DraftFacts!CommonLength(held, Context(Len(proposed))), First(m) - 1)

LEMMA SameSmaller == \A a, b : /\ DraftCache!Smaller(a, b) = Smaller(a, b)
                               /\ DraftFacts!Smaller(a, b) = Smaller(a, b)
                               /\ TargetCache!Smaller(a, b) = Smaller(a, b)
                               /\ TargetFacts!Smaller(a, b) = Smaller(a, b)
BY Zenon DEF DraftCache!Smaller, DraftFacts!Smaller, TargetCache!Smaller, TargetFacts!Smaller,
             Smaller

LEMMA SameCommonLength ==
  \A s, t : /\ DraftCache!CommonLength(s, t) = DraftFacts!CommonLength(s, t)
            /\ TargetCache!CommonLength(s, t) = DraftFacts!CommonLength(s, t)
            /\ TargetFacts!CommonLength(s, t) = DraftFacts!CommonLength(s, t)
BY Zenon DEF DraftCache!CommonLength, DraftFacts!CommonLength, TargetCache!CommonLength,
             TargetFacts!CommonLength, DraftCache!Smaller, DraftFacts!Smaller,
             TargetCache!Smaller, TargetFacts!Smaller

LEMMA SameDraftPool == \A n : DraftCache!Paged!BlocksFor(n) = DraftFacts!Paged!BlocksFor(n)
BY Zenon DEF DraftCache!Paged!BlocksFor, DraftFacts!Paged!BlocksFor

LEMMA SameDraftCutMirror == \A n : DraftCache!CutMirror(n) <=> DraftFacts!CutMirror(n)
<1>1. \A n : DraftCache!Paged!Truncate("model", n) <=> DraftFacts!Paged!Truncate("model", n)
  BY Zenon DEF DraftCache!Paged!Truncate, DraftCache!Paged!Live, DraftCache!Paged!Put,
         DraftCache!Paged!Refuse, DraftCache!Paged!Reply, DraftCache!Paged!BlocksFor,
         DraftFacts!Paged!Truncate, DraftFacts!Paged!Live, DraftFacts!Paged!Put,
         DraftFacts!Paged!Refuse, DraftFacts!Paged!Reply, DraftFacts!Paged!BlocksFor
<1>. QED BY Zenon, <1>1 DEF DraftCache!CutMirror, DraftCache!paged, DraftFacts!CutMirror,
         DraftFacts!paged

LEMMA SameDraftForget == DraftCache!Forget <=> DraftFacts!Forget
BY Zenon, SameDraftCutMirror DEF DraftCache!Forget, DraftCache!Mirror, DraftCache!paged,
                              DraftFacts!Forget, DraftFacts!Mirror, DraftFacts!paged

LEMMA SameDraftHit ==
  \A tokens, first : DraftCache!Hit(tokens, first) <=> DraftFacts!Hit(tokens, first)
BY Zenon DEF DraftCache!Hit, DraftFacts!Hit

LEMMA SameDraftReuse ==
  \A tokens, first : DraftCache!Reuse(tokens, first) = DraftFacts!Reuse(tokens, first)
BY Zenon, SameSmaller, SameCommonLength, SameDraftHit DEF DraftCache!Reuse, DraftFacts!Reuse

LEMMA SameDraftCrop == \A n : DraftCache!Crop(n) <=> DraftFacts!Crop(n)
<1>1. \A n : DraftCache!Cropped(n) = DraftFacts!Cropped(n)
  BY Zenon, SameSmaller DEF DraftCache!Cropped, DraftFacts!Cropped
<1>2. \A n : DraftCache!Refills(n) <=> DraftFacts!Refills(n)
  BY Zenon DEF DraftCache!Refills, DraftFacts!Refills
<1>3. \A n : DraftCache!Cuts(n) <=> DraftFacts!Cuts(n)
  BY Zenon, <1>2 DEF DraftCache!Cuts, DraftCache!Mirror, DraftFacts!Cuts, DraftFacts!Mirror
<1>4. \A n : DraftCache!Cut(n) <=> DraftFacts!Cut(n)
  BY Zenon, <1>1, <1>3, SameDraftCutMirror DEF DraftCache!Cut, DraftFacts!Cut
<1>. QED BY Zenon, <1>2, <1>4, SameDraftForget
         DEF DraftCache!Crop, DraftCache!Keeps, DraftCache!adapter, DraftCache!paged,
             DraftFacts!Crop, DraftFacts!Keeps, DraftFacts!adapter, DraftFacts!paged

LEMMA SameDraftPrepare ==
  \A tokens, first : DraftCache!Prepare(tokens, first) <=> DraftFacts!Prepare(tokens, first)
BY Zenon, SameDraftReuse, SameDraftHit, SameDraftCrop DEF DraftCache!Prepare, DraftFacts!Prepare

LEMMA SameDraftRows ==
  /\ DraftCache!Inputs = DraftFacts!Inputs /\ DraftCache!Output = DraftFacts!Output
                    /\ \A i : DraftCache!Logit(i) = DraftFacts!Logit(i)
                    /\ DraftCache!Rows = DraftFacts!Rows
<1>1. \A s, n : DraftCache!Latest(s, n) = DraftFacts!Latest(s, n)
  BY Zenon, SameSmaller DEF DraftCache!Latest, DraftFacts!Latest
<1>2. DraftCache!Inputs = DraftFacts!Inputs
  BY Zenon DEF DraftCache!Inputs, DraftFacts!Inputs
<1>3. DraftCache!Output = DraftFacts!Output
  BY Zenon, <1>1, <1>2 DEF DraftCache!Output, DraftFacts!Output
<1>4. \A i : DraftCache!Logit(i) = DraftFacts!Logit(i)
  BY Zenon, <1>1, <1>2 DEF DraftCache!Logit, DraftCache!Row, DraftFacts!Logit, DraftFacts!Row
<1>5. DraftCache!Rows = DraftFacts!Rows
  BY Zenon, <1>4 DEF DraftCache!Rows, DraftFacts!Rows
<1>. QED BY <1>2, <1>3, <1>4, <1>5

LEMMA SameDraftForward == DraftCache!Forward <=> DraftFacts!Forward
<1>1. \A e : DraftCache!Paged!AppendMany("model", e) <=> DraftFacts!Paged!AppendMany("model", e)
  BY Zenon DEF DraftCache!Paged!AppendMany, DraftCache!Paged!Live, DraftCache!Paged!Put,
         DraftCache!Paged!Refuse, DraftCache!Paged!Reply, DraftCache!Paged!BlocksFor,
         DraftFacts!Paged!AppendMany, DraftFacts!Paged!Live, DraftFacts!Paged!Put,
         DraftFacts!Paged!Refuse, DraftFacts!Paged!Reply, DraftFacts!Paged!BlocksFor
<1>2. DraftCache!Synchronize <=> DraftFacts!Synchronize
  BY Zenon, <1>1, SameDraftRows DEF DraftCache!Synchronize, DraftCache!Mirror, DraftCache!paged,
                                 DraftFacts!Synchronize, DraftFacts!Mirror, DraftFacts!paged
<1>. QED BY Zenon, <1>2, SameDraftRows DEF DraftCache!Forward, DraftFacts!Forward

LEMMA SameTargetPool == \A n : TargetCache!Paged!BlocksFor(n) = TargetFacts!Paged!BlocksFor(n)
BY Zenon DEF TargetCache!Paged!BlocksFor, TargetFacts!Paged!BlocksFor

LEMMA SameTargetCutMirror == \A n : TargetCache!CutMirror(n) <=> TargetFacts!CutMirror(n)
<1>1. \A n : TargetCache!Paged!Truncate("model", n) <=> TargetFacts!Paged!Truncate("model", n)
  BY Zenon DEF TargetCache!Paged!Truncate, TargetCache!Paged!Live, TargetCache!Paged!Put,
         TargetCache!Paged!Refuse, TargetCache!Paged!Reply, TargetCache!Paged!BlocksFor,
         TargetFacts!Paged!Truncate, TargetFacts!Paged!Live, TargetFacts!Paged!Put,
         TargetFacts!Paged!Refuse, TargetFacts!Paged!Reply, TargetFacts!Paged!BlocksFor
<1>. QED BY Zenon, <1>1 DEF TargetCache!CutMirror, TargetCache!paged, TargetFacts!CutMirror,
         TargetFacts!paged

LEMMA SameTargetForget == TargetCache!Forget <=> TargetFacts!Forget
BY Zenon, SameTargetCutMirror DEF TargetCache!Forget, TargetCache!Mirror, TargetCache!paged,
                              TargetFacts!Forget, TargetFacts!Mirror, TargetFacts!paged

LEMMA SameTargetHit ==
  \A tokens, first : TargetCache!Hit(tokens, first) <=> TargetFacts!Hit(tokens, first)
BY Zenon DEF TargetCache!Hit, TargetFacts!Hit

LEMMA SameTargetReuse ==
  \A tokens, first : TargetCache!Reuse(tokens, first) = TargetFacts!Reuse(tokens, first)
BY Zenon, SameSmaller, SameCommonLength, SameTargetHit DEF TargetCache!Reuse, TargetFacts!Reuse

LEMMA SameTargetCrop == \A n : TargetCache!Crop(n) <=> TargetFacts!Crop(n)
<1>1. \A n : TargetCache!Cropped(n) = TargetFacts!Cropped(n)
  BY Zenon, SameSmaller DEF TargetCache!Cropped, TargetFacts!Cropped
<1>2. \A n : TargetCache!Refills(n) <=> TargetFacts!Refills(n)
  BY Zenon DEF TargetCache!Refills, TargetFacts!Refills
<1>3. \A n : TargetCache!Cuts(n) <=> TargetFacts!Cuts(n)
  BY Zenon, <1>2 DEF TargetCache!Cuts, TargetCache!Mirror, TargetFacts!Cuts, TargetFacts!Mirror
<1>4. \A n : TargetCache!Cut(n) <=> TargetFacts!Cut(n)
  BY Zenon, <1>1, <1>3, SameTargetCutMirror DEF TargetCache!Cut, TargetFacts!Cut
<1>. QED BY Zenon, <1>2, <1>4, SameTargetForget
         DEF TargetCache!Crop, TargetCache!Keeps, TargetCache!adapter, TargetCache!paged,
             TargetFacts!Crop, TargetFacts!Keeps, TargetFacts!adapter, TargetFacts!paged

LEMMA SameTargetPrepare ==
  \A tokens, first : TargetCache!Prepare(tokens, first) <=> TargetFacts!Prepare(tokens, first)
BY Zenon, SameTargetReuse, SameTargetHit, SameTargetCrop
   DEF TargetCache!Prepare, TargetFacts!Prepare

LEMMA SameTargetRows ==
  /\ TargetCache!Inputs = TargetFacts!Inputs /\ TargetCache!Output = TargetFacts!Output
                    /\ \A i : TargetCache!Logit(i) = TargetFacts!Logit(i)
                    /\ TargetCache!Rows = TargetFacts!Rows
<1>1. \A s, n : TargetCache!Latest(s, n) = TargetFacts!Latest(s, n)
  BY Zenon, SameSmaller DEF TargetCache!Latest, TargetFacts!Latest
<1>2. TargetCache!Inputs = TargetFacts!Inputs
  BY Zenon DEF TargetCache!Inputs, TargetFacts!Inputs
<1>3. TargetCache!Output = TargetFacts!Output
  BY Zenon, <1>1, <1>2 DEF TargetCache!Output, TargetFacts!Output
<1>4. \A i : TargetCache!Logit(i) = TargetFacts!Logit(i)
  BY Zenon, <1>1, <1>2 DEF TargetCache!Logit, TargetCache!Row, TargetFacts!Logit, TargetFacts!Row
<1>5. TargetCache!Rows = TargetFacts!Rows
  BY Zenon, <1>4 DEF TargetCache!Rows, TargetFacts!Rows
<1>. QED BY <1>2, <1>3, <1>4, <1>5

LEMMA SameTargetForward == TargetCache!Forward <=> TargetFacts!Forward
<1>1. \A e : TargetCache!Paged!AppendMany("model", e) <=> TargetFacts!Paged!AppendMany("model", e)
  BY Zenon DEF TargetCache!Paged!AppendMany, TargetCache!Paged!Live, TargetCache!Paged!Put,
         TargetCache!Paged!Refuse, TargetCache!Paged!Reply, TargetCache!Paged!BlocksFor,
         TargetFacts!Paged!AppendMany, TargetFacts!Paged!Live, TargetFacts!Paged!Put,
         TargetFacts!Paged!Refuse, TargetFacts!Paged!Reply, TargetFacts!Paged!BlocksFor
<1>2. TargetCache!Synchronize <=> TargetFacts!Synchronize
  BY Zenon, <1>1, SameTargetRows DEF TargetCache!Synchronize, TargetCache!Mirror, TargetCache!paged,
                                 TargetFacts!Synchronize, TargetFacts!Mirror, TargetFacts!paged
<1>. QED BY Zenon, <1>2, SameTargetRows DEF TargetCache!Forward, TargetFacts!Forward

-----------------------------------------------------------------------------
(* Contexts.                                                               *)

\* A context is the prompt, the output before the round and some proposals.
LEMMA ContextElements ==
  ASSUME TypeOK, NEW i \in 0..Len(proposed)
  PROVE  /\ Prompt \o prefix \in Seq(Tokens)
         /\ Len(Prompt \o prefix) = Len(Prompt) + Len(prefix)
         /\ Context(i) \in Seq(Tokens)
         /\ Len(Context(i)) = Len(Prompt) + Len(prefix) + i
         /\ \A j \in 1..Len(Prompt) + Len(prefix) : Context(i)[j] = (Prompt \o prefix)[j]
         /\ \A j \in 1..i : Context(i)[Len(Prompt) + Len(prefix) + j] = proposed[j]
<1>1. /\ Prompt \in Seq(Tokens) /\ prefix \in Seq(Tokens) /\ proposed \in Seq(Tokens)
      /\ Len(Prompt) \in Nat /\ Len(prefix) \in Nat /\ Len(proposed) \in Nat
  BY PromptAssumption, LenProperties DEF TypeOK
<1>2. /\ SubSeq(proposed, 1, i) \in Seq(Tokens)
      /\ Len(SubSeq(proposed, 1, i)) = i
      /\ \A j \in 1..i : SubSeq(proposed, 1, i)[j] = proposed[j]
  BY <1>1, FactsAssumption, DraftFacts!PrefixProperties
<1>. DEFINE base == Prompt \o prefix
            some == SubSeq(proposed, 1, i)
<1>3. base \in Seq(Tokens) /\ Len(base) = Len(Prompt) + Len(prefix)
  BY <1>1, ConcatProperties
<1>. HIDE DEF base, some
<1>4. some \in Seq(Tokens) /\ Len(some) = i /\ \A j \in 1..i : some[j] = proposed[j]
  BY <1>2 DEF some
<1>5. /\ base \o some \in Seq(Tokens)
      /\ Len(base \o some) = Len(base) + Len(some)
      /\ \A j \in 1..Len(base) + Len(some) :
           (base \o some)[j] = IF j <= Len(base) THEN base[j] ELSE some[j - Len(base)]
  <2>1. base \in Seq(Tokens) /\ some \in Seq(Tokens)
    BY <1>3, <1>4
  <2>. QED BY ONLY <2>1, ConcatProperties
<1>6. Context(i) = base \o some
  BY DEF Context, base, some
<1>7. \A j \in 1..Len(base) : (base \o some)[j] = base[j]
  BY <1>1, <1>3, <1>4, <1>5
<1>8. \A j \in 1..i : (base \o some)[Len(base) + j] = some[j]
  BY <1>1, <1>3, <1>4, <1>5
<1>. QED BY <1>3, <1>4, <1>5, <1>6, <1>7, <1>8 DEF base

\* The first proposals do not depend on those after them.
LEMMA ContextOfPrefix ==
  ASSUME TypeOK, NEW i \in 0..Len(proposed), NEW n \in 0..Len(Prompt) + Len(prefix) + i
  PROVE  SubSeq(Context(Len(proposed)), 1, n) = SubSeq(Context(i), 1, n)
<1>. DEFINE c == Context(Len(proposed))
            d == Context(i)
            base == Len(Prompt) + Len(prefix)
<1>1. Len(Prompt) \in Nat /\ Len(prefix) \in Nat /\ Len(proposed) \in Nat /\ base \in Nat
  BY PromptAssumption, LenProperties DEF TypeOK
<1>2. Len(proposed) \in 0..Len(proposed)
  BY <1>1
<1>. HIDE DEF c, d
<1>3. /\ c \in Seq(Tokens) /\ Len(c) = base + Len(proposed)
      /\ \A j \in 1..base : c[j] = (Prompt \o prefix)[j]
      /\ \A j \in 1..Len(proposed) : c[base + j] = proposed[j]
  BY <1>2, ContextElements DEF c
<1>4. /\ d \in Seq(Tokens) /\ Len(d) = base + i
      /\ \A j \in 1..base : d[j] = (Prompt \o prefix)[j]
      /\ \A j \in 1..i : d[base + j] = proposed[j]
  BY ContextElements DEF d
<1>. HIDE DEF base
<1>5. n \in 0..base + i
  BY DEF base
<1>6. ASSUME NEW j \in 1..n PROVE c[j] = d[j]
  <2>1. CASE j <= base
    <3>1. j \in 1..base
      BY <1>1, <1>5, <2>1
    <3>. QED BY <1>3, <1>4, <3>1
  <2>2. CASE j > base
    <3>1. j - base \in 1..i /\ j - base \in 1..Len(proposed) /\ base + (j - base) = j
      BY <1>1, <1>5, <2>2
    <3>. QED BY <1>3, <1>4, <3>1
  <2>. QED BY <1>1, <1>5, <2>1, <2>2
<1>7. n \in 0..Len(c) /\ n \in 0..Len(d)
  BY <1>1, <1>3, <1>4, <1>5
<1>8. /\ SubSeq(c, 1, n) \in Seq(Tokens) /\ Len(SubSeq(c, 1, n)) = n
      /\ \A j \in 1..n : SubSeq(c, 1, n)[j] = c[j]
  BY <1>3, <1>7, FactsAssumption, DraftFacts!PrefixProperties
<1>9. /\ SubSeq(d, 1, n) \in Seq(Tokens) /\ Len(SubSeq(d, 1, n)) = n
      /\ \A j \in 1..n : SubSeq(d, 1, n)[j] = d[j]
  BY <1>4, <1>7, FactsAssumption, DraftFacts!PrefixProperties
<1>10. SubSeq(c, 1, n) = SubSeq(d, 1, n)
  BY <1>6, <1>8, <1>9, SeqEqual
<1>. QED BY <1>10 DEF c, d

\* What a round leaves cached and what it leaves in the output have in common
\* what was accepted, and the output goes on with another token.
Parted(c, d, n, i, a) ==
  /\ c # d
  /\ Len(c) = n + i /\ Len(d) = n + a + 1
  /\ \A m \in 0..n + a : m <= n + i => SubSeq(c, 1, m) = SubSeq(d, 1, m)

LEMMA NextRoundKeeps ==
  ASSUME NEW b \in Seq(Tokens), NEW s \in Seq(Tokens),
         NEW i \in 0..Len(s), NEW a \in 0..Len(s), NEW y \in Tokens,
         a < Len(s) => y # s[a + 1]
  PROVE  Parted(b \o SubSeq(s, 1, i), (b \o SubSeq(s, 1, a)) \o <<y>>, Len(b), i, a)
<1>. DEFINE c == b \o SubSeq(s, 1, i)
            e == b \o SubSeq(s, 1, a)
            d == e \o <<y>>
            n == Len(b)
<1>1. n \in Nat /\ Len(s) \in Nat /\ i \in Nat /\ a \in Nat
  BY LenProperties
<1>2. /\ SubSeq(s, 1, i) \in Seq(Tokens) /\ Len(SubSeq(s, 1, i)) = i
      /\ \A j \in 1..i : SubSeq(s, 1, i)[j] = s[j]
  BY FactsAssumption, DraftFacts!PrefixProperties
<1>3. /\ SubSeq(s, 1, a) \in Seq(Tokens) /\ Len(SubSeq(s, 1, a)) = a
      /\ \A j \in 1..a : SubSeq(s, 1, a)[j] = s[j]
  BY FactsAssumption, DraftFacts!PrefixProperties
<1>4. /\ c \in Seq(Tokens) /\ Len(c) = n + i
      /\ \A j \in 1..n + i : c[j] = IF j <= n THEN b[j] ELSE SubSeq(s, 1, i)[j - n]
  BY <1>2, ConcatProperties
<1>5. /\ e \in Seq(Tokens) /\ Len(e) = n + a
      /\ \A j \in 1..n + a : e[j] = IF j <= n THEN b[j] ELSE SubSeq(s, 1, a)[j - n]
  BY <1>3, ConcatProperties
<1>. HIDE DEF c, e, n
<1>6. /\ d \in Seq(Tokens) /\ Len(d) = n + a + 1
      /\ \A j \in 1..n + a : d[j] = e[j]
      /\ d[n + a + 1] = y
  <2>1. <<y>> \in Seq(Tokens) /\ Len(<<y>>) = 1 /\ <<y>>[1] = y
    OBVIOUS
  <2>2. /\ d \in Seq(Tokens) /\ Len(d) = (n + a) + 1
        /\ \A j \in 1..(n + a) + 1 : d[j] = IF j <= n + a THEN e[j] ELSE <<y>>[j - (n + a)]
    BY <1>5, <2>1, ConcatProperties
  <2>3. (n + a + 1) - (n + a) = 1 /\ n + a + 1 \in 1..(n + a) + 1 /\ ~(n + a + 1 <= n + a)
    BY <1>1
  <2>. HIDE DEF d
  <2>4. \A j \in 1..n + a : d[j] = e[j]
    BY <1>1, <2>2
  <2>5. d[n + a + 1] = <<y>>[1]
    BY <2>2, <2>3
  <2>. QED BY <1>1, <2>1, <2>2, <2>4, <2>5
<1>. HIDE DEF d
<1>7. c # d
  <2>. SUFFICES ASSUME c = d PROVE FALSE
    OBVIOUS
  <2>1. i = a + 1 /\ a < Len(s)
    BY <1>1, <1>4, <1>6
  <2>2. c[n + i] = s[i]
    <3>1. n + i \in 1..n + i /\ ~(n + i <= n) /\ (n + i) - n = i /\ i \in 1..i
      BY <1>1, <2>1
    <3>. QED BY <1>2, <1>4, <3>1
  <2>3. n + i = n + a + 1
    BY <1>1, <2>1
  <2>. QED BY <1>6, <2>1, <2>2, <2>3
<1>8. ASSUME NEW m \in 0..n + a, m <= n + i
      PROVE  SubSeq(c, 1, m) = SubSeq(d, 1, m)
  <2>1. ASSUME NEW j \in 1..m PROVE c[j] = d[j]
    <3>1. j \in 1..n + i /\ j \in 1..n + a
      BY <1>1, <1>8
    <3>2. CASE j <= n
      BY <1>4, <1>5, <1>6, <3>1, <3>2
    <3>3. CASE ~(j <= n)
      <4>1. j - n \in 1..i /\ j - n \in 1..a
        BY <1>1, <3>1, <3>3
      <4>2. c[j] = s[j - n] /\ e[j] = s[j - n]
        BY <1>2, <1>3, <1>4, <1>5, <3>1, <3>3, <4>1
      <4>. QED BY <1>6, <3>1, <4>2
    <3>. QED BY <3>2, <3>3
  <2>2. m \in 0..Len(c) /\ m \in 0..Len(d)
    BY <1>1, <1>4, <1>6, <1>8
  <2>3. /\ SubSeq(c, 1, m) \in Seq(Tokens) /\ Len(SubSeq(c, 1, m)) = m
        /\ \A j \in 1..m : SubSeq(c, 1, m)[j] = c[j]
    BY <1>4, <2>2, FactsAssumption, DraftFacts!PrefixProperties
  <2>4. /\ SubSeq(d, 1, m) \in Seq(Tokens) /\ Len(SubSeq(d, 1, m)) = m
        /\ \A j \in 1..m : SubSeq(d, 1, m)[j] = d[j]
    BY <1>6, <2>2, FactsAssumption, DraftFacts!PrefixProperties
  <2>. QED BY <2>1, <2>3, <2>4, SeqEqual
<1>. QED BY <1>4, <1>6, <1>7, <1>8 DEF c, d, e, n, Parted

LEMMA Associative == \A s, u, v \in Seq(Tokens) : (s \o u) \o v = s \o (u \o v)
BY ConcatAssociative

LEMMA Regrouped ==
  ASSUME NEW b \in Seq(Tokens), NEW s \in Seq(Tokens), NEW t \in Seq(Tokens),
         NEW u \in Seq(Tokens)
  PROVE  b \o ((s \o t) \o u) = ((b \o s) \o t) \o u
<1>. DEFINE st == s \o t
<1>1. st \in Seq(Tokens)
  BY ConcatProperties
<1>2. (b \o s) \o t = b \o st
  BY Zenon, Associative
<1>. HIDE DEF st
<1>3. (b \o st) \o u = b \o (st \o u)
  BY SMTT(30), <1>1, Associative
<1>4. ((b \o s) \o t) \o u = b \o (st \o u)
  BY <1>2, <1>3
<1>. QED BY <1>4 DEF st

-----------------------------------------------------------------------------
(* The decoder.                                                            *)

\* The end of a round in terms of the output: some proposals, and one token
\* that is not the proposal that follows them.
Emitted(a) == \E y \in Tokens :
                /\ generated' = (prefix \o SubSeq(proposed, 1, a)) \o <<y>>
                /\ a < Len(proposed) => y # proposed[a + 1]

LEMMA RejectEmits ==
  ASSUME TypeOK, Shape, Reject
  PROVE  accepted \in 0..Len(proposed) /\ Emitted(accepted)
<1>. DEFINE p == P(Prompt \o generated)
            q == Q(Prompt \o generated)
            x == proposed[accepted + 1]
<1>0. pc = "verify"
  BY DEF Reject, RejectWith
<1>1. /\ accepted \in 0..Len(proposed) - 1
      /\ generated = prefix \o SubSeq(proposed, 1, accepted)
      /\ generated \in Seq(Tokens) /\ proposed \in Seq(Tokens)
  BY <1>0 DEF Shape, RoundShape, TypeOK
<1>2. Context(accepted) = Prompt \o generated
  BY <1>1, ContextType
<1>3. PICK y \in Residual(p, q) : generated' = Append(generated, y)
  BY <1>2 DEF Reject, RejectWith, Emit
<1>4. MayReject(p, q, x)
  BY <1>2 DEF Reject, RejectWith
<1>5. p \in [Tokens -> Nat] /\ q \in [Tokens -> Nat]
  BY RowType DEF Shape
<1>6. x \in Tokens
  BY <1>1
<1>7. \E z \in Tokens : q[z] < p[z]
  <2>1. generated \in [1..Len(generated) -> Tokens] /\ Len(generated) \in 0..MaxNew
    BY LenProperties, ConfigAssumption DEF TypeOK, Shape, StopsInTime
  <2>2. (\E z \in Tokens : p[z] < q[z]) => \E z \in Tokens : q[z] < p[z]
    <3>. HIDE DEF x
    <3>. QED BY <2>1, SumAssumption
  <2>. HIDE DEF p, q, x
  <2>3. p[x] < q[x]
    BY <1>4 DEF MayReject
  <2>. QED BY <1>6, <2>2, <2>3
<1>. HIDE DEF p, q, x
<1>8. y \in Tokens /\ q[y] < p[y]
  BY <1>3, <1>5, <1>7 DEF Residual
<1>9. y # x
  BY <1>4, <1>5, <1>6, <1>8 DEF MayReject
<1>10. Append(generated, y) = generated \o <<y>>
  BY <1>1, <1>8, AppendIsConcat
<1>11. generated' = (prefix \o SubSeq(proposed, 1, accepted)) \o <<y>>
  BY <1>1, <1>3, <1>10
<1>12. y # proposed[accepted + 1]
  BY <1>9 DEF x
<1>13. Emitted(accepted)
  BY <1>8, <1>11, <1>12 DEF Emitted
<1>. QED BY <1>1, <1>13

LEMMA BonusEmits ==
  ASSUME TypeOK, Shape, Bonus
  PROVE  Len(proposed) \in 0..Len(proposed) /\ Emitted(Len(proposed))
<1>1. PICK y \in Support(P(Context(Len(proposed)))) : generated' = Append(generated, y)
  BY DEF Bonus, BonusFrom, Emit
<1>2. y \in Tokens /\ generated \in Seq(Tokens) /\ Len(proposed) \in Nat
  BY <1>1, SupportType, LenProperties DEF TypeOK
<1>3. generated = prefix \o SubSeq(proposed, 1, Len(proposed))
  BY SubSeqFull DEF TypeOK, Bonus, BonusFrom, Shape, RoundShape
<1>4. Append(generated, y) = generated \o <<y>>
  BY <1>2, AppendIsConcat
<1>5. generated' = (prefix \o SubSeq(proposed, 1, Len(proposed))) \o <<y>>
  BY <1>1, <1>3, <1>4
<1>6. ~(Len(proposed) < Len(proposed))
  BY <1>2
<1>7. Emitted(Len(proposed))
  BY <1>2, <1>5, <1>6 DEF Emitted
<1>. QED BY <1>2, <1>7

LEMMA FallbackEmits ==
  ASSUME TypeOK, Shape, Fallback
  PROVE  Len(proposed) = 0 /\ Emitted(0)
<1>1. PICK y \in Support(P(Context(0))) : generated' = Append(generated, y)
  BY DEF Fallback, FallbackFrom, Emit
<1>2. y \in Tokens /\ generated \in Seq(Tokens)
  BY <1>1, SupportType DEF TypeOK
<1>3. proposed = <<>> /\ generated = prefix
  BY DEF Fallback, FallbackFrom, Drafted, Shape, RoundShape
<1>4. generated = prefix \o SubSeq(proposed, 1, 0)
  BY <1>2, <1>3
<1>5. Append(generated, y) = generated \o <<y>>
  BY <1>2, AppendIsConcat
<1>. QED BY <1>1, <1>2, <1>3, <1>4, <1>5 DEF Emitted

LEMMA CorrectedStep ==
  ASSUME TypeOK, Shape, Corrected, [Next]_vars
  PROVE  Corrected'
<1>1. CASE Reject
  <2>1. accepted \in 0..Len(proposed) /\ Emitted(accepted)
    BY <1>1, RejectEmits
  <2>2. pc' = "settle" => /\ UNCHANGED <<prefix, proposed, accepted>>
                          /\ accepted < Len(proposed)
    BY <1>1 DEF Reject, RejectWith, CallbackRaises, round, Shape, RoundShape
  <2>. QED BY <2>1, <2>2 DEF Corrected, Emitted
<1>2. CASE UNCHANGED vars
  BY <1>2 DEF Corrected, vars, round
<1>3. CASE Accept
  <2>1. ~rejected /\ rejected' = rejected
    BY <1>3 DEF Accept, AcceptWith, CallbackRaises, round, Shape, RoundShape
  <2>. QED BY <2>1 DEF Corrected
<1>4. CASE ~Reject /\ ~Accept /\ Next
  <2>1. pc' # "settle"
    <3>1. NewRound => pc' # "settle"
      BY NewRoundFacts
    <3>. QED BY <1>4, <3>1
         DEF Next, Draft, DraftFrom, DraftFails, Fallback, FallbackFrom, Score, Settle, Bonus,
                  BonusFrom, Raise, CallbackRaises
  <2>. QED BY <2>1 DEF Corrected
<1>. QED BY <1>1, <1>2, <1>3, <1>4

LEMMA ReachedStep ==
  ASSUME TypeOK, Shape, Reached, [Next]_vars
  PROVE  Reached'
<1>1. accepted \in Nat /\ Len(proposed) \in Nat
  BY LenProperties DEF TypeOK
<1>2. CASE UNCHANGED vars
  BY <1>2 DEF Reached, vars, round
<1>3. CASE NewRound
  BY <1>3, NewRoundFacts, EmptySeq DEF Reached
<1>4. CASE pc' = "failed"
  BY <1>4 DEF Reached
<1>5. CASE Draft
  <2>1. accepted' = accepted /\ accepted = 0
    BY <1>5 DEF Draft, DraftFrom, Shape, RoundShape
  <2>2. proposed' \in Seq(Tokens)
    BY <1>5, TypeStep DEF Next, Shape, TypeOK
  <2>3. Len(proposed') \in Nat
    BY <2>2, LenProperties
  <2>. QED BY <2>1, <2>3 DEF Reached
<1>6. CASE Accept /\ pc' # "failed"
  <2>1. /\ accepted < Len(proposed) /\ accepted' = accepted + 1
        /\ proposed' = proposed
    BY <1>6 DEF Accept, AcceptWith, CallbackRaises, Shape, RoundShape
  <2>. QED BY <1>1, <2>1 DEF Reached
<1>7. CASE UNCHANGED <<proposed, accepted>> /\ pc # "failed"
  BY <1>7 DEF Reached
<1>8. CASE DraftFails \/ Score \/ (Reject /\ pc' # "failed") \/ (Settle /\ ~NewRound)
  <2>1. UNCHANGED <<proposed, accepted>> /\ pc # "failed"
    BY <1>8 DEF DraftFails, Score, Drafted, Reject, RejectWith, CallbackRaises, Settle, round
  <2>. QED BY <1>7, <2>1
<1>9. CASE Raise \/ Fallback \/ Bonus
  BY <1>3, <1>4, <1>9 DEF Raise, Fallback, FallbackFrom, Bonus, BonusFrom, CallbackRaises
<1>. QED BY <1>2, <1>3, <1>4, <1>5, <1>6, <1>8, <1>9 DEF Next

LEMMA ProposingStep ==
  ASSUME Proposing, [Next]_vars
  PROVE  Proposing'
<1>1. CASE UNCHANGED <<pc, proposed>>
  BY <1>1 DEF Proposing
<1>2. CASE pc' \notin {"verify", "settle", "bonus"}
  BY <1>2 DEF Proposing
<1>3. CASE proposed' = proposed /\ pc \in {"verify", "settle", "bonus"}
  BY <1>3 DEF Proposing
<1>4. CASE Score
  BY <1>4 DEF Score, round, Proposing
<1>5. CASE NewRound
  BY <1>2, <1>5, NewRoundFacts
<1>6. CASE Accept \/ Reject \/ (Settle /\ ~NewRound)
  BY <1>3, <1>6 DEF Accept, AcceptWith, Reject, RejectWith, Settle, CallbackRaises, round
<1>7. CASE Draft \/ DraftFails \/ Raise \/ Fallback \/ Bonus
  BY <1>2, <1>5, <1>7 DEF Draft, DraftFrom, DraftFails, Raise, Fallback, FallbackFrom, Bonus,
                          BonusFrom, CallbackRaises
<1>. QED BY <1>1, <1>4, <1>5, <1>6, <1>7 DEF Next, vars, round

LEMMA DecodingStep ==
  ASSUME Decoding, [Next]_vars
  PROVE  Decoding'
BY TypeStep, ShapeStep, CorrectedStep, ReachedStep, ProposingStep DEF Decoding, Shape
-----------------------------------------------------------------------------
(* One adapter: what a call reuses and cuts.                               *)

LEMMA LedgerTypes ==
  ASSUME TypeOK
  PROVE  /\ Len(Prompt) \in Nat \ {0} /\ Len(prefix) \in Nat /\ Len(proposed) \in Nat
         /\ stats.accepted \in Nat /\ stats.drafted \in Nat /\ accepted \in Nat
         /\ prefix # <<>> => Len(prefix) > 0
<1>1. Prompt \in Seq(Tokens) /\ Prompt # <<>>
  BY PromptAssumption, CachingAssumption
<1>2. Len(Prompt) \in Nat /\ Len(Prompt) # 0
  BY <1>1, LenProperties, EmptySeq
<1>3. Len(prefix) \in Nat /\ Len(proposed) \in Nat /\ (prefix # <<>> => Len(prefix) # 0)
  BY LenProperties, EmptySeq DEF TypeOK
<1>. QED BY <1>2, <1>3 DEF TypeOK

\* What is asked for is a context that the adapter can take.
LEMMA Asked ==
  ASSUME Decoding, NEW m, Calls(m)
  PROVE  /\ m \in Models /\ pc \in {"draft", "score"}
         /\ Context(Len(proposed)) \in Seq(Tokens)
         /\ Len(Context(Len(proposed))) = Len(Prompt) + Len(prefix) + Len(proposed)
         /\ Len(Context(Len(proposed))) \in 1..MaxContext
         /\ First(m) \in 1..Len(Context(Len(proposed)))
         /\ First(m) >= Len(Prompt) + Len(prefix)
<1>1. TypeOK /\ pc \in {"draft", "score"} /\ m \in Models
  BY DEF Decoding, Calls, Drafted, Models
<1>2. /\ Len(Prompt) \in Nat \ {0} /\ Len(prefix) \in Nat /\ Len(proposed) \in Nat
      /\ MaxNew \in Nat /\ MaxContext \in Nat
  BY <1>1, LedgerTypes, ConfigAssumption, FactsAssumption DEF DraftFacts!AdapterAssumption
<1>3. Len(prefix) + Len(proposed) <= MaxNew
  BY <1>1 DEF Decoding, Shape, ProposalFits
<1>4. 0 \in 0..Len(proposed) /\ Len(proposed) \in 0..Len(proposed)
  BY <1>2
<1>5. Len(Context(0)) = Len(Prompt) + Len(prefix)
  BY <1>1, <1>2, <1>4, ContextElements
<1>6. /\ Context(Len(proposed)) \in Seq(Tokens)
      /\ Len(Context(Len(proposed))) = Len(Prompt) + Len(prefix) + Len(proposed)
  BY <1>1, <1>4, ContextElements
<1>7. First(m) \in {Len(Context(Len(proposed))), Len(Context(0))}
  BY DEF First
<1>8. Len(Context(Len(proposed))) \in 1..MaxContext
  BY <1>2, <1>3, <1>6, CacheAssumption
<1>9. First(m) \in 1..Len(Context(Len(proposed))) /\ First(m) >= Len(Prompt) + Len(prefix)
  BY <1>2, <1>5, <1>6, <1>7
<1>. QED BY <1>1, <1>6, <1>8, <1>9

\* Two sequences agree at least as far as they are known to.
LEMMA CommonAtLeast ==
  ASSUME NEW s \in Seq(Tokens), NEW t \in Seq(Tokens),
         NEW k \in 0..Len(s), k <= Len(t), SubSeq(s, 1, k) = SubSeq(t, 1, k)
  PROVE  /\ DraftFacts!CommonLength(s, t) \in k..Len(s)
         /\ DraftFacts!CommonLength(s, t) <= Len(t)
<1>. DEFINE n == DraftFacts!CommonLength(s, t)
<1>1. Len(s) \in Nat /\ Len(t) \in Nat
  BY LenProperties
<1>2. /\ n \in 0..DraftFacts!Smaller(Len(s), Len(t))
      /\ SubSeq(s, 1, n) = SubSeq(t, 1, n)
      /\ n < DraftFacts!Smaller(Len(s), Len(t)) => s[n + 1] # t[n + 1]
  BY FactsAssumption, DraftFacts!CommonLengthProperties
<1>. HIDE DEF n
<1>3. n \in Nat /\ n <= Len(s) /\ n <= Len(t)
  BY <1>1, <1>2 DEF DraftFacts!Smaller
<1>4. n >= k
  <2>. SUFFICES ASSUME n < k PROVE FALSE
    BY <1>1, <1>3
  <2>1. n + 1 \in 1..k /\ s[n + 1] # t[n + 1]
    BY <1>1, <1>2, <1>3 DEF DraftFacts!Smaller
  <2>2. k \in 0..Len(t)
    BY <1>1
  <2>3. \A i \in 1..k : SubSeq(s, 1, k)[i] = s[i]
    BY FactsAssumption, DraftFacts!PrefixProperties
  <2>4. \A i \in 1..k : SubSeq(t, 1, k)[i] = t[i]
    BY <2>2, FactsAssumption, DraftFacts!PrefixProperties
  <2>. QED BY <2>1, <2>3, <2>4
<1>. QED BY <1>1, <1>3, <1>4 DEF n

\* The first call of a round reuses all of the cache that the output keeps, but
\* for the position that the row is computed from; a later call of a draft
\* reuses everything; and no call finds its row at the boundary.
LEMMA Reuses ==
  ASSUME Decoding, NEW m, NEW held \in Seq(Tokens), NEW cut, Held(m, held, cut), begun,
         Calls(m)
  PROVE  LET c == Context(Len(proposed))
         IN  /\ ~(First(m) = Len(held) /\ SubSeq(c, 1, First(m)) = held)
             /\ Reused(m, held) \in 0..Len(held)
             /\ Before(m) /\ held # <<>> => Reused(m, held) = Kept(held)
             /\ Amid(m) \/ held = <<>> => Reused(m, held) = Len(held)
             /\ held # <<>> => Reused(m, held) > 0
             /\ Before(m) \/ Amid(m)
<1>. DEFINE c == Context(Len(proposed))
            L == Len(held)
            N == Len(proposed)
            base == Len(Prompt) + Len(prefix)
            common == DraftFacts!CommonLength(held, c)
            n == Reused(m, held)
            hit == First(m) = Len(held) /\ SubSeq(c, 1, First(m)) = held
<1>1. /\ TypeOK /\ N \in Nat /\ Len(prefix) \in Nat /\ N \in 0..N /\ 0 \in 0..N
      /\ Len(Prompt) \in Nat \ {0} /\ base \in Nat \ {0}
      /\ held \in Seq(Tokens) /\ L \in Nat
  <2>1. TypeOK /\ L \in Nat
    BY LenProperties DEF Decoding
  <2>. QED BY <2>1, LedgerTypes
<1>2. c \in Seq(Tokens) /\ Len(c) = base + N
  BY <1>1, ContextElements
<1>3. Context(0) \in Seq(Tokens) /\ Len(Context(0)) = base
  BY <1>1, ContextElements
<1>4. Before(m) \/ Amid(m)
  BY DEF Calls, Drafted, Before, Amid
<1>5. Before(m) => First(m) = base
  <2>1. m = "draft" /\ proposed = <<>> => First(m) = base + N /\ N = 0
    BY <1>2, EmptySeq DEF First
  <2>2. m = "target" => First(m) = base
    BY <1>3 DEF First
  <2>. QED BY <1>1, <2>1, <2>2 DEF Before
<1>6. Amid(m) => First(m) = base + N /\ N > 0
  <2>1. proposed # <<>> => N # 0
    BY <1>1, EmptySeq DEF Decoding, TypeOK
  <2>. QED BY <1>1, <1>2, <2>1 DEF Amid, First
<1>. HIDE DEF c, L, N, base
<1>7. CASE held = <<>>
  <2>1. ~hit
    <3>1. First(m) # 0 /\ Len(held) = 0
      BY <1>1, <1>4, <1>5, <1>6, <1>7, EmptySeq
    <3>. QED BY <3>1 DEF hit
  <2>2. common \in 0..L /\ L = 0
    <3>1. L = 0 /\ 0 \in 0..Len(held) /\ 0 <= Len(c)
      BY <1>1, <1>2, <1>7, EmptySeq DEF L
    <3>2. SubSeq(held, 1, 0) = SubSeq(c, 1, 0)
      BY SubSeqEmpty
    <3>3. common \in 0..Len(held)
      BY <1>1, <1>2, <3>1, <3>2, CommonAtLeast
    <3>. QED BY <3>1, <3>3 DEF L
  <2>3. n = 0
    <3>1. First(m) \in Nat \ {0}
      BY <1>1, <1>4, <1>5, <1>6
    <3>2. n = Smaller(common, First(m) - 1)
      BY <2>1 DEF Reused, c
    <3>. HIDE DEF common, n
    <3>. QED BY <2>2, <3>1, <3>2 DEF Smaller
  <2>. HIDE DEF n
  <2>4. n \in 0..Len(held) /\ n = Len(held)
    BY <2>2, <2>3 DEF L
  <2>. QED BY <1>4, <1>7, <2>1, <2>4 DEF n, c
<1>8. CASE held # <<>> /\ Before(m)
  <2>1. /\ Len(Prompt) <= L
        /\ SubSeq(held, 1, Kept(held)) = SubSeq(Context(0), 1, Kept(held))
        /\ held # Context(0)
        /\ prefix # <<>>
    BY <1>8 DEF Held, HeldBefore, L
  <2>2. base - 1 \in Nat \ {0} /\ Len(prefix) # 0
    BY <1>1, <2>1, EmptySeq DEF TypeOK, base
  <2>3. Kept(held) = IF L < base - 1 THEN L ELSE base - 1
    BY <1>3 DEF Kept, Smaller, L
  <2>. HIDE DEF Kept
  <2>4. Kept(held) \in 0..L /\ Kept(held) \in 0..base /\ Kept(held) > 0
    BY <1>1, <2>1, <2>2, <2>3
  <2>5. /\ SubSeq(c, 1, Kept(held)) = SubSeq(Context(0), 1, Kept(held))
        /\ SubSeq(c, 1, base) = Context(0)
    <3>1. /\ Kept(held) \in 0..Len(Prompt) + Len(prefix) + 0
          /\ base \in 0..Len(Prompt) + Len(prefix) + 0
      BY <1>1, <2>4 DEF base
    <3>2. \A j \in 0..Len(Prompt) + Len(prefix) + 0 :
            SubSeq(Context(Len(proposed)), 1, j) = SubSeq(Context(0), 1, j)
      BY <1>1, ContextOfPrefix DEF N
    <3>3. SubSeq(Context(0), 1, base) = Context(0)
      BY <1>3, SubSeqFull
    <3>. QED BY <3>1, <3>2, <3>3 DEF c
  <2>6. ~hit
    BY <1>5, <1>8, <2>1, <2>5 DEF hit
  <2>7. common \in Kept(held)..L
    <3>1. Kept(held) \in 0..Len(held) /\ Kept(held) <= Len(c)
      BY <1>1, <1>2, <2>4 DEF L
    <3>2. SubSeq(held, 1, Kept(held)) = SubSeq(c, 1, Kept(held))
      BY <2>1, <2>5
    <3>3. common \in Kept(held)..Len(held)
      BY <1>1, <1>2, <3>1, <3>2, CommonAtLeast
    <3>. QED BY <3>3 DEF L
  <2>8. n = Smaller(common, base - 1)
    BY <1>5, <1>8, <2>6 DEF Reused, c
  <2>. HIDE DEF common, n
  <2>9. n = Kept(held)
    BY <1>1, <2>2, <2>3, <2>4, <2>7, <2>8 DEF Smaller
  <2>10. n \in 0..Len(held) /\ n > 0
    BY <2>4, <2>9 DEF L
  <2>11. ~Amid(m)
    BY <1>8 DEF Before, Amid
  <2>. QED BY <1>8, <2>6, <2>9, <2>10, <2>11 DEF n, c
<1>9. CASE held # <<>> /\ Amid(m)
  <2>1. N - 1 \in 0..N /\ held = Context(N - 1)
    BY <1>1, <1>6, <1>9 DEF Held, HeldAmid, N
  <2>2. L = base + (N - 1)
    BY <1>1, <2>1, ContextElements DEF L, N, base
  <2>3. SubSeq(held, 1, L) = SubSeq(c, 1, L)
    <3>1. L \in 0..Len(Prompt) + Len(prefix) + (N - 1) /\ N - 1 \in 0..Len(proposed)
      BY <1>1, <2>1, <2>2 DEF base, N
    <3>2. SubSeq(Context(Len(proposed)), 1, L) = SubSeq(Context(N - 1), 1, L)
      BY <1>1, <3>1, ContextOfPrefix
    <3>. QED BY <2>1, <3>2 DEF c
  <2>4. ~hit
    BY <1>1, <1>6, <1>9, <2>2 DEF hit, L
  <2>5. common \in L..L
    <3>1. L \in 0..Len(held) /\ L <= Len(c)
      BY <1>1, <1>2, <2>2 DEF L
    <3>2. common \in L..Len(held)
      BY <1>1, <1>2, <2>3, <3>1, CommonAtLeast
    <3>. QED BY <3>2 DEF L
  <2>6. n = Smaller(common, First(m) - 1)
    BY <2>4 DEF Reused, c
  <2>. HIDE DEF common, n
  <2>7. n = L
    BY <1>1, <1>6, <1>9, <2>2, <2>5, <2>6 DEF Smaller
  <2>8. L > 0
    BY <1>1, <1>6, <1>9, <2>2
  <2>9. n \in 0..Len(held) /\ n = Len(held) /\ n > 0
    BY <1>1, <2>7, <2>8 DEF L
  <2>10. ~Before(m)
    BY <1>9 DEF Before, Amid
  <2>. QED BY <1>9, <2>4, <2>9, <2>10 DEF n, c
<1>. QED BY <1>4, <1>7, <1>8, <1>9

-----------------------------------------------------------------------------
(* One adapter: what it holds and what is cut from it.                     *)

\* Steps of the decoder keep to the budget.
LEMMA BudgetStep ==
  ASSUME Decoding, NEW cut \in Nat, Budget(cut), [Next]_vars
  PROVE  Budget(cut)'
<1>1. /\ stats \in Stat /\ stats.drafted \in Nat /\ stats.accepted \in Nat
      /\ accepted \in Nat /\ Len(proposed) \in Nat
  BY Numbers DEF Decoding
<1>2. CASE pc' = "failed"
  BY <1>2 DEF Budget
<1>3. CASE UNCHANGED vars
  BY <1>3 DEF vars, round, Budget
<1>4. CASE Draft
  <2>1. stats' = [stats EXCEPT !.drafted = @ + 1] /\ accepted' = accepted /\ pc # "failed"
    BY <1>4 DEF Draft, DraftFrom
  <2>2. stats'.drafted = stats.drafted + 1 /\ stats'.accepted = stats.accepted
    BY <1>1, <2>1, StatFields
  <2>3. Len(proposed') = Len(proposed) + 1
    BY <1>4 DEF Draft, DraftFrom, Decoding, TypeOK
  <2>. QED BY <1>1, <2>1, <2>2, <2>3 DEF Budget
<1>5. CASE Accept /\ pc' # "failed"
  <2>1. /\ stats' = [stats EXCEPT !.accepted = @ + 1] /\ accepted' = accepted + 1
        /\ proposed' = proposed /\ pc # "failed"
    BY <1>5 DEF Accept, AcceptWith, CallbackRaises
  <2>2. stats'.drafted = stats.drafted /\ stats'.accepted = stats.accepted + 1
    BY <1>1, <2>1, StatFields
  <2>. QED BY <1>1, <2>1, <2>2 DEF Budget
<1>6. CASE /\ UNCHANGED <<proposed, accepted>> /\ pc # "failed"
           /\ stats'.drafted = stats.drafted /\ stats'.accepted = stats.accepted
  BY <1>6 DEF Budget
<1>7. CASE DraftFails \/ (Settle /\ ~NewRound)
  <2>1. UNCHANGED <<proposed, accepted, stats>> /\ pc # "failed"
    BY <1>7 DEF DraftFails, Settle, round
  <2>. QED BY <1>6, <2>1
<1>8. CASE Score
  <2>1. UNCHANGED <<proposed, accepted>> /\ pc # "failed"
        /\ stats' = [stats EXCEPT !.rounds = @ + 1]
    BY <1>8 DEF Score, Drafted, round
  <2>. QED BY <1>1, <1>6, <2>1, StatFields
<1>9. CASE Reject /\ pc' # "failed"
  <2>1. UNCHANGED <<proposed, accepted>> /\ pc # "failed"
        /\ stats' = [stats EXCEPT !.rejected = @ + 1, !.target = @ + 1]
    BY <1>9 DEF Reject, RejectWith, CallbackRaises
  <2>. QED BY <1>1, <1>6, <2>1, StatFields
<1>10. CASE NewRound /\ pc # "failed"
            /\ stats'.drafted = stats.drafted /\ stats'.accepted = stats.accepted
  <2>1. Len(proposed') = 0 /\ accepted' = 0
    BY <1>10, NewRoundFacts, EmptySeq
  <2>2. accepted <= Len(proposed)
    BY <1>10 DEF Decoding, Reached
  <2>. QED BY <1>1, <1>10, <2>1, <2>2 DEF Budget
<1>11. CASE Settle /\ NewRound
  <2>1. pc # "failed" /\ stats' = stats
    BY <1>11 DEF Settle
  <2>. QED BY <1>10, <1>11, <2>1
<1>12. CASE Fallback /\ pc' # "failed"
  <2>1. pc # "failed" /\ NewRound
        /\ stats' = [stats EXCEPT !.target = @ + 1, !.fallback = @ + 1]
    BY <1>12 DEF Fallback, FallbackFrom, Drafted, CallbackRaises
  <2>. QED BY <1>1, <1>10, <2>1, StatFields
<1>13. CASE Bonus /\ pc' # "failed"
  <2>1. pc # "failed" /\ NewRound /\ stats' = [stats EXCEPT !.target = @ + 1]
    BY <1>13 DEF Bonus, BonusFrom, CallbackRaises
  <2>. QED BY <1>1, <1>10, <2>1, StatFields
<1>14. Raise => pc' = "failed"
  BY DEF Raise
<1>. QED BY <1>2, <1>3, <1>4, <1>5, <1>7, <1>8, <1>9, <1>11, <1>12, <1>13, <1>14 DEF Next

\* What a call cuts are proposals of a round before.
LEMMA CallBudget ==
  ASSUME Decoding, NEW m, NEW held \in Seq(Tokens), NEW cut \in Nat,
         Held(m, held, cut), Budget(cut), begun, Calls(m)
  PROVE  /\ cut + (Len(held) - Reused(m, held)) \in Nat
         /\ Budget(cut + (Len(held) - Reused(m, held)))
<1>. DEFINE n == Reused(m, held)
            L == Len(held)
<1>1. /\ n \in 0..L
      /\ Before(m) /\ held # <<>> => n = Kept(held)
      /\ Amid(m) \/ held = <<>> => n = L
      /\ Before(m) \/ Amid(m)
  BY Reuses
<1>2. /\ L \in Nat /\ Len(proposed) \in Nat
      /\ stats.accepted \in Nat /\ stats.drafted \in Nat /\ accepted \in Nat
  BY LedgerTypes, LenProperties DEF Decoding
<1>. HIDE DEF n
<1>3. CASE Before(m) /\ held # <<>>
  <2>1. cut + (L - n) + Len(proposed) + stats.accepted <= stats.drafted
    BY <1>1, <1>3 DEF Held, HeldBefore
  <2>. HIDE DEF L
  <2>2. cut + (L - n) + Len(proposed) + stats.accepted <= stats.drafted + accepted
    BY <1>1, <1>2, <2>1
  <2>3. cut + (L - n) \in Nat
    BY <1>1, <1>2
  <2>. QED BY <2>2, <2>3 DEF Budget, n, L
<1>4. CASE ~(Before(m) /\ held # <<>>)
  <2>1. cut + (L - n) = cut
    BY <1>1, <1>2, <1>4
  <2>. QED BY <2>1 DEF n, L
<1>. QED BY <1>3, <1>4

\* What a call leaves of a cache.
CutBack(m, held, held1, cut, cut1) == /\ held1 = SubSeq(held, 1, Reused(m, held))
                                      /\ cut1 = cut + (Len(held) - Reused(m, held))

LEMMA AskHolds ==
  ASSUME Decoding, NEW m, NEW held \in Seq(Tokens), NEW held1, NEW cut \in Nat, NEW cut1,
         Held(m, held, cut), Budget(cut), begun, begun' = begun, cached' = cached,
         Calls(m), UNCHANGED vars,
         CutBack(m, held, held1, cut, cut1)
  PROVE  /\ Held(m, held1, cut1)'
         /\ held1 = <<>> <=> held = <<>>
<1>. DEFINE n == Reused(m, held)
            L == Len(held)
            base == Len(Prompt) + Len(prefix)
<1>1. held1 = SubSeq(held, 1, n) /\ cut1 = cut + (L - n)
  BY DEF CutBack
<1>2. /\ n \in 0..L
      /\ Before(m) /\ held # <<>> => n = Kept(held)
      /\ Amid(m) \/ held = <<>> => n = L
      /\ held # <<>> => n > 0
      /\ Before(m) \/ Amid(m)
  BY Reuses
<1>3. held1 = SubSeq(held, 1, n) /\ Len(held1) = n /\ held1 \in Seq(Tokens)
  BY <1>1, <1>2, FactsAssumption, DraftFacts!PrefixProperties
<1>4. /\ L \in Nat /\ n \in Nat /\ n <= L
      /\ Len(Prompt) \in Nat \ {0} /\ Len(prefix) \in Nat /\ Len(proposed) \in Nat
      /\ stats.accepted \in Nat /\ stats.drafted \in Nat /\ accepted \in Nat
      /\ prefix # <<>> => Len(prefix) > 0
  BY <1>2, LedgerTypes, LenProperties DEF Decoding
<1>5. /\ UNCHANGED <<pc, prefix, proposed, accepted, stats>>
      /\ Context(0)' = Context(0)
  BY DEF vars, round, Context
<1>6. held1 = <<>> <=> held = <<>>
  <2>1. held = <<>> => n = 0
    BY <1>2, EmptySeq
  <2>2. held1 = <<>> => n = 0
    BY <1>3, EmptySeq
  <2>3. n = 0 => held1 = <<>>
    BY <1>3, SubSeqEmpty
  <2>. QED BY <1>2, <2>1, <2>2, <2>3
<1>7. n = L => held1 = held
  BY <1>3, <1>4, SubSeqFull
<1>14. cut1 = cut + (L - n) /\ n \in 0..Len(held) /\ L = Len(held)
  BY <1>1, <1>2
<1>. HIDE DEF n, L
<1>8. HeldBefore(m, held1, cut1)'
  <2>. SUFFICES ASSUME Before(m), held # <<>>
                PROVE  /\ prefix # <<>>
                       /\ Len(Prompt) <= n
                       /\ SubSeq(held1, 1, Smaller(n, Len(Context(0)) - 1))
                            = SubSeq(Context(0), 1, Smaller(n, Len(Context(0)) - 1))
                       /\ held1 # Context(0)
                       /\ cut1 + (n - Smaller(n, Len(Context(0)) - 1)) + Len(proposed)
                             + stats.accepted <= stats.drafted
    BY <1>3, <1>5, <1>6 DEF HeldBefore, Before, Kept, Smaller
  <2>1. /\ prefix # <<>> /\ Len(Prompt) <= L
        /\ SubSeq(held, 1, Kept(held)) = SubSeq(Context(0), 1, Kept(held))
        /\ cut + (L - Kept(held)) + Len(proposed) + stats.accepted <= stats.drafted
    BY DEF Held, HeldBefore, L
  <2>2. Context(0) \in Seq(Tokens) /\ Len(Context(0)) = base
    <3>1. 0 \in 0..Len(proposed)
      BY <1>4
    <3>. QED BY <1>4, <3>1, ContextElements DEF Decoding
  <2>. HIDE DEF base
  <2>3. /\ n = Kept(held) /\ Kept(held) = IF L < base - 1 THEN L ELSE base - 1
        /\ base = Len(Prompt) + Len(prefix) /\ base - 1 >= Len(Prompt)
    BY <1>2, <1>4, <2>1, <2>2 DEF Kept, Smaller, L, base
  <2>4. n \in Nat /\ n <= base - 1 /\ n >= Len(Prompt) /\ Smaller(n, Len(Context(0)) - 1) = n
    <3>1. L \in Nat /\ base \in Nat /\ Len(Prompt) \in Nat
      BY <1>4, <2>2, LenProperties
    <3>2. n \in Nat /\ n <= base - 1
      BY <2>3, <3>1
    <3>3. n >= Len(Prompt)
      BY <2>1, <2>3, <3>1
    <3>4. Smaller(n, Len(Context(0)) - 1) = n
      BY <2>2, <3>1, <3>2 DEF Smaller
    <3>. QED BY <3>2, <3>3, <3>4
  <2>5. SubSeq(held1, 1, n) = SubSeq(Context(0), 1, n)
    <3>1. held1 \in Seq(Tokens)
      BY <1>3, <1>4, <1>14, FactsAssumption, DraftFacts!PrefixProperties
    <3>2. SubSeq(held1, 1, n) = held1
      BY <1>3, <3>1, SubSeqFull
    <3>. QED BY <1>3, <2>1, <2>3, <3>2
  <2>6. held1 # Context(0)
    <3>1. n # base
      BY <1>4, <2>3, <2>4
    <3>2. Len(held1) = n /\ Len(Context(0)) = base
      BY <1>3, <2>2
    <3>. QED BY <3>1, <3>2
  <2>7. cut1 + (n - n) + Len(proposed) + stats.accepted <= stats.drafted
    <3>1. cut + (L - n) + Len(proposed) + stats.accepted <= stats.drafted
      BY <2>1, <2>3
    <3>2. cut1 + (n - n) = cut + (L - n)
      BY <1>4, <1>14
    <3>. QED BY <3>1, <3>2
  <2>. QED BY <2>1, <2>4, <2>5, <2>6, <2>7
<1>9. HeldAmid(m, held1)'
  <2>1. (Context(Len(proposed) - 1))' = Context(Len(proposed) - 1) /\ (Amid(m)' <=> Amid(m))
    BY <1>5 DEF Context, Amid
  <2>. QED BY <1>2, <1>7, <2>1 DEF Held, HeldAmid
<1>10. HeldAfter(m, held1)'
  BY <1>2, <1>5 DEF HeldAfter, After, Before, Amid
<1>. QED BY <1>6, <1>8, <1>9, <1>10 DEF Held

\* Where a round ends and another begins, the output has some of the proposals
\* and a token that is not the next of them.
LEMMA RoundEnds ==
  ASSUME Decoding, Fallback \/ Settle \/ Bonus, NewRound, pc' = "draft"
  PROVE  /\ \E a \in 0..Len(proposed) : accepted <= a /\ Emitted(a)
         /\ stats'.drafted = stats.drafted /\ stats'.accepted = stats.accepted
         /\ pc # "failed"
<1>1. /\ TypeOK /\ Shape /\ stats \in Stat /\ accepted \in Nat /\ Len(proposed) \in Nat
  BY Numbers DEF Decoding
<1>2. CASE Fallback
  <2>1. Len(proposed) = 0 /\ Emitted(0)
    BY <1>1, <1>2, FallbackEmits
  <2>2. accepted = 0 /\ pc # "failed"
    BY <1>1, <1>2 DEF Fallback, FallbackFrom, Drafted, Shape, RoundShape
  <2>3. stats' = [stats EXCEPT !.target = @ + 1, !.fallback = @ + 1]
    BY <1>2 DEF Fallback, FallbackFrom, CallbackRaises
  <2>4. \E a \in 0..Len(proposed) : accepted <= a /\ Emitted(a)
    <3>1. 0 \in 0..Len(proposed) /\ accepted <= 0
      BY <1>1, <2>2
    <3>. QED BY <2>1, <3>1
  <2>. QED BY <1>1, <2>2, <2>3, <2>4, StatFields
<1>3. CASE Settle
  <2>1. pc = "settle" /\ generated' = generated /\ stats' = stats
    BY <1>3 DEF Settle
  <2>2. rejected
    <3>1. ~Stops(generated')
      BY NewRoundFacts
    <3>2. ~Stops(generated)
      BY <2>1, <3>1 DEF Stops
    <3>. QED BY <1>3, <3>2 DEF Settle
  <2>3. accepted \in 0..Len(proposed) /\ accepted <= accepted
    BY <1>1, <2>1 DEF Decoding, Reached
  <2>4. Emitted(accepted)
    BY <2>1, <2>2 DEF Decoding, Corrected, Emitted
  <2>5. \E a \in 0..Len(proposed) : accepted <= a /\ Emitted(a)
    BY <2>3, <2>4
  <2>. QED BY <2>1, <2>5
<1>4. CASE Bonus
  <2>1. Len(proposed) \in 0..Len(proposed) /\ Emitted(Len(proposed))
    BY <1>1, <1>4, BonusEmits
  <2>2. accepted <= Len(proposed) /\ pc # "failed"
    BY <1>4 DEF Bonus, BonusFrom, Decoding, Reached
  <2>3. stats' = [stats EXCEPT !.target = @ + 1]
    BY <1>4 DEF Bonus, BonusFrom, CallbackRaises
  <2>4. \E a \in 0..Len(proposed) : accepted <= a /\ Emitted(a)
    BY <2>1, <2>2
  <2>. QED BY <1>1, <2>2, <2>3, <2>4, StatFields
<1>. QED BY <1>2, <1>3, <1>4

\* What the cache holds is of the round: a context of it, or nothing.
OfTheRound(held) == held # <<>> => \E i \in 0..Len(proposed) : held = Context(i)

LEMMA NewRoundHeld ==
  ASSUME Decoding, Decoding', NEW m, NEW held, NEW cut \in Nat, Budget(cut),
         cached' = cached, Fallback \/ Settle \/ Bonus, NewRound,
         m \in cached => OfTheRound(held)
  PROVE  Held(m, held, cut)'
<1>1. /\ pc' \in {"draft", "done"}
      /\ prefix' = generated' /\ proposed' = <<>> /\ Len(proposed') = 0
  BY NewRoundFacts, EmptySeq
<1>2. HeldAmid(m, held)' /\ HeldAfter(m, held)'
  BY <1>1 DEF HeldAmid, Amid, HeldAfter, After
<1>3. HeldBefore(m, held, cut)'
  <2>. SUFFICES ASSUME Before(m)', held # <<>>
                PROVE  /\ prefix' # <<>>
                       /\ Len(Prompt) <= Len(held)
                       /\ SubSeq(held, 1, Kept(held)') = SubSeq(Context(0)', 1, Kept(held)')
                       /\ held # Context(0)'
                       /\ cut + (Len(held) - Kept(held)') + Len(proposed')
                             + stats'.accepted <= stats'.drafted
    BY DEF HeldBefore
  <2>. DEFINE base == Prompt \o prefix
              n == Len(base)
              c == held
  <2>1. pc' = "draft" /\ m \in cached
    BY <1>1 DEF Before
  <2>2. /\ \E a \in 0..Len(proposed) : accepted <= a /\ Emitted(a)
        /\ stats'.drafted = stats.drafted /\ stats'.accepted = stats.accepted
        /\ pc # "failed"
    BY <2>1, RoundEnds
  <2>3. PICK a \in 0..Len(proposed) : accepted <= a /\ Emitted(a)
    BY <2>2
  <2>4. PICK y \in Tokens : /\ generated' = (prefix \o SubSeq(proposed, 1, a)) \o <<y>>
                            /\ a < Len(proposed) => y # proposed[a + 1]
    BY <2>3 DEF Emitted
  <2>5. PICK i \in 0..Len(proposed) : c = Context(i)
    BY <2>1 DEF OfTheRound
  <2>6. /\ TypeOK /\ proposed \in Seq(Tokens) /\ prefix \in Seq(Tokens)
        /\ Prompt \in Seq(Tokens) /\ Len(proposed) \in Nat /\ accepted \in Nat
        /\ stats.drafted \in Nat /\ stats.accepted \in Nat
        /\ Len(Prompt) \in Nat \ {0} /\ Len(prefix) \in Nat
    BY PromptAssumption, LedgerTypes DEF Decoding, TypeOK
  <2>7. base \in Seq(Tokens) /\ n = Len(Prompt) + Len(prefix)
    BY <2>6, ConcatProperties
  <2>. DEFINE some == SubSeq(proposed, 1, a)
              d == (base \o some) \o <<y>>
  <2>8. some \in Seq(Tokens) /\ Len(some) = a
    BY <2>6, FactsAssumption, DraftFacts!PrefixProperties
  <2>9. Context(0)' = d
    <3>1. Context(0)' = (Prompt \o generated') \o SubSeq(proposed', 1, 0)
      BY <1>1 DEF Context
    <3>2. <<y>> \in Seq(Tokens)
      BY <2>4
    <3>3. \A s, t \in Seq(Tokens) : s \o t \in Seq(Tokens)
      BY ConcatProperties
    <3>. HIDE DEF some
    <3>4. generated' = (prefix \o some) \o <<y>>
      BY <2>4 DEF some
    <3>5. generated' \in Seq(Tokens)
      BY DEF Decoding, TypeOK
    <3>7. Prompt \o generated' = d
      <4>1. /\ Prompt \in Seq(Tokens) /\ prefix \in Seq(Tokens) /\ some \in Seq(Tokens)
            /\ <<y>> \in Seq(Tokens)
        BY <2>6, <2>8, <3>2
      <4>2. Prompt \o ((prefix \o some) \o <<y>>) = ((Prompt \o prefix) \o some) \o <<y>>
        BY SMTT(20), <4>1, Regrouped
      <4>. QED BY <3>4, <4>2
    <3>9. Prompt \o generated' \in Seq(Tokens)
      BY <2>6, <3>3, <3>5
    <3>10. (Prompt \o generated') \o SubSeq(proposed', 1, 0) = Prompt \o generated'
      <4>1. SubSeq(proposed', 1, 0) = <<>>
        BY SubSeqEmpty
      <4>. QED BY <3>9, <4>1, ConcatEmptySeq
    <3>. QED BY <3>1, <3>7, <3>10
  <2>10. c = base \o SubSeq(proposed, 1, i)
    BY <2>5 DEF Context
  <2>11. Parted(c, d, n, i, a)
    <3>. HIDE DEF base
    <3>. QED BY <2>3, <2>4, <2>6, <2>7, <2>10, NextRoundKeeps
  <2>. HIDE DEF base, n, c, some, d
  <2>18. /\ c # d /\ Len(c) = n + i /\ Len(d) = n + a + 1
         /\ \A j \in 0..n + a : j <= n + i => SubSeq(c, 1, j) = SubSeq(d, 1, j)
    BY <2>11 DEF Parted
  <2>12. Len(prefix') > 0 /\ prefix' # <<>>
    <3>1. prefix' = (prefix \o some) \o <<y>> /\ <<y>> \in Seq(Tokens) /\ Len(<<y>>) = 1
      BY <1>1, <2>4 DEF some
    <3>2. prefix \o some \in Seq(Tokens) /\ Len(prefix \o some) \in Nat
      BY <2>6, <2>8, ConcatProperties, LenProperties
    <3>3. Len(prefix') = Len(prefix \o some) + 1
      BY <3>1, <3>2, ConcatProperties
    <3>. QED BY <3>2, <3>3, EmptySeq
  <2>13. Kept(held)' = IF n + i < n + a THEN n + i ELSE n + a
    <3>1. Kept(held)' = Smaller(Len(c), Len(d) - 1)
      BY <2>9 DEF Kept, Smaller, c
    <3>. QED BY <2>6, <2>7, <2>18, <3>1 DEF Smaller
  <2>. HIDE DEF Kept
  <2>14. Kept(held)' \in 0..n + a /\ Kept(held)' <= n + i
    BY <2>6, <2>7, <2>13
  <2>15. SubSeq(c, 1, Kept(held)') = SubSeq(d, 1, Kept(held)')
    BY <2>18, <2>14
  <2>16. Len(Prompt) <= Len(c)
    BY <2>6, <2>7, <2>18
  <2>17. cut + (Len(c) - Kept(held)') + Len(proposed') + stats'.accepted <= stats'.drafted
    <3>1. cut + Len(proposed) + stats.accepted <= stats.drafted + accepted
      BY <2>2 DEF Budget
    <3>2. accepted <= a /\ i <= Len(proposed) /\ a <= Len(proposed) /\ a \in Nat /\ i \in Nat
      BY <2>3, <2>6
    <3>3. Len(c) - Kept(held)' <= Len(proposed) - a
      BY <2>6, <2>7, <2>18, <2>13, <3>2
    <3>4. Len(c) - Kept(held)' \in Int
      BY <2>6, <2>7, <2>18, <2>14
    <3>5. cut + (Len(c) - Kept(held)') + stats.accepted <= stats.drafted
      <4>. DEFINE u == Len(c) - Kept(held)'
      <4>1. u \in Int /\ u <= Len(proposed) - a
        BY <3>3, <3>4
      <4>. HIDE DEF u
      <4>2. cut + u + stats.accepted <= stats.drafted
        BY <2>3, <2>6, <3>1, <3>2, <4>1
      <4>. QED BY <4>2 DEF u
    <3>. QED BY <1>1, <2>2, <2>6, <3>4, <3>5
  <2>. QED BY <2>9, <2>18, <2>12, <2>15, <2>16, <2>17 DEF c
<1>. QED BY <1>2, <1>3 DEF Held

\* Where generate fails there is nothing left to hold.
LEMMA FailedHolds ==
  ASSUME NEW m, NEW held, NEW cut, pc' = "failed"
  PROVE  Held(m, held, cut)'
BY DEF Held, HeldBefore, HeldAmid, HeldAfter, Before, Amid, After

\* A call that is given up leaves the cache empty, or as the answer made it.
LEMMA GivesUpHolds ==
  ASSUME Decoding, NEW m, NEW held, NEW cut, GivesUp(m),
         held = <<>> \/ held = Context(Len(proposed))
  PROVE  Held(m, held, cut)'
<1>1. CASE RaiseAtOnce
  BY <1>1, FailedHolds DEF RaiseAtOnce, Raise
<1>2. CASE m = "draft" /\ DraftFails
  <2>1. pc' = "score" /\ UNCHANGED <<prefix, proposed>>
    BY <1>2 DEF DraftFails, round
  <2>2. \A i : Context(i)' = Context(i)
    BY <2>1 DEF Context
  <2>3. Len(proposed) \in 0..Len(proposed)
    BY LedgerTypes DEF Decoding
  <2>4. HeldAfter(m, held)'
    BY <2>1, <2>2, <2>3 DEF HeldAfter
  <2>5. HeldBefore(m, held, cut)' /\ HeldAmid(m, held)'
    BY <1>2, <2>1 DEF HeldBefore, HeldAmid, Before, Amid
  <2>. QED BY <2>4, <2>5 DEF Held
<1>. QED BY <1>1, <1>2 DEF GivesUp

\* An answer that is used is what the round goes on with.
LEMMA AnsweredHolds ==
  ASSUME Decoding, Decoding', NEW m, NEW held, NEW cut \in Nat, Budget(cut),
         held = Context(Len(proposed)), cached' = cached,
         \/ m = "draft" /\ Draft
         \/ m = "target" /\ (Score \/ Fallback)
  PROVE  Held(m, held, cut)'
<1>3. CASE m = "draft" /\ Draft
  <2>1. PICK x \in Support(Q(Context(Len(proposed)))) : proposed' = Append(proposed, x)
    BY <1>3 DEF Draft, DraftFrom
  <2>2. x \in Tokens /\ proposed \in Seq(Tokens) /\ prefix' = prefix /\ pc' = "draft"
    BY <1>3, <2>1, SupportType DEF Draft, DraftFrom, Decoding, TypeOK
  <2>3. /\ Len(proposed') - 1 = Len(proposed) /\ proposed' # <<>>
        /\ SubSeq(proposed', 1, Len(proposed)) = SubSeq(proposed, 1, Len(proposed))
    <3>1. Len(proposed) \in Nat
      BY LedgerTypes DEF Decoding
    <3>. QED BY <2>1, <2>2, <3>1, AppendProperties, SubSeqFull
  <2>4. (Context(Len(proposed) - 1))' = Context(Len(proposed))
    BY <2>2, <2>3 DEF Context
  <2>5. HeldAmid(m, held)'
    BY <2>4 DEF HeldAmid
  <2>6. HeldBefore(m, held, cut)' /\ HeldAfter(m, held)'
    BY <1>3, <2>2, <2>3 DEF HeldBefore, HeldAfter, Before, After
  <2>. QED BY <2>5, <2>6 DEF Held
<1>4. CASE m = "target" /\ Score
  <2>1. pc' = "verify" /\ UNCHANGED <<prefix, proposed>>
    BY <1>4 DEF Score, round
  <2>2. \A i : Context(i)' = Context(i)
    BY <2>1 DEF Context
  <2>3. Len(proposed) \in 0..Len(proposed)
    BY LedgerTypes DEF Decoding
  <2>4. HeldAfter(m, held)'
    BY <2>1, <2>2, <2>3 DEF HeldAfter
  <2>5. HeldBefore(m, held, cut)' /\ HeldAmid(m, held)'
    BY <1>4, <2>1 DEF HeldBefore, HeldAmid, Before, Amid
  <2>. QED BY <2>4, <2>5 DEF Held
<1>5. CASE m = "target" /\ Fallback
  <2>1. CASE NewRound
    <3>1. OfTheRound(held)
      <4>1. Len(proposed) \in 0..Len(proposed)
        BY LedgerTypes DEF Decoding
      <4>. QED BY <4>1 DEF OfTheRound
    <3>. QED BY <1>5, <2>1, <3>1, NewRoundHeld
  <2>. QED BY <1>5, <2>1, FailedHolds DEF Fallback, FallbackFrom, CallbackRaises
<1>. QED BY <1>3, <1>4, <1>5

\* A draft loop that has begun nothing has room for a token.
LEMMA FirstDraft ==
  ASSUME Decoding, pc = "draft", proposed = <<>>
  PROVE  Drafting
<1>1. /\ Len(proposed) = 0 /\ Len(prefix) \in Nat /\ MaxNew \in Nat
      /\ generated = prefix /\ Len(generated) \in Nat
  BY EmptySeq, LenProperties, ConfigAssumption DEF Decoding, TypeOK, Shape, RoundShape
<1>2. Len(generated) < MaxNew
  BY OpenOutput DEF Decoding
<1>3. window \in Int /\ window >= 1
  BY ConfigAssumption DEF Decoding, TypeOK
<1>4. 0 < Limit
  BY <1>1, <1>2, <1>3 DEF Limit, Smaller
<1>. QED BY <1>1, <1>4 DEF Drafting

\* What the decoder does while an adapter rests.
LEMMA RestsHolds ==
  ASSUME Decoding, Decoding', NEW m \in Models, NEW held \in Seq(Tokens), NEW cut \in Nat,
         Held(m, held, cut), Budget(cut), begun, begun' = begun, cached' = cached,
         [Next]_vars,
         m = "draft" /\ m \in cached => ~Draft /\ ~DraftFails,
         m = "target" /\ m \in cached => ~Score /\ ~Fallback
  PROVE  Held(m, held, cut)'
<1>1. HeldBefore(m, held, cut) /\ HeldAmid(m, held) /\ HeldAfter(m, held)
  BY DEF Held
<1>2. /\ TypeOK /\ Len(proposed) \in Nat /\ accepted \in Nat /\ prefix \in Seq(Tokens)
      /\ stats.drafted \in Nat /\ stats.accepted \in Nat /\ stats \in Stat
  BY LedgerTypes, Numbers DEF Decoding, TypeOK
<1>3. CASE pc' = "failed"
  BY <1>3, FailedHolds
<1>4. CASE m \notin cached
  BY <1>4 DEF Held, HeldBefore, HeldAmid, HeldAfter, Before, Amid, After
<1>5. CASE After(m) /\ NewRound /\ (Fallback \/ Settle \/ Bonus)
  <2>1. OfTheRound(held)
    BY <1>1, <1>5 DEF HeldAfter, OfTheRound
  <2>. QED BY <1>1, <1>5, <2>1, NewRoundHeld
<1>6. CASE /\ After(m) /\ UNCHANGED <<prefix, proposed>>
           /\ pc' \in {"verify", "settle", "bonus"}
  <2>1. \A i : Context(i)' = Context(i)
    BY <1>6 DEF Context
  <2>2. HeldAfter(m, held)'
    BY <1>1, <1>6, <2>1 DEF HeldAfter
  <2>3. HeldBefore(m, held, cut)' /\ HeldAmid(m, held)'
    BY <1>6 DEF HeldBefore, HeldAmid, Before, Amid
  <2>. QED BY <2>2, <2>3 DEF Held
<1>7. CASE (Accept \/ Reject) /\ pc' # "failed" /\ m \in cached
  <2>1. After(m) /\ UNCHANGED <<prefix, proposed>> /\ pc' \in {"verify", "settle", "bonus"}
    BY <1>7 DEF Accept, AcceptWith, Reject, RejectWith, CallbackRaises, After, Models
  <2>. QED BY <1>6, <2>1
<1>8. CASE (Settle \/ Bonus) /\ pc' # "failed" /\ m \in cached
  <2>1. After(m)
    BY <1>8 DEF Settle, Bonus, BonusFrom, After, Models
  <2>2. CASE NewRound
    BY <1>5, <1>8, <2>1, <2>2
  <2>3. CASE ~NewRound
    <3>1. UNCHANGED <<prefix, proposed>> /\ pc' \in {"verify", "settle", "bonus"}
      BY <1>8, <2>3 DEF Settle, Bonus, BonusFrom, CallbackRaises, round
    <3>. QED BY <1>6, <2>1, <3>1
  <2>. QED BY <2>2, <2>3
<1>9. CASE m \in cached /\ m = "draft" /\ Score
  <2>1. UNCHANGED <<prefix, proposed>> /\ pc' = "verify" /\ proposed # <<>>
    BY <1>9 DEF Score, round
  <2>2. CASE After(m)
    BY <1>6, <2>1, <2>2
  <2>3. CASE ~After(m)
    <3>1. Amid(m)
      BY <1>9, <2>1, <2>3 DEF Score, Drafted, After, Amid
    <3>2. held = Context(Len(proposed) - 1)
      BY <1>1, <3>1 DEF HeldAmid
    <3>3. Len(proposed) - 1 \in 0..Len(proposed)
      BY <1>2, <2>1, EmptySeq DEF TypeOK
    <3>4. \A i : Context(i)' = Context(i)
      BY <2>1 DEF Context
    <3>5. HeldAfter(m, held)'
      BY <1>1, <2>1, <3>2, <3>3, <3>4 DEF HeldAfter
    <3>6. HeldBefore(m, held, cut)' /\ HeldAmid(m, held)'
      BY <1>9, <2>1 DEF HeldBefore, HeldAmid, Before, Amid
    <3>. QED BY <3>5, <3>6 DEF Held
  <2>. QED BY <2>2, <2>3
<1>10. CASE m \in cached /\ m = "draft" /\ Fallback /\ pc' # "failed"
  <2>1. NewRound /\ proposed = <<>> /\ Drafted
    BY <1>10 DEF Fallback, FallbackFrom, CallbackRaises
  <2>2. pc = "score"
    BY <2>1, FirstDraft DEF Drafted
  <2>. QED BY <1>5, <1>10, <2>1, <2>2 DEF After
<1>11. CASE m \in cached /\ m = "target" /\ (Draft \/ DraftFails)
  <2>1. /\ Before(m) /\ pc' \in {"draft", "score"} /\ prefix' = prefix
    BY <1>11 DEF Draft, DraftFrom, DraftFails, Before, round
  <2>2. Context(0)' = Context(0)
    <3>1. SubSeq(proposed', 1, 0) = <<>> /\ SubSeq(proposed, 1, 0) = <<>>
      BY SubSeqEmpty
    <3>. QED BY <2>1, <3>1 DEF Context
  <2>3. /\ stats'.accepted = stats.accepted
        /\ Len(proposed') - Len(proposed) = stats'.drafted - stats.drafted
        /\ Len(proposed') \in Nat /\ stats'.drafted \in Nat
    <3>1. CASE Draft
      <4>1. stats' = [stats EXCEPT !.drafted = @ + 1]
        BY <3>1 DEF Draft, DraftFrom
      <4>2. Len(proposed') = Len(proposed) + 1
        BY <1>2, <3>1 DEF Draft, DraftFrom, TypeOK
      <4>3. stats'.drafted = stats.drafted + 1 /\ stats'.accepted = stats.accepted
        BY <1>2, <4>1, StatFields
      <4>. QED BY <1>2, <4>2, <4>3
    <3>2. CASE DraftFails
      BY <1>2, <3>2 DEF DraftFails, round
    <3>. QED BY <1>11, <3>1, <3>2
  <2>4. HeldBefore(m, held, cut)'
    <3>. SUFFICES ASSUME held # <<>>
                  PROVE  /\ prefix # <<>>
                         /\ Len(Prompt) <= Len(held)
                         /\ SubSeq(held, 1, Kept(held)) = SubSeq(Context(0), 1, Kept(held))
                         /\ held # Context(0)
                         /\ cut + (Len(held) - Kept(held)) + Len(proposed')
                              + stats.accepted <= stats'.drafted
      BY <1>1, <2>1, <2>2, <2>3 DEF HeldBefore, Kept
    <3>1. /\ prefix # <<>>
          /\ Len(Prompt) <= Len(held)
          /\ SubSeq(held, 1, Kept(held)) = SubSeq(Context(0), 1, Kept(held))
          /\ held # Context(0)
          /\ cut + (Len(held) - Kept(held)) + Len(proposed) + stats.accepted
               <= stats.drafted
      BY <1>1, <2>1 DEF HeldBefore
    <3>. DEFINE extra == Len(held) - Kept(held)
    <3>2. extra \in Int
      <4>1. Len(held) \in Nat /\ Len(Context(0)) \in Nat
        <5>1. 0 \in 0..Len(proposed)
          BY <1>2
        <5>2. Context(0) \in Seq(Tokens)
          BY <1>2, <5>1, ContextElements
        <5>. QED BY <5>2, LenProperties
      <4>. QED BY <4>1 DEF Kept, Smaller
    <3>. HIDE DEF extra
    <3>3. cut + extra + Len(proposed) + stats.accepted <= stats.drafted
      BY <3>1 DEF extra
    <3>4. cut + extra + Len(proposed') + stats.accepted <= stats'.drafted
      BY <1>1, <1>2, <2>3, <3>2, <3>3
    <3>. QED BY <3>1, <3>4 DEF extra
  <2>5. HeldAmid(m, held)' /\ HeldAfter(m, held)'
    BY <1>11, <2>1 DEF HeldAmid, HeldAfter, Amid, After
  <2>. QED BY <2>4, <2>5 DEF Held
<1>12. CASE UNCHANGED vars
  BY <1>1, <1>12 DEF Held, HeldBefore, HeldAmid, HeldAfter, Before, Amid, After, Kept,
                     Context, vars, round
<1>13. Raise => pc' = "failed"
  BY DEF Raise
<1>. QED BY <1>3, <1>4, <1>7, <1>8, <1>9, <1>10, <1>11, <1>12, <1>13 DEF Next, Models

-----------------------------------------------------------------------------
(* The adapters in the composition.                                        *)

LEMMA DraftHolds ==
  ASSUME DraftFacts!IInv
  PROVE  dTokens \in Seq(Tokens) /\ Len(dTokens) \in Nat
BY LenProperties DEF DraftFacts!IInv, DraftFacts!TypeOK

LEMMA DraftAsked ==
  ASSUME Decoding, Calls("draft")
  PROVE  /\ Context(Len(proposed)) \in DraftFacts!Contexts
         /\ First("draft") \in 1..Len(Context(Len(proposed)))
<1>. DEFINE c == Context(Len(proposed))
<1>1. c \in Seq(Tokens) /\ Len(c) \in 1..MaxContext /\ First("draft") \in 1..Len(c)
  BY Asked
<1>. HIDE DEF c
<1>2. c \in [1..Len(c) -> Tokens]
  BY <1>1, LenProperties
<1>3. c \in DraftFacts!Contexts
  BY <1>1, <1>2 DEF DraftFacts!Contexts
<1>. QED BY <1>1, <1>3 DEF c

LEMMA DraftCropLength ==
  ASSUME DraftFacts!IInv, NEW n \in 0..Len(dTokens), DraftFacts!Crop(n)
  PROVE  dTokens' = SubSeq(dTokens, 1, n) /\ Len(dTokens') = n
<1>1. dTokens \in Seq(Tokens) /\ Len(dTokens) \in Nat /\ dPast = dTokens
  BY DraftHolds DEF DraftFacts!IInv, DraftFacts!Cached
<1>2. CASE DraftFacts!Keeps(n) /\ UNCHANGED <<DraftFacts!adapter, DraftFacts!paged>>
  BY <1>1, <1>2, SubSeqFull DEF DraftFacts!Keeps, DraftFacts!adapter
<1>3. CASE DraftFacts!Refills(n) /\ DraftFacts!Forget
  <2>1. n = 0 /\ dTokens' = <<>>
    BY <1>1, <1>3 DEF DraftFacts!Refills, DraftFacts!Forget
  <2>2. SubSeq(dTokens, 1, 0) = <<>>
    BY SubSeqEmpty
  <2>. QED BY <2>1, <2>2
<1>4. CASE DraftFacts!Cut(n)
  BY <1>1, <1>4, FactsAssumption, DraftFacts!PrefixProperties DEF DraftFacts!Cut
<1>. QED BY <1>2, <1>3, <1>4 DEF DraftFacts!Crop

LEMMA DraftReuses ==
  ASSUME Decoding, DraftFacts!IInv, NEW cut, Held("draft", dTokens, cut), begun, Calls("draft")
  PROVE  /\ DraftCache!Reuse(Context(Len(proposed)), First("draft")) = Reused("draft", dTokens)
         /\ Reused("draft", dTokens) \in 0..Len(dTokens)
         /\ ~DraftCache!Hit(Context(Len(proposed)), First("draft"))
<1>. DEFINE c == Context(Len(proposed))
            f == First("draft")
<1>1. /\ ~(f = Len(dTokens) /\ SubSeq(c, 1, f) = dTokens)
      /\ Reused("draft", dTokens) \in 0..Len(dTokens)
  BY DraftHolds, Reuses
<1>2. Reused("draft", dTokens) = Smaller(DraftFacts!CommonLength(dTokens, c), f - 1)
  BY DEF Reused
<1>. HIDE DEF c, f
<1>3. ~DraftCache!Hit(c, f)
  BY <1>1 DEF DraftCache!Hit
<1>4. DraftCache!Reuse(c, f) = DraftCache!Smaller(DraftCache!CommonLength(dTokens, c), f - 1)
  BY <1>3 DEF DraftCache!Reuse
<1>5. DraftCache!Reuse(c, f) = Reused("draft", dTokens)
  BY <1>2, <1>4, SameSmaller, SameCommonLength
<1>. QED BY <1>1, <1>3, <1>5 DEF c, f

LEMMA DraftAsks ==
  ASSUME Decoding, DraftFacts!IInv, NEW cut, Held("draft", dTokens, cut), begun, Calls("draft"),
         DraftCache!Prepare(Context(Len(proposed)), First("draft"))
  PROVE  /\ DraftFacts!IInv'
         /\ dTokens' = SubSeq(dTokens, 1, Reused("draft", dTokens))
         /\ dCall' # Null => /\ dCall'.tokens = Context(Len(proposed))
                             /\ dCall'.first = First("draft")
         /\ dAnswer' = dAnswer
<1>. DEFINE c == Context(Len(proposed))
            f == First("draft")
            n == DraftFacts!Reuse(c, f)
<1>1. c \in DraftFacts!Contexts /\ f \in 1..Len(c)
  BY DraftAsked
<1>2. n = Reused("draft", dTokens) /\ n \in 0..Len(dTokens)
  BY DraftReuses, SameDraftReuse
<1>3. DraftFacts!Prepare(c, f)
  BY SameDraftPrepare
<1>. HIDE DEF c, f
<1>4. DraftFacts!IInv'
  BY <1>1, <1>3, FactsAssumption, DraftFacts!PrepareKeeps
<1>5. /\ DraftFacts!Crop(n) /\ dAnswer' = dAnswer
      /\ dCall'.tokens = c /\ dCall'.first = f
  BY <1>3 DEF DraftFacts!Prepare
<1>. HIDE DEF n
<1>6. dTokens' = SubSeq(dTokens, 1, n)
  BY <1>2, <1>5, DraftCropLength
<1>. QED BY <1>2, <1>4, <1>5, <1>6 DEF c, f

LEMMA DraftForgets ==
  ASSUME DraftFacts!IInv, DraftCache!Forget, dCall' = Null, UNCHANGED <<dContainer, dAnswer>>
  PROVE  DraftFacts!IInv' /\ dTokens' = <<>>
<1>1. DraftFacts!Forget
  BY SameDraftForget
<1>2. DraftFacts!IInv'
  BY <1>1, FactsAssumption, DraftFacts!ForgetInv
<1>. QED BY <1>1, <1>2 DEF DraftFacts!Forget

LEMMA DraftRests ==
  ASSUME DraftFacts!IInv, UNCHANGED dAdapter
  PROVE  DraftFacts!IInv'
<1>1. UNCHANGED DraftFacts!vars
  BY DEF dAdapter, DraftFacts!vars, DraftFacts!adapter, DraftFacts!paged
<1>2. [DraftFacts!Next]_DraftFacts!vars
  BY <1>1
<1>. QED BY <1>2, FactsAssumption, DraftFacts!StepInv

\* The rows that a call returns, one for each proposal that it covers and one more.
LEMMA DraftAnswers ==
  ASSUME Decoding, DraftFacts!IInv, InCall("draft", dCall), DraftCache!Forward
  PROVE  LET c == Context(Len(proposed))
             f == First("draft")
         IN  /\ begun /\ Calls("draft") /\ DraftFacts!IInv'
             /\ dTokens' = c /\ c # <<>> /\ dCall' = Null
             /\ dAnswer'.rows = [k \in 1..Len(c) - f + 1 |-> SubSeq(c, 1, f + k - 1)]
             /\ dCall.reuse = 0 <=> dTokens = <<>>
<1>. DEFINE c == Context(Len(proposed))
            f == First("draft")
<1>1. dCall # Null /\ begun /\ Calls("draft") /\ dCall.tokens = c /\ dCall.first = f
  BY DEF DraftCache!Forward, InCall
<1>2. /\ dTokens' = dCall.tokens /\ dAnswer'.rows = DraftCache!Rows
      /\ dCall' = Null
  BY DEF DraftCache!Forward
<1>3. DraftFacts!IInv' /\ DraftCache!Rows = DraftFacts!Rows
  BY SameDraftForward, SameDraftRows, FactsAssumption, DraftFacts!ForwardKeeps
<1>4. DraftFacts!Rows = [k \in 1..Len(dCall.tokens) - dCall.first + 1 |->
                        DraftFacts!Row(SubSeq(dCall.tokens, 1, dCall.first + k - 1))]
  BY <1>1, FactsAssumption, DraftFacts!RowsAreTheirOwn
<1>5. c \in Seq(Tokens) /\ Len(c) \in 1..MaxContext /\ f \in 1..Len(c)
  BY <1>1, Asked
<1>. HIDE DEF c, f
<1>6. c # <<>>
  BY <1>5, EmptySeq
<1>7. ASSUME NEW k \in 1..Len(c) - f + 1
      PROVE  DraftFacts!Row(SubSeq(c, 1, f + k - 1)) = SubSeq(c, 1, f + k - 1)
  <2>. DEFINE j == f + k - 1
  <2>1. j \in 0..Len(c) /\ j <= MaxContext
    BY <1>5, FactsAssumption DEF DraftFacts!AdapterAssumption
  <2>. HIDE DEF j
  <2>2. SubSeq(c, 1, j) \in Seq(Tokens) /\ Len(SubSeq(c, 1, j)) = j
    BY <1>5, <2>1, FactsAssumption, DraftFacts!PrefixProperties
  <2>3. DraftFacts!Row(SubSeq(c, 1, j)) = SubSeq(c, 1, j)
    BY <2>1, <2>2, FactsAssumption, DraftFacts!RowWhole
  <2>. QED BY <2>3 DEF j
<1>8. dCall.reuse = Len(dTokens)
  BY <1>1 DEF DraftFacts!IInv, DraftFacts!Waiting
<1>9. dCall.reuse = 0 <=> dTokens = <<>>
  BY <1>8, DraftHolds, EmptySeq
<1>. QED BY <1>1, <1>2, <1>3, <1>4, <1>6, <1>7, <1>9 DEF c, f

LEMMA TargetHolds ==
  ASSUME TargetFacts!IInv
  PROVE  tTokens \in Seq(Tokens) /\ Len(tTokens) \in Nat
BY LenProperties DEF TargetFacts!IInv, TargetFacts!TypeOK

LEMMA TargetAsked ==
  ASSUME Decoding, Calls("target")
  PROVE  /\ Context(Len(proposed)) \in TargetFacts!Contexts
         /\ First("target") \in 1..Len(Context(Len(proposed)))
<1>. DEFINE c == Context(Len(proposed))
<1>1. c \in Seq(Tokens) /\ Len(c) \in 1..MaxContext /\ First("target") \in 1..Len(c)
  BY Asked
<1>. HIDE DEF c
<1>2. c \in [1..Len(c) -> Tokens]
  BY <1>1, LenProperties
<1>3. c \in TargetFacts!Contexts
  BY <1>1, <1>2 DEF TargetFacts!Contexts
<1>. QED BY <1>1, <1>3 DEF c

LEMMA TargetCropLength ==
  ASSUME TargetFacts!IInv, NEW n \in 0..Len(tTokens), TargetFacts!Crop(n)
  PROVE  tTokens' = SubSeq(tTokens, 1, n) /\ Len(tTokens') = n
<1>1. tTokens \in Seq(Tokens) /\ Len(tTokens) \in Nat /\ tPast = tTokens
  BY TargetHolds DEF TargetFacts!IInv, TargetFacts!Cached
<1>2. CASE TargetFacts!Keeps(n) /\ UNCHANGED <<TargetFacts!adapter, TargetFacts!paged>>
  BY <1>1, <1>2, SubSeqFull DEF TargetFacts!Keeps, TargetFacts!adapter
<1>3. CASE TargetFacts!Refills(n) /\ TargetFacts!Forget
  <2>1. n = 0 /\ tTokens' = <<>>
    BY <1>1, <1>3 DEF TargetFacts!Refills, TargetFacts!Forget
  <2>2. SubSeq(tTokens, 1, 0) = <<>>
    BY SubSeqEmpty
  <2>. QED BY <2>1, <2>2
<1>4. CASE TargetFacts!Cut(n)
  BY <1>1, <1>4, FactsAssumption, DraftFacts!PrefixProperties DEF TargetFacts!Cut
<1>. QED BY <1>2, <1>3, <1>4 DEF TargetFacts!Crop

LEMMA TargetReuses ==
  ASSUME Decoding, TargetFacts!IInv, NEW cut, Held("target", tTokens, cut), begun, Calls("target")
  PROVE  /\ TargetCache!Reuse(Context(Len(proposed)), First("target")) = Reused("target", tTokens)
         /\ Reused("target", tTokens) \in 0..Len(tTokens)
         /\ ~TargetCache!Hit(Context(Len(proposed)), First("target"))
<1>. DEFINE c == Context(Len(proposed))
            f == First("target")
<1>1. /\ ~(f = Len(tTokens) /\ SubSeq(c, 1, f) = tTokens)
      /\ Reused("target", tTokens) \in 0..Len(tTokens)
  BY TargetHolds, Reuses
<1>2. Reused("target", tTokens) = Smaller(DraftFacts!CommonLength(tTokens, c), f - 1)
  BY DEF Reused
<1>. HIDE DEF c, f
<1>3. ~TargetCache!Hit(c, f)
  BY <1>1 DEF TargetCache!Hit
<1>4. TargetCache!Reuse(c, f) = TargetCache!Smaller(TargetCache!CommonLength(tTokens, c), f - 1)
  BY <1>3 DEF TargetCache!Reuse
<1>5. TargetCache!Reuse(c, f) = Reused("target", tTokens)
  BY <1>2, <1>4, SameSmaller, SameCommonLength
<1>. QED BY <1>1, <1>3, <1>5 DEF c, f

LEMMA TargetAsks ==
  ASSUME Decoding, TargetFacts!IInv, NEW cut, Held("target", tTokens, cut), begun, Calls("target"),
         TargetCache!Prepare(Context(Len(proposed)), First("target"))
  PROVE  /\ TargetFacts!IInv'
         /\ tTokens' = SubSeq(tTokens, 1, Reused("target", tTokens))
         /\ tCall' # Null => /\ tCall'.tokens = Context(Len(proposed))
                             /\ tCall'.first = First("target")
         /\ tAnswer' = tAnswer
<1>. DEFINE c == Context(Len(proposed))
            f == First("target")
            n == TargetFacts!Reuse(c, f)
<1>1. c \in TargetFacts!Contexts /\ f \in 1..Len(c)
  BY TargetAsked
<1>2. n = Reused("target", tTokens) /\ n \in 0..Len(tTokens)
  BY TargetReuses, SameTargetReuse
<1>3. TargetFacts!Prepare(c, f)
  BY SameTargetPrepare
<1>. HIDE DEF c, f
<1>4. TargetFacts!IInv'
  BY <1>1, <1>3, FactsAssumption, TargetFacts!PrepareKeeps
<1>5. /\ TargetFacts!Crop(n) /\ tAnswer' = tAnswer
      /\ tCall'.tokens = c /\ tCall'.first = f
  BY <1>3 DEF TargetFacts!Prepare
<1>. HIDE DEF n
<1>6. tTokens' = SubSeq(tTokens, 1, n)
  BY <1>2, <1>5, TargetCropLength
<1>. QED BY <1>2, <1>4, <1>5, <1>6 DEF c, f

LEMMA TargetForgets ==
  ASSUME TargetFacts!IInv, TargetCache!Forget, tCall' = Null, UNCHANGED <<tContainer, tAnswer>>
  PROVE  TargetFacts!IInv' /\ tTokens' = <<>>
<1>1. TargetFacts!Forget
  BY SameTargetForget
<1>2. TargetFacts!IInv'
  BY <1>1, FactsAssumption, TargetFacts!ForgetInv
<1>. QED BY <1>1, <1>2 DEF TargetFacts!Forget

LEMMA TargetRests ==
  ASSUME TargetFacts!IInv, UNCHANGED tAdapter
  PROVE  TargetFacts!IInv'
<1>1. UNCHANGED TargetFacts!vars
  BY DEF tAdapter, TargetFacts!vars, TargetFacts!adapter, TargetFacts!paged
<1>2. [TargetFacts!Next]_TargetFacts!vars
  BY <1>1
<1>. QED BY <1>2, FactsAssumption, TargetFacts!StepInv

\* The rows that a call returns, one for each proposal that it covers and one more.
LEMMA TargetAnswers ==
  ASSUME Decoding, TargetFacts!IInv, InCall("target", tCall), TargetCache!Forward
  PROVE  LET c == Context(Len(proposed))
             f == First("target")
         IN  /\ begun /\ Calls("target") /\ TargetFacts!IInv'
             /\ tTokens' = c /\ c # <<>> /\ tCall' = Null
             /\ tAnswer'.rows = [k \in 1..Len(c) - f + 1 |-> SubSeq(c, 1, f + k - 1)]
             /\ tCall.reuse = 0 <=> tTokens = <<>>
<1>. DEFINE c == Context(Len(proposed))
            f == First("target")
<1>1. tCall # Null /\ begun /\ Calls("target") /\ tCall.tokens = c /\ tCall.first = f
  BY DEF TargetCache!Forward, InCall
<1>2. /\ tTokens' = tCall.tokens /\ tAnswer'.rows = TargetCache!Rows
      /\ tCall' = Null
  BY DEF TargetCache!Forward
<1>3. TargetFacts!IInv' /\ TargetCache!Rows = TargetFacts!Rows
  BY SameTargetForward, SameTargetRows, FactsAssumption, TargetFacts!ForwardKeeps
<1>4. TargetFacts!Rows = [k \in 1..Len(tCall.tokens) - tCall.first + 1 |->
                        TargetFacts!Row(SubSeq(tCall.tokens, 1, tCall.first + k - 1))]
  BY <1>1, FactsAssumption, TargetFacts!RowsAreTheirOwn
<1>5. c \in Seq(Tokens) /\ Len(c) \in 1..MaxContext /\ f \in 1..Len(c)
  BY <1>1, Asked
<1>. HIDE DEF c, f
<1>6. c # <<>>
  BY <1>5, EmptySeq
<1>7. ASSUME NEW k \in 1..Len(c) - f + 1
      PROVE  TargetFacts!Row(SubSeq(c, 1, f + k - 1)) = SubSeq(c, 1, f + k - 1)
  <2>. DEFINE j == f + k - 1
  <2>1. j \in 0..Len(c) /\ j <= MaxContext
    BY <1>5, FactsAssumption DEF DraftFacts!AdapterAssumption
  <2>. HIDE DEF j
  <2>2. SubSeq(c, 1, j) \in Seq(Tokens) /\ Len(SubSeq(c, 1, j)) = j
    BY <1>5, <2>1, FactsAssumption, DraftFacts!PrefixProperties
  <2>3. TargetFacts!Row(SubSeq(c, 1, j)) = SubSeq(c, 1, j)
    BY <2>1, <2>2, FactsAssumption, TargetFacts!RowWhole
  <2>. QED BY <2>3 DEF j
<1>8. tCall.reuse = Len(tTokens)
  BY <1>1 DEF TargetFacts!IInv, TargetFacts!Waiting
<1>9. tCall.reuse = 0 <=> tTokens = <<>>
  BY <1>8, TargetHolds, EmptySeq
<1>. QED BY <1>1, <1>2, <1>3, <1>4, <1>6, <1>7, <1>9 DEF c, f

-----------------------------------------------------------------------------
(* The composition implements the decoder.                                 *)

\* The row of the whole context, and the rows of every position of a proposal.
LEMMA LastRow ==
  ASSUME NEW c \in Seq(Tokens), NEW f, f = Len(c), NEW given,
         given = [k \in 1..Len(c) - f + 1 |-> SubSeq(c, 1, f + k - 1)]
  PROVE  given[1] = c
<1>1. Len(c) \in Nat
  BY LenProperties
<1>2. Len(c) - f + 1 = 1 /\ f + 1 - 1 = Len(c) /\ 1 \in 1..1
  BY <1>1
<1>3. given[1] = SubSeq(c, 1, Len(c))
  BY <1>2
<1>. QED BY <1>3, SubSeqFull

LEMMA AllRows ==
  ASSUME Decoding, NEW given,
         given = [k \in 1..Len(Context(Len(proposed))) - First("target") + 1 |->
                    SubSeq(Context(Len(proposed)), 1, First("target") + k - 1)]
  PROVE  given = [k \in 1..Len(proposed) + 1 |-> Context(k - 1)]
<1>. DEFINE c == Context(Len(proposed))
            f == First("target")
            n == Len(proposed)
            base == Len(Prompt) + Len(prefix)
<1>1. TypeOK /\ n \in Nat /\ base \in Nat /\ n \in 0..n /\ 0 \in 0..n
  BY LedgerTypes DEF Decoding
<1>2. Len(c) = base + n /\ f = base
  BY <1>1, ContextElements DEF First
<1>3. ASSUME NEW k \in 1..n + 1
      PROVE  SubSeq(c, 1, f + k - 1) = Context(k - 1)
  <2>1. k - 1 \in 0..Len(proposed) /\ base + (k - 1) = f + k - 1
        /\ base + (k - 1) \in 0..base + (k - 1)
    BY <1>1, <1>2
  <2>2. SubSeq(c, 1, base + (k - 1)) = SubSeq(Context(k - 1), 1, base + (k - 1))
    BY <1>1, <2>1, ContextOfPrefix
  <2>3. Context(k - 1) \in Seq(Tokens) /\ Len(Context(k - 1)) = base + (k - 1)
    BY <1>1, <2>1, ContextElements
  <2>4. SubSeq(Context(k - 1), 1, base + (k - 1)) = Context(k - 1)
    BY <2>3, SubSeqFull
  <2>. QED BY <2>1, <2>2, <2>4
<1>4. Len(c) - f + 1 = n + 1
  BY <1>1, <1>2
<1>. HIDE DEF n
<1>5. given = [k \in 1..n + 1 |-> Context(k - 1)]
  BY <1>3, <1>4
<1>. QED BY <1>5 DEF n

\* The rows that arrive are those of the positions asked for.
LEMMA DraftRow ==
  ASSUME CachedInv, Answered("draft")
  PROVE  dAnswer'.rows[1] = Context(Len(proposed))
<1>. DEFINE c == Context(Len(proposed))
<1>1. Decoding /\ Len(proposed) \in 0..Len(proposed) /\ Len(proposed) \in Nat
  BY LedgerTypes DEF CachedInv, Decoding
<1>2. c \in Seq(Tokens)
  BY <1>1, ContextElements DEF Decoding
<1>3. DraftCache!Forward
  BY DEF Answered, Forward
<1>4. dAnswer'.rows =
        [k \in 1..Len(c) - First("draft") + 1 |-> SubSeq(c, 1, First("draft") + k - 1)]
  BY <1>1, <1>3, DraftAnswers DEF CachedInv, DraftSide
<1>5. First("draft") = Len(c)
  BY DEF First
<1>. HIDE DEF c
<1>6. dAnswer'.rows[1] = c
  BY <1>2, <1>4, <1>5, LastRow
<1>. QED BY <1>6 DEF c

LEMMA TargetRows ==
  ASSUME CachedInv, Answered("target")
  PROVE  /\ tAnswer'.rows = [k \in 1..Len(proposed) + 1 |-> Context(k - 1)]
         /\ tAnswer'.rows[1] = Context(0)
<1>. DEFINE c == Context(Len(proposed))
<1>1. Decoding /\ Len(proposed) \in Nat
  BY LedgerTypes DEF CachedInv, Decoding
<1>2. TargetCache!Forward
  BY DEF Answered, Forward
<1>3. tAnswer'.rows =
        [k \in 1..Len(c) - First("target") + 1 |-> SubSeq(c, 1, First("target") + k - 1)]
  BY <1>1, <1>2, TargetAnswers DEF CachedInv, TargetSide
<1>4. tAnswer'.rows = [k \in 1..Len(proposed) + 1 |-> Context(k - 1)]
  BY <1>1, <1>3, AllRows
<1>5. 1 \in 1..Len(proposed) + 1 /\ 1 - 1 = 0
  BY <1>1
<1>. QED BY <1>4, <1>5

\* A token is drafted, or sampled without a proposal, from the row after the
\* whole context; a proposal is scored with the rows of its positions.
LEMMA AnswersServe ==
  ASSUME CachedInv, NEW m \in Models, Answered(m)
  PROVE  \/ /\ m = "draft" /\ Draft
            /\ rows' = [rows EXCEPT !.draft = Append(@, Context(Len(proposed)))]
         \/ /\ m = "target" /\ Score
            /\ rows' = [rows EXCEPT !.target =
                          [k \in 1..Len(proposed) + 1 |-> Context(k - 1)]]
         \/ m = "target" /\ Fallback /\ rows' = rows
         \/ GivesUp(m)
         \/ Raise /\ rows' = rows
<1>1. m = "draft" => dAnswer'.rows[1] = Context(Len(proposed))
  BY DraftRow
<1>2. m = "target" => /\ tAnswer'.rows = [k \in 1..Len(proposed) + 1 |-> Context(k - 1)]
                      /\ tAnswer'.rows[1] = Context(0)
  BY TargetRows
<1>. QED BY <1>1, <1>2 DEF Answered, Draft, Fallback

\* What is verified is verified with the rows of its position.
LEMMA VerifiesServe ==
  ASSUME CachedInv, Verifies
  PROVE  Accept \/ Reject \/ Settle \/ Bonus
<1>1. /\ TypeOK /\ Len(proposed) \in Nat /\ accepted \in Nat
      /\ rows.draft = [k \in 1..Len(proposed) |-> Context(k - 1)]
      /\ pc \in {"verify", "bonus"} =>
           rows.target = [k \in 1..Len(proposed) + 1 |-> Context(k - 1)]
      /\ pc = "verify" => accepted < Len(proposed)
  BY LedgerTypes DEF CachedInv, Decoding, RowsAreOfTheRound, Shape, RoundShape
<1>2. ASSUME pc = "verify"
      PROVE  rows.target[accepted + 1] = Context(accepted)
             /\ rows.draft[accepted + 1] = Context(accepted)
  <2>1. /\ accepted + 1 \in 1..Len(proposed) /\ accepted + 1 \in 1..Len(proposed) + 1
        /\ (accepted + 1) - 1 = accepted
    BY <1>1, <1>2
  <2>. QED BY <1>1, <1>2, <2>1
<1>3. CASE AcceptWith(P(rows.target[accepted + 1]), Q(rows.draft[accepted + 1]))
  <2>1. pc = "verify"
    BY <1>3 DEF AcceptWith
  <2>. QED BY <1>2, <1>3, <2>1 DEF Accept
<1>4. CASE RejectWith(P(rows.target[accepted + 1]), Q(rows.draft[accepted + 1]))
  <2>1. pc = "verify"
    BY <1>4 DEF RejectWith
  <2>. QED BY <1>2, <1>4, <2>1 DEF Reject
<1>5. CASE BonusFrom(P(rows.target[Len(rows.target)]))
  <2>1. pc = "bonus"
    BY <1>5 DEF BonusFrom
  <2>2. Len(rows.target) = Len(proposed) + 1
    BY <1>1, <2>1
  <2>3. rows.target[Len(rows.target)] = Context(Len(proposed))
    <3>1. Len(proposed) + 1 \in 1..Len(proposed) + 1 /\ (Len(proposed) + 1) - 1 = Len(proposed)
      BY <1>1
    <3>. QED BY <1>1, <2>1, <2>2, <3>1
  <2>. QED BY <1>5, <2>3 DEF Bonus
<1>. QED BY <1>3, <1>4, <1>5 DEF Verifies

\* Every step with caches, whichever models have one, is a step of the decoder
\* that asks the models themselves, or none.
LEMMA StepImplements ==
  ASSUME CachedInv, [CachedNext]_cachedVars
  PROVE  [Next]_vars
<1>1. CASE Begin \/ (\E m \in Models : Ask(m)) \/ UNCHANGED cachedVars
  BY <1>1 DEF Begin, Ask, cachedVars
<1>2. \A m : GivesUp(m) => Next
  BY DEF GivesUp, RaiseAtOnce, Next
<1>3. ASSUME NEW m \in Models, AskFails(m) \/ AnswerFails(m)
      PROVE  Next
  BY <1>2, <1>3 DEF AskFails, AnswerFails
<1>4. ASSUME NEW m \in Models, Answered(m)
      PROVE  Next
  BY <1>2, <1>4, AnswersServe DEF Next
<1>5. CASE Alone
  <2>1. CASE Uncached
    <3>1. Draft \/ DraftFails \/ Score \/ Fallback
      BY <2>1 DEF Uncached
    <3>. QED BY <3>1 DEF Next
  <2>2. CASE Verifies
    BY <2>2, VerifiesServe DEF Next
  <2>. QED BY <1>5, <2>1, <2>2 DEF Alone, Next
<1>. QED BY <1>1, <1>3, <1>4, <1>5 DEF CachedNext

\* Rows stay those of the round while the round is what it was.
LEMMA SameRows ==
  ASSUME RowsAreOfTheRound, Recorded, UNCHANGED <<prefix, proposed, rows>>,
         pc' \in {"verify", "settle", "bonus"} => pc \in {"verify", "settle", "bonus"}
  PROVE  RowsAreOfTheRound' /\ Recorded'
<1>1. \A i : Context(i)' = Context(i)
  BY DEF Context
<1>2. [k \in 1..Len(proposed) |-> Context(k - 1)]' = [k \in 1..Len(proposed) |-> Context(k - 1)]
  BY <1>1
<1>3. [k \in 1..Len(proposed) + 1 |-> Context(k - 1)]'
        = [k \in 1..Len(proposed) + 1 |-> Context(k - 1)]
  BY <1>1
<1>. QED BY <1>2, <1>3 DEF RowsAreOfTheRound, Recorded

\* A round begins without rows.
LEMMA FirstRows ==
  ASSUME proposed' = <<>>, rows' = NoRows, pc' \notin {"verify", "settle", "bonus"}
  PROVE  RowsAreOfTheRound' /\ Recorded'
<1>1. rows'.draft = <<>> /\ rows' = [draft |-> rows'.draft, target |-> rows'.target]
  BY DEF NoRows
<1>2. Len(proposed') = 0
  BY EmptySeq
<1>3. [k \in 1..Len(proposed') |-> Context(k - 1)'] = <<>>
  BY <1>2
<1>. QED BY <1>1, <1>3 DEF RowsAreOfTheRound, Recorded

LEMMA DraftedRows ==
  ASSUME Decoding, RowsAreOfTheRound, Recorded, Draft,
         rows' = [rows EXCEPT !.draft = Append(@, Context(Len(proposed)))]
  PROVE  RowsAreOfTheRound' /\ Recorded'
<1>. DEFINE n == Len(proposed)
            F == [k \in 1..n |-> Context(k - 1)]
            G == [k \in 1..n + 1 |-> Context(k - 1)']
<1>1. PICK x \in Support(Q(Context(Len(proposed)))) : proposed' = Append(proposed, x)
  BY DEF Draft, DraftFrom
<1>2. /\ x \in Tokens /\ proposed \in Seq(Tokens) /\ prefix' = prefix /\ pc' = "draft"
      /\ n \in Nat
  BY <1>1, SupportType, LedgerTypes DEF Draft, DraftFrom, Decoding, TypeOK
<1>3. /\ Len(proposed') = n + 1 /\ proposed' \in Seq(Tokens)
      /\ \A k \in 1..n : proposed'[k] = proposed[k]
  BY <1>1, <1>2, AppendProperties
<1>4. ASSUME NEW k \in 1..n + 1
      PROVE  Context(k - 1)' = Context(k - 1)
  <2>1. k - 1 \in 0..n /\ k - 1 \in 0..Len(proposed')
    BY <1>2, <1>3
  <2>2. SubSeq(proposed', 1, k - 1) = SubSeq(proposed, 1, k - 1)
    <3>1. SubSeq(proposed', 1, k - 1) = [i \in 1..k - 1 |-> proposed'[i]]
      BY <1>3, <2>1, FactsAssumption, DraftFacts!PrefixProperties
    <3>2. SubSeq(proposed, 1, k - 1) = [i \in 1..k - 1 |-> proposed[i]]
      BY <1>2, <2>1, FactsAssumption, DraftFacts!PrefixProperties
    <3>3. \A i \in 1..k - 1 : proposed'[i] = proposed[i]
      BY <1>2, <1>3, <2>1
    <3>. QED BY <3>1, <3>2, <3>3
  <2>. QED BY <1>2, <2>2 DEF Context
<1>5. rows.draft = F /\ rows = [draft |-> rows.draft, target |-> rows.target]
  BY DEF RowsAreOfTheRound, Recorded
<1>6. /\ rows'.draft = Append(F, Context(n))
      /\ rows' = [draft |-> rows'.draft, target |-> rows'.target]
  BY <1>5
<1>7. Append(F, Context(n)) = G
  <2>1. F \in Seq({Context(i) : i \in 0..n}) /\ Len(F) = n
    <3>1. \A k \in 1..n : Context(k - 1) \in {Context(i) : i \in 0..n}
      BY <1>2
    <3>2. F \in [1..n -> {Context(i) : i \in 0..n}]
      BY <3>1
    <3>. HIDE DEF F
    <3>. QED BY <1>2, <3>2, LenProperties
  <2>2. Context(n) \in {Context(i) : i \in 0..n}
    BY <1>2
  <2>3. /\ Len(Append(F, Context(n))) = n + 1
        /\ \A k \in 1..n : Append(F, Context(n))[k] = F[k]
        /\ Append(F, Context(n))[n + 1] = Context(n)
        /\ Append(F, Context(n)) \in Seq({Context(i) : i \in 0..n})
    BY <2>1, <2>2, AppendProperties
  <2>4. \A k \in 1..n : F[k] = Context(k - 1)
    OBVIOUS
  <2>5. \A k \in 1..n + 1 : Append(F, Context(n))[k] = Context(k - 1)
    <3>. HIDE DEF F
    <3>. TAKE k \in 1..n + 1
    <3>1. CASE k \in 1..n
      BY <2>3, <2>4, <3>1
    <3>2. CASE k = n + 1
      BY <1>2, <2>3, <3>2
    <3>3. k \in 1..n \/ k = n + 1
      BY <1>2
    <3>. QED BY <3>1, <3>2, <3>3
  <2>. HIDE DEF F
  <2>6. Append(F, Context(n)) = [k \in 1..n + 1 |-> Context(k - 1)]
    BY <2>3, <2>5, LenProperties
  <2>. QED BY <1>4, <2>6
<1>8. rows'.draft = [k \in 1..Len(proposed) |-> Context(k - 1)]'
  BY <1>3, <1>6, <1>7
<1>. QED BY <1>2, <1>6, <1>8 DEF RowsAreOfTheRound, Recorded

LEMMA ScoredRows ==
  ASSUME RowsAreOfTheRound, Recorded, Score,
         rows' = [rows EXCEPT !.target = [k \in 1..Len(proposed) + 1 |-> Context(k - 1)]]
  PROVE  RowsAreOfTheRound' /\ Recorded'
<1>1. \A i : Context(i)' = Context(i)
  BY DEF Score, round, Context
<1>2. /\ proposed' = proposed
      /\ rows = [draft |-> rows.draft, target |-> rows.target]
  BY DEF Score, round, Recorded
<1>3. [k \in 1..Len(proposed) |-> Context(k - 1)]' = [k \in 1..Len(proposed) |-> Context(k - 1)]
  BY <1>1, <1>2
<1>4. [k \in 1..Len(proposed) + 1 |-> Context(k - 1)]'
        = [k \in 1..Len(proposed) + 1 |-> Context(k - 1)]
  BY <1>1, <1>2
<1>5. /\ rows' = [draft |-> rows'.draft, target |-> rows'.target]
      /\ rows'.draft = rows.draft
      /\ rows'.target = [k \in 1..Len(proposed) + 1 |-> Context(k - 1)]
  BY <1>2
<1>. QED BY <1>3, <1>4, <1>5 DEF RowsAreOfTheRound, Recorded

LEMMA FallbackRows ==
  ASSUME RowsAreOfTheRound, Recorded, Fallback, rows' = rows
  PROVE  RowsAreOfTheRound' /\ Recorded'
<1>1. CASE CallbackRaises
  BY <1>1, SameRows DEF CallbackRaises, round
<1>2. CASE NewRound
  <2>1. proposed = <<>> /\ proposed' = <<>> /\ pc' \notin {"verify", "settle", "bonus"}
    BY <1>2, NewRoundFacts DEF Fallback, FallbackFrom
  <2>2. Len(proposed') = 0 /\ Len(proposed) = 0
    BY <2>1, EmptySeq
  <2>3. [k \in 1..Len(proposed') |-> Context(k - 1)'] = <<>>
    BY <2>2
  <2>4. [k \in 1..Len(proposed) |-> Context(k - 1)] = <<>>
    BY <2>2
  <2>. QED BY <2>1, <2>3, <2>4 DEF RowsAreOfTheRound, Recorded
<1>. QED BY <1>1, <1>2 DEF Fallback, FallbackFrom

LEMMA VerifiedRows ==
  ASSUME CachedInv, Verifies
  PROVE  RowsAreOfTheRound' /\ Recorded'
<1>1. /\ RowsAreOfTheRound /\ Recorded /\ Proposing
      /\ rows' = IF proposed' = <<>> THEN NoRows ELSE rows
  BY DEF CachedInv, Decoding, Verifies
<1>2. pc \in {"verify", "settle", "bonus"} /\ proposed # <<>>
      /\ (NewRound \/ UNCHANGED <<prefix, proposed>>)
  <2>1. pc \in {"verify", "settle", "bonus"} /\ (NewRound \/ UNCHANGED <<prefix, proposed>>)
    BY VerifiesServe DEF Accept, AcceptWith, Reject, RejectWith, Settle, Bonus, BonusFrom,
                         CallbackRaises, round
  <2>. QED BY <1>1, <2>1 DEF Proposing
<1>3. CASE NewRound
  BY <1>1, <1>3, NewRoundFacts, FirstRows
<1>4. CASE UNCHANGED <<prefix, proposed>>
  BY <1>1, <1>2, <1>4, SameRows
<1>. QED BY <1>2, <1>3, <1>4

LEMMA RowsStep ==
  ASSUME CachedInv, [CachedNext]_cachedVars
  PROVE  RowsAreOfTheRound' /\ Recorded'
<1>1. Decoding /\ RowsAreOfTheRound /\ Recorded
  BY DEF CachedInv
<1>2. CASE UNCHANGED <<vars, rows>>
  BY <1>1, <1>2, SameRows DEF vars, round
<1>3. ASSUME RaiseAtOnce \/ Raise \/ DraftFails, rows' = rows
      PROVE  RowsAreOfTheRound' /\ Recorded'
  BY <1>1, <1>3, SameRows DEF RaiseAtOnce, Raise, DraftFails, round
<1>4. \A m : GivesUp(m) => (RaiseAtOnce \/ DraftFails) /\ rows' = rows
  BY DEF GivesUp
<1>5. ASSUME NEW m \in Models, AskFails(m) \/ AnswerFails(m)
      PROVE  RowsAreOfTheRound' /\ Recorded'
  BY <1>3, <1>4, <1>5 DEF AskFails, AnswerFails
<1>6. ASSUME NEW m \in Models, Answered(m)
      PROVE  RowsAreOfTheRound' /\ Recorded'
  BY <1>1, <1>3, <1>4, <1>6, AnswersServe, DraftedRows, ScoredRows, FallbackRows
<1>7. CASE Alone
  <2>1. CASE Uncached
    BY <1>1, <1>3, <2>1, DraftedRows, ScoredRows, FallbackRows DEF Uncached
  <2>. QED BY <1>3, <1>7, <2>1, VerifiedRows DEF Alone
<1>8. CASE Begin \/ (\E m \in Models : Ask(m)) \/ UNCHANGED cachedVars
  BY <1>2, <1>8 DEF Begin, Ask, cachedVars
<1>. QED BY <1>5, <1>6, <1>7, <1>8 DEF CachedNext
-----------------------------------------------------------------------------
(* Steps of the adapters.                                                  *)

LEMMA SamePlace ==
  ASSUME UNCHANGED <<vars, cached>>
  PROVE  /\ \A m : (Calls(m)' <=> Calls(m)) /\ First(m)' = First(m)
         /\ Context(Len(proposed))' = Context(Len(proposed))
<1>1. /\ pc' = pc /\ window' = window /\ prefix' = prefix /\ proposed' = proposed
      /\ cached' = cached
  BY DEF vars, round
<1>2. \A i : Context(i)' = Context(i)
  BY <1>1 DEF Context
<1>3. (Drafting' <=> Drafting) /\ (Drafted' <=> Drafted)
  BY <1>1 DEF Drafting, Drafted, Limit
<1>. QED BY <1>1, <1>2, <1>3 DEF Calls, First

\* One model is called at a time, and the decoder does what a model with a
\* cache is called for only with its answer.
LEMMA OneCall == ~(Calls("draft") /\ Calls("target"))
BY DEF Calls, Drafted

LEMMA NotCalled ==
  ASSUME NEW m \in Models, m \in cached, ~Calls(m)
  PROVE  /\ m = "draft" => ~Draft /\ ~DraftFails
         /\ m = "target" => ~Score /\ ~Fallback
BY DEF Calls, Draft, DraftFrom, DraftFails, Score, Fallback, FallbackFrom

LEMMA AloneCalls ==
  ASSUME Alone
  PROVE  \A m \in Models : ~Calls(m)
<1>1. CASE Uncached
  BY <1>1 DEF Uncached, Calls, Draft, DraftFrom, DraftFails, Score, Fallback, FallbackFrom,
              Drafted, Models
<1>2. CASE Verifies
  <2>1. pc \in {"verify", "settle", "bonus"}
    BY <1>2 DEF Verifies, AcceptWith, RejectWith, Settle, BonusFrom
  <2>. QED BY <2>1 DEF Calls, Drafted
<1>. QED BY <1>1, <1>2 DEF Alone

LEMMA SameHolds ==
  ASSUME NEW m, NEW held, NEW cut, Held(m, held, cut), UNCHANGED <<vars, begun, cached>>
  PROVE  Held(m, held, cut)'
BY DEF Held, HeldBefore, HeldAmid, HeldAfter, Before, Amid, After, Kept, Context, vars, round

\* Resetting an adapter leaves nothing that an earlier request cached.
LEMMA BeginHolds ==
  ASSUME NEW m, NEW cut, NotBegun, ~begun, UNCHANGED vars
  PROVE  Held(m, <<>>, cut)'
<1>1. proposed' = <<>>
  BY DEF NotBegun, vars, round
<1>. QED BY <1>1 DEF Held, HeldBefore, HeldAmid, HeldAfter, Amid

LEMMA NotBegunStep ==
  ASSUME CachedInv, [CachedNext]_cachedVars
  PROVE  NotBegun' /\ begun' \in BOOLEAN /\ (begun => begun') /\ cached' = cached
<1>1. /\ NotBegun /\ begun \in BOOLEAN
      /\ InCall("draft", dCall) /\ InCall("target", tCall)
  BY DEF CachedInv, DraftSide, TargetSide
<1>2. CASE Begin
  BY <1>1, <1>2 DEF Begin, NotBegun, CachedNext, cachedVars
<1>3. CASE Alone \/ \E m \in Models : Ask(m) \/ AskFails(m) \/ Answered(m) \/ AnswerFails(m)
  <2>1. begun /\ begun' = begun
    BY <1>1, <1>3 DEF Alone, Ask, AskFails, Answered, AnswerFails, Waiting, InCall
  <2>. QED BY <1>1, <2>1 DEF NotBegun, CachedNext, cachedVars
<1>4. CASE UNCHANGED cachedVars
  BY <1>1, <1>4 DEF cachedVars, NotBegun, vars, round, counters, dAdapter, tAdapter
<1>. QED BY <1>2, <1>3, <1>4 DEF CachedNext

LEMMA DraftHeldNow ==
  ASSUME \A h, c : h = dTokens' /\ c = cropped["draft"]' => Held("draft", h, c)'
  PROVE  Held("draft", dTokens, cropped["draft"])'
BY DEF Held, HeldBefore, HeldAmid, HeldAfter, Kept

\* What a call cuts.
LEMMA DraftExcess ==
  ASSUME CachedInv, begun, Calls("draft")
  PROVE  /\ Excess("draft", Context(Len(proposed))) = Len(dTokens) - Reused("draft", dTokens)
         /\ cropped["draft"] + Excess("draft", Context(Len(proposed))) \in Nat
         /\ Budget(cropped["draft"] + Excess("draft", Context(Len(proposed))))
<1>1. /\ Decoding /\ DraftFacts!IInv /\ Held("draft", dTokens, cropped["draft"])
      /\ Budget(cropped["draft"]) /\ cropped["draft"] \in Nat
  BY DEF CachedInv, DraftSide, Counts, Models
<1>2. Excess("draft", Context(Len(proposed))) = Len(dTokens) - Reused("draft", dTokens)
  BY <1>1, DraftReuses DEF Excess
<1>3. dTokens \in Seq(Tokens)
  BY <1>1, DraftHolds
<1>. QED BY <1>1, <1>2, <1>3, CallBudget

\* The adapter rests: what it holds still fits the round.
LEMMA DraftSideRests ==
  ASSUME CachedInv, Decoding', [Next]_vars,
         ~Calls("draft") \/ UNCHANGED vars,
         UNCHANGED <<dAdapter, begun, cached, prefills["draft"], cropped["draft"], lost["draft"]>>
  PROVE  DraftSide'
<1>1. /\ Decoding /\ DraftSide /\ DraftFacts!IInv /\ InCall("draft", dCall)
      /\ Held("draft", dTokens, cropped["draft"]) /\ Budget(cropped["draft"])
      /\ Prefilled(dTokens, prefills["draft"], lost["draft"], dAnswer # Null)
      /\ cropped["draft"] \in Nat /\ begun \in BOOLEAN /\ dTokens \in Seq(Tokens)
  BY DraftHolds DEF CachedInv, DraftSide, Counts, Models
<1>2. /\ dTokens' = dTokens /\ dCall' = dCall /\ dAnswer' = dAnswer
      /\ begun' = begun /\ cached' = cached
      /\ prefills["draft"]' = prefills["draft"] /\ cropped["draft"]' = cropped["draft"]
      /\ lost["draft"]' = lost["draft"]
  BY DEF dAdapter
<1>3. DraftFacts!IInv'
  BY <1>1, DraftRests
<1>4. dCall # Null => begun /\ Calls("draft") /\ UNCHANGED vars
  BY <1>1 DEF InCall
<1>5. InCall("draft", dCall)'
  BY <1>1, <1>2, <1>4, SamePlace DEF InCall
<1>6. ASSUME NEW h, NEW c, h = dTokens', c = cropped["draft"]'
      PROVE  Held("draft", h, c)'
  <2>1. /\ Held("draft", h, c) /\ Budget(c) /\ c \in Nat /\ h \in Seq(Tokens)
    <3>1. h = dTokens /\ c = cropped["draft"]
      BY <1>2, <1>6
    <3>. QED BY <1>1, <3>1
  <2>2. CASE UNCHANGED vars
    BY <1>2, <2>1, <2>2, SameHolds
  <2>3. CASE ~begun
    BY <1>2, <2>3 DEF Held, HeldBefore, HeldAmid, HeldAfter
  <2>4. CASE begun /\ ~Calls("draft")
    <3>1. "draft" \in Models
      BY DEF Models
    <3>2. "draft" = "draft" /\ "draft" \in cached => ~Draft /\ ~DraftFails
      BY <2>4, <3>1, NotCalled
    <3>3. "draft" = "target" /\ "draft" \in cached => ~Score /\ ~Fallback
      BY <2>4, <3>1, NotCalled
    <3>4. /\ Decoding /\ begun /\ begun' = begun /\ cached' = cached
      BY <1>1, <1>2, <2>4
    <3>. QED BY <2>1, <3>1, <3>2, <3>3, <3>4, RestsHolds
  <2>. QED BY <1>1, <2>2, <2>3, <2>4
<1>7. Budget(cropped["draft"])'
  <2>1. \A c \in Nat : Budget(c) => Budget(c)'
    BY <1>1, BudgetStep
  <2>. QED BY <1>1, <1>2, <2>1 DEF Budget
<1>8. Prefilled(dTokens, prefills["draft"], lost["draft"], dAnswer # Null)'
  BY <1>1, <1>2 DEF Prefilled
<1>9. Held("draft", dTokens, cropped["draft"])'
  BY <1>6, DraftHeldNow
<1>. QED BY <1>3, <1>5, <1>7, <1>8, <1>9 DEF DraftSide

LEMMA DraftSideBegins ==
  ASSUME CachedInv, Begin
  PROVE  DraftSide'
<1>1. /\ DraftFacts!IInv /\ Budget(cropped["draft"]) /\ Counts /\ NotBegun
      /\ Prefilled(dTokens, prefills["draft"], lost["draft"], dAnswer # Null)
  BY DEF CachedInv, DraftSide
<1>2. /\ ~begun /\ begun' = TRUE /\ UNCHANGED vars
      /\ prefills' = prefills /\ cropped' = cropped /\ lost' = lost
      /\ DraftCache!Forget /\ dCall = Null /\ dCall' = Null
      /\ UNCHANGED <<dContainer, dAnswer>>
  BY DEF Begin, Reset, DraftCache!ResetCache, counters
<1>3. DraftFacts!IInv' /\ dTokens' = <<>>
  BY <1>1, <1>2, DraftForgets
<1>4. InCall("draft", dCall)'
  BY <1>2 DEF InCall
<1>5. Held("draft", dTokens, cropped["draft"])'
  <2>1. \A h, c : h = <<>> => Held("draft", h, c)'
    BY <1>1, <1>2, BeginHolds
  <2>. QED BY <1>3, <2>1, DraftHeldNow
<1>6. Budget(cropped["draft"])'
  BY <1>1, <1>2 DEF Budget, vars, round
<1>7. Prefilled(dTokens, prefills["draft"], lost["draft"], dAnswer # Null)'
  <2>1. lost["draft"] \in Nat
    BY <1>1 DEF Counts, Models
  <2>. QED BY <1>1, <1>2, <1>3, <2>1 DEF Prefilled
<1>. QED BY <1>3, <1>4, <1>5, <1>6, <1>7 DEF DraftSide

LEMMA DraftSideAsks ==
  ASSUME CachedInv, Ask("draft"), cached' = cached
  PROVE  DraftSide' /\ Counts'
<1>. DEFINE more == Excess("draft", Context(Len(proposed)))
<1>1. /\ Decoding /\ DraftFacts!IInv /\ Held("draft", dTokens, cropped["draft"])
      /\ Budget(cropped["draft"]) /\ Counts /\ cropped["draft"] \in Nat
      /\ Prefilled(dTokens, prefills["draft"], lost["draft"], dAnswer # Null)
      /\ dTokens \in Seq(Tokens)
  BY DraftHolds DEF CachedInv, DraftSide, Counts, Models
<1>2. /\ begun /\ Calls("draft") /\ begun' = begun /\ UNCHANGED vars
      /\ prefills' = prefills /\ lost' = lost
      /\ cropped' = [cropped EXCEPT !["draft"] = @ + more]
      /\ DraftCache!Prepare(Context(Len(proposed)), First("draft"))
  BY DEF Ask, Prepare
<1>3. /\ more = Len(dTokens) - Reused("draft", dTokens)
      /\ cropped["draft"] + more \in Nat /\ Budget(cropped["draft"] + more)
  BY <1>2, DraftExcess
<1>4. /\ DraftFacts!IInv' /\ dTokens' = SubSeq(dTokens, 1, Reused("draft", dTokens))
      /\ dCall' # Null => /\ dCall'.tokens = Context(Len(proposed))
                          /\ dCall'.first = First("draft")
      /\ dAnswer' = dAnswer
  BY <1>1, <1>2, DraftAsks
<1>. HIDE DEF more
<1>5. cropped["draft"]' = cropped["draft"] + more
  BY <1>1, <1>2 DEF Counts, Models
<1>6. ASSUME NEW h, NEW c, h = dTokens', c = cropped["draft"]'
      PROVE  Held("draft", h, c)' /\ (h = <<>> <=> dTokens = <<>>)
  <2>1. h = SubSeq(dTokens, 1, Reused("draft", dTokens))
        /\ c = cropped["draft"] + (Len(dTokens) - Reused("draft", dTokens))
    BY <1>3, <1>4, <1>5, <1>6
  <2>2. CutBack("draft", dTokens, h, cropped["draft"], c)
    BY <2>1 DEF CutBack
  <2>. QED BY <1>1, <1>2, <2>2, AskHolds
<1>7. dTokens' = <<>> <=> dTokens = <<>>
  BY <1>6
<1>8. Held("draft", dTokens, cropped["draft"])'
  BY <1>6, DraftHeldNow
<1>9. InCall("draft", dCall)'
  BY <1>2, <1>4, SamePlace DEF InCall
<1>10. Budget(cropped["draft"])'
  BY <1>2, <1>3, <1>5 DEF Budget, vars, round
<1>11. Prefilled(dTokens, prefills["draft"], lost["draft"], dAnswer # Null)'
  BY <1>1, <1>2, <1>4, <1>7 DEF Prefilled
<1>12. Counts'
  BY <1>1, <1>2, <1>3 DEF Counts, Models
<1>. QED BY <1>4, <1>8, <1>9, <1>10, <1>11, <1>12 DEF DraftSide

\* A call that raises leaves the cache empty.
LEMMA DraftSideFails ==
  ASSUME CachedInv, AskFails("draft") \/ AnswerFails("draft"), cached' = cached
  PROVE  DraftSide' /\ Counts' /\ Calls("draft")
<1>. DEFINE more == Excess("draft", Context(Len(proposed)))
<1>1. /\ Decoding /\ DraftFacts!IInv /\ Budget(cropped["draft"]) /\ Counts
      /\ cropped["draft"] \in Nat /\ lost["draft"] \in Nat /\ prefills["draft"] \in Nat
      /\ InCall("draft", dCall)
      /\ Prefilled(dTokens, prefills["draft"], lost["draft"], dAnswer # Null)
  BY DEF CachedInv, DraftSide, Counts, Models
<1>2. /\ GivesUp("draft") /\ begun' = begun /\ prefills' = prefills
      /\ lost' = [lost EXCEPT !["draft"] = @ + 1]
      /\ DraftCache!Forget /\ dCall' = Null /\ UNCHANGED <<dContainer, dAnswer>>
  BY DEF AskFails, AnswerFails, PrepareFails, ForwardFails, DraftCache!PrepareFails,
         DraftCache!ForwardFails
<1>3. begun /\ Calls("draft")
  BY <1>1 DEF AskFails, AnswerFails, Waiting, InCall
<1>4. cropped' = cropped \/ cropped' = [cropped EXCEPT !["draft"] = @ + more]
  BY DEF AskFails, AnswerFails
<1>5. cropped["draft"] + more \in Nat /\ Budget(cropped["draft"] + more)
  BY <1>3, DraftExcess
<1>. HIDE DEF more
<1>6. /\ cropped["draft"]' \in Nat /\ Counts' /\ lost["draft"]' = lost["draft"] + 1
      /\ cropped["draft"]' = cropped["draft"] \/ cropped["draft"]' = cropped["draft"] + more
  BY <1>1, <1>2, <1>4, <1>5 DEF Counts, Models
<1>7. Next
  BY <1>2 DEF GivesUp, RaiseAtOnce, Next
<1>8. DraftFacts!IInv' /\ dTokens' = <<>>
  BY <1>1, <1>2, DraftForgets
<1>9. Held("draft", dTokens, cropped["draft"])'
  <2>1. \A h, c : h = <<>> => Held("draft", h, c)'
    BY <1>1, <1>2, GivesUpHolds
  <2>. QED BY <1>8, <2>1, DraftHeldNow
<1>10. Budget(cropped["draft"])'
  <2>1. \A c \in Nat : Budget(c) => Budget(c)'
    BY <1>1, <1>7, BudgetStep
  <2>2. Budget(cropped["draft"])' \/ ~\E c \in Nat : c = cropped["draft"]' /\ Budget(c)'
    BY DEF Budget
  <2>. QED BY <1>1, <1>5, <1>6, <2>1, <2>2
<1>11. InCall("draft", dCall)'
  BY <1>2 DEF InCall
<1>12. Prefilled(dTokens, prefills["draft"], lost["draft"], dAnswer # Null)'
  BY <1>1, <1>2, <1>3, <1>6, <1>8 DEF Prefilled
<1>. QED BY <1>3, <1>6, <1>8, <1>9, <1>10, <1>11, <1>12 DEF DraftSide

LEMMA DraftSideAnswers ==
  ASSUME CachedInv, Decoding', Answered("draft"), cached' = cached
  PROVE  DraftSide' /\ Counts' /\ Calls("draft")
<1>1. /\ Decoding /\ DraftFacts!IInv /\ Budget(cropped["draft"]) /\ Counts
      /\ cropped["draft"] \in Nat /\ lost["draft"] \in Nat /\ prefills["draft"] \in Nat
      /\ InCall("draft", dCall)
      /\ Prefilled(dTokens, prefills["draft"], lost["draft"], dAnswer # Null)
  BY DEF CachedInv, DraftSide, Counts, Models
<1>2. /\ DraftCache!Forward /\ begun' = begun /\ cropped' = cropped /\ lost' = lost
      /\ prefills' = [prefills EXCEPT !["draft"] = @ + IF dCall.reuse = 0 THEN 1 ELSE 0]
  BY DEF Answered, Forward
<1>3. /\ begun /\ Calls("draft") /\ DraftFacts!IInv'
      /\ dTokens' = Context(Len(proposed)) /\ dTokens' # <<>> /\ dCall' = Null
      /\ dCall.reuse = 0 <=> dTokens = <<>>
  BY <1>1, <1>2, DraftAnswers
<1>4. \/ "draft" = "draft" /\ Draft
      \/ "draft" = "target" /\ (Score \/ Fallback)
      \/ GivesUp("draft")
      \/ Raise
  <2>1. "draft" \in Models
    BY DEF Models
  <2>. QED BY <2>1, AnswersServe
<1>5. Next
  BY <1>4 DEF GivesUp, RaiseAtOnce, Next
<1>6. ASSUME NEW h, NEW c, h = dTokens', c = cropped["draft"]'
      PROVE  Held("draft", h, c)'
  <2>1. h = Context(Len(proposed)) /\ c \in Nat /\ Budget(c)
    <3>1. c = cropped["draft"]
      BY <1>2, <1>6
    <3>. QED BY <1>1, <1>3, <1>6, <3>1
  <2>2. CASE GivesUp("draft")
    BY <1>1, <2>1, <2>2, GivesUpHolds
  <2>3. CASE Raise
    BY <2>3, FailedHolds DEF Raise
  <2>. QED BY <1>1, <1>4, <2>1, <2>2, <2>3, AnsweredHolds
<1>7. Held("draft", dTokens, cropped["draft"])'
  BY <1>6, DraftHeldNow
<1>8. Budget(cropped["draft"])'
  <2>1. \A c \in Nat : Budget(c) => Budget(c)'
    BY <1>1, <1>5, BudgetStep
  <2>2. Budget(cropped["draft"])' \/ ~\E c \in Nat : c = cropped["draft"]' /\ Budget(c)'
    BY DEF Budget
  <2>. QED BY <1>1, <1>2, <2>1, <2>2
<1>9. InCall("draft", dCall)'
  BY <1>3 DEF InCall
<1>10. /\ prefills["draft"]' = prefills["draft"] + IF dTokens = <<>> THEN 1 ELSE 0
       /\ Counts'
  BY <1>1, <1>2, <1>3 DEF Counts, Models
<1>11. Prefilled(dTokens, prefills["draft"], lost["draft"], dAnswer # Null)'
  BY <1>1, <1>2, <1>3, <1>10 DEF Prefilled
<1>. QED BY <1>3, <1>7, <1>8, <1>9, <1>10, <1>11 DEF DraftSide

LEMMA TargetHeldNow ==
  ASSUME \A h, c : h = tTokens' /\ c = cropped["target"]' => Held("target", h, c)'
  PROVE  Held("target", tTokens, cropped["target"])'
BY DEF Held, HeldBefore, HeldAmid, HeldAfter, Kept

\* What a call cuts.
LEMMA TargetExcess ==
  ASSUME CachedInv, begun, Calls("target")
  PROVE  /\ Excess("target", Context(Len(proposed))) = Len(tTokens) - Reused("target", tTokens)
         /\ cropped["target"] + Excess("target", Context(Len(proposed))) \in Nat
         /\ Budget(cropped["target"] + Excess("target", Context(Len(proposed))))
<1>1. /\ Decoding /\ TargetFacts!IInv /\ Held("target", tTokens, cropped["target"])
      /\ Budget(cropped["target"]) /\ cropped["target"] \in Nat
  BY DEF CachedInv, TargetSide, Counts, Models
<1>2. Excess("target", Context(Len(proposed))) = Len(tTokens) - Reused("target", tTokens)
  BY <1>1, TargetReuses DEF Excess
<1>3. tTokens \in Seq(Tokens)
  BY <1>1, TargetHolds
<1>. QED BY <1>1, <1>2, <1>3, CallBudget

\* The adapter rests: what it holds still fits the round.
LEMMA TargetSideRests ==
  ASSUME CachedInv, Decoding', [Next]_vars,
         ~Calls("target") \/ UNCHANGED vars,
         UNCHANGED <<tAdapter, begun, cached,
                     prefills["target"], cropped["target"], lost["target"]>>
  PROVE  TargetSide'
<1>1. /\ Decoding /\ TargetSide /\ TargetFacts!IInv /\ InCall("target", tCall)
      /\ Held("target", tTokens, cropped["target"]) /\ Budget(cropped["target"])
      /\ Prefilled(tTokens, prefills["target"], lost["target"], tAnswer # Null)
      /\ cropped["target"] \in Nat /\ begun \in BOOLEAN /\ tTokens \in Seq(Tokens)
  BY TargetHolds DEF CachedInv, TargetSide, Counts, Models
<1>2. /\ tTokens' = tTokens /\ tCall' = tCall /\ tAnswer' = tAnswer
      /\ begun' = begun /\ cached' = cached
      /\ prefills["target"]' = prefills["target"] /\ cropped["target"]' = cropped["target"]
      /\ lost["target"]' = lost["target"]
  BY DEF tAdapter
<1>3. TargetFacts!IInv'
  BY <1>1, TargetRests
<1>4. tCall # Null => begun /\ Calls("target") /\ UNCHANGED vars
  BY <1>1 DEF InCall
<1>5. InCall("target", tCall)'
  BY <1>1, <1>2, <1>4, SamePlace DEF InCall
<1>6. ASSUME NEW h, NEW c, h = tTokens', c = cropped["target"]'
      PROVE  Held("target", h, c)'
  <2>1. /\ Held("target", h, c) /\ Budget(c) /\ c \in Nat /\ h \in Seq(Tokens)
    <3>1. h = tTokens /\ c = cropped["target"]
      BY <1>2, <1>6
    <3>. QED BY <1>1, <3>1
  <2>2. CASE UNCHANGED vars
    BY <1>2, <2>1, <2>2, SameHolds
  <2>3. CASE ~begun
    BY <1>2, <2>3 DEF Held, HeldBefore, HeldAmid, HeldAfter
  <2>4. CASE begun /\ ~Calls("target")
    <3>1. "target" \in Models
      BY DEF Models
    <3>2. "target" = "draft" /\ "target" \in cached => ~Draft /\ ~DraftFails
      BY <2>4, <3>1, NotCalled
    <3>3. "target" = "target" /\ "target" \in cached => ~Score /\ ~Fallback
      BY <2>4, <3>1, NotCalled
    <3>4. /\ Decoding /\ begun /\ begun' = begun /\ cached' = cached
      BY <1>1, <1>2, <2>4
    <3>. QED BY <2>1, <3>1, <3>2, <3>3, <3>4, RestsHolds
  <2>. QED BY <1>1, <2>2, <2>3, <2>4
<1>7. Budget(cropped["target"])'
  <2>1. \A c \in Nat : Budget(c) => Budget(c)'
    BY <1>1, BudgetStep
  <2>. QED BY <1>1, <1>2, <2>1 DEF Budget
<1>8. Prefilled(tTokens, prefills["target"], lost["target"], tAnswer # Null)'
  BY <1>1, <1>2 DEF Prefilled
<1>9. Held("target", tTokens, cropped["target"])'
  BY <1>6, TargetHeldNow
<1>. QED BY <1>3, <1>5, <1>7, <1>8, <1>9 DEF TargetSide

LEMMA TargetSideBegins ==
  ASSUME CachedInv, Begin
  PROVE  TargetSide'
<1>1. /\ TargetFacts!IInv /\ Budget(cropped["target"]) /\ Counts /\ NotBegun
      /\ Prefilled(tTokens, prefills["target"], lost["target"], tAnswer # Null)
  BY DEF CachedInv, TargetSide
<1>2. /\ ~begun /\ begun' = TRUE /\ UNCHANGED vars
      /\ prefills' = prefills /\ cropped' = cropped /\ lost' = lost
      /\ TargetCache!Forget /\ tCall = Null /\ tCall' = Null
      /\ UNCHANGED <<tContainer, tAnswer>>
  BY DEF Begin, Reset, TargetCache!ResetCache, counters
<1>3. TargetFacts!IInv' /\ tTokens' = <<>>
  BY <1>1, <1>2, TargetForgets
<1>4. InCall("target", tCall)'
  BY <1>2 DEF InCall
<1>5. Held("target", tTokens, cropped["target"])'
  <2>1. \A h, c : h = <<>> => Held("target", h, c)'
    BY <1>1, <1>2, BeginHolds
  <2>. QED BY <1>3, <2>1, TargetHeldNow
<1>6. Budget(cropped["target"])'
  BY <1>1, <1>2 DEF Budget, vars, round
<1>7. Prefilled(tTokens, prefills["target"], lost["target"], tAnswer # Null)'
  <2>1. lost["target"] \in Nat
    BY <1>1 DEF Counts, Models
  <2>. QED BY <1>1, <1>2, <1>3, <2>1 DEF Prefilled
<1>. QED BY <1>3, <1>4, <1>5, <1>6, <1>7 DEF TargetSide

LEMMA TargetSideAsks ==
  ASSUME CachedInv, Ask("target"), cached' = cached
  PROVE  TargetSide' /\ Counts'
<1>. DEFINE more == Excess("target", Context(Len(proposed)))
<1>1. /\ Decoding /\ TargetFacts!IInv /\ Held("target", tTokens, cropped["target"])
      /\ Budget(cropped["target"]) /\ Counts /\ cropped["target"] \in Nat
      /\ Prefilled(tTokens, prefills["target"], lost["target"], tAnswer # Null)
      /\ tTokens \in Seq(Tokens)
  BY TargetHolds DEF CachedInv, TargetSide, Counts, Models
<1>2. /\ begun /\ Calls("target") /\ begun' = begun /\ UNCHANGED vars
      /\ prefills' = prefills /\ lost' = lost
      /\ cropped' = [cropped EXCEPT !["target"] = @ + more]
      /\ TargetCache!Prepare(Context(Len(proposed)), First("target"))
  BY DEF Ask, Prepare
<1>3. /\ more = Len(tTokens) - Reused("target", tTokens)
      /\ cropped["target"] + more \in Nat /\ Budget(cropped["target"] + more)
  BY <1>2, TargetExcess
<1>4. /\ TargetFacts!IInv' /\ tTokens' = SubSeq(tTokens, 1, Reused("target", tTokens))
      /\ tCall' # Null => /\ tCall'.tokens = Context(Len(proposed))
                          /\ tCall'.first = First("target")
      /\ tAnswer' = tAnswer
  BY <1>1, <1>2, TargetAsks
<1>. HIDE DEF more
<1>5. cropped["target"]' = cropped["target"] + more
  BY <1>1, <1>2 DEF Counts, Models
<1>6. ASSUME NEW h, NEW c, h = tTokens', c = cropped["target"]'
      PROVE  Held("target", h, c)' /\ (h = <<>> <=> tTokens = <<>>)
  <2>1. h = SubSeq(tTokens, 1, Reused("target", tTokens))
        /\ c = cropped["target"] + (Len(tTokens) - Reused("target", tTokens))
    BY <1>3, <1>4, <1>5, <1>6
  <2>2. CutBack("target", tTokens, h, cropped["target"], c)
    BY <2>1 DEF CutBack
  <2>. QED BY <1>1, <1>2, <2>2, AskHolds
<1>7. tTokens' = <<>> <=> tTokens = <<>>
  BY <1>6
<1>8. Held("target", tTokens, cropped["target"])'
  BY <1>6, TargetHeldNow
<1>9. InCall("target", tCall)'
  BY <1>2, <1>4, SamePlace DEF InCall
<1>10. Budget(cropped["target"])'
  BY <1>2, <1>3, <1>5 DEF Budget, vars, round
<1>11. Prefilled(tTokens, prefills["target"], lost["target"], tAnswer # Null)'
  BY <1>1, <1>2, <1>4, <1>7 DEF Prefilled
<1>12. Counts'
  BY <1>1, <1>2, <1>3 DEF Counts, Models
<1>. QED BY <1>4, <1>8, <1>9, <1>10, <1>11, <1>12 DEF TargetSide

\* A call that raises leaves the cache empty.
LEMMA TargetSideFails ==
  ASSUME CachedInv, AskFails("target") \/ AnswerFails("target"), cached' = cached
  PROVE  TargetSide' /\ Counts' /\ Calls("target")
<1>. DEFINE more == Excess("target", Context(Len(proposed)))
<1>1. /\ Decoding /\ TargetFacts!IInv /\ Budget(cropped["target"]) /\ Counts
      /\ cropped["target"] \in Nat /\ lost["target"] \in Nat /\ prefills["target"] \in Nat
      /\ InCall("target", tCall)
      /\ Prefilled(tTokens, prefills["target"], lost["target"], tAnswer # Null)
  BY DEF CachedInv, TargetSide, Counts, Models
<1>2. /\ GivesUp("target") /\ begun' = begun /\ prefills' = prefills
      /\ lost' = [lost EXCEPT !["target"] = @ + 1]
      /\ TargetCache!Forget /\ tCall' = Null /\ UNCHANGED <<tContainer, tAnswer>>
  BY DEF AskFails, AnswerFails, PrepareFails, ForwardFails, TargetCache!PrepareFails,
         TargetCache!ForwardFails
<1>3. begun /\ Calls("target")
  BY <1>1 DEF AskFails, AnswerFails, Waiting, InCall
<1>4. cropped' = cropped \/ cropped' = [cropped EXCEPT !["target"] = @ + more]
  BY DEF AskFails, AnswerFails
<1>5. cropped["target"] + more \in Nat /\ Budget(cropped["target"] + more)
  BY <1>3, TargetExcess
<1>. HIDE DEF more
<1>6. /\ cropped["target"]' \in Nat /\ Counts' /\ lost["target"]' = lost["target"] + 1
      /\ cropped["target"]' = cropped["target"] \/ cropped["target"]' = cropped["target"] + more
  BY <1>1, <1>2, <1>4, <1>5 DEF Counts, Models
<1>7. Next
  BY <1>2 DEF GivesUp, RaiseAtOnce, Next
<1>8. TargetFacts!IInv' /\ tTokens' = <<>>
  BY <1>1, <1>2, TargetForgets
<1>9. Held("target", tTokens, cropped["target"])'
  <2>1. \A h, c : h = <<>> => Held("target", h, c)'
    BY <1>1, <1>2, GivesUpHolds
  <2>. QED BY <1>8, <2>1, TargetHeldNow
<1>10. Budget(cropped["target"])'
  <2>1. \A c \in Nat : Budget(c) => Budget(c)'
    BY <1>1, <1>7, BudgetStep
  <2>2. Budget(cropped["target"])' \/ ~\E c \in Nat : c = cropped["target"]' /\ Budget(c)'
    BY DEF Budget
  <2>. QED BY <1>1, <1>5, <1>6, <2>1, <2>2
<1>11. InCall("target", tCall)'
  BY <1>2 DEF InCall
<1>12. Prefilled(tTokens, prefills["target"], lost["target"], tAnswer # Null)'
  BY <1>1, <1>2, <1>3, <1>6, <1>8 DEF Prefilled
<1>. QED BY <1>3, <1>6, <1>8, <1>9, <1>10, <1>11, <1>12 DEF TargetSide

LEMMA TargetSideAnswers ==
  ASSUME CachedInv, Decoding', Answered("target"), cached' = cached
  PROVE  TargetSide' /\ Counts' /\ Calls("target")
<1>1. /\ Decoding /\ TargetFacts!IInv /\ Budget(cropped["target"]) /\ Counts
      /\ cropped["target"] \in Nat /\ lost["target"] \in Nat /\ prefills["target"] \in Nat
      /\ InCall("target", tCall)
      /\ Prefilled(tTokens, prefills["target"], lost["target"], tAnswer # Null)
  BY DEF CachedInv, TargetSide, Counts, Models
<1>2. /\ TargetCache!Forward /\ begun' = begun /\ cropped' = cropped /\ lost' = lost
      /\ prefills' = [prefills EXCEPT !["target"] = @ + IF tCall.reuse = 0 THEN 1 ELSE 0]
  BY DEF Answered, Forward
<1>3. /\ begun /\ Calls("target") /\ TargetFacts!IInv'
      /\ tTokens' = Context(Len(proposed)) /\ tTokens' # <<>> /\ tCall' = Null
      /\ tCall.reuse = 0 <=> tTokens = <<>>
  BY <1>1, <1>2, TargetAnswers
<1>4. \/ "target" = "draft" /\ Draft
      \/ "target" = "target" /\ (Score \/ Fallback)
      \/ GivesUp("target")
      \/ Raise
  <2>1. "target" \in Models
    BY DEF Models
  <2>. QED BY <2>1, AnswersServe
<1>5. Next
  BY <1>4 DEF GivesUp, RaiseAtOnce, Next
<1>6. ASSUME NEW h, NEW c, h = tTokens', c = cropped["target"]'
      PROVE  Held("target", h, c)'
  <2>1. h = Context(Len(proposed)) /\ c \in Nat /\ Budget(c)
    <3>1. c = cropped["target"]
      BY <1>2, <1>6
    <3>. QED BY <1>1, <1>3, <1>6, <3>1
  <2>2. CASE GivesUp("target")
    BY <1>1, <2>1, <2>2, GivesUpHolds
  <2>3. CASE Raise
    BY <2>3, FailedHolds DEF Raise
  <2>. QED BY <1>1, <1>4, <2>1, <2>2, <2>3, AnsweredHolds
<1>7. Held("target", tTokens, cropped["target"])'
  BY <1>6, TargetHeldNow
<1>8. Budget(cropped["target"])'
  <2>1. \A c \in Nat : Budget(c) => Budget(c)'
    BY <1>1, <1>5, BudgetStep
  <2>2. Budget(cropped["target"])' \/ ~\E c \in Nat : c = cropped["target"]' /\ Budget(c)'
    BY DEF Budget
  <2>. QED BY <1>1, <1>2, <2>1, <2>2
<1>9. InCall("target", tCall)'
  BY <1>3 DEF InCall
<1>10. /\ prefills["target"]' = prefills["target"] + IF tTokens = <<>> THEN 1 ELSE 0
       /\ Counts'
  BY <1>1, <1>2, <1>3 DEF Counts, Models
<1>11. Prefilled(tTokens, prefills["target"], lost["target"], tAnswer # Null)'
  BY <1>1, <1>2, <1>3, <1>10 DEF Prefilled
<1>. QED BY <1>3, <1>7, <1>8, <1>9, <1>10, <1>11 DEF TargetSide

LEMMA DraftSideStep ==
  ASSUME CachedInv, Decoding', [CachedNext]_cachedVars
  PROVE  DraftSide'
<1>1. [Next]_vars /\ cached' = cached /\ Counts
  BY StepImplements DEF CachedNext, cachedVars, CachedInv
<1>2. /\ prefills \in [Models -> Nat] /\ cropped \in [Models -> Nat]
      /\ lost \in [Models -> Nat]
  BY <1>1 DEF Counts
<1>3. CASE Begin
  BY <1>3, DraftSideBegins
<1>4. CASE Ask("draft")
  BY <1>1, <1>4, DraftSideAsks
<1>5. CASE AskFails("draft") \/ AnswerFails("draft")
  BY <1>1, <1>5, DraftSideFails
<1>6. CASE Answered("draft")
  BY <1>1, <1>6, DraftSideAnswers
<1>7. CASE Ask("target") \/ AskFails("target") \/ Answered("target") \/ AnswerFails("target")
  <2>1. UNCHANGED <<dAdapter, begun>>
    BY <1>7 DEF Ask, AskFails, Answered, AnswerFails, Prepare, PrepareFails, Forward,
                ForwardFails
  <2>2. UNCHANGED <<prefills["draft"], cropped["draft"], lost["draft"]>>
    BY <1>2, <1>7 DEF Ask, AskFails, Answered, AnswerFails, Models
  <2>3. Ask("target") \/ Calls("target")
    BY <1>1, <1>7, TargetSideFails, TargetSideAnswers
  <2>4. ~Calls("draft") \/ UNCHANGED vars
    BY <2>3, OneCall DEF Ask
  <2>. QED BY <1>1, <2>1, <2>2, <2>4, DraftSideRests
<1>8. CASE Alone
  <2>1. ~Calls("draft")
    BY <1>8, AloneCalls DEF Models
  <2>2. UNCHANGED <<dAdapter, begun, prefills["draft"], cropped["draft"], lost["draft"]>>
    BY <1>8 DEF Alone, counters
  <2>. QED BY <1>1, <2>1, <2>2, DraftSideRests
<1>9. CASE UNCHANGED cachedVars
  BY <1>1, <1>9, DraftSideRests DEF cachedVars, counters
<1>10. "draft" \in Models /\ \A m \in Models : m = "draft" \/ m = "target"
  BY DEF Models
<1>. QED BY <1>3, <1>4, <1>5, <1>6, <1>7, <1>8, <1>9, <1>10 DEF CachedNext

LEMMA TargetSideStep ==
  ASSUME CachedInv, Decoding', [CachedNext]_cachedVars
  PROVE  TargetSide'
<1>1. [Next]_vars /\ cached' = cached /\ Counts
  BY StepImplements DEF CachedNext, cachedVars, CachedInv
<1>2. /\ prefills \in [Models -> Nat] /\ cropped \in [Models -> Nat]
      /\ lost \in [Models -> Nat]
  BY <1>1 DEF Counts
<1>3. CASE Begin
  BY <1>3, TargetSideBegins
<1>4. CASE Ask("target")
  BY <1>1, <1>4, TargetSideAsks
<1>5. CASE AskFails("target") \/ AnswerFails("target")
  BY <1>1, <1>5, TargetSideFails
<1>6. CASE Answered("target")
  BY <1>1, <1>6, TargetSideAnswers
<1>7. CASE Ask("draft") \/ AskFails("draft") \/ Answered("draft") \/ AnswerFails("draft")
  <2>1. UNCHANGED <<tAdapter, begun>>
    BY <1>7 DEF Ask, AskFails, Answered, AnswerFails, Prepare, PrepareFails, Forward,
                ForwardFails
  <2>2. UNCHANGED <<prefills["target"], cropped["target"], lost["target"]>>
    BY <1>2, <1>7 DEF Ask, AskFails, Answered, AnswerFails, Models
  <2>3. Ask("draft") \/ Calls("draft")
    BY <1>1, <1>7, DraftSideFails, DraftSideAnswers
  <2>4. ~Calls("target") \/ UNCHANGED vars
    BY <2>3, OneCall DEF Ask
  <2>. QED BY <1>1, <2>1, <2>2, <2>4, TargetSideRests
<1>8. CASE Alone
  <2>1. ~Calls("target")
    BY <1>8, AloneCalls DEF Models
  <2>2. UNCHANGED <<tAdapter, begun, prefills["target"], cropped["target"], lost["target"]>>
    BY <1>8 DEF Alone, counters
  <2>. QED BY <1>1, <2>1, <2>2, TargetSideRests
<1>9. CASE UNCHANGED cachedVars
  BY <1>1, <1>9, TargetSideRests DEF cachedVars, counters
<1>10. "target" \in Models /\ \A m \in Models : m = "target" \/ m = "draft"
  BY DEF Models
<1>. QED BY <1>3, <1>4, <1>5, <1>6, <1>7, <1>8, <1>9, <1>10 DEF CachedNext

LEMMA CountsStep ==
  ASSUME CachedInv, Decoding', [CachedNext]_cachedVars
  PROVE  Counts'
<1>1. cached' = cached /\ Counts
  BY DEF CachedNext, cachedVars, CachedInv
<1>2. ASSUME NEW m \in Models, Ask(m) \/ AskFails(m) \/ Answered(m) \/ AnswerFails(m)
      PROVE  Counts'
  <2>1. m = "draft" \/ m = "target"
    BY DEF Models
  <2>. QED BY <1>1, <1>2, <2>1, DraftSideAsks, DraftSideFails, DraftSideAnswers,
              TargetSideAsks, TargetSideFails, TargetSideAnswers
<1>3. CASE Begin \/ Alone \/ UNCHANGED cachedVars
  BY <1>1, <1>3 DEF Begin, Alone, cachedVars, counters, Counts
<1>. QED BY <1>2, <1>3 DEF CachedNext
-----------------------------------------------------------------------------
(* The invariant.                                                          *)

LEMMA OnePool == \A n : DraftCache!Paged!BlocksFor(n) = TargetFacts!Paged!BlocksFor(n)
BY DEF DraftCache!Paged!BlocksFor, TargetFacts!Paged!BlocksFor

\* What an earlier request left is as good as what this one will compute.
LEMMA DraftLeftover ==
  ASSUME CachedInit
  PROVE  DraftFacts!IInv
<1>1. PICK left \in Leaving("draft") :
        /\ dTokens = left /\ dPast = left /\ dBoundary = RowAfter(left)
        /\ dStore = Mirroring(left) /\ dRoom = Unused(left)
  BY DEF CachedInit
<1>2. /\ dContainer \in Containing("draft") /\ dCall = Null /\ dAnswer = Null
  BY DEF CachedInit
<1>3. dContainer \in Containers
  BY <1>2, CacheAssumption DEF Containing
<1>4. left = <<>> \/ left \in Leftovers
  BY DEF Leaving
<1>5. left = <<>> \/ left \in DraftFacts!Contexts
  BY <1>4, CacheAssumption DEF DraftCache!Contexts, DraftFacts!Contexts
<1>6. left \in Seq(Tokens) /\ Len(left) \in Nat /\ Len(left) <= MaxContext
  <2>1. CASE left = <<>>
    BY <2>1, EmptySeq, FactsAssumption DEF DraftFacts!AdapterAssumption
  <2>2. CASE left \in DraftFacts!Contexts
    BY <2>2, FactsAssumption, DraftFacts!ContextType DEF DraftFacts!AdapterAssumption
  <2>. QED BY <1>5, <2>1, <2>2
<1>7. DraftFacts!Mirror = IF Mirrored THEN left ELSE <<>>
  BY <1>1 DEF DraftFacts!Mirror, Mirroring
<1>8. /\ DraftFacts!Paged!BlocksFor(Len(left)) \in Nat
      /\ DraftFacts!Paged!BlocksFor(0) = 0
      /\ Mirrored => DraftFacts!Paged!BlocksFor(Len(left)) <= NumBlocks
  <2>1. 0 \in Nat /\ 0 <= Len(left)
    BY <1>6
  <2>2. /\ DraftFacts!Paged!BlocksFor(Len(left)) \in Nat
        /\ DraftFacts!Paged!BlocksFor(0) = 0
    BY <1>6, <2>1, FactsAssumption, DraftFacts!BlocksForMonotone
  <2>3. CASE left = <<>>
    BY <2>2, <2>3, EmptySeq, FactsAssumption DEF DraftFacts!AdapterAssumption
  <2>4. CASE left \in Leftovers
    BY <2>2, <2>4, CacheAssumption, SameDraftPool
  <2>. QED BY <1>4, <2>2, <2>3, <2>4
<1>9. DraftFacts!Room /\ dRoom \in 0..NumBlocks
  <2>1. dRoom = NumBlocks - DraftFacts!Paged!BlocksFor(Len(DraftFacts!Mirror))
    <3>1. CASE Mirrored
      BY <1>1, <1>7, <3>1, SameDraftPool DEF Unused
    <3>2. CASE ~Mirrored
      BY <1>1, <1>7, <1>8, <3>2, EmptySeq DEF Unused
    <3>. QED BY <3>1, <3>2
  <2>2. DraftFacts!Paged!BlocksFor(Len(DraftFacts!Mirror)) \in 0..NumBlocks
    <3>1. NumBlocks \in Nat
      BY FactsAssumption DEF DraftFacts!AdapterAssumption
    <3>. QED BY <1>7, <1>8, <3>1, EmptySeq
  <2>. QED BY <2>1, <2>2, FactsAssumption DEF DraftFacts!Room, DraftFacts!AdapterAssumption
<1>10. DraftFacts!TypeOK
  <2>1. /\ dBoundary \in Seq(Tokens) \cup {Null}
        /\ dTokens \in Seq(Tokens) /\ dPast \in Seq(Tokens)
    BY <1>1, <1>6 DEF RowAfter
  <2>2. dStore \in [{"model"} -> Seq(Tokens)]
    BY <1>1, <1>6 DEF Mirroring
  <2>. QED BY <1>2, <1>3, <1>9, <2>1, <2>2 DEF DraftFacts!TypeOK
<1>11. DraftFacts!Waiting /\ DraftFacts!RowsMatch
  BY <1>2 DEF DraftFacts!Waiting, DraftFacts!RowsMatch
<1>12. DraftFacts!Cached
  BY <1>1, <1>6, <1>7 DEF DraftFacts!Cached, DraftFacts!MirrorTracks, RowAfter
<1>. QED BY <1>9, <1>10, <1>11, <1>12 DEF DraftFacts!IInv

LEMMA TargetLeftover ==
  ASSUME CachedInit
  PROVE  TargetFacts!IInv
<1>1. PICK left \in Leaving("target") :
        /\ tTokens = left /\ tPast = left /\ tBoundary = RowAfter(left)
        /\ tStore = Mirroring(left) /\ tRoom = Unused(left)
  BY DEF CachedInit
<1>2. /\ tContainer \in Containing("target") /\ tCall = Null /\ tAnswer = Null
  BY DEF CachedInit
<1>3. tContainer \in Containers
  BY <1>2, CacheAssumption DEF Containing
<1>4. left = <<>> \/ left \in Leftovers
  BY DEF Leaving
<1>5. left = <<>> \/ left \in TargetFacts!Contexts
  BY <1>4, CacheAssumption DEF DraftCache!Contexts, TargetFacts!Contexts
<1>6. left \in Seq(Tokens) /\ Len(left) \in Nat /\ Len(left) <= MaxContext
  <2>1. CASE left = <<>>
    BY <2>1, EmptySeq, FactsAssumption DEF TargetFacts!AdapterAssumption
  <2>2. CASE left \in TargetFacts!Contexts
    BY <2>2, FactsAssumption, TargetFacts!ContextType DEF TargetFacts!AdapterAssumption
  <2>. QED BY <1>5, <2>1, <2>2
<1>7. TargetFacts!Mirror = IF Mirrored THEN left ELSE <<>>
  BY <1>1 DEF TargetFacts!Mirror, Mirroring
<1>8. /\ TargetFacts!Paged!BlocksFor(Len(left)) \in Nat
      /\ TargetFacts!Paged!BlocksFor(0) = 0
      /\ Mirrored => TargetFacts!Paged!BlocksFor(Len(left)) <= NumBlocks
  <2>1. 0 \in Nat /\ 0 <= Len(left)
    BY <1>6
  <2>2. /\ TargetFacts!Paged!BlocksFor(Len(left)) \in Nat
        /\ TargetFacts!Paged!BlocksFor(0) = 0
    BY <1>6, <2>1, FactsAssumption, TargetFacts!BlocksForMonotone
  <2>3. CASE left = <<>>
    BY <2>2, <2>3, EmptySeq, FactsAssumption DEF TargetFacts!AdapterAssumption
  <2>4. CASE left \in Leftovers
    BY <2>2, <2>4, CacheAssumption, OnePool
  <2>. QED BY <1>4, <2>2, <2>3, <2>4
<1>9. TargetFacts!Room /\ tRoom \in 0..NumBlocks
  <2>1. tRoom = NumBlocks - TargetFacts!Paged!BlocksFor(Len(TargetFacts!Mirror))
    <3>1. CASE Mirrored
      BY <1>1, <1>7, <3>1, OnePool DEF Unused
    <3>2. CASE ~Mirrored
      BY <1>1, <1>7, <1>8, <3>2, EmptySeq DEF Unused
    <3>. QED BY <3>1, <3>2
  <2>2. TargetFacts!Paged!BlocksFor(Len(TargetFacts!Mirror)) \in 0..NumBlocks
    <3>1. NumBlocks \in Nat
      BY FactsAssumption DEF TargetFacts!AdapterAssumption
    <3>. QED BY <1>7, <1>8, <3>1, EmptySeq
  <2>. QED BY <2>1, <2>2, FactsAssumption DEF TargetFacts!Room, TargetFacts!AdapterAssumption
<1>10. TargetFacts!TypeOK
  <2>1. /\ tBoundary \in Seq(Tokens) \cup {Null}
        /\ tTokens \in Seq(Tokens) /\ tPast \in Seq(Tokens)
    BY <1>1, <1>6 DEF RowAfter
  <2>2. tStore \in [{"model"} -> Seq(Tokens)]
    BY <1>1, <1>6 DEF Mirroring
  <2>. QED BY <1>2, <1>3, <1>9, <2>1, <2>2 DEF TargetFacts!TypeOK
<1>11. TargetFacts!Waiting /\ TargetFacts!RowsMatch
  BY <1>2 DEF TargetFacts!Waiting, TargetFacts!RowsMatch
<1>12. TargetFacts!Cached
  BY <1>1, <1>6, <1>7 DEF TargetFacts!Cached, TargetFacts!MirrorTracks, RowAfter
<1>. QED BY <1>9, <1>10, <1>11, <1>12 DEF TargetFacts!IInv

LEMMA InitHolds == CachedInit => CachedInv
<1>. SUFFICES ASSUME CachedInit PROVE CachedInv
  OBVIOUS
<1>1. /\ Init /\ ~begun /\ begun \in BOOLEAN /\ cached \subseteq Models
      /\ dCall = Null /\ dAnswer = Null /\ tCall = Null /\ tAnswer = Null
      /\ rows = NoRows /\ prefills = NoneYet /\ cropped = NoneYet /\ lost = NoneYet
  BY CachingAssumption DEF CachedInit
<1>2. TypeOK /\ Shape
  BY <1>1, InitShape
<1>3. /\ pc \in {"draft", "done"} /\ proposed = <<>> /\ Len(proposed) = 0
      /\ accepted = 0 /\ ~rejected
      /\ stats.accepted = 0 /\ stats.drafted = 0
  <2>1. CASE MaxNew = 0
    BY <1>1, <2>1 DEF Init
  <2>2. CASE MaxNew # 0
    BY <1>1, <2>2 DEF Init
  <2>. QED BY <2>1, <2>2
<1>4. Decoding
  BY <1>2, <1>3 DEF Decoding, Corrected, Reached, Proposing
<1>5. Counts /\ \A m \in Models : prefills[m] = 0 /\ cropped[m] = 0 /\ lost[m] = 0
  BY <1>1 DEF Counts, NoneYet
<1>6. RowsAreOfTheRound /\ Recorded
  <2>1. [k \in 1..Len(proposed) |-> Context(k - 1)] = <<>>
    BY <1>3
  <2>. QED BY <1>1, <1>3, <2>1 DEF RowsAreOfTheRound, Recorded, NoRows
<1>7. NotBegun
  BY <1>1, <1>3, <1>5 DEF NotBegun
<1>8. ASSUME NEW m \in Models, NEW held
      PROVE  /\ Held(m, held, cropped[m]) /\ Budget(cropped[m]) /\ InCall(m, Null)
             /\ Prefilled(held, prefills[m], lost[m], FALSE)
  BY <1>1, <1>3, <1>5 DEF Held, HeldBefore, HeldAmid, HeldAfter, Budget, InCall, Prefilled
<1>9. "draft" \in Models /\ "target" \in Models
  BY DEF Models
<1>10. DraftSide
  <2>1. Prefilled(dTokens, prefills["draft"], lost["draft"], dAnswer # Null)
    BY <1>1, <1>5, <1>9 DEF Prefilled
  <2>. QED BY <1>1, <1>8, <1>9, <2>1, DraftLeftover DEF DraftSide
<1>11. TargetSide
  <2>1. Prefilled(tTokens, prefills["target"], lost["target"], tAnswer # Null)
    BY <1>1, <1>5, <1>9 DEF Prefilled
  <2>. QED BY <1>1, <1>8, <1>9, <2>1, TargetLeftover DEF TargetSide
<1>. QED BY <1>1, <1>4, <1>5, <1>6, <1>7, <1>10, <1>11 DEF CachedInv

LEMMA CachedStep ==
  ASSUME CachedInv, [CachedNext]_cachedVars
  PROVE  CachedInv'
<1>1. Decoding /\ cached \subseteq Models
  BY DEF CachedInv
<1>2. Decoding'
  BY <1>1, StepImplements, DecodingStep
<1>3. RowsAreOfTheRound' /\ Recorded' /\ NotBegun' /\ begun' \in BOOLEAN
      /\ cached' \subseteq Models
  BY <1>1, RowsStep, NotBegunStep
<1>4. DraftSide' /\ TargetSide' /\ Counts'
  BY <1>2, DraftSideStep, TargetSideStep, CountsStep
<1>. QED BY <1>2, <1>3, <1>4 DEF CachedInv

\* The decoder and both adapters together keep the invariant, whichever models
\* have a cache and whatever an earlier request left in it.
THEOREM CachedInvariance == CachedSpec => []CachedInv
BY InitHolds, CachedStep, PTL DEF CachedSpec

\* The rows that the models answer with, with caches or without, are those of
\* the positions at which generate uses them: through drafting, verification,
\* correction and bonus.
THEOREM RowsOfTheRound == CachedSpec => []RowsAreOfTheRound
<1>1. CachedInv => RowsAreOfTheRound
  BY DEF CachedInv
<1>. QED BY <1>1, CachedInvariance, PTL

\* A cache prefills once unless a call raised, cuts rejected proposals only and
\* each of them once, and no call of generate finds its row at the boundary.
THEOREM CacheIsUsed == CachedSpec => []CacheServes
<1>1. CachedInv => CacheServes
  <2>. SUFFICES ASSUME CachedInv PROVE CacheServes
    OBVIOUS
  <2>1. /\ Decoding /\ Counts /\ DraftSide /\ TargetSide /\ begun \in BOOLEAN
        /\ DraftFacts!IInv /\ Held("draft", dTokens, cropped["draft"])
        /\ TargetFacts!IInv /\ Held("target", tTokens, cropped["target"])
    BY DEF CachedInv, DraftSide, TargetSide
  <2>2. DraftCache!TypeOK /\ TargetCache!TypeOK
    <3>1. DraftCache!TypeOK
      BY <2>1, Zenon DEF DraftFacts!IInv, DraftFacts!TypeOK, DraftCache!TypeOK
    <3>2. TargetCache!TypeOK
      BY <2>1, Zenon DEF TargetFacts!IInv, TargetFacts!TypeOK, TargetCache!TypeOK
    <3>. QED BY <3>1, <3>2
  <2>3. begun /\ Calls("draft") => ~DraftCache!Hit(Context(Len(proposed)), First("draft"))
    BY <2>1, DraftReuses
  <2>4. begun /\ Calls("target") => ~TargetCache!Hit(Context(Len(proposed)), First("target"))
    BY <2>1, TargetReuses
  <2>5. /\ Prefilled(dTokens, prefills["draft"], lost["draft"], dAnswer # Null)
        /\ Prefilled(tTokens, prefills["target"], lost["target"], tAnswer # Null)
        /\ Budget(cropped["draft"]) /\ Budget(cropped["target"])
        /\ \A m \in Models : /\ prefills[m] \in Nat /\ cropped[m] \in Nat /\ lost[m] \in Nat
                             /\ m = "draft" \/ m = "target"
    BY <2>1 DEF DraftSide, TargetSide, Counts, Models
  <2>6. OnePrefill
    BY <2>5 DEF Prefilled, OnePrefill
  <2>7. OnlyRejectedIsCropped
    <3>1. /\ stats.accepted \in Nat /\ stats.drafted \in Nat /\ accepted \in Nat
          /\ Len(proposed) \in Nat
      BY <2>1, LedgerTypes DEF Decoding
    <3>2. ASSUME NEW cut \in Nat, Budget(cut), pc # "failed"
          PROVE  cut <= stats.drafted - stats.accepted
      BY <2>1, <3>1, <3>2 DEF Budget, Decoding, Reached
    <3>3. \A m \in Models : Budget(cropped[m])
      BY <2>5
    <3>. QED BY <2>5, <3>2, <3>3 DEF OnlyRejectedIsCropped
  <2>. QED BY <2>1, <2>2, <2>3, <2>4, <2>6, <2>7 DEF CacheServes, CachedTypeOK, Counts
<1>. QED BY <1>1, CachedInvariance, PTL

\* What the composition does is what SpeculativeDecoder does.  generate samples,
\* tests and corrects with the rows that the adapters computed from what they
\* had cached; each of these steps is one that it takes with the rows of the
\* models themselves, and the calls, failures and resets of the adapters are
\* steps of the decoder or none.
THEOREM CacheIsInvisible == CachedSpec => Init /\ [][Next]_vars
<1>1. CachedInit => Init
  BY DEF CachedInit
<1>2. CachedInv /\ [CachedNext]_cachedVars => [Next]_vars
  BY StepImplements
<1>. QED BY <1>1, <1>2, CachedInvariance, PTL DEF CachedSpec

\* So the layers of the decoder's own invariant hold with a cache.
LEMMA LayersHold == CachedSpec => [](TypeOK /\ Shape /\ Origin /\ Accounts)
<1>1. Init => TypeOK /\ Shape /\ Origin /\ Accounts
  BY InitShape, InitOrigin, InitAccounts
<1>2. TypeOK /\ Shape /\ Origin /\ Accounts /\ [Next]_vars =>
        (TypeOK /\ Shape /\ Origin /\ Accounts)'
  BY TypeStep, ShapeStep, OriginStep, AccountsStep DEF Shape
<1>. QED BY <1>1, <1>2, CacheIsInvisible, PTL

\* With a cache too, generate emits what the target could have given, stops in
\* time, and keeps its statistics, its draws and its rounds in step.
THEOREM CachedOutputIsSound ==
  CachedSpec => [](OutputIsSound /\ Ledger /\ DrawsAccounted /\ OneTargetTokenPerRound)
<1>1. TypeOK /\ Shape /\ Origin /\ Accounts =>
        OutputIsSound /\ Ledger /\ DrawsAccounted /\ OneTargetTokenPerRound
  BY DEF Shape, Origin, Accounts, OutputIsSound
<1>. QED BY <1>1, LayersHold, PTL

\* Caching changes nothing of what a caller of generate can see: it remains
\* decoding by the target alone.
THEOREM CachedImplementation == CachedSpec => ImplementsTargetOnly
<1>1. Init => Baseline!Init
  BY InitRefines
<1>2. TypeOK /\ Shape /\ Origin /\ Accounts /\ [Next]_vars => [Baseline!Next]_(Baseline!vars)
  BY StepRefines
<1>. QED BY <1>1, <1>2, CacheIsInvisible, LayersHold, PTL
         DEF ImplementsTargetOnly, Baseline!Spec
=============================================================================
