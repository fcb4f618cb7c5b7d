-------------------------- MODULE CommandProofs --------------------------
(***************************************************************************)
(* Proofs about what surrounds the decoder in a command.                   *)
(*                                                                         *)
(* TextStream, for every tokenizer: that the terminal shows what counts as *)
(* emitted needs nothing; that all of a text is shown in the end needs     *)
(* that it still begins with what was shown; that no text is lost is an    *)
(* induction: while the generation runs, what was shown is a beginning of  *)
(* the settled part of the decoded text and ends in a blank.               *)
(*                                                                         *)
(* BackendChoice, for every set of modes, paths and conditions: its end is *)
(* a function of the inputs, which the invariant states.                   *)
(*                                                                         *)
(* ModelPair: each step of the loading settles what the later ones rely    *)
(* on, and the invariant says what is settled at each.                     *)
(*                                                                         *)
(* BenchmarkSchedule, for any number of prompts, warm-ups, repetitions and *)
(* tokens: a call is told by its number, so that paths, prompts, rounds    *)
(* and seeds are arithmetic; the balance follows from parities.            *)
(*                                                                         *)
(* SamplingLaw, for every vocabulary, mass and resolution: the draws that  *)
(* lead to a token are an interval of its part of the partial sums; pairs  *)
(* of draws that propose and accept a token are a product of two of them;  *)
(* adding these up over the tokens gives the share that is rejected, which *)
(* is what the target's row has above the draft's, and the correction      *)
(* gives just that back.                                                   *)
(***************************************************************************)
EXTENDS MCCommands, SharedTheorems

\* Another token leaves the tokens among the inputs while there is room.
LEMMA AppendInput ==
  ASSUME NEW s \in Inputs, NEW t \in Tokens, Len(s) < MaxTokens
  PROVE  Append(s, t) \in Inputs
<1>1. MaxTokens \in Nat
  BY StreamAssumption
<1>2. PICK n \in 0..MaxTokens : s \in [1..n -> Tokens]
  BY DEF Inputs
<1>3. s \in Seq(Tokens) /\ Len(s) = n
  BY <1>1, <1>2
<1>4. /\ Append(s, t) \in Seq(Tokens)
      /\ Len(Append(s, t)) = n + 1
      /\ \A i \in 1..n + 1 : Append(s, t)[i] \in Tokens
  BY <1>1, <1>3, AppendProperties, ElementOfSeq
<1>5. Append(s, t) \in [1..n + 1 -> Tokens]
  <2>1. Append(s, t) \in [1..Len(Append(s, t)) -> Tokens]
    BY <1>4, LenProperties
  <2>. QED BY <1>4, <2>1
<1>. QED BY <1>1, <1>3, <1>5 DEF Inputs

LEMMA InputType == \A s \in Inputs : s \in Seq(Tokens) /\ Len(s) \in Nat
<1>. SUFFICES ASSUME NEW s \in Inputs PROVE s \in Seq(Tokens) /\ Len(s) \in Nat
  OBVIOUS
<1>1. PICK n \in 0..MaxTokens : s \in [1..n -> Tokens]
  BY DEF Inputs
<1>. QED BY <1>1, StreamAssumption

\* The text of an input, and what is settled of it.
LEMMA TextType ==
  ASSUME NEW s \in Inputs
  PROVE  Decode(s) \in Seq(Characters) /\ Len(Decode(s)) \in Nat
BY StreamAssumption, LenProperties

\* There is a last blank behind every position of a text, or none.
LEMMA StableEndProperties ==
  ASSUME NEW text \in Seq(Characters), NEW from \in 0..Len(text)
  PROVE  /\ StableEnd(text, from) \in from..Len(text)
         /\ StableEnd(text, from) = from \/ text[StableEnd(text, from)] \in Blanks
         /\ \A i \in StableEnd(text, from) + 1..Len(text) : text[i] \notin Blanks
<1>. DEFINE quiet(n) == \A i \in n + 1..Len(text) : text[i] \notin Blanks
            ends(n) == (n = from \/ text[n] \in Blanks) /\ quiet(n)
            candidates == {n \in from..Len(text) : quiet(n)}
<1>1. Len(text) \in Nat /\ from \in Nat /\ from <= Len(text)
  BY LenProperties
<1>2. Len(text) \in candidates /\ candidates \subseteq Nat
  BY <1>1
<1>3. IsWellFoundedOn(OpToRel(<, Nat), Nat)
  BY NatLessThanWellFounded
<1>4. PICK n \in candidates : \A i \in candidates : ~(<<i, n>> \in OpToRel(<, Nat))
  <2>. HIDE DEF candidates
  <2>. QED BY <1>2, <1>3, WFMin
<1>5. n \in Nat /\ n \in from..Len(text) /\ quiet(n)
  <2>1. n \in from..Len(text) /\ quiet(n)
    BY <1>4
  <2>. HIDE DEF quiet
  <2>. QED BY <1>1, <2>1
<1>6. ASSUME n # from PROVE text[n] \in Blanks
  <2>1. n - 1 \in from..Len(text) /\ n - 1 \in Nat /\ n - 1 < n
    BY <1>1, <1>5, <1>6
  <2>2. n - 1 \notin candidates
    BY <1>2, <1>4, <1>5, <2>1 DEF OpToRel
  <2>3. PICK i \in n - 1 + 1..Len(text) : text[i] \in Blanks
    BY <2>1, <2>2
  <2>4. ~(i \in n + 1..Len(text))
    BY <1>5, <2>3
  <2>5. i = n
    BY <1>1, <1>5, <2>3, <2>4
  <2>. QED BY <2>3, <2>5
<1>7. \E m \in from..Len(text) : ends(m)
  BY <1>5, <1>6
<1>8. StableEnd(text, from) = CHOOSE m \in from..Len(text) : ends(m)
  BY DEF StableEnd
<1>. HIDE DEF ends
<1>9. StableEnd(text, from) \in from..Len(text) /\ ends(StableEnd(text, from))
  BY <1>7, <1>8
<1>. QED BY <1>9 DEF ends

\* From a blank on, the last blank is that of the whole text.
LEMMA StableEndFromBlank ==
  ASSUME NEW text \in Seq(Characters), NEW from \in 0..Len(text),
         from = 0 \/ text[from] \in Blanks
  PROVE  StableEnd(text, from) = StableEnd(text, 0)
<1>. DEFINE a == StableEnd(text, from)
            b == StableEnd(text, 0)
<1>1. Len(text) \in Nat /\ from \in Nat /\ from <= Len(text) /\ 0 \in 0..Len(text)
  BY LenProperties
<1>2. /\ a \in from..Len(text)
      /\ a = from \/ text[a] \in Blanks
      /\ \A i \in a + 1..Len(text) : text[i] \notin Blanks
  BY StableEndProperties
<1>3. /\ b \in 0..Len(text)
      /\ b = 0 \/ text[b] \in Blanks
      /\ \A i \in b + 1..Len(text) : text[i] \notin Blanks
  BY <1>1, StableEndProperties
<1>. HIDE DEF a, b
<1>4. a \in Nat /\ b \in Nat /\ a <= Len(text) /\ b <= Len(text)
  BY <1>1, <1>2, <1>3
<1>5. ~(a < b)
  <2>. SUFFICES ASSUME a < b PROVE FALSE
    OBVIOUS
  <2>1. b \in a + 1..Len(text) /\ b # 0
    BY <1>4
  <2>. QED BY <1>2, <1>3, <2>1
<1>6. ~(b < a)
  <2>. SUFFICES ASSUME b < a PROVE FALSE
    OBVIOUS
  <2>1. a \in b + 1..Len(text) /\ a # 0
    BY <1>4
  <2>2. a = 0 \/ text[a] \in Blanks
    BY <1>2
  <2>. QED BY <1>3, <2>1, <2>2
<1>. QED BY <1>4, <1>5, <1>6 DEF a, b
-----------------------------------------------------------------------------
\* What a release leaves, if the text still begins with what was emitted.
LEMMA ReleaseExtends ==
  ASSUME NEW text \in Seq(Characters), NEW n \in Len(emitted)..Len(text),
         emitted \in Seq(Characters), printed = emitted,
         Extends(text, emitted), Release(text, n)
  PROVE  /\ emitted' = SubSeq(text, 1, n)
         /\ printed' = SubSeq(text, 1, n)
<1>1. Len(emitted) \in Nat /\ Len(text) \in Nat
  BY LenProperties
<1>2. /\ printed' = printed \o SubSeq(text, Len(emitted) + 1, n)
      /\ emitted' = SubSeq(text, 1, n)
  BY DEF Release
<1>3. emitted = SubSeq(text, 1, Len(emitted))
  BY DEF Extends
<1>4. /\ 1 \in 1..Len(text) + 1
      /\ Len(emitted) \in 1 - 1..Len(text)
      /\ n \in Len(emitted)..Len(text)
  BY <1>1 DEF Extends
<1>5. SubSeq(text, 1, Len(emitted)) \o SubSeq(text, Len(emitted) + 1, n) = SubSeq(text, 1, n)
  BY <1>4, ConcatAdjacentSubSeq
<1>. QED BY <1>2, <1>3, <1>5
-----------------------------------------------------------------------------
Shown == TypeOK /\ NothingTwice

\* A release up to any position behind what was emitted keeps both types, and
\* the terminal equal to what counts as emitted.
LEMMA ReleaseShown ==
  ASSUME NEW text \in Seq(Characters),
         NEW n, Extends(text, emitted) => n \in Len(emitted)..Len(text),
         Shown, Release(text, n)
  PROVE  emitted' \in Seq(Characters) /\ printed' \in Seq(Characters) /\ printed' = emitted'
<1>1. emitted \in Seq(Characters) /\ printed = emitted /\ Len(emitted) \in Nat
  BY LenProperties DEF Shown, TypeOK, NothingTwice
<1>2. CASE Extends(text, emitted)
  <2>1. n \in Len(emitted)..Len(text) /\ Len(text) \in Nat
    BY <1>2, LenProperties
  <2>2. emitted' = SubSeq(text, 1, n) /\ printed' = SubSeq(text, 1, n)
    BY <1>1, <1>2, <2>1, ReleaseExtends
  <2>3. n \in 0..Len(text)
    BY <1>1, <2>1
  <2>. QED BY <2>2, <2>3, PrefixProperties
<1>3. CASE ~Extends(text, emitted)
  BY <1>1, <1>3 DEF Release
<1>. QED BY <1>2, <1>3

\* The last blank lies between what was emitted and the end of the text.
LEMMA StableInText ==
  ASSUME NEW text \in Seq(Characters), emitted \in Seq(Characters), Extends(text, emitted)
  PROVE  /\ Len(emitted) \in 0..Len(text)
         /\ StableEnd(text, Len(emitted)) \in Len(emitted)..Len(text)
         /\ Len(text) \in Len(emitted)..Len(text)
<1>1. Len(emitted) \in Nat /\ Len(text) \in Nat /\ Len(emitted) <= Len(text)
  BY LenProperties DEF Extends
<1>2. Len(emitted) \in 0..Len(text)
  BY <1>1
<1>. QED BY <1>1, <1>2, StableEndProperties

LEMMA ShownStep == Shown /\ [Next]_vars => Shown'
<1>. SUFFICES ASSUME Shown, [Next]_vars PROVE Shown'
  OBVIOUS
<1>0. /\ tokenIds \in Inputs /\ emitted \in Seq(Characters)
      /\ status \in {"running", "flushed", "failed"}
  BY DEF Shown, TypeOK
<1>1. ASSUME NEW t \in Tokens, Push(t) PROVE Shown'
  <2>. DEFINE text == Decode(Append(tokenIds, t))
  <2>1. Append(tokenIds, t) \in Inputs
    BY <1>0, <1>1, AppendInput DEF Push
  <2>2. text \in Seq(Characters)
    BY <2>1, TextType
  <2>3. /\ Release(text, StableEnd(text, Len(emitted)))
        /\ tokenIds' = Append(tokenIds, t)
        /\ UNCHANGED status
    BY <1>1 DEF Push
  <2>. HIDE DEF text
  <2>4. Extends(text, emitted) => StableEnd(text, Len(emitted)) \in Len(emitted)..Len(text)
    BY <1>0, <2>2, StableInText
  <2>5. emitted' \in Seq(Characters) /\ printed' \in Seq(Characters) /\ printed' = emitted'
    BY <2>2, <2>3, <2>4, ReleaseShown
  <2>. QED BY <1>0, <2>1, <2>3, <2>5 DEF Shown, TypeOK, NothingTwice
<1>2. CASE Flush
  <2>1. Decode(tokenIds) \in Seq(Characters)
    BY <1>0, TextType
  <2>2. Extends(Decode(tokenIds), emitted) =>
          Len(Decode(tokenIds)) \in Len(emitted)..Len(Decode(tokenIds))
    BY <1>0, <2>1, StableInText
  <2>3. emitted' \in Seq(Characters) /\ printed' \in Seq(Characters) /\ printed' = emitted'
    BY <1>2, <2>1, <2>2, ReleaseShown DEF Flush
  <2>. QED BY <1>0, <1>2, <2>3 DEF Flush, Shown, TypeOK, NothingTwice
<1>3. CASE Fail
  BY <1>3 DEF Fail, Shown, TypeOK, NothingTwice
<1>4. CASE UNCHANGED vars
  BY <1>4 DEF vars, Shown, TypeOK, NothingTwice
<1>. QED BY <1>1, <1>2, <1>3, <1>4 DEF Next

LEMMA ShownInit == Init => Shown
<1>. SUFFICES ASSUME Init PROVE Shown
  OBVIOUS
<1>1. <<>> \in [1..0 -> Tokens] /\ 0 \in 0..MaxTokens
  BY StreamAssumption
<1>. QED BY <1>1 DEF Init, Inputs, Shown, TypeOK, NothingTwice

\* Every variable keeps its type, and the terminal shows what counts as
\* emitted, whatever the tokenizer revises.
THEOREM ShowsWhatIsEmitted == Spec => [](TypeOK /\ NothingTwice)
<1>1. Shown => TypeOK /\ NothingTwice
  BY DEF Shown
<1>. QED BY <1>1, ShownInit, ShownStep, PTL DEF Spec
-----------------------------------------------------------------------------
\* A flush that releases anything releases the whole text.
LEMMA FlushShowsAll ==
  ASSUME Shown, Flush, Extends(Decode(tokenIds), emitted)
  PROVE  printed' = Decode(tokenIds) /\ tokenIds' = tokenIds
<1>1. Decode(tokenIds) \in Seq(Characters) /\ emitted \in Seq(Characters) /\ printed = emitted
  BY TextType DEF Shown, TypeOK, NothingTwice
<1>2. Len(Decode(tokenIds)) \in Len(emitted)..Len(Decode(tokenIds))
  BY <1>1, StableInText
<1>3. printed' = SubSeq(Decode(tokenIds), 1, Len(Decode(tokenIds)))
  BY <1>1, <1>2, ReleaseExtends DEF Flush
<1>. QED BY <1>1, <1>3, SubSeqFull DEF Flush

LEMMA FlushCompletesStep ==
  Shown /\ FlushCompletes /\ [Next]_vars => FlushCompletes'
<1>. SUFFICES ASSUME Shown, FlushCompletes, [Next]_vars PROVE FlushCompletes'
  OBVIOUS
<1>1. ASSUME NEW t \in Tokens, Push(t) PROVE FlushCompletes'
  BY <1>1 DEF Push, FlushCompletes
<1>2. CASE Flush
  <2>1. CASE Extends(Decode(tokenIds), emitted)
    BY <1>2, <2>1, FlushShowsAll DEF FlushCompletes
  <2>2. CASE ~Extends(Decode(tokenIds), emitted)
    <3>1. printed' = emitted /\ tokenIds' = tokenIds
      BY <1>2, <2>2 DEF Flush, Release, Shown, NothingTwice
    <3>. QED BY <2>2, <3>1 DEF FlushCompletes
  <2>. QED BY <2>1, <2>2
<1>3. CASE Fail
  BY <1>3 DEF Fail, FlushCompletes
<1>4. CASE UNCHANGED vars
  BY <1>4 DEF vars, FlushCompletes
<1>. QED BY <1>1, <1>2, <1>3, <1>4 DEF Next

\* A flush shows all of a text that begins with what was shown before.
THEOREM FlushIsComplete == Spec => []FlushCompletes
<1>1. Init => FlushCompletes
  BY DEF Init, FlushCompletes
<1>. QED BY <1>1, ShownInit, ShownStep, FlushCompletesStep, PTL DEF Spec
-----------------------------------------------------------------------------
LEMMA ExtendsTransitive ==
  ASSUME NEW text \in Seq(Characters), NEW b \in Seq(Characters), NEW a \in Seq(Characters),
         Extends(text, b), Extends(b, a)
  PROVE  Extends(text, a)
<1>1. Len(text) \in Nat /\ Len(b) \in Nat /\ Len(a) \in Nat
  BY LenProperties
<1>2. /\ Len(b) <= Len(text) /\ SubSeq(text, 1, Len(b)) = b
      /\ Len(a) <= Len(b) /\ SubSeq(b, 1, Len(a)) = a
  BY DEF Extends
<1>3. Len(b) \in 0..Len(text) /\ Len(a) \in 0..Len(b)
  BY <1>1, <1>2
<1>4. SubSeq(SubSeq(text, 1, Len(b)), 1, Len(a)) = SubSeq(text, 1, Len(a))
  BY <1>3, PrefixOfPrefix
<1>. QED BY <1>1, <1>2, <1>4 DEF Extends

LEMMA SettledProperties ==
  ASSUME NEW s \in Inputs
  PROVE  Settled(s) \in Seq(Characters) /\ Extends(Decode(s), Settled(s))
<1>1. Decode(s) \in Seq(Characters) /\ Len(Decode(s)) \in Nat
  BY TextType
<1>2. 0 \in 0..Len(Decode(s))
  BY <1>1
<1>3. StableEnd(Decode(s), 0) \in 0..Len(Decode(s))
  BY <1>1, <1>2, StableEndProperties
<1>4. Settled(s) \in Seq(Characters) /\ Len(Settled(s)) = StableEnd(Decode(s), 0)
  BY <1>1, <1>3, PrefixProperties DEF Settled
<1>. QED BY <1>1, <1>3, <1>4 DEF Extends, Settled

\* The last character that was emitted, if any, is a blank.
LEMMA EndsInBlank ==
  ASSUME Shown, WholeWords, status # "flushed", NEW text \in Seq(Characters),
         Extends(text, emitted)
  PROVE  /\ Len(emitted) \in 0..Len(text)
         /\ Len(emitted) = 0 \/ text[Len(emitted)] \in Blanks
<1>1. emitted \in Seq(Characters) /\ printed = emitted
  BY DEF Shown, TypeOK, NothingTwice
<1>2. Len(emitted) \in 0..Len(text) /\ Len(emitted) \in Nat
  BY <1>1, StableInText, LenProperties
<1>3. \A i \in 1..Len(emitted) : SubSeq(text, 1, Len(emitted))[i] = text[i]
  BY <1>2, PrefixProperties
<1>4. SubSeq(text, 1, Len(emitted)) = emitted
  BY DEF Extends
<1>5. ASSUME Len(emitted) # 0 PROVE text[Len(emitted)] \in Blanks
  <2>1. Len(emitted) \in 1..Len(emitted) /\ emitted # <<>>
    BY <1>2, <1>5, EmptySeq
  <2>2. emitted[Len(emitted)] \in Blanks
    BY <1>1, <2>1 DEF WholeWords
  <2>. QED BY <1>3, <1>4, <2>1, <2>2
<1>. QED BY <1>2, <1>5

LEMMA WholeWordsStep == Shown /\ WholeWords /\ [Next]_vars => WholeWords'
<1>. SUFFICES ASSUME Shown, WholeWords, [Next]_vars PROVE WholeWords'
  OBVIOUS
<1>1. ASSUME NEW t \in Tokens, Push(t) PROVE WholeWords'
  <2>. DEFINE text == Decode(Append(tokenIds, t))
              n == StableEnd(text, Len(emitted))
  <2>1. /\ tokenIds \in Inputs /\ emitted \in Seq(Characters)
        /\ status = "running" /\ printed = emitted
    BY <1>1 DEF Push, Shown, TypeOK, NothingTwice
  <2>2. text \in Seq(Characters)
    BY <1>1, <2>1, AppendInput, TextType DEF Push
  <2>3. Release(text, n) /\ status' = "running"
    BY <1>1, <2>1 DEF Push
  <2>4. CASE Extends(text, emitted)
    <3>1. /\ Len(emitted) \in 0..Len(text)
          /\ Len(emitted) = 0 \/ text[Len(emitted)] \in Blanks
      BY <2>1, <2>2, <2>4, EndsInBlank
    <3>. HIDE DEF text
    <3>2. n \in Len(emitted)..Len(text) /\ (n = Len(emitted) \/ text[n] \in Blanks)
      BY <2>2, <3>1, StableEndProperties
    <3>. HIDE DEF n
    <3>3. printed' = SubSeq(text, 1, n)
      BY <2>1, <2>2, <2>3, <2>4, <3>2, ReleaseExtends
    <3>4. Len(text) \in Nat /\ Len(emitted) \in Nat
      BY <2>1, <2>2, LenProperties
    <3>5. n \in 0..Len(text)
      BY <3>2, <3>4
    <3>6. Len(printed') = n /\ \A i \in 1..n : printed'[i] = text[i]
      BY <2>2, <3>3, <3>5, PrefixProperties
    <3>7. ASSUME printed' # <<>> PROVE text[n] \in Blanks /\ n \in 1..n
      <4>1. printed' \in Seq(Characters)
        BY <2>2, <3>3, <3>5, PrefixProperties
      <4>2. n # 0
        BY <3>6, <3>7, <4>1, EmptySeq
      <4>. QED BY <3>1, <3>2, <3>5, <4>2
    <3>. QED BY <3>6, <3>7 DEF WholeWords
  <2>5. CASE ~Extends(text, emitted)
    BY <2>1, <2>3, <2>5 DEF Release, WholeWords
  <2>. QED BY <2>4, <2>5
<1>2. CASE Flush
  BY <1>2 DEF Flush, WholeWords
<1>3. CASE Fail
  BY <1>3 DEF Fail, WholeWords
<1>4. CASE UNCHANGED vars
  BY <1>4 DEF vars, WholeWords
<1>. QED BY <1>1, <1>2, <1>3, <1>4 DEF Next

\* Until the flush, what is shown ends in a blank.
THEOREM ShowsWholeWords == Spec => []WholeWords
<1>1. Init => WholeWords
  BY DEF Init, WholeWords
<1>. QED BY <1>1, ShownInit, ShownStep, WholeWordsStep, PTL DEF Spec
-----------------------------------------------------------------------------
\* A generation that revised nothing had revised nothing before its last token.
LEMMA UnrevisedBefore ==
  ASSUME NEW s \in Inputs, NEW t \in Tokens, Len(s) < MaxTokens,
         Unrevised(Append(s, t))
  PROVE  Unrevised(s) /\ Extends(Decode(Append(s, t)), Settled(s))
<1>. DEFINE r == Append(s, t)
<1>1. s \in Seq(Tokens) /\ Len(s) \in Nat
  BY InputType
<1>2. r \in Seq(Tokens) /\ Len(r) = Len(s) + 1
  BY <1>1, AppendProperties
<1>3. SubSeq(r, 1, Len(s)) = s /\ SubSeq(r, 1, Len(r)) = r
  BY <1>1, <1>2
<1>4. ASSUME NEW n \in 0..Len(s) PROVE SubSeq(r, 1, n) = SubSeq(s, 1, n)
  <2>1. Len(s) \in 0..Len(r) /\ n \in 0..Len(s)
    BY <1>1, <1>2
  <2>2. SubSeq(SubSeq(r, 1, Len(s)), 1, n) = SubSeq(r, 1, n)
    BY <1>2, <2>1, PrefixOfPrefix
  <2>. QED BY <1>3, <2>2
<1>5. \A n \in 1..Len(r) : Extends(Decode(SubSeq(r, 1, n)), Settled(SubSeq(r, 1, n - 1)))
  BY DEF Unrevised
<1>. HIDE DEF r
<1>6. ASSUME NEW n \in 1..Len(s)
      PROVE  Extends(Decode(SubSeq(s, 1, n)), Settled(SubSeq(s, 1, n - 1)))
  <2>1. n \in 1..Len(r) /\ n \in 0..Len(s) /\ n - 1 \in 0..Len(s)
    BY <1>1, <1>2
  <2>. QED BY <1>4, <1>5, <2>1
<1>7. Extends(Decode(r), Settled(s))
  <2>1. Len(r) \in 1..Len(r) /\ Len(r) - 1 = Len(s)
    BY <1>1, <1>2
  <2>. QED BY <1>3, <1>5, <2>1
<1>. QED BY <1>6, <1>7 DEF Unrevised, r

\* What was emitted is settled, if no token revised what was settled before.
Follows ==
  Unrevised(tokenIds) =>
    IF status = "flushed" THEN printed = Decode(tokenIds)
                          ELSE Extends(Settled(tokenIds), emitted)

LEMMA FollowsStep == Shown /\ WholeWords /\ Follows /\ [Next]_vars => Follows'
<1>. SUFFICES ASSUME Shown, WholeWords, Follows, [Next]_vars, Unrevised(tokenIds')
              PROVE  IF status' = "flushed" THEN printed' = Decode(tokenIds')
                     ELSE Extends(Settled(tokenIds'), emitted')
  BY DEF Follows
<1>0. tokenIds \in Inputs /\ emitted \in Seq(Characters) /\ printed = emitted
  BY DEF Shown, TypeOK, NothingTwice
<1>1. ASSUME NEW t \in Tokens, Push(t)
      PROVE  status' # "flushed" /\ Extends(Settled(tokenIds'), emitted')
  <2>. DEFINE s == Append(tokenIds, t)
              text == Decode(s)
              n == StableEnd(text, Len(emitted))
  <2>1. /\ status = "running" /\ status' = status /\ tokenIds' = s
        /\ Release(text, n) /\ s \in Inputs
    BY <1>0, <1>1, AppendInput DEF Push
  <2>2. text \in Seq(Characters)
    BY <2>1, TextType
  <2>3. Extends(text, emitted)
    <3>1. Unrevised(tokenIds) /\ Extends(text, Settled(tokenIds))
      BY <1>0, <1>1, <2>1, UnrevisedBefore DEF Push
    <3>2. Extends(Settled(tokenIds), emitted)
      BY <2>1, <3>1 DEF Follows
    <3>3. Settled(tokenIds) \in Seq(Characters)
      BY <1>0, SettledProperties
    <3>. HIDE DEF text
    <3>. QED BY <1>0, <2>2, <3>1, <3>2, <3>3, ExtendsTransitive
  <2>4. /\ Len(emitted) \in 0..Len(text)
        /\ Len(emitted) = 0 \/ text[Len(emitted)] \in Blanks
    BY <2>1, <2>2, <2>3, EndsInBlank
  <2>5. n = StableEnd(text, 0)
    <3>. HIDE DEF text
    <3>. QED BY <2>2, <2>4, StableEndFromBlank
  <2>6. n \in Len(emitted)..Len(text)
    BY <2>2, <2>4, StableEndProperties
  <2>7. emitted' = SubSeq(text, 1, n)
    BY <1>0, <2>1, <2>2, <2>3, <2>6, ReleaseExtends
  <2>8. emitted' = Settled(tokenIds')
    BY <2>1, <2>5, <2>7 DEF Settled
  <2>9. Settled(tokenIds') \in Seq(Characters)
    BY <2>1, SettledProperties
  <2>. HIDE DEF s
  <2>10. Len(Settled(tokenIds')) \in Nat
         /\ SubSeq(Settled(tokenIds'), 1, Len(Settled(tokenIds'))) = Settled(tokenIds')
    BY <2>9, LenProperties, SubSeqFull
  <2>. QED BY <2>1, <2>8, <2>10 DEF Extends
<1>2. ASSUME status = "running", Unrevised(tokenIds)
      PROVE  Extends(Decode(tokenIds), emitted)
  BY <1>0, <1>2, TextType, SettledProperties, ExtendsTransitive DEF Follows
<1>3. CASE Flush
  BY <1>2, <1>3, FlushShowsAll, <1>0 DEF Flush
<1>4. CASE Fail
  BY <1>4 DEF Fail, Follows
<1>5. CASE UNCHANGED vars
  BY <1>5 DEF vars, Follows
<1>. QED BY <1>1, <1>3, <1>4, <1>5 DEF Next

\* While no token revises the text before it up to its last blank, the printed
\* text is always a beginning of the decoded one, and all of it after
\* a flush.
THEOREM LosesNothing == Spec => []NothingLost
<1>1. Init => WholeWords /\ Follows
  <2>. SUFFICES ASSUME Init PROVE WholeWords /\ Follows
    OBVIOUS
  <2>1. tokenIds \in Inputs /\ emitted = <<>>
    BY ShownInit DEF Init, Shown, TypeOK
  <2>2. Settled(tokenIds) \in Seq(Characters) /\ Len(Settled(tokenIds)) \in Nat
    BY <2>1, SettledProperties, LenProperties
  <2>3. Extends(Settled(tokenIds), emitted)
    <3>1. SubSeq(Settled(tokenIds), 1, 0) = <<>> /\ Len(emitted) = 0
      BY <2>1, <2>2
    <3>. QED BY <2>1, <2>2, <3>1 DEF Extends
  <2>. QED BY <2>3 DEF Init, WholeWords, Follows
<1>2. Shown /\ Follows => NothingLost
  <2>. SUFFICES ASSUME Shown, Follows, Unrevised(tokenIds)
                PROVE  /\ Extends(Decode(tokenIds), printed)
                       /\ status = "flushed" => printed = Decode(tokenIds)
    BY DEF NothingLost
  <2>1. /\ tokenIds \in Inputs /\ emitted \in Seq(Characters)
        /\ printed = emitted /\ Decode(tokenIds) \in Seq(Characters)
    BY TextType DEF Shown, TypeOK, NothingTwice
  <2>2. CASE status = "flushed"
    <3>1. printed = Decode(tokenIds)
      BY <2>2 DEF Follows
    <3>2. Len(printed) \in Nat /\ SubSeq(printed, 1, Len(printed)) = printed
      BY <2>1, <3>1, LenProperties, SubSeqFull
    <3>. QED BY <3>1, <3>2 DEF Extends
  <2>3. CASE status # "flushed"
    BY <2>1, <2>3, SettledProperties, ExtendsTransitive DEF Follows
  <2>. QED BY <2>2, <2>3
<1>. QED BY <1>1, <1>2, ShownInit, ShownStep, WholeWordsStep, FollowsStep, PTL DEF Spec

\* All that a reader of the terminal relies on, for every tokenizer.
THEOREM ShowsTheText == Spec => []ShownText
<1>1. TypeOK /\ NothingTwice /\ FlushCompletes /\ WholeWords /\ NothingLost => ShownText
  BY DEF ShownText
<1>. QED BY <1>1, ShowsWhatIsEmitted, FlushIsComplete, ShowsWholeWords, LosesNothing, PTL
-----------------------------------------------------------------------------
(* The choice of a backend.                                                *)

Searching == {"auto", "native"}

\* What a library that cannot be found or loaded leads to.
Fallback == IF chosen = "native" \/ Backend!Explicit THEN "error" ELSE "python"

\* Where the choice stands in each step, and what it comes to.
Choice ==
  /\ mode \in Modes /\ modeVariable \in Modes \cup {"none"}
  /\ path \in Paths /\ pathVariable \in Paths
  /\ library \in [Backend!Places -> Conditions]
  /\ chosen = IF step # "mode" /\ Backend!Consulted THEN modeVariable ELSE mode
  /\ \/ step = "mode" /\ place = "none" /\ outcome = "none"
     \/ step = "resolve" /\ chosen \in Searching /\ place = "none" /\ outcome = "none"
     \/ /\ step = "load" /\ chosen \in Searching /\ outcome = "none"
        /\ Backend!Found # {} /\ place = Backend!First
     \/ step = "end" /\ chosen = "python" /\ place = "none" /\ outcome = "python"
     \/ step = "end" /\ chosen \notin Backend!ValidModes /\ place = "none" /\ outcome = "error"
     \/ /\ step = "end" /\ chosen \in Searching
        /\ Backend!Found = {} /\ place = "none" /\ outcome = Fallback
     \/ /\ step = "end" /\ chosen \in Searching
        /\ Backend!Found # {} /\ place = Backend!First
        /\ \/ library[place] = "good" /\ outcome = "native"
           \/ library[place] = "incompatible" /\ outcome = "error"
           \/ library[place] = "unloadable" /\ outcome = Fallback

\* The first library that is found is at one of the candidates.
LEMMA FirstProperties ==
  ASSUME Backend!Found # {}
  PROVE  /\ Backend!First \in Backend!Places
         /\ library[Backend!First] # "absent"
         /\ path = "file" => Backend!First = "argument"
<1>1. /\ DOMAIN Backend!Candidates \subseteq 1..3
      /\ \A i \in DOMAIN Backend!Candidates : Backend!Candidates[i] \in Backend!Places
      /\ path = "file" => \A i \in DOMAIN Backend!Candidates : Backend!Candidates[i] = "argument"
  BY DEF Backend!Candidates, Backend!Places
<1>2. Backend!Found \subseteq 1..3
  BY <1>1 DEF Backend!Found
<1>3. \E i \in Backend!Found : \A j \in Backend!Found : i <= j
  <2>1. CASE 1 \in Backend!Found
    BY <1>2, <2>1
  <2>2. CASE 1 \notin Backend!Found /\ 2 \in Backend!Found
    BY <1>2, <2>2
  <2>3. CASE 1 \notin Backend!Found /\ 2 \notin Backend!Found
    <3>1. PICK i \in Backend!Found : TRUE
      OBVIOUS
    <3>2. i = 3 /\ \A j \in Backend!Found : j = 3
      BY <1>2, <2>3
    <3>. QED BY <3>2
  <2>. QED BY <2>1, <2>2, <2>3
<1>4. PICK i \in Backend!Found : Backend!First = Backend!Candidates[i]
  BY <1>3 DEF Backend!First
<1>. QED BY <1>1, <1>4 DEF Backend!Found

\* What is searched is the same in every step.
LEMMA GivenRests ==
  ASSUME UNCHANGED Backend!given
  PROVE  /\ Backend!Found' = Backend!Found /\ Backend!First' = Backend!First
         /\ Backend!Consulted' <=> Backend!Consulted
         /\ Backend!Explicit' <=> Backend!Explicit
<1>1. /\ mode' = mode /\ modeVariable' = modeVariable /\ path' = path
      /\ pathVariable' = pathVariable /\ library' = library
  BY DEF Backend!given
<1>2. Backend!Candidates' = Backend!Candidates
  BY <1>1 DEF Backend!Candidates
<1>3. Backend!Found' = Backend!Found
  BY <1>1, <1>2 DEF Backend!Found
<1>4. Backend!First' = Backend!First
  BY <1>2, <1>3 DEF Backend!First
<1>5. (Backend!Consulted' <=> Backend!Consulted) /\ (Backend!Explicit' <=> Backend!Explicit)
  BY <1>1 DEF Backend!Consulted, Backend!Explicit
<1>. QED BY <1>3, <1>4, <1>5

\* No part of the choice is left open by its inputs.
LEMMA ChoiceIsMade == Backend!Spec => []Choice
<1>. USE PartsAssumption DEF PartsAssumption, Backend!ChoiceAssumption
<1>1. Backend!Init => Choice
  BY DEF Backend!Init, Choice
<1>2. Choice /\ [Backend!Next]_(Backend!vars) => Choice'
  <2>. SUFFICES ASSUME Choice, [Backend!Next]_(Backend!vars) PROVE Choice'
    OBVIOUS
  <2>0. UNCHANGED Backend!given
    BY DEF Backend!Next, Backend!SelectMode, Backend!Resolve, Backend!Load, Backend!vars
  <2>00. /\ mode' = mode /\ modeVariable' = modeVariable /\ path' = path
         /\ pathVariable' = pathVariable /\ library' = library
         /\ Backend!Found' = Backend!Found /\ Backend!First' = Backend!First
         /\ Backend!Consulted' <=> Backend!Consulted
         /\ chosen' = chosen => Fallback' = Fallback
    BY <2>0, GivenRests DEF Backend!given, Fallback
  <2>1. CASE Backend!SelectMode
    BY <2>00, <2>1 DEF Choice, Backend!SelectMode, Backend!End, Backend!ValidModes, Searching
  <2>2. CASE Backend!Resolve
    BY <2>00, <2>2 DEF Choice, Backend!Resolve, Backend!NotFound, Backend!End, Fallback
  <2>3. CASE Backend!Load
    BY <2>00, <2>3 DEF Choice, Backend!Load, Backend!NotFound, Backend!End, Fallback
  <2>4. CASE UNCHANGED Backend!vars
    BY <2>00, <2>4 DEF Choice, Backend!vars
  <2>. QED BY <2>1, <2>2, <2>3, <2>4 DEF Backend!Next
<1>. QED BY <1>1, <1>2, PTL DEF Backend!Spec

\* load_sampling_backend: for every combination of arguments, environment and
\* libraries, nothing that was asked for or found is quietly replaced by Python.
THEOREM NoQuietChangeAlways == Backend!Spec => []NoQuietChange
<1>1. ASSUME Choice PROVE NoQuietChange
  <2>. USE PartsAssumption DEF PartsAssumption, Backend!ChoiceAssumption
  <2>1. place # "none" => place = Backend!First /\ Backend!Found # {}
    BY <1>1 DEF Choice
  <2>2. "none" \notin Backend!Places
    BY DEF Backend!Places
  <2>3. place # "none" =>
          /\ place \in Backend!Places /\ library[place] # "absent"
          /\ path = "file" => place = "argument"
    BY <2>1, FirstProperties
  <2>4. Backend!Found = {} =>
          /\ path = "file" => library["argument"] = "absent"
          /\ path # "file" /\ pathVariable = "none" =>
               \A q \in {"packaged", "built", "system"} : library[q] = "absent"
    <3>1. path = "file" => Backend!Candidates = <<"argument">>
      BY DEF Backend!Candidates
    <3>2. path # "file" /\ pathVariable = "none" =>
            Backend!Candidates = <<"packaged", "built", "system">>
      BY DEF Backend!Candidates
    <3>. QED BY <3>1, <3>2 DEF Backend!Found
  <2>5. Backend!TypeOK
    <3>1. chosen \in Modes
      BY <1>1 DEF Choice, Backend!Consulted
    <3>2. /\ step \in {"mode", "resolve", "load", "end"}
          /\ outcome \in {"python", "native", "error", "none"}
          /\ step = "load" => place = Backend!First /\ Backend!Found # {}
      BY <1>1 DEF Choice, Fallback
    <3>. QED BY <2>3, <3>1, <3>2, FirstProperties DEF Backend!TypeOK
  <2>6. Backend!NeverHidden
    BY <1>1 DEF Choice, Backend!NeverHidden, Backend!Explicit, Fallback
  <2>7. Backend!ArgumentDecides
    BY <1>1, <2>1, <2>2, <2>3, <2>4, FirstProperties
       DEF Choice, Backend!ArgumentDecides, Backend!Explicit, Backend!Consulted, Fallback,
           Searching, Backend!ValidModes
  <2>8. Backend!FallsBackOnlyIfUnfound
    BY <1>1, <2>1, <2>2, <2>3, <2>4, FirstProperties
       DEF Choice, Backend!FallsBackOnlyIfUnfound, Backend!Explicit, Fallback, Searching
  <2>. QED BY <2>5, <2>6, <2>7, <2>8 DEF NoQuietChange, Backend!NoQuietChange
<1>. QED BY <1>1, ChoiceIsMade, PTL
-----------------------------------------------------------------------------
(* The pair of models.                                                     *)

\* A model that fits a tokenizer has a row entry for each of its identifiers.
LEMMA FitsEach ==
  ASSUME tokenizers \in [Pair!Sides -> Pair!Tokenizers],
         NEW s \in Pair!Sides, NEW size \in Nat, Pair!Fits(s, size)
  PROVE  \A t \in PairTokens : tokenizers[s].ids[t] < size
<1>. USE PartsAssumption DEF PartsAssumption, Pair!PairAssumption
<1>. DEFINE ids == tokenizers[s].ids
            used == Pair!Range(ids)
<1>1. ids \in [PairTokens -> Ids]
  BY DEF Pair!Tokenizers, Pair!Vocabularies
<1>2. Pair!Max(used) < size
  BY DEF Pair!Fits
<1>3. used = {ids[t] : t \in PairTokens}
  BY <1>1 DEF Pair!Range
<1>. HIDE DEF ids
<1>4. IsFiniteSet(used)
  <2>1. ids \in Surjection(PairTokens, used)
    BY <1>1, <1>3 DEF Surjection
  <2>2. IsFiniteSet(PairTokens)
    BY DEF IsFiniteSet, Pair!IsFiniteSet
  <2>. QED BY <2>1, <2>2, FS_Surjection
<1>. SUFFICES ASSUME NEW t \in PairTokens PROVE ids[t] < size
  BY DEF ids
<1>5. used \subseteq Nat /\ ids[t] \in used
  BY <1>1, <1>3
<1>. HIDE DEF used
<1>6. \E x \in used : \A y \in used : x >= y
  BY <1>4, <1>5, GreatestExists
<1>. DEFINE top == Pair!Max(used)
<1>7. top \in used /\ top >= ids[t]
  BY <1>5, <1>6 DEF Pair!Max
<1>8. top < size /\ top \in Nat /\ ids[t] \in Nat /\ size \in Nat
  BY <1>2, <1>5, <1>7
<1>. HIDE DEF top
<1>. QED BY <1>7, <1>8

Working == {"draft", "target", "pair", "wire", "ready"}
Placements == {"cuda:0", "cuda:1", "cpu"}

\* A loaded adapter is what the options make of its model.
Good(s) ==
  LET a == adapters[s]
  IN  /\ s \in loaded
      /\ a = [size |-> a.size, positions |-> a.positions, device |-> a.device,
              cached |-> a.cached, mirror |-> a.mirror, reference |-> a.reference,
              role |-> a.role, runtime |-> a.runtime]
      /\ a.size \in Sizes /\ a.positions \in Positions /\ a.device \in Placements
      /\ a.cached = ~options.stateless
      /\ a.mirror = Pair!Mirror(a.positions)
      /\ a.reference = options.reference
      /\ ~Pair!MirrorRefused /\ (options.reference => options.mirror)
      /\ Pair!Fits(s, a.size)

\* Both are on one device, where the runtime is.
Joined ==
  /\ adapters["draft"].size = adapters["target"].size
  /\ options.shared # "no" =>
       /\ runtime \in {"cuda:0", "cuda:1"}
       /\ \A s \in Pair!Sides : /\ adapters[s].device = runtime /\ adapters[s].runtime = runtime
                                /\ adapters[s].role = s

\* What is settled when a step is reached, and stays so after a refusal.
Loading ==
  /\ options \in Pair!Options
  /\ stage \in {"validate", "tokenizers", "refused", "crashed"} \cup Working
  /\ tokenizers = <<>> \/ tokenizers \in [Pair!Sides -> Pair!Tokenizers]
  /\ stage \in {"validate", "tokenizers"} => loaded = {}
  /\ stage \in {"tokenizers"} \cup Working \/ loaded # {} =>
       (command # "library" => ~Pair!Conflict(options))
  /\ stage \in Working \/ loaded # {} =>
       /\ tokenizers \in [Pair!Sides -> Pair!Tokenizers]
       /\ tokenizers["draft"] = tokenizers["target"]
  /\ \A s \in Pair!Sides : adapters[s] = None \/ Good(s)
  /\ stage \in {"target", "pair", "wire", "ready"} => Good("draft")
  /\ stage \in {"pair", "wire", "ready"} => Good("target")
  /\ stage \in {"wire", "ready"} => Joined
  /\ runtime \in {"cuda:0", "cuda:1", None}
  /\ adapters = [s \in Pair!Sides |-> adapters[s]]
  /\ reported # None => stage = "ready" /\ reported = Pair!CacheMode(options)

LEMMA LoadingInit == Pair!Init => Loading
BY DEF Pair!Init, Pair!Defined, Loading, Working, Pair!Sides

\* What an adapter is made of stays the same, but for its role and runtime.
LEMMA GoodStays ==
  ASSUME NEW s \in Pair!Sides, Good(s),
         UNCHANGED options, loaded \subseteq loaded',
         tokenizers' = tokenizers,
         NEW role, NEW device,
         adapters'[s] = [adapters[s] EXCEPT !.role = role, !.runtime = device]
  PROVE  Good(s)' /\ adapters'[s].role = role /\ adapters'[s].runtime = device
<1>. DEFINE a == adapters[s]
            b == adapters'[s]
<1>1. a = [size |-> a.size, positions |-> a.positions, device |-> a.device,
           cached |-> a.cached, mirror |-> a.mirror, reference |-> a.reference,
           role |-> a.role, runtime |-> a.runtime]
  BY DEF Good
<1>2. b = [size |-> a.size, positions |-> a.positions, device |-> a.device,
           cached |-> a.cached, mirror |-> a.mirror, reference |-> a.reference,
           role |-> role, runtime |-> device]
  BY <1>1
<1>. HIDE DEF a, b
<1>3. /\ b.size = a.size /\ b.positions = a.positions /\ b.device = a.device
      /\ b.cached = a.cached /\ b.mirror = a.mirror /\ b.reference = a.reference
      /\ b.role = role /\ b.runtime = device
      /\ b = [size |-> b.size, positions |-> b.positions, device |-> b.device,
              cached |-> b.cached, mirror |-> b.mirror, reference |-> b.reference,
              role |-> b.role, runtime |-> b.runtime]
  BY <1>2
<1>. QED BY <1>3 DEF Good, a, b, Pair!Mirror, Pair!MirrorRefused, Pair!Fits, Pair!Needed

\* Nor does one that is not touched.
LEMMA GoodRests ==
  ASSUME NEW s \in Pair!Sides, Good(s), UNCHANGED options, loaded \subseteq loaded',
         tokenizers' = tokenizers, adapters'[s] = adapters[s]
  PROVE  Good(s)'
BY DEF Good, Pair!Mirror, Pair!MirrorRefused, Pair!Fits, Pair!Needed

\* from_pretrained: an adapter that is not refused is good.
LEMMA LoadModelStep ==
  ASSUME Loading, NEW s \in Pair!Sides, NEW next \in {"target", "pair"},
         next = (IF s = "draft" THEN "target" ELSE "pair"),
         Pair!LoadModel(s, next)
  PROVE  Loading'
<1>. USE DEF Pair!Sides
<1>1. /\ options' = options /\ command' = command /\ tokenizers' = tokenizers
      /\ runtime' = runtime /\ reported' = reported /\ stage = s /\ s \in {"draft", "target"}
      /\ loaded' = loaded \cup {s}
  BY DEF Pair!LoadModel
<1>2. PICK size \in Sizes, positions \in Positions, device \in Pair!Placed(options.device) :
       IF Pair!MirrorRefused \/ (options.reference /\ ~options.mirror) \/ ~Pair!Fits(s, size)
       THEN stage' = "refused" /\ UNCHANGED adapters
       ELSE /\ stage' = next
            /\ adapters' = [adapters EXCEPT ![s] =
                 [size |-> size, positions |-> positions, device |-> device,
                  cached |-> ~options.stateless, mirror |-> Pair!Mirror(positions),
                  reference |-> options.reference, role |-> "target", runtime |-> None]]
  BY DEF Pair!LoadModel
<1>3. reported' = None
  BY <1>1 DEF Loading
<1>4. command' # "library" => ~Pair!Conflict(options)'
  BY <1>1 DEF Loading, Working, Pair!Conflict
<1>5. CASE stage' = "refused" /\ UNCHANGED adapters
  <2>1. \A r \in Pair!Sides : Good(r) => Good(r)'
    BY <1>1, <1>5, GoodRests
  <2>. QED BY <1>1, <1>3, <1>4, <1>5, <2>1 DEF Loading, Working
<1>6. CASE /\ ~Pair!MirrorRefused /\ (options.reference => options.mirror) /\ Pair!Fits(s, size)
           /\ stage' = next
           /\ adapters' = [adapters EXCEPT ![s] =
                [size |-> size, positions |-> positions, device |-> device,
                 cached |-> ~options.stateless, mirror |-> Pair!Mirror(positions),
                 reference |-> options.reference, role |-> "target", runtime |-> None]]
  <2>1. adapters'[s] = [size |-> size, positions |-> positions, device |-> device,
                        cached |-> ~options.stateless, mirror |-> Pair!Mirror(positions),
                        reference |-> options.reference, role |-> "target", runtime |-> None]
    BY <1>6 DEF Loading
  <2>2. device \in Placements
    BY PartsAssumption DEF Pair!Placed, Placements, Loading, Pair!Options, PartsAssumption,
       Pair!PairAssumption
  <2>3. Good(s)'
    <3>1. Pair!Mirror(positions)' = Pair!Mirror(positions)
      BY <1>1 DEF Pair!Mirror, Pair!Needed
    <3>2. ~Pair!MirrorRefused' /\ Pair!Fits(s, size)'
      BY <1>1, <1>6 DEF Pair!MirrorRefused, Pair!Fits
    <3>. QED BY <1>1, <1>6, <2>1, <2>2, <3>1, <3>2 DEF Good, Pair!Mirror, Pair!Needed
  <2>4. \A r \in Pair!Sides : r # s => adapters'[r] = adapters[r]
    BY <1>6 DEF Loading
  <2>5. \A r \in Pair!Sides : r # s /\ Good(r) => Good(r)'
    BY <1>1, <2>4, GoodRests
  <2>. QED BY <1>1, <1>3, <1>4, <1>6, <2>3, <2>4, <2>5 DEF Loading, Working
<1>. QED BY <1>2, <1>5, <1>6

\* The rest of from_pretrained: what is not refused is joined.
LEMMA MakePairStep ==
  ASSUME Loading, Pair!MakePair
  PROVE  Loading'
<1>. USE DEF Pair!Sides
<1>1. /\ options' = options /\ command' = command /\ tokenizers' = tokenizers
      /\ loaded' = loaded /\ reported' = reported /\ stage = "pair"
      /\ Good("draft") /\ Good("target")
  BY DEF Pair!MakePair, Loading
<1>2. reported' = None
  BY <1>1 DEF Loading
<1>3. Pair!Conflict(options)' <=> Pair!Conflict(options)
  BY <1>1 DEF Pair!Conflict
<1>4. CASE UNCHANGED <<adapters, runtime>> /\ stage' = "refused"
  <2>1. Good("draft")' /\ Good("target")'
    BY <1>1, <1>4, GoodRests
  <2>. QED BY <1>1, <1>2, <1>3, <1>4, <2>1 DEF Loading, Working
<1>5. CASE /\ adapters["draft"].size = adapters["target"].size
           /\ stage' = "wire" /\ options.shared = "no" /\ UNCHANGED <<adapters, runtime>>
  <2>1. Good("draft")' /\ Good("target")'
    BY <1>1, <1>5, GoodRests
  <2>2. Joined'
    BY <1>1, <1>5 DEF Joined
  <2>. QED BY <1>1, <1>2, <1>3, <1>5, <2>1, <2>2 DEF Loading, Working
<1>6. CASE /\ adapters["draft"].size = adapters["target"].size
           /\ Pair!Shareable
           /\ stage' = "wire" /\ runtime' = Pair!Selected
           /\ adapters' = [s \in Pair!Sides |->
                [adapters[s] EXCEPT !.role = s, !.runtime = Pair!Selected]]
  <2>1. \A s \in Pair!Sides :
          Good(s)' /\ adapters'[s].role = s /\ adapters'[s].runtime = Pair!Selected
    BY <1>1, <1>6, GoodStays
  <2>2. \A s \in Pair!Sides : /\ adapters'[s].size = adapters[s].size
                              /\ adapters'[s].device = adapters[s].device
    <3>. TAKE s \in Pair!Sides
    <3>1. Good(s)
      BY <1>1
    <3>2. adapters'[s] = [adapters[s] EXCEPT !.role = s, !.runtime = Pair!Selected]
      BY <1>6
    <3>. QED BY <3>1, <3>2 DEF Good
  <2>3. Pair!Selected \in {"cuda:0", "cuda:1"}
    BY <1>1, <1>6 DEF Pair!Shareable, Good, Placements
  <2>4. Joined'
    BY <1>1, <1>6, <2>1, <2>2, <2>3 DEF Joined, Pair!Shareable
  <2>. QED BY <1>1, <1>2, <1>3, <1>6, <2>1, <2>3, <2>4 DEF Loading, Working
<1>. QED BY <1>4, <1>5, <1>6 DEF Pair!MakePair

LEMMA LoadingStep == Loading /\ [Pair!Next]_(Pair!vars) => Loading'
<1>. SUFFICES ASSUME Loading, [Pair!Next]_(Pair!vars) PROVE Loading'
  OBVIOUS
<1>1. ASSUME UNCHANGED <<command, options, tokenizers, loaded, adapters, runtime>>,
             reported' = reported \/ reported' = None \/ reported' = Pair!CacheMode(options)
      PROVE  /\ \A s \in Pair!Sides : Good(s) => Good(s)'
             /\ Joined => Joined'
             /\ Pair!Conflict(options)' <=> Pair!Conflict(options)
             /\ Pair!CacheMode(options)' = Pair!CacheMode(options)
  <2>1. \A s \in Pair!Sides : Good(s) => Good(s)'
    BY <1>1, GoodRests
  <2>. QED BY <1>1, <2>1 DEF Joined, Pair!Conflict, Pair!CacheMode
<1>2. CASE Pair!ValidateCacheArgs
  BY <1>1, <1>2 DEF Pair!ValidateCacheArgs, Loading, Working
<1>3. CASE Pair!LoadTokenizers
  <2>1. /\ stage = "tokenizers" /\ loaded = {} /\ reported = None
        /\ UNCHANGED <<command, options, loaded, adapters, runtime, reported>>
        /\ \A s \in Pair!Sides : adapters[s] = None
        /\ Pair!Conflict(options)' <=> Pair!Conflict(options)
    BY <1>3 DEF Pair!LoadTokenizers, Loading, Good, Pair!Conflict
  <2>2. PICK d, t \in Pair!Tokenizers :
          /\ tokenizers' = [s \in Pair!Sides |-> IF s = "draft" THEN d ELSE t]
          /\ stage' = IF d = t THEN "draft" ELSE "refused"
    BY <1>3 DEF Pair!LoadTokenizers, Pair!Compatible
  <2>3. /\ tokenizers' \in [Pair!Sides -> Pair!Tokenizers]
        /\ tokenizers'["draft"] = d /\ tokenizers'["target"] = t
    BY <2>2 DEF Pair!Sides
  <2>. QED BY <2>1, <2>2, <2>3 DEF Loading, Working
<1>4. CASE Pair!LoadModel("draft", "target")
  BY <1>4, LoadModelStep DEF Pair!Sides
<1>5. CASE Pair!LoadModel("target", "pair")
  BY <1>5, LoadModelStep DEF Pair!Sides
<1>6. CASE Pair!MakePair
  BY <1>6, MakePairStep
<1>7. CASE Pair!Wire
  BY <1>1, <1>7 DEF Pair!Wire, Loading, Working, Pair!Sides
<1>8. ASSUME NEW at \in {"tokenizers", "draft", "target", "pair", "wire"}, Pair!Refuse(at)
      PROVE  Loading'
  BY <1>1, <1>8 DEF Pair!Refuse, Loading, Working
<1>9. CASE UNCHANGED Pair!vars
  <2>1. UNCHANGED <<command, options, stage, tokenizers, loaded, adapters, runtime, reported>>
    BY <1>9 DEF Pair!vars
  <2>2. /\ \A s \in Pair!Sides : Good(s) => Good(s)'
        /\ Joined => Joined'
        /\ Pair!Conflict(options)' <=> Pair!Conflict(options)
        /\ Pair!CacheMode(options)' = Pair!CacheMode(options)
    BY <1>1, <2>1
  <2>. HIDE DEF Loading
  <2>. QED BY <2>1, <2>2 DEF Loading, Working, Pair!Sides
<1>. QED BY <1>2, <1>3, <1>4, <1>5, <1>6, <1>7, <1>8, <1>9 DEF Pair!Next

\* Blocks of b positions for p of them: enough, and none too many.
LEMMA Ceiling ==
  ASSUME NEW p \in Nat, NEW b \in Nat, p >= 1, b >= 1
  PROVE  LET q == (p + b - 1) \div b
         IN  q \in Nat /\ b * q >= p /\ b * (q - 1) < p /\ q >= 1
<1>. DEFINE n == p + b - 1
            q == n \div b
            r == n % b
<1>1. n \in Nat /\ n - b = p - 1
  OBVIOUS
<1>. HIDE DEF n
<1>2. q \in Nat /\ r \in 0..b - 1 /\ n = b * q + r
  BY <1>1
<1>. HIDE DEF q, r
<1>3. b * q \in Nat /\ b * (q - 1) = b * q - b
  BY <1>2
<1>4. b * q >= p /\ b * (q - 1) < p
  BY <1>1, <1>2, <1>3
<1>5. q # 0
  <2>1. q = 0 => b * q = 0
    OBVIOUS
  <2>. QED BY <1>4, <2>1
<1>. QED BY <1>2, <1>4, <1>5 DEF q, n

\* A mirror that there is, is no None.
LEMMA MirrorType ==
  ASSUME options \in Pair!Options, options.mirror, options.blockSize >= 1, NEW p \in Positions
  PROVE  Pair!Mirror(p) # None
<1>. DEFINE blocks == IF options.blocks = None THEN Pair!Needed(p) ELSE options.blocks
<1>1. /\ options.blockSize \in Nat /\ (options.blocks = None \/ options.blocks \in Nat)
      /\ p \in Nat /\ p >= 1
  <2>1. options.blockSize \in BlockSizes /\ options.blocks \in BlockCounts \cup {None}
    BY DEF Pair!Options
  <2>2. BlockSizes \subseteq Nat /\ BlockCounts \subseteq Nat /\ Positions \subseteq Nat \ {0}
    BY PartsAssumption DEF PartsAssumption, Pair!PairAssumption
  <2>3. options.blockSize \in Nat
    BY <2>1, <2>2
  <2>4. options.blocks = None \/ options.blocks \in Nat
    BY <2>1, <2>2
  <2>5. p \in Nat /\ p >= 1
    BY <2>2
  <2>. QED BY <2>3, <2>4, <2>5
<1>2. Pair!Needed(p) \in Nat
  BY <1>1, Ceiling DEF Pair!Needed
<1>3. blocks \in Nat
  BY <1>1, <1>2
<1>4. Pair!Mirror(p) = [size |-> options.blockSize, blocks |-> blocks]
  BY DEF Pair!Mirror
<1>. HIDE DEF blocks
<1>5. Pair!Mirror(p) \in [size : Nat, blocks : Nat]
  BY <1>1, <1>3, <1>4
<1>. QED BY <1>5, PartsAssumption DEF PartsAssumption, Pair!PairAssumption

\* A mirror that is not limited by the caller has room for every position.
LEMMA MirrorIsLargeEnough ==
  ASSUME Loading, NEW s \in Pair!Sides, Good(s), adapters[s].mirror # None
  PROVE  LET m == adapters[s].mirror
         IN  /\ m.size >= 1 /\ m.blocks >= 1
             /\ options.blocks = None =>
                  /\ m.size * m.blocks >= adapters[s].positions
                  /\ m.size * (m.blocks - 1) < adapters[s].positions
<1>. USE PartsAssumption DEF PartsAssumption, Pair!PairAssumption
<1>. DEFINE b == options.blockSize
            p == adapters[s].positions
            q == (p + b - 1) \div b
            m == adapters[s].mirror
<1>1. /\ options.mirror /\ b \in Nat /\ b >= 1 /\ p \in Nat /\ p >= 1 /\ options.blocks # 0
      /\ options.blocks = None \/ options.blocks \in Nat
      /\ m = [size |-> b, blocks |-> IF options.blocks = None THEN q ELSE options.blocks]
  BY DEF Good, Pair!Mirror, Pair!MirrorRefused, Pair!Needed, Loading, Pair!Options
<1>2. m.size = b /\ m.blocks = IF options.blocks = None THEN q ELSE options.blocks
  BY <1>1
<1>. HIDE DEF b, p, m
<1>3. q \in Nat /\ b * q >= p /\ b * (q - 1) < p /\ q >= 1
  BY <1>1, Ceiling
<1>. HIDE DEF q
<1>. QED BY <1>1, <1>2, <1>3 DEF m, p

\* HuggingFaceModelPair.from_pretrained and the commands: whatever was asked for
\* and whatever the four artifacts contain, what is loaded goes together.
THEOREM GoesTogetherAlways == Pair!Spec => []GoesTogether
<1>1. ASSUME Loading PROVE Pair!TypeOK /\ Pair!MirrorHasRoom
  <2>1. \A s \in Pair!Sides : adapters[s] # None => s \in loaded
    BY <1>1 DEF Loading, Good
  <2>2. ASSUME NEW s \in Pair!Sides, adapters[s] # None, adapters[s].mirror # None
        PROVE  LET m == adapters[s].mirror
               IN  /\ m.size >= 1 /\ m.blocks >= 1
                   /\ options.blocks = None =>
                        /\ m.size * m.blocks >= adapters[s].positions
                        /\ m.size * (m.blocks - 1) < adapters[s].positions
    <3>1. Good(s)
      BY <1>1, <2>2 DEF Loading
    <3>. QED BY <1>1, <2>2, <3>1, MirrorIsLargeEnough
  <2>. QED BY <1>1, <2>1, <2>2 DEF Loading, Working, Pair!TypeOK, Pair!MirrorHasRoom
<1>2. ASSUME Loading PROVE Pair!WeightsLast
  BY <1>2 DEF Loading, Pair!WeightsLast, Pair!Conflict, Pair!Options
<1>3. ASSUME Loading PROVE Pair!OneTokenSpace
  <2>. SUFFICES ASSUME stage = "ready" PROVE
         /\ \A t \in PairTokens, s \in Pair!Sides :
              /\ tokenizers["draft"].ids[t] = tokenizers["target"].ids[t]
              /\ tokenizers[s].ids[t] < adapters[s].size
         /\ adapters["draft"].size = adapters["target"].size
    BY DEF Pair!OneTokenSpace
  <2>1. \A s \in Pair!Sides : adapters[s].size \in Nat /\ Pair!Fits(s, adapters[s].size)
    BY <1>3, PartsAssumption DEF Loading, Good, Pair!Sides, PartsAssumption, Pair!PairAssumption
  <2>2. tokenizers \in [Pair!Sides -> Pair!Tokenizers] /\ tokenizers["draft"] = tokenizers["target"]
    BY <1>3 DEF Loading, Working
  <2>. QED BY <1>3, <2>1, <2>2, FitsEach DEF Loading, Joined
<1>4. ASSUME Loading PROVE Pair!OneDevice
  BY <1>4 DEF Loading, Joined, Pair!OneDevice
<1>5. ASSUME Loading PROVE Pair!ReportedMode
  <2>. SUFFICES ASSUME reported # None, NEW s \in Pair!Sides
                PROVE  reported = CASE ~adapters[s].cached -> "stateless"
                         [] adapters[s].cached /\ adapters[s].mirror = None -> "native"
                         [] adapters[s].mirror # None /\ adapters[s].reference -> "reference"
                         [] adapters[s].mirror # None /\ ~adapters[s].reference -> "mirror"
    BY DEF Pair!ReportedMode
  <2>1. /\ Good(s) /\ reported = Pair!CacheMode(options)
        /\ options.stateless \in BOOLEAN /\ options.mirror \in BOOLEAN
        /\ options.reference \in BOOLEAN
    BY <1>5 DEF Loading, Pair!Sides, Pair!Options
  <2>2. /\ adapters[s].cached = ~options.stateless /\ adapters[s].reference = options.reference
        /\ options.mirror => ~options.stateless
        /\ options.reference => options.mirror
        /\ adapters[s].mirror = None <=> ~options.mirror
    <3>1. /\ adapters[s].cached = ~options.stateless
          /\ adapters[s].reference = options.reference
          /\ options.mirror => ~options.stateless
          /\ options.reference => options.mirror
          /\ adapters[s].mirror = Pair!Mirror(adapters[s].positions)
      BY <2>1 DEF Good, Pair!MirrorRefused
    <3>2. Pair!Mirror(adapters[s].positions) = None <=> ~options.mirror
      <4>1. CASE ~options.mirror
        BY <4>1 DEF Pair!Mirror
      <4>2. CASE options.mirror
        <5>1. options \in Pair!Options /\ options.blockSize >= 1 /\ adapters[s].positions \in Positions
          BY <1>5, <2>1, <4>2, PartsAssumption
             DEF Loading, Good, Pair!MirrorRefused, PartsAssumption, Pair!PairAssumption, Pair!Options
        <5>. QED BY <4>2, <5>1, MirrorType
      <4>. QED BY <4>1, <4>2
    <3>. QED BY <3>1, <3>2
  <2>3. CASE options.stateless
    BY <2>1, <2>2, <2>3 DEF Pair!CacheMode
  <2>4. CASE ~options.stateless /\ options.reference
    BY <2>1, <2>2, <2>4 DEF Pair!CacheMode
  <2>5. CASE ~options.stateless /\ ~options.reference /\ options.mirror
    BY <2>1, <2>2, <2>5 DEF Pair!CacheMode
  <2>6. CASE ~options.stateless /\ ~options.reference /\ ~options.mirror
    BY <2>1, <2>2, <2>6 DEF Pair!CacheMode
  <2>. QED BY <2>1, <2>3, <2>4, <2>5, <2>6
<1>6. Loading => GoesTogether
  BY <1>1, <1>2, <1>3, <1>4, <1>5 DEF GoesTogether, Pair!GoesTogether
<1>. QED BY <1>6, LoadingInit, LoadingStep, PTL DEF Pair!Spec

-----------------------------------------------------------------------------
(* The benchmark.  A call is told by its number: the two calls of a pair   *)
(* have one seed, which is the number of the pair, so that what the        *)
(* schedule promises of paths, prompts, rounds and seeds is arithmetic.    *)

Runners == {"target_only", "speculative"}
Other(p) == IF p = "target_only" THEN "speculative" ELSE "target_only"

\* Pairs of calls of the warm-up, and of the benchmark.
WarmPairs == config.warmup_runs * config.prompts
AllPairs == WarmPairs + config.measured_runs * config.prompts

CallRecords == [path : Runners, stage : {"warmup", "measure"}, round : Nat, prompt : Nat,
                seed : Nat]

\* A call of the schedule.
Scheduled(c) ==
  /\ c \in CallRecords /\ c.prompt < config.prompts
  /\ c.stage = "warmup" => /\ c.round < config.warmup_runs
                           /\ c.seed = c.round * config.prompts + c.prompt
  /\ c.stage = "measure" => /\ c.round < config.measured_runs
                            /\ c.seed = WarmPairs + c.round * config.prompts + c.prompt

\* The path that is run first in the pair of a call.
Leader(c) == IF c.stage = "warmup" \/ (c.round + c.prompt) % 2 = 0
             THEN "target_only" ELSE "speculative"

\* The call with a number: the first or the second of its pair.
Numbered(c, i) == \/ i = 2 * c.seed + 1 /\ c.path = Leader(c)
                  \/ i = 2 * c.seed + 2 /\ c.path = Other(Leader(c))

\* Where the schedule is, by the calls made so far.
InMotion == loop \in {"warmup", "measure"}
Position ==
  /\ loop \in {"warmup", "measure", "done", "failed"}
  /\ prompt \in Nat /\ prompt < config.prompts
  /\ turn \in {1, 2} /\ running \in BOOLEAN
  /\ round \in 0..MaxWarmups + MaxMeasured
  /\ loop = "warmup" => round < config.warmup_runs
  /\ loop = "measure" => round < config.measured_runs
  /\ running => InMotion
  /\ InMotion => Len(calls) = (2 * Bench!Seed + turn) - IF running THEN 0 ELSE 1
  /\ loop = "done" => Len(calls) = 2 * AllPairs

Calls == /\ calls \in Seq(CallRecords)
         /\ \A i \in 1..Len(calls) : Scheduled(calls[i]) /\ Numbered(calls[i], i)

\* The calls behind the warm-up become samples when they have returned.
Sampled ==
  /\ samples \in Seq(CallRecords)
  /\ loop = "warmup" => samples = <<>>
  /\ loop = "measure" => Len(samples) = Len(calls) - 2 * WarmPairs - IF running THEN 1 ELSE 0
  /\ loop = "done" => Len(samples) = Len(calls) - 2 * WarmPairs
  /\ samples # <<>> => Len(samples) <= Len(calls) - 2 * WarmPairs
  /\ \A i \in 1..Len(samples) : samples[i] = calls[2 * WarmPairs + i]

\* The call that is running has queued all the work there is since it began.
Known == {calls[i] : i \in DOMAIN calls} \cup {Bench!Loading}
Charged ==
  /\ callbacks \in 0..MaxCallbacks
  /\ queue \in Seq(Known) /\ span \in Seq(Known) /\ peak \subseteq Known
  /\ running => /\ calls[Len(calls)] = Bench!Call
                /\ Len(span) + Len(queue) = callbacks
                /\ \A i \in 1..Len(span) : span[i] = Bench!Call
                /\ \A i \in 1..Len(queue) : queue[i] = Bench!Call
                /\ loop = "measure" => peak = IF callbacks = 0 THEN {} ELSE {Bench!Call}
  /\ newest.tokens \in Nat /\ Bench!OwnWork /\ Bench!OwnPeak

\* How far the target's path is ahead among the first samples of their pairs.
Firsts(s) == {i \in DOMAIN s : \A j \in 1..i - 1 :
                <<s[i].prompt, s[i].round>> # <<s[j].prompt, s[j].round>>}
FirstsOf(s, p) == {i \in Firsts(s) : s[i].prompt = p}
Count(s, S, p) == Cardinality({i \in S : s[i].path = p})
Lead(s, S) == Count(s, S, "target_only") - Count(s, S, "speculative")

Sign(r, p) == IF (r + p) % 2 = 0 THEN 1 ELSE -1
LeadAt(r, p) == IF config.prompts % 2 = 0
                THEN IF p % 2 = 0 THEN 0 ELSE Sign(r, 0)
                ELSE IF (r + p) % 2 = 0 THEN 0 ELSE 1
LeadOf(p, pairs) == IF pairs % 2 = 0 THEN 0 ELSE Sign(0, p)

\* Pairs begun on a prompt.
Begun(p) == round + IF p < prompt \/ (p = prompt /\ turn = 2) THEN 1 ELSE 0

Even ==
  /\ Lead(samples, Firsts(samples)) \in -1..1
  /\ \A p \in 0..config.prompts - 1 : Lead(samples, FirstsOf(samples, p)) \in -1..1
  /\ loop = "measure" =>
       /\ Lead(samples, Firsts(samples))
            = LeadAt(round, prompt) + IF turn = 1 THEN 0 ELSE Sign(round, prompt)
       /\ \A p \in 0..config.prompts - 1 :
            Lead(samples, FirstsOf(samples, p)) = LeadOf(p, Begun(p))

BenchInv == /\ config \in Bench!Configs
            /\ Position /\ Calls /\ Sampled /\ Charged /\ Even

\* The schedule's numbers.
LEMMA ConfigTypes ==
  ASSUME config \in Bench!Configs
  PROVE  /\ config.warmup_runs \in Nat /\ config.warmup_runs <= MaxWarmups
         /\ config.measured_runs \in Nat /\ config.measured_runs >= 1
         /\ config.measured_runs <= MaxMeasured
         /\ config.prompts \in Nat /\ config.prompts >= 1
         /\ WarmPairs \in Nat /\ AllPairs \in Nat
         /\ MaxWarmups \in Nat /\ MaxMeasured \in Nat /\ MaxCallbacks \in Nat
<1>1. MaxWarmups \in Nat /\ MaxMeasured \in Nat /\ MaxPrompts \in Nat /\ MaxCallbacks \in Nat
  BY PartsAssumption DEF PartsAssumption, Bench!BenchmarkAssumption
<1>2. /\ config.warmup_runs \in 0..MaxWarmups /\ config.measured_runs \in 1..MaxMeasured
      /\ config.prompts \in 1..MaxPrompts
  BY DEF Bench!Configs
<1>3. /\ config.warmup_runs \in Nat /\ config.measured_runs \in Nat /\ config.prompts \in Nat
  BY <1>1, <1>2
<1>4. WarmPairs \in Nat /\ AllPairs \in Nat
  BY <1>3 DEF WarmPairs, AllPairs
<1>. QED BY <1>1, <1>2, <1>3, <1>4

\* A row behind another begins behind its end.
LEMMA RowsApart ==
  ASSUME NEW a \in Nat, NEW c \in Nat, NEW n \in Nat, a < c
  PROVE  a * n + n <= c * n
<1>. DEFINE k == c - (a + 1)
<1>1. k \in Nat /\ c = (a + 1) + k
  OBVIOUS
<1>. HIDE DEF k
<1>2. k * n \in Nat /\ ((a + 1) + k) * n = a * n + n + k * n /\ a * n \in Nat
  BY <1>1
<1>. QED BY <1>1, <1>2

\* The place in a row and the row of a number are unique.
LEMMA PlaceUnique ==
  ASSUME NEW n \in Nat, NEW a \in Nat, NEW c \in Nat, NEW b \in Nat, NEW d \in Nat,
         b < n, d < n, a * n + b = c * n + d
  PROVE  a = c /\ b = d
<1>1. a * n \in Nat /\ c * n \in Nat
  OBVIOUS
<1>2. ~(a < c)
  <2>. SUFFICES ASSUME a < c PROVE FALSE
    OBVIOUS
  <2>1. a * n + n <= c * n
    BY RowsApart
  <2>. QED BY <1>1, <2>1
<1>3. ~(c < a)
  <2>. SUFFICES ASSUME c < a PROVE FALSE
    OBVIOUS
  <2>1. c * n + n <= a * n
    BY RowsApart
  <2>. QED BY <1>1, <2>1
<1>4. a = c
  BY <1>2, <1>3
<1>. QED BY <1>1, <1>4

\* What is known of the seed of a call.
LEMMA SeedBounds ==
  ASSUME config \in Bench!Configs, NEW c, Scheduled(c)
  PROVE  /\ c.seed \in Nat /\ c.round \in Nat /\ c.prompt \in Nat
         /\ c.path \in Runners /\ c.stage \in {"warmup", "measure"}
         /\ c.stage = "warmup" <=> c.seed < WarmPairs
<1>1. /\ c.seed \in Nat /\ c.round \in Nat /\ c.prompt \in Nat
      /\ c.path \in Runners /\ c.stage \in {"warmup", "measure"}
  BY DEF Scheduled, CallRecords
<1>2. /\ config.warmup_runs \in Nat /\ config.prompts \in Nat /\ WarmPairs \in Nat
      /\ c.round * config.prompts \in Nat
  BY <1>1, ConfigTypes
<1>3. CASE c.stage = "warmup"
  <2>1. c.round * config.prompts + config.prompts <= WarmPairs
    BY <1>1, <1>2, <1>3, RowsApart DEF Scheduled, WarmPairs
  <2>2. c.seed = c.round * config.prompts + c.prompt /\ c.prompt < config.prompts
    BY <1>3 DEF Scheduled
  <2>3. c.seed < WarmPairs
    BY <1>1, <1>2, <2>1, <2>2
  <2>. QED BY <1>1, <1>3, <2>3
<1>4. CASE c.stage = "measure"
  <2>1. c.seed = WarmPairs + c.round * config.prompts + c.prompt
    BY <1>4 DEF Scheduled
  <2>2. ~(c.seed < WarmPairs)
    BY <1>1, <1>2, <2>1
  <2>. QED BY <1>1, <1>4, <2>2
<1>. QED BY <1>1, <1>3, <1>4

\* A seed belongs to one pair.
LEMMA SeedDetermines ==
  ASSUME config \in Bench!Configs, NEW c, NEW d, Scheduled(c), Scheduled(d)
  PROVE  c.seed = d.seed <=> c.stage = d.stage /\ c.round = d.round /\ c.prompt = d.prompt
<1>1. /\ c.seed \in Nat /\ c.round \in Nat /\ c.prompt \in Nat
      /\ c.stage \in {"warmup", "measure"} /\ (c.stage = "warmup" <=> c.seed < WarmPairs)
  BY SeedBounds
<1>2. /\ d.seed \in Nat /\ d.round \in Nat /\ d.prompt \in Nat
      /\ d.stage \in {"warmup", "measure"} /\ (d.stage = "warmup" <=> d.seed < WarmPairs)
  BY SeedBounds
<1>3. config.prompts \in Nat /\ WarmPairs \in Nat
  BY ConfigTypes
<1>4. c.prompt < config.prompts /\ d.prompt < config.prompts
  BY DEF Scheduled
<1>5. ASSUME c.seed = d.seed
      PROVE  c.stage = d.stage /\ c.round = d.round /\ c.prompt = d.prompt
  <2>1. c.stage = d.stage
    BY <1>1, <1>2, <1>5
  <2>2. c.round * config.prompts + c.prompt = d.round * config.prompts + d.prompt
    <3>1. c.round * config.prompts \in Nat /\ d.round * config.prompts \in Nat
      BY <1>1, <1>2, <1>3
    <3>2. CASE c.stage = "warmup"
      BY <1>5, <2>1, <3>2 DEF Scheduled
    <3>3. CASE c.stage = "measure"
      <4>1. /\ c.seed = WarmPairs + c.round * config.prompts + c.prompt
            /\ d.seed = WarmPairs + d.round * config.prompts + d.prompt
        BY <2>1, <3>3 DEF Scheduled
      <4>. DEFINE a == c.round * config.prompts
                  b == d.round * config.prompts
      <4>2. a \in Nat /\ b \in Nat /\ WarmPairs + a + c.prompt = WarmPairs + b + d.prompt
        BY <1>5, <3>1, <4>1
      <4>. HIDE DEF a, b
      <4>3. a + c.prompt = b + d.prompt
        BY <1>1, <1>2, <1>3, <4>2
      <4>. QED BY <4>3 DEF a, b
    <3>. QED BY <1>1, <3>2, <3>3
  <2>3. c.round = d.round /\ c.prompt = d.prompt
    <3>. DEFINE n == config.prompts
                a == c.round
                b == d.round
                x == c.prompt
                y == d.prompt
    <3>1. /\ n \in Nat /\ a \in Nat /\ b \in Nat /\ x \in Nat /\ y \in Nat
          /\ x < n /\ y < n /\ a * n + x = b * n + y
      BY <1>1, <1>2, <1>3, <1>4, <2>2
    <3>. HIDE DEF n, a, b, x, y
    <3>2. a = b /\ x = y
      BY <3>1, PlaceUnique
    <3>. QED BY <3>2 DEF a, b, x, y
  <2>. QED BY <2>1, <2>3
<1>6. ASSUME c.stage = d.stage, c.round = d.round, c.prompt = d.prompt
      PROVE  c.seed = d.seed
  BY <1>1, <1>6 DEF Scheduled
<1>. QED BY <1>5, <1>6

\* The first and the second call of a pair, by their numbers.
LEMMA CallOf ==
  ASSUME config \in Bench!Configs, Calls, NEW s \in Nat, NEW k \in {1, 2},
         2 * s + k <= Len(calls)
  PROVE  /\ Scheduled(calls[2 * s + k]) /\ calls[2 * s + k].seed = s
         /\ calls[2 * s + k].path = IF k = 1 THEN Leader(calls[2 * s + k])
                                             ELSE Other(Leader(calls[2 * s + k]))
<1>. DEFINE c == calls[2 * s + k]
<1>1. 2 * s + k \in 1..Len(calls)
  <2>1. Len(calls) \in Nat
    BY LenProperties DEF Calls
  <2>. QED BY <2>1
<1>2. Scheduled(c) /\ Numbered(c, 2 * s + k)
  BY <1>1 DEF Calls
<1>. HIDE DEF c
<1>3. c.seed \in Nat
  BY <1>2, SeedBounds
<1>4. CASE 2 * s + k = 2 * c.seed + 1
  <2>1. k = 1 /\ c.seed = s
    BY <1>3, <1>4
  <2>. QED BY <1>2, <1>3, <2>1 DEF Numbered, c
<1>5. CASE 2 * s + k = 2 * c.seed + 2
  <2>1. k = 2 /\ c.seed = s
    BY <1>3, <1>5
  <2>. QED BY <1>2, <1>3, <2>1 DEF Numbered, c
<1>. QED BY <1>2, <1>4, <1>5 DEF Numbered

\* Every number of a call is that of the first or the second of a pair.
LEMMA NumberOf ==
  ASSUME config \in Bench!Configs, Calls, NEW i \in 1..Len(calls)
  PROVE  /\ Scheduled(calls[i]) /\ calls[i].seed \in Nat
         /\ i = 2 * calls[i].seed + 1 \/ i = 2 * calls[i].seed + 2
         /\ i = 2 * calls[i].seed + 1 => calls[i].path = Leader(calls[i])
         /\ i = 2 * calls[i].seed + 2 => calls[i].path = Other(Leader(calls[i]))
<1>. DEFINE c == calls[i]
<1>1. Scheduled(c) /\ Numbered(c, i)
  BY DEF Calls
<1>. HIDE DEF c
<1>2. c.seed \in Nat
  BY <1>1, SeedBounds
<1>3. 2 * c.seed + 1 # 2 * c.seed + 2
  BY <1>2
<1>. QED BY <1>1, <1>2, <1>3 DEF Numbered, c

-----------------------------------------------------------------------------
(* The benchmark: the call that is next.                                   *)

LEMMA SeedNow ==
  ASSUME config \in Bench!Configs, Position
  PROVE  /\ Bench!Seed \in Nat /\ round \in Nat /\ prompt \in Nat /\ turn \in {1, 2}
         /\ round * config.prompts \in Nat
         /\ loop = "measure" => Bench!Seed = WarmPairs + round * config.prompts + prompt
         /\ loop # "measure" => Bench!Seed = round * config.prompts + prompt
<1>1. /\ WarmPairs \in Nat /\ config.prompts \in Nat /\ config.warmup_runs \in Nat
      /\ MaxWarmups \in Nat /\ MaxMeasured \in Nat
  BY ConfigTypes
<1>2. round \in Nat /\ prompt \in Nat /\ turn \in {1, 2}
  BY <1>1 DEF Position
<1>3. round * config.prompts \in Nat
  BY <1>1, <1>2
<1>4. CASE loop = "measure"
  <2>1. Bench!Seed = WarmPairs + round * config.prompts + prompt
    BY <1>4 DEF Bench!Seed, WarmPairs
  <2>. QED BY <1>1, <1>2, <1>3, <1>4, <2>1
<1>5. CASE loop # "measure"
  <2>1. Bench!Seed = 0 + round * config.prompts + prompt
    BY <1>5 DEF Bench!Seed
  <2>. QED BY <1>1, <1>2, <1>3, <1>5, <2>1
<1>. QED BY <1>4, <1>5

LEMMA CallNow ==
  ASSUME config \in Bench!Configs, Position, InMotion
  PROVE  /\ Bench!Call \in CallRecords /\ Scheduled(Bench!Call)
         /\ Numbered(Bench!Call, 2 * Bench!Seed + turn)
         /\ Bench!Call.seed = Bench!Seed /\ Bench!Call.stage = loop
         /\ Bench!Call.round = round /\ Bench!Call.prompt = prompt
<1>. DEFINE c == Bench!Call
            seed == Bench!Seed
            first == IF loop = "warmup" \/ (round + prompt) % 2 = 0
                     THEN "target_only" ELSE "speculative"
<1>1. /\ seed \in Nat /\ round \in Nat /\ prompt \in Nat /\ turn \in {1, 2}
      /\ loop = "measure" => seed = WarmPairs + round * config.prompts + prompt
      /\ loop # "measure" => seed = round * config.prompts + prompt
  BY SeedNow
<1>2. loop \in {"warmup", "measure"}
  BY DEF InMotion
<1>3. Bench!Order[turn] = IF turn = 1 THEN first ELSE Other(first)
  BY <1>1 DEF Bench!Order, Other
<1>. HIDE DEF seed
<1>4. c = [path |-> Bench!Order[turn], stage |-> loop, round |-> round, prompt |-> prompt,
           seed |-> seed]
  BY DEF Bench!Call, seed
<1>5. /\ c.path = (IF turn = 1 THEN first ELSE Other(first)) /\ c.stage = loop
      /\ c.round = round /\ c.prompt = prompt /\ c.seed = seed
  BY <1>3, <1>4
<1>6. c.path \in Runners
  BY <1>5 DEF Other, Runners
<1>7. c \in CallRecords
  BY <1>1, <1>2, <1>4, <1>5, <1>6 DEF CallRecords
<1>8. Leader(c) = first
  BY <1>5 DEF Leader
<1>. HIDE DEF c, first
<1>9. Scheduled(c)
  BY <1>1, <1>2, <1>5, <1>7 DEF Scheduled, Position
<1>10. Numbered(c, 2 * seed + turn)
  BY <1>1, <1>5, <1>8 DEF Numbered
<1>. QED BY <1>5, <1>7, <1>9, <1>10 DEF c, seed

\* The places that a return may lead to.
LEMMA Advances ==
  ASSUME config \in Bench!Configs, Position, InMotion, Bench!Advance
  PROVE  \/ turn = 1 /\ turn' = 2 /\ UNCHANGED <<loop, round, prompt>>
         \/ /\ turn = 2 /\ turn' = 1
            /\ \/ prompt + 1 < config.prompts /\ prompt' = prompt + 1
                  /\ UNCHANGED <<loop, round>>
               \/ /\ prompt + 1 = config.prompts /\ prompt' = 0
                  /\ \/ round + 1 < Bench!Rounds /\ round' = round + 1 /\ UNCHANGED loop
                     \/ /\ round + 1 = Bench!Rounds /\ round' = 0
                        /\ \/ loop = "warmup" /\ loop' = "measure"
                           \/ loop = "measure" /\ loop' = "done"
<1>1. /\ round \in Nat /\ prompt \in Nat /\ turn \in {1, 2} /\ config.prompts \in Nat
      /\ config.warmup_runs \in Nat /\ config.measured_runs \in Nat
  BY SeedNow, ConfigTypes
<1>2. loop \in {"warmup", "measure"} /\ prompt < config.prompts
  BY DEF InMotion, Position
<1>3. Bench!Rounds \in Nat /\ round < Bench!Rounds
  BY <1>1, <1>2 DEF Bench!Rounds, Position
<1>4. CASE turn = 1
  BY <1>4 DEF Bench!Advance
<1>5. CASE turn = 2
  <2>1. Bench!NextPrompt(config.prompts - 1)
    BY <1>5 DEF Bench!Advance
  <2>2. CASE prompt < config.prompts - 1
    <3>1. prompt + 1 < config.prompts
      BY <1>1, <2>2
    <3>. QED BY <1>5, <2>1, <2>2, <3>1 DEF Bench!NextPrompt
  <2>3. CASE ~(prompt < config.prompts - 1)
    <3>1. prompt + 1 = config.prompts
      BY <1>1, <1>2, <2>3
    <3>2. turn' = 1 /\ prompt' = 0 /\ Bench!NextRound
      BY <2>1, <2>3 DEF Bench!NextPrompt
    <3>3. CASE round < Bench!Rounds - 1
      <4>1. round + 1 < Bench!Rounds
        BY <1>1, <1>3, <3>3
      <4>2. round' = round + 1 /\ UNCHANGED loop
        BY <3>2, <3>3 DEF Bench!NextRound
      <4>. QED BY <1>5, <3>1, <3>2, <4>1, <4>2
    <3>4. CASE ~(round < Bench!Rounds - 1)
      <4>1. round + 1 = Bench!Rounds
        BY <1>1, <1>3, <3>4
      <4>2. round' = 0 /\ loop' = IF loop = "warmup" THEN "measure" ELSE "done"
        BY <3>2, <3>4 DEF Bench!NextRound
      <4>. QED BY <1>2, <1>5, <3>1, <3>2, <4>1, <4>2
    <3>. QED BY <3>3, <3>4
  <2>. QED BY <2>2, <2>3
<1>. QED BY <1>1, <1>4, <1>5

\* A return leads to the next number.
LEMMA NextNumber ==
  ASSUME config \in Bench!Configs, Position, InMotion, Bench!Advance, UNCHANGED config
  PROVE  /\ loop' \in {"warmup", "measure", "done"}
         /\ prompt' \in Nat /\ prompt' < config.prompts /\ turn' \in {1, 2}
         /\ round' \in 0..MaxWarmups + MaxMeasured
         /\ loop' = "warmup" => round' < config.warmup_runs
         /\ loop' = "measure" => round' < config.measured_runs
         /\ InMotion' => 2 * Bench!Seed' + turn' = 2 * Bench!Seed + turn + 1
         /\ loop' = "done" => 2 * AllPairs = 2 * Bench!Seed + turn
         /\ loop = "measure" => loop' # "warmup"
         /\ loop = "warmup" => loop' # "done"
         /\ loop = "warmup" /\ loop' = "measure" => /\ 2 * Bench!Seed + turn = 2 * WarmPairs
                                                   /\ round' = 0 /\ prompt' = 0 /\ turn' = 1
<1>. DEFINE n == config.prompts
            base == IF loop = "measure" THEN WarmPairs ELSE 0
<1>1. /\ Bench!Seed \in Nat /\ round \in Nat /\ prompt \in Nat /\ turn \in {1, 2}
      /\ round * n \in Nat /\ Bench!Seed = base + round * n + prompt /\ base \in Nat
  BY SeedNow, ConfigTypes
<1>2. /\ config.warmup_runs \in Nat /\ config.measured_runs \in Nat /\ n \in Nat /\ n >= 1
      /\ config.warmup_runs <= MaxWarmups /\ config.measured_runs <= MaxMeasured
      /\ config.measured_runs >= 1
      /\ MaxWarmups \in Nat /\ MaxMeasured \in Nat /\ WarmPairs \in Nat
  BY ConfigTypes
<1>3. /\ loop \in {"warmup", "measure"} /\ prompt < n
      /\ loop = "warmup" => round < config.warmup_runs
      /\ loop = "measure" => round < config.measured_runs
      /\ round <= MaxWarmups + MaxMeasured
  BY DEF InMotion, Position
<1>4. Bench!Rounds = IF loop = "warmup" THEN config.warmup_runs ELSE config.measured_runs
  BY DEF Bench!Rounds
<1>5. Bench!Seed' = (IF loop' = "measure" THEN WarmPairs ELSE 0) + round' * n + prompt'
  BY DEF Bench!Seed, WarmPairs
<1>6. CASE turn = 1 /\ turn' = 2 /\ UNCHANGED <<loop, round, prompt>>
  <2>1. Bench!Seed' = Bench!Seed
    BY <1>1, <1>5, <1>6
  <2>. QED BY <1>1, <1>2, <1>3, <1>6, <2>1 DEF InMotion
<1>7. CASE /\ turn = 2 /\ turn' = 1 /\ prompt + 1 < n /\ prompt' = prompt + 1
           /\ UNCHANGED <<loop, round>>
  <2>1. Bench!Seed' = base + round * n + (prompt + 1)
    BY <1>5, <1>7
  <2>. HIDE DEF base, n
  <2>2. Bench!Seed' = Bench!Seed + 1
    BY <1>1, <2>1
  <2>. QED BY <1>1, <1>2, <1>3, <1>7, <2>2 DEF InMotion, n
<1>8. CASE /\ turn = 2 /\ turn' = 1 /\ prompt + 1 = n /\ prompt' = 0
           /\ round + 1 < Bench!Rounds /\ round' = round + 1 /\ UNCHANGED loop
  <2>1. Bench!Seed' = base + (round + 1) * n + 0
    BY <1>5, <1>8
  <2>. HIDE DEF base, n
  <2>2. (round + 1) * n = round * n + n
    BY <1>1, <1>2
  <2>3. Bench!Seed' = Bench!Seed + 1
    BY <1>1, <1>2, <1>8, <2>1, <2>2
  <2>4. round' \in 0..MaxWarmups + MaxMeasured
    BY <1>1, <1>2, <1>3, <1>4, <1>8
  <2>. QED BY <1>1, <1>2, <1>3, <1>4, <1>8, <2>3, <2>4 DEF InMotion, n
<1>9. ASSUME turn = 2, turn' = 1, prompt + 1 = n, prompt' = 0,
             round + 1 = Bench!Rounds, round' = 0
      PROVE  /\ 2 * Bench!Seed + turn = 2 * (base + Bench!Rounds * n)
             /\ Bench!Rounds * n \in Nat
             /\ 0 \in 0..MaxWarmups + MaxMeasured
  <2>1. Bench!Rounds * n = round * n + n
    BY <1>1, <1>2, <1>9
  <2>. HIDE DEF base, n
  <2>2. Bench!Seed + 1 = base + (round * n + n)
    BY <1>1, <1>2, <1>9
  <2>3. Bench!Rounds * n \in Nat /\ 0 \in 0..MaxWarmups + MaxMeasured
    BY <1>1, <1>2, <2>1
  <2>. DEFINE all == Bench!Rounds * n
              seed == Bench!Seed
  <2>4. /\ seed \in Nat /\ all \in Nat /\ base \in Nat /\ seed + 1 = base + all /\ turn = 2
    BY <1>1, <1>9, <2>1, <2>2, <2>3
  <2>. HIDE DEF all, seed
  <2>5. 2 * seed + turn = 2 * (base + all)
    BY <2>4
  <2>. QED BY <2>3, <2>5 DEF all, seed
<1>10. CASE /\ turn = 2 /\ turn' = 1 /\ prompt + 1 = n /\ prompt' = 0
            /\ round + 1 = Bench!Rounds /\ round' = 0
            /\ loop = "warmup" /\ loop' = "measure"
  <2>1. 2 * Bench!Seed + turn = 2 * WarmPairs
    BY <1>2, <1>4, <1>9, <1>10 DEF WarmPairs
  <2>2. Bench!Seed' = WarmPairs
    <3>1. Bench!Seed' = WarmPairs + 0 * n + 0
      BY <1>5, <1>10
    <3>. QED BY <1>2, <3>1
  <2>. QED BY <1>2, <1>9, <1>10, <2>1, <2>2 DEF InMotion
<1>11. CASE /\ turn = 2 /\ turn' = 1 /\ prompt + 1 = n /\ prompt' = 0
            /\ round + 1 = Bench!Rounds /\ round' = 0
            /\ loop = "measure" /\ loop' = "done"
  <2>1. 2 * Bench!Seed + turn = 2 * AllPairs
    BY <1>4, <1>9, <1>11 DEF AllPairs
  <2>. QED BY <1>2, <1>9, <1>11, <2>1 DEF InMotion
<1>. HIDE DEF base
<1>. QED BY <1>6, <1>7, <1>8, <1>10, <1>11, Advances

-----------------------------------------------------------------------------
(* The benchmark: who went first.                                          *)

IsNew(s, x) == \A j \in 1..Len(s) : <<x.prompt, x.round>> # <<s[j].prompt, s[j].round>>

LEMMA FirstsGrow ==
  ASSUME NEW s \in Seq(CallRecords), NEW x \in CallRecords
  PROVE  /\ Firsts(Append(s, x)) = IF IsNew(s, x) THEN Firsts(s) \cup {Len(s) + 1} ELSE Firsts(s)
         /\ Firsts(s) \subseteq 1..Len(s)
<1>. DEFINE t == Append(s, x)
            n == Len(s) + 1
            earliest(u, i) == \A j \in 1..i - 1 :
                                <<u[i].prompt, u[i].round>> # <<u[j].prompt, u[j].round>>
<1>1. /\ Len(s) \in Nat /\ DOMAIN s = 1..Len(s) /\ DOMAIN t = 1..n
      /\ \A i \in 1..Len(s) : t[i] = s[i]
      /\ t[n] = x
  <2>1. Len(s) \in Nat /\ DOMAIN s = 1..Len(s)
    BY LenProperties
  <2>2. /\ t \in Seq(CallRecords) /\ Len(t) = n /\ t[n] = x
        /\ \A i \in 1..Len(s) : t[i] = s[i]
    BY AppendProperties
  <2>3. DOMAIN t = 1..n
    BY <2>2, LenProperties
  <2>. QED BY <2>1, <2>2, <2>3
<1>. HIDE DEF t
<1>2. Firsts(s) = {i \in 1..Len(s) : earliest(s, i)} /\ Firsts(t) = {i \in 1..n : earliest(t, i)}
  BY <1>1 DEF Firsts
<1>3. ASSUME NEW i \in 1..Len(s) PROVE earliest(t, i) <=> earliest(s, i)
  <2>1. \A j \in 1..i - 1 : j \in 1..Len(s)
    BY <1>1
  <2>. QED BY <1>1, <2>1
<1>4. earliest(t, n) <=> IsNew(s, x)
  <2>1. n - 1 = Len(s)
    BY <1>1
  <2>. QED BY <1>1, <2>1 DEF IsNew
<1>. HIDE DEF earliest
<1>5. \A i : i \in 1..n <=> i \in 1..Len(s) \/ i = n
  BY <1>1
<1>6. n \notin 1..Len(s)
  BY <1>1
<1>7. Firsts(t) = IF IsNew(s, x) THEN Firsts(s) \cup {n} ELSE Firsts(s)
  BY <1>2, <1>3, <1>4, <1>5, <1>6
<1>. QED BY <1>2, <1>7 DEF t

LEMMA CountGrows ==
  ASSUME NEW s \in Seq(CallRecords), NEW x \in CallRecords, NEW S \in SUBSET (1..Len(s)),
         NEW p
  PROVE  /\ Count(s, S, p) \in Nat
         /\ Count(Append(s, x), S, p) = Count(s, S, p)
         /\ Count(Append(s, x), S \cup {Len(s) + 1}, p)
              = Count(s, S, p) + IF x.path = p THEN 1 ELSE 0
<1>. DEFINE t == Append(s, x)
            n == Len(s) + 1
            A == {i \in S : s[i].path = p}
<1>1. /\ Len(s) \in Nat /\ t[n] = x
      /\ \A i \in 1..Len(s) : t[i] = s[i]
  BY LenProperties, AppendProperties
<1>. HIDE DEF t
<1>2. IsFiniteSet(A) /\ Cardinality(A) \in Nat
  <2>1. IsFiniteSet(1..Len(s))
    BY <1>1, FS_Interval
  <2>2. A \subseteq 1..Len(s)
    OBVIOUS
  <2>. QED BY <2>1, <2>2, FS_Subset, FS_CardinalityType
<1>3. n \notin A
  BY <1>1
<1>4. {i \in S : t[i].path = p} = A
  BY <1>1
<1>5. {i \in S \cup {n} : t[i].path = p} = IF x.path = p THEN A \cup {n} ELSE A
  BY <1>1, <1>4
<1>6. Count(s, S, p) = Cardinality(A) /\ Count(t, S, p) = Cardinality(A)
  BY <1>4 DEF Count
<1>7. Count(t, S \cup {n}, p) = IF x.path = p THEN Cardinality(A \cup {n}) ELSE Cardinality(A)
  BY <1>5 DEF Count
<1>. HIDE DEF A, n
<1>8. Cardinality(A \cup {n}) = Cardinality(A) + 1
  BY <1>2, <1>3, FS_AddElement
<1>9. Count(t, S \cup {n}, p) = Count(s, S, p) + IF x.path = p THEN 1 ELSE 0
  BY <1>2, <1>6, <1>7, <1>8
<1>. QED BY <1>2, <1>6, <1>9 DEF t, n

Weight(x) == IF x.path = "target_only" THEN 1 ELSE -1

LEMMA LeadGrows ==
  ASSUME NEW s \in Seq(CallRecords), NEW x \in CallRecords, NEW S \in SUBSET (1..Len(s))
  PROVE  /\ Lead(s, S) \in Int
         /\ Lead(Append(s, x), S) = Lead(s, S)
         /\ Lead(Append(s, x), S \cup {Len(s) + 1}) = Lead(s, S) + Weight(x)
<1>. DEFINE n == Len(s) + 1
            t == Append(s, x)
<1>1. \A p : /\ Count(s, S, p) \in Nat /\ Count(t, S, p) = Count(s, S, p)
            /\ Count(t, S \cup {n}, p) = Count(s, S, p) + IF x.path = p THEN 1 ELSE 0
  BY CountGrows
<1>2. x.path \in {"target_only", "speculative"}
  BY DEF CallRecords, Runners
<1>. HIDE DEF t, n
<1>5. \A p : x.path # p => Count(t, S \cup {n}, p) = Count(s, S, p)
  <2>. SUFFICES ASSUME NEW p, x.path # p PROVE Count(t, S \cup {n}, p) = Count(s, S, p)
    OBVIOUS
  <2>1. Count(t, S \cup {n}, p) = Count(s, S, p) + 0 /\ Count(s, S, p) \in Nat
    BY <1>1
  <2>. QED BY <2>1
<1>3. Lead(s, S) \in Int /\ Lead(t, S) = Lead(s, S)
  BY <1>1 DEF Lead
<1>4. Lead(t, S \cup {n}) = Lead(s, S) + Weight(x)
  <2>1. CASE x.path = "target_only"
    <3>1. /\ Count(t, S \cup {n}, "target_only") = Count(s, S, "target_only") + 1
          /\ Count(t, S \cup {n}, "speculative") = Count(s, S, "speculative")
      BY <1>1, <1>5, <2>1
    <3>. QED BY <1>1, <2>1, <3>1 DEF Lead, Weight
  <2>2. CASE x.path = "speculative"
    <3>1. /\ Count(t, S \cup {n}, "target_only") = Count(s, S, "target_only")
          /\ Count(t, S \cup {n}, "speculative") = Count(s, S, "speculative") + 1
      BY <1>1, <1>5, <2>2
    <3>. QED BY <1>1, <2>2, <3>1 DEF Lead, Weight
  <2>. QED BY <1>2, <2>1, <2>2
<1>. QED BY <1>3, <1>4 DEF t, n

\* Another sample moves the lead if it is the first of its pair.
LEMMA LeadsGrow ==
  ASSUME NEW s \in Seq(CallRecords), NEW x \in CallRecords
  PROVE  LET t == Append(s, x)
         IN  /\ Lead(s, Firsts(s)) \in Int
             /\ Lead(t, Firsts(t)) = Lead(s, Firsts(s)) + IF IsNew(s, x) THEN Weight(x) ELSE 0
             /\ \A p : /\ Lead(s, FirstsOf(s, p)) \in Int
                       /\ Lead(t, FirstsOf(t, p))
                            = Lead(s, FirstsOf(s, p))
                              + IF IsNew(s, x) /\ x.prompt = p THEN Weight(x) ELSE 0
<1>. DEFINE t == Append(s, x)
            n == Len(s) + 1
<1>1. /\ Firsts(t) = IF IsNew(s, x) THEN Firsts(s) \cup {n} ELSE Firsts(s)
      /\ Firsts(s) \subseteq 1..Len(s)
  BY FirstsGrow
<1>2. \A S \in SUBSET (1..Len(s)) : /\ Lead(s, S) \in Int /\ Lead(t, S) = Lead(s, S)
                                    /\ Lead(t, S \cup {n}) = Lead(s, S) + Weight(x)
  BY LeadGrows
<1>3. /\ Len(s) \in Nat /\ t[n] = x /\ n \notin 1..Len(s)
      /\ \A i \in 1..Len(s) : t[i] = s[i]
  BY LenProperties, AppendProperties
<1>. HIDE DEF t, n
<1>4. ASSUME NEW p
      PROVE  FirstsOf(t, p) = IF IsNew(s, x) /\ x.prompt = p THEN FirstsOf(s, p) \cup {n}
                                                             ELSE FirstsOf(s, p)
  <2>1. \A i \in Firsts(s) : t[i] = s[i]
    BY <1>1, <1>3
  <2>. QED BY <1>1, <1>3, <2>1 DEF FirstsOf
<1>5. \A p : FirstsOf(s, p) \in SUBSET (1..Len(s))
  BY <1>1 DEF FirstsOf
<1>6. \A S \in SUBSET (1..Len(s)) : Lead(t, S) = Lead(s, S) + 0
  <2>. TAKE S \in SUBSET (1..Len(s))
  <2>1. Lead(s, S) \in Int /\ Lead(t, S) = Lead(s, S)
    BY <1>2
  <2>. QED BY <2>1
<1>7. Lead(t, Firsts(t)) = Lead(s, Firsts(s)) + IF IsNew(s, x) THEN Weight(x) ELSE 0
  BY <1>1, <1>2, <1>6
<1>8. ASSUME NEW p
      PROVE  Lead(t, FirstsOf(t, p)) = Lead(s, FirstsOf(s, p))
                                       + IF IsNew(s, x) /\ x.prompt = p THEN Weight(x) ELSE 0
  BY <1>2, <1>4, <1>5, <1>6
<1>. QED BY <1>1, <1>2, <1>5, <1>7, <1>8 DEF t

LEMMA LeadOfNothing ==
  ASSUME NEW s, s = <<>>
  PROVE  Lead(s, Firsts(s)) = 0 /\ \A p : Lead(s, FirstsOf(s, p)) = 0
<1>1. Firsts(s) = {} /\ \A p : FirstsOf(s, p) = {}
  BY DEF Firsts, FirstsOf
<1>2. Lead(s, {}) = 0
  <2>1. {i \in {} : s[i].path = "target_only"} = {} /\ {i \in {} : s[i].path = "speculative"} = {}
    OBVIOUS
  <2>. QED BY <2>1, FS_EmptySet DEF Lead, Count
<1>. QED BY <1>1, <1>2

\* Even and odd.
LEMMA Parity ==
  ASSUME NEW a \in Nat, NEW b \in Nat
  PROVE  /\ a % 2 \in {0, 1} /\ (a + 1) % 2 = 1 - (a % 2)
         /\ (a + b) % 2 = IF a % 2 = b % 2 THEN 0 ELSE 1
         /\ 0 % 2 = 0
OBVIOUS

LEMMA SignType ==
  ASSUME NEW r \in Nat, NEW p \in Nat
  PROVE  /\ Sign(r, p) \in {-1, 1} /\ Sign(r, p) = IF r % 2 = p % 2 THEN 1 ELSE -1
         /\ r % 2 \in {0, 1} /\ p % 2 \in {0, 1}
BY Parity DEF Sign

\* A pair moves the lead as far as the next place says.
LEMMA LeadAdvances ==
  ASSUME NEW r \in Nat, NEW p \in Nat, config.prompts \in Nat, p < config.prompts
  PROVE  /\ LeadAt(r, p) \in -1..1 /\ LeadAt(r, p) + Sign(r, p) \in -1..1
         /\ LeadAt(r, p) + Sign(r, p)
              = IF p + 1 < config.prompts THEN LeadAt(r, p + 1) ELSE LeadAt(r + 1, 0)
<1>. DEFINE n == config.prompts
<1>1. /\ r % 2 \in {0, 1} /\ p % 2 \in {0, 1} /\ n % 2 \in {0, 1}
      /\ (p + 1) % 2 = 1 - (p % 2) /\ (r + 1) % 2 = 1 - (r % 2) /\ 0 % 2 = 0
  BY Parity
<1>2. Sign(r, p) = (IF r % 2 = p % 2 THEN 1 ELSE -1) /\ Sign(r, 0) = IF r % 2 = 0 THEN 1 ELSE -1
  BY <1>1, SignType
<1>3. Sign(r + 1, 0) = IF (r + 1) % 2 = 0 THEN 1 ELSE -1
  BY <1>1, SignType
<1>4. /\ (r + p) % 2 = IF r % 2 = p % 2 THEN 0 ELSE 1
      /\ (r + (p + 1)) % 2 = IF r % 2 = (p + 1) % 2 THEN 0 ELSE 1
      /\ ((r + 1) + 0) % 2 = IF (r + 1) % 2 = 0 THEN 0 ELSE 1
  BY <1>1, Parity
<1>5. p + 1 = n => n % 2 = 1 - (p % 2)
  BY <1>1
<1>6. CASE n % 2 = 0
  <2>1. \A i, j : LeadAt(i, j) = IF j % 2 = 0 THEN 0 ELSE Sign(i, 0)
    BY <1>6 DEF LeadAt
  <2>2. p + 1 < n \/ p + 1 = n
    OBVIOUS
  <2>. HIDE DEF n
  <2>. QED BY <1>1, <1>2, <1>3, <1>5, <1>6, <2>1, <2>2 DEF n
<1>7. CASE n % 2 = 1
  <2>1. \A i, j : LeadAt(i, j) = IF (i + j) % 2 = 0 THEN 0 ELSE 1
    BY <1>7 DEF LeadAt
  <2>2. p + 1 < n \/ p + 1 = n
    OBVIOUS
  <2>. HIDE DEF n
  <2>. QED BY <1>1, <1>2, <1>4, <1>5, <1>7, <2>1, <2>2 DEF n
<1>. QED BY <1>1, <1>6, <1>7

LEMMA LeadOfAdvances ==
  ASSUME NEW p \in Nat, NEW k \in Nat
  PROVE  LeadOf(p, k) \in -1..1 /\ LeadOf(p, k) + Sign(k, p) = LeadOf(p, k + 1)
<1>1. /\ k % 2 \in {0, 1} /\ p % 2 \in {0, 1} /\ (k + 1) % 2 = 1 - (k % 2) /\ 0 % 2 = 0
  BY Parity
<1>2. /\ Sign(k, p) = (IF k % 2 = p % 2 THEN 1 ELSE -1)
      /\ Sign(0, p) = IF 0 = p % 2 THEN 1 ELSE -1
  BY <1>1, SignType
<1>. QED BY <1>1, <1>2 DEF LeadOf

-----------------------------------------------------------------------------
(* The benchmark: the steps.                                               *)

LEMMA ScheduledStays ==
  ASSUME UNCHANGED config
  PROVE  /\ \A c : Scheduled(c)' <=> Scheduled(c)
         /\ WarmPairs' = WarmPairs /\ AllPairs' = AllPairs
BY DEF Scheduled, WarmPairs, AllPairs

LEMMA EvenStays ==
  ASSUME Even, UNCHANGED <<config, loop, round, prompt, turn, samples>>
  PROVE  Even'
BY DEF Even, Begun, LeadAt

\* A longer sequence of calls knows more work.
LEMMA KnownGrows ==
  ASSUME Calls, NEW c \in CallRecords
  PROVE  LET next == {Append(calls, c)[i] : i \in DOMAIN Append(calls, c)} \cup {Bench!Loading}
         IN  /\ Known \subseteq next /\ c \in next /\ Seq(Known) \subseteq Seq(next)
<1>. DEFINE t == Append(calls, c)
            next == {t[i] : i \in DOMAIN t} \cup {Bench!Loading}
<1>1. /\ Len(calls) \in Nat /\ DOMAIN calls = 1..Len(calls)
      /\ DOMAIN t = 1..Len(calls) + 1 /\ t[Len(calls) + 1] = c
      /\ \A i \in 1..Len(calls) : t[i] = calls[i]
  <2>1. /\ calls \in Seq(CallRecords) /\ Len(calls) \in Nat /\ DOMAIN calls = 1..Len(calls)
    BY LenProperties DEF Calls
  <2>2. /\ t \in Seq(CallRecords) /\ Len(t) = Len(calls) + 1 /\ t[Len(calls) + 1] = c
        /\ \A i \in 1..Len(calls) : t[i] = calls[i]
    BY <2>1, AppendProperties
  <2>. QED BY <2>1, <2>2, LenProperties
<1>. HIDE DEF t
<1>2. Known \subseteq next
  BY <1>1 DEF Known
<1>3. c \in next
  BY <1>1
<1>. HIDE DEF next
<1>4. Seq(Known) \subseteq Seq(next)
  BY <1>2
<1>. QED BY <1>2, <1>3, <1>4 DEF next, t

LEMMA BeginStep ==
  ASSUME BenchInv, Bench!Begin
  PROVE  BenchInv'
<1>1. /\ UNCHANGED <<config, loop, round, prompt, turn, samples, newest>>
      /\ config \in Bench!Configs /\ Position /\ Calls /\ Sampled /\ Charged /\ Even
      /\ InMotion /\ running = FALSE /\ running' = TRUE
      /\ calls' = Append(calls, Bench!Call) /\ queue' = <<>> /\ span' = <<>> /\ callbacks' = 0
      /\ peak' = IF loop = "measure" THEN {} ELSE peak
  BY DEF BenchInv, Bench!Begin, Bench!Synchronize, Bench!ResetPeak, Bench!counters, InMotion,
         Position
<1>2. Bench!Seed' = Bench!Seed /\ Bench!Call' = Bench!Call /\ (InMotion' <=> InMotion)
  BY <1>1 DEF Bench!Seed, Bench!Call, Bench!Order, InMotion
<1>3. /\ Bench!Call \in CallRecords /\ Scheduled(Bench!Call)
      /\ Numbered(Bench!Call, 2 * Bench!Seed + turn)
      /\ Bench!Seed \in Nat /\ turn \in {1, 2}
  BY <1>1, CallNow, SeedNow
<1>4. /\ calls \in Seq(CallRecords) /\ Len(calls) \in Nat
      /\ calls' \in Seq(CallRecords) /\ Len(calls') = Len(calls) + 1
      /\ calls'[Len(calls) + 1] = Bench!Call
      /\ \A i \in 1..Len(calls) : calls'[i] = calls[i]
  BY <1>1, <1>3, AppendProperties, LenProperties DEF Calls
<1>5. Len(calls) + 1 = 2 * Bench!Seed + turn
  BY <1>1, <1>3, <1>4 DEF Position
<1>6. /\ \A c : Scheduled(c)' <=> Scheduled(c)
      /\ WarmPairs' = WarmPairs /\ AllPairs' = AllPairs /\ WarmPairs \in Nat
  BY <1>1, ScheduledStays, ConfigTypes
<1>7. Position'
  <2>1. Len(calls') = (2 * Bench!Seed' + turn') - 0
    BY <1>1, <1>2, <1>3, <1>4, <1>5
  <2>2. loop' # "done"
    BY <1>1 DEF InMotion
  <2>. QED BY <1>1, <1>2, <2>1, <2>2 DEF Position
<1>8. Calls'
  <2>1. ASSUME NEW i \in 1..Len(calls')
        PROVE  Scheduled(calls'[i]) /\ Numbered(calls'[i], i)
    <3>1. CASE i \in 1..Len(calls)
      BY <1>1, <1>4, <3>1 DEF Calls
    <3>2. CASE i \notin 1..Len(calls)
      <4>1. i = Len(calls) + 1
        BY <1>4, <3>2
      <4>. QED BY <1>3, <1>4, <1>5, <4>1
    <3>. QED BY <3>1, <3>2
  <2>. QED BY <1>4, <1>6, <2>1 DEF Calls
<1>9. Sampled'
  <2>1. samples \in Seq(CallRecords) /\ Len(samples) \in Nat
    BY <1>1, LenProperties DEF Sampled
  <2>2. /\ loop = "warmup" => samples = <<>>
        /\ loop = "measure" => Len(samples) = Len(calls) - 2 * WarmPairs
        /\ samples # <<>> => Len(samples) <= Len(calls) - 2 * WarmPairs
        /\ loop # "done"
    BY <1>1, <1>4, <1>6 DEF Sampled, InMotion
  <2>3. \A i \in 1..Len(samples) : samples[i] = calls'[2 * WarmPairs + i]
    <3>. TAKE i \in 1..Len(samples)
    <3>1. samples[i] = calls[2 * WarmPairs + i]
      BY <1>1 DEF Sampled
    <3>2. samples # <<>>
      BY <2>1, EmptySeq
    <3>3. 2 * WarmPairs + i \in 1..Len(calls)
      BY <1>4, <1>6, <2>1, <2>2, <3>2
    <3>. QED BY <1>4, <3>1, <3>3
  <2>4. /\ loop' = "measure" => Len(samples') = Len(calls') - 2 * WarmPairs' - 1
        /\ samples' # <<>> => Len(samples') <= Len(calls') - 2 * WarmPairs'
    BY <1>1, <1>4, <1>6, <2>1, <2>2
  <2>. QED BY <1>1, <1>6, <2>1, <2>2, <2>3, <2>4 DEF Sampled
<1>10. Charged'
  <2>1. Known \subseteq Known'
    BY <1>1, <1>3, KnownGrows DEF Known
  <2>2. peak' \subseteq Known'
    BY <1>1, <2>1 DEF Charged
  <2>3. queue' \in Seq(Known)' /\ span' \in Seq(Known)' /\ Len(queue') = 0 /\ Len(span') = 0
    BY <1>1
  <2>4. calls'[Len(calls')] = Bench!Call'
    BY <1>2, <1>4
  <2>5. callbacks' \in 0..MaxCallbacks
    BY <1>1, ConfigTypes
  <2>6. (newest.tokens \in Nat /\ Bench!OwnWork /\ Bench!OwnPeak)'
    BY <1>1 DEF Charged, Bench!OwnWork, Bench!OwnPeak
  <2>. QED BY <1>1, <2>2, <2>3, <2>4, <2>5, <2>6 DEF Charged
<1>11. Even'
  BY <1>1, EvenStays
<1>. QED BY <1>1, <1>7, <1>8, <1>9, <1>10, <1>11 DEF BenchInv

\* What does not move the schedule leaves what is said of it.
LEMMA ScheduleRests ==
  ASSUME Position, Calls, Sampled, Even,
         UNCHANGED <<config, loop, round, prompt, turn, running, calls, samples>>
  PROVE  Position' /\ Calls' /\ Sampled' /\ Even'
<1>1. Bench!Seed' = Bench!Seed /\ (InMotion' <=> InMotion)
  BY DEF Bench!Seed, InMotion
<1>2. /\ \A c : Scheduled(c)' <=> Scheduled(c)
      /\ WarmPairs' = WarmPairs /\ AllPairs' = AllPairs
  BY ScheduledStays
<1>3. Position'
  BY <1>1, <1>2 DEF Position
<1>4. Calls'
  BY <1>2 DEF Calls
<1>5. Sampled'
  BY <1>2 DEF Sampled
<1>6. Even'
  BY EvenStays
<1>. QED BY <1>3, <1>4, <1>5, <1>6

LEMMA TokenStep ==
  ASSUME BenchInv, Bench!Token
  PROVE  BenchInv'
<1>1. /\ UNCHANGED <<config, loop, round, prompt, turn, running, span, calls, samples, newest>>
      /\ config \in Bench!Configs /\ Position /\ Calls /\ Sampled /\ Charged /\ Even
      /\ running /\ InMotion /\ callbacks < MaxCallbacks /\ callbacks' = callbacks + 1
      /\ queue' = Append(queue, Bench!Call) /\ peak' = peak \cup {Bench!Call}
  BY DEF BenchInv, Bench!Token, Bench!counters, Position
<1>2. Position' /\ Calls' /\ Sampled' /\ Even'
  BY <1>1, ScheduleRests
<1>3. Bench!Call' = Bench!Call /\ Known' = Known
  BY <1>1 DEF Bench!Seed, Bench!Call, Bench!Order, Known
<1>4. /\ Bench!Seed \in Nat /\ turn \in {1, 2} /\ MaxCallbacks \in Nat
  BY <1>1, SeedNow, ConfigTypes
<1>5. /\ callbacks \in Nat /\ queue \in Seq(Known) /\ span \in Seq(Known) /\ peak \subseteq Known
      /\ Len(queue) \in Nat /\ Len(span) \in Nat
      /\ calls[Len(calls)] = Bench!Call /\ Len(span) + Len(queue) = callbacks
      /\ \A i \in 1..Len(span) : span[i] = Bench!Call
      /\ \A i \in 1..Len(queue) : queue[i] = Bench!Call
      /\ loop = "measure" => peak = IF callbacks = 0 THEN {} ELSE {Bench!Call}
  BY <1>1, <1>4, LenProperties DEF Charged
<1>6. Bench!Call \in Known
  <2>1. calls \in Seq(CallRecords) /\ Len(calls) \in Nat /\ DOMAIN calls = 1..Len(calls)
    BY <1>1, LenProperties DEF Calls
  <2>2. Len(calls) = 2 * Bench!Seed + turn
    BY <1>1, <1>4 DEF Position
  <2>3. Len(calls) \in DOMAIN calls
    BY <1>4, <2>1, <2>2
  <2>. QED BY <1>5, <2>3 DEF Known
<1>7. /\ queue' \in Seq(Known) /\ Len(queue') = Len(queue) + 1
      /\ queue'[Len(queue) + 1] = Bench!Call
      /\ \A i \in 1..Len(queue) : queue'[i] = queue[i]
  BY <1>1, <1>5, <1>6, AppendProperties
<1>8. Charged'
  <2>1. \A i \in 1..Len(queue') : queue'[i] = Bench!Call
    <3>1. \A i \in 1..Len(queue') : i \in 1..Len(queue) \/ i = Len(queue) + 1
      BY <1>5, <1>7
    <3>. QED BY <1>5, <1>7, <3>1
  <2>2. Len(span') + Len(queue') = callbacks'
    BY <1>1, <1>5, <1>7
  <2>3. callbacks' \in 0..MaxCallbacks /\ callbacks' # 0
    BY <1>1, <1>4, <1>5
  <2>4. loop' = "measure" => peak' = {Bench!Call}
    BY <1>1, <1>5
  <2>5. peak' \subseteq Known
    BY <1>1, <1>5, <1>6
  <2>6. (newest.tokens \in Nat /\ Bench!OwnWork /\ Bench!OwnPeak)'
    BY <1>1 DEF Charged, Bench!OwnWork, Bench!OwnPeak
  <2>. QED BY <1>1, <1>3, <1>5, <1>7, <2>1, <2>2, <2>3, <2>4, <2>5, <2>6 DEF Charged
<1>. QED BY <1>1, <1>2, <1>8 DEF BenchInv

LEMMA WorkStep ==
  ASSUME BenchInv, Bench!Work
  PROVE  BenchInv'
<1>1. /\ UNCHANGED <<config, loop, round, prompt, turn, running, callbacks, peak, calls, samples,
                     newest>>
      /\ config \in Bench!Configs /\ Position /\ Calls /\ Sampled /\ Charged /\ Even
      /\ queue # <<>> /\ queue' = Tail(queue) /\ span' = Append(span, Head(queue))
  BY DEF BenchInv, Bench!Work, Bench!counters
<1>2. Position' /\ Calls' /\ Sampled' /\ Even'
  BY <1>1, ScheduleRests
<1>3. Bench!Call' = Bench!Call /\ Known' = Known
  BY <1>1 DEF Bench!Seed, Bench!Call, Bench!Order, Known
<1>4. /\ queue \in Seq(Known) /\ span \in Seq(Known) /\ Len(span) \in Nat /\ Len(queue) \in Nat \ {0}
  BY <1>1, LenProperties, EmptySeq DEF Charged
<1>5. /\ queue' \in Seq(Known) /\ Len(queue') = Len(queue) - 1
      /\ \A i \in 1..Len(queue) - 1 : queue'[i] = queue[i + 1]
      /\ Head(queue) = queue[1] /\ Head(queue) \in Known
  BY <1>1, <1>4, HeadTailProperties
<1>6. /\ span' \in Seq(Known) /\ Len(span') = Len(span) + 1
      /\ span'[Len(span) + 1] = Head(queue)
      /\ \A i \in 1..Len(span) : span'[i] = span[i]
  BY <1>1, <1>4, <1>5, AppendProperties
<1>7. ASSUME running
      PROVE  /\ Len(span') + Len(queue') = callbacks
             /\ \A i \in 1..Len(span') : span'[i] = Bench!Call
             /\ \A i \in 1..Len(queue') : queue'[i] = Bench!Call
  <2>1. /\ Len(span) + Len(queue) = callbacks
        /\ \A i \in 1..Len(span) : span[i] = Bench!Call
        /\ \A i \in 1..Len(queue) : queue[i] = Bench!Call
    BY <1>1, <1>7 DEF Charged
  <2>2. Len(span') + Len(queue') = callbacks
    BY <1>4, <1>5, <1>6, <2>1
  <2>3. \A i \in 1..Len(span') : i \in 1..Len(span) \/ i = Len(span) + 1
    BY <1>4, <1>6
  <2>4. 1 \in 1..Len(queue)
    BY <1>4
  <2>5. \A i \in 1..Len(queue') : i + 1 \in 1..Len(queue) /\ i \in 1..Len(queue) - 1
    BY <1>4, <1>5
  <2>6. \A i \in 1..Len(span') : span'[i] = Bench!Call
    BY <1>5, <1>6, <2>1, <2>3, <2>4
  <2>7. \A i \in 1..Len(queue') : queue'[i] = Bench!Call
    BY <1>5, <2>1, <2>5
  <2>. QED BY <2>2, <2>6, <2>7
<1>8. (newest.tokens \in Nat /\ Bench!OwnWork /\ Bench!OwnPeak)'
  BY <1>1 DEF Charged, Bench!OwnWork, Bench!OwnPeak
<1>9. Charged'
  BY <1>1, <1>3, <1>5, <1>6, <1>7, <1>8 DEF Charged
<1>. QED BY <1>1, <1>2, <1>9 DEF BenchInv

\* A sample is the first of its pair just when its call was the first.
LEMMA NewSample ==
  ASSUME config \in Bench!Configs, Position, Calls, Sampled, running, loop = "measure"
  PROVE  IsNew(samples, Bench!Call) <=> turn = 1
<1>. DEFINE x == Bench!Call
            seed == Bench!Seed
            n == Len(samples)
<1>1. /\ seed \in Nat /\ turn \in {1, 2} /\ WarmPairs \in Nat /\ seed >= WarmPairs
  <2>1. /\ seed \in Nat /\ round * config.prompts \in Nat /\ prompt \in Nat /\ turn \in {1, 2}
        /\ seed = WarmPairs + round * config.prompts + prompt /\ WarmPairs \in Nat
    BY SeedNow, ConfigTypes
  <2>. HIDE DEF seed
  <2>. QED BY <2>1
<1>2. /\ n \in Nat /\ Len(calls) \in Nat /\ Len(calls) = 2 * seed + turn
      /\ n = Len(calls) - 2 * WarmPairs - 1
  <2>1. n \in Nat /\ Len(calls) \in Nat
    BY LenProperties DEF Sampled, Calls
  <2>2. Len(calls) = (2 * seed + turn) - 0
    BY DEF Position, InMotion
  <2>3. n = Len(calls) - 2 * WarmPairs - 1
    BY DEF Sampled
  <2>. QED BY <1>1, <2>1, <2>2, <2>3
<1>3. Scheduled(x) /\ x.seed = seed /\ x.stage = "measure"
  BY CallNow DEF InMotion
<1>. HIDE DEF seed, n, x
<1>4. ASSUME NEW i \in 1..n
      PROVE  /\ samples[i].seed \in Nat
             /\ 2 * WarmPairs + i = 2 * samples[i].seed + 1
                  \/ 2 * WarmPairs + i = 2 * samples[i].seed + 2
             /\ <<x.prompt, x.round>> = <<samples[i].prompt, samples[i].round>>
                  <=> samples[i].seed = seed
  <2>. DEFINE k == 2 * WarmPairs + i
              c == calls[k]
  <2>1. k \in 1..Len(calls)
    BY <1>1, <1>2
  <2>2. c = samples[i]
    BY DEF Sampled, n
  <2>3. Scheduled(c) /\ c.seed \in Nat /\ (k = 2 * c.seed + 1 \/ k = 2 * c.seed + 2)
    BY <2>1, NumberOf
  <2>. HIDE DEF c
  <2>4. ~(c.seed < WarmPairs)
    BY <1>1, <2>3
  <2>5. c.stage = "measure"
    BY <2>3, <2>4, SeedBounds
  <2>6. c.seed = x.seed <=> c.stage = x.stage /\ c.round = x.round /\ c.prompt = x.prompt
    BY <1>3, <2>3, SeedDetermines
  <2>. QED BY <1>3, <2>2, <2>3, <2>5, <2>6
<1>5. CASE turn = 1
  <2>1. ASSUME NEW i \in 1..n PROVE samples[i].seed # seed
    BY <1>1, <1>2, <1>4, <1>5
  <2>. QED BY <1>4, <1>5, <2>1 DEF IsNew, n, x
<1>6. CASE turn = 2
  <2>1. n \in 1..n /\ 2 * WarmPairs + n = 2 * seed + 1
    BY <1>1, <1>2, <1>6
  <2>2. samples[n].seed = seed
    <3>. DEFINE own == samples[n].seed
    <3>1. own \in Nat /\ (2 * seed + 1 = 2 * own + 1 \/ 2 * seed + 1 = 2 * own + 2)
      BY <1>4, <2>1
    <3>. HIDE DEF own
    <3>2. own = seed
      BY <1>1, <3>1
    <3>. QED BY <3>2 DEF own
  <2>3. <<x.prompt, x.round>> = <<samples[n].prompt, samples[n].round>>
    BY <1>4, <2>1, <2>2
  <2>. QED BY <1>6, <2>1, <2>3 DEF IsNew, n, x
<1>. QED BY <1>1, <1>5, <1>6

LEMMA CallWeight ==
  ASSUME loop = "measure", turn = 1
  PROVE  Weight(Bench!Call) = Sign(round, prompt)
<1>1. Bench!Call.path = Bench!Order[1]
  BY DEF Bench!Call
<1>2. Bench!Order[1] = IF (round + prompt) % 2 = 0 THEN "target_only" ELSE "speculative"
  BY DEF Bench!Order
<1>. QED BY <1>1, <1>2 DEF Weight, Sign

\* A sample keeps the balance.
LEMMA EvenWhenMeasured ==
  ASSUME config \in Bench!Configs, Position, Calls, Sampled, Even,
         running, loop = "measure", Bench!Advance, UNCHANGED config,
         samples' = Append(samples, Bench!Call)
  PROVE  Even'
<1>. DEFINE n == config.prompts
            x == Bench!Call
            all(s) == Lead(s, Firsts(s))
            of(s, p) == Lead(s, FirstsOf(s, p))
<1>1. /\ round \in Nat /\ prompt \in Nat /\ prompt < n /\ n \in Nat /\ turn \in {1, 2}
  BY SeedNow, ConfigTypes DEF Position
<1>2. InMotion /\ x \in CallRecords /\ x.prompt = prompt
  BY CallNow DEF InMotion
<1>3. samples \in Seq(CallRecords)
  BY DEF Sampled
<1>4. /\ all(samples) \in Int
      /\ all(samples') = all(samples) + IF IsNew(samples, x) THEN Weight(x) ELSE 0
      /\ \A p : /\ of(samples, p) \in Int
                /\ of(samples', p) = of(samples, p)
                                     + IF IsNew(samples, x) /\ x.prompt = p THEN Weight(x) ELSE 0
  BY <1>2, <1>3, LeadsGrow
<1>5. IsNew(samples, x) <=> turn = 1
  BY NewSample
<1>6. turn = 1 => Weight(x) = Sign(round, prompt)
  BY CallWeight
<1>7. /\ all(samples) = LeadAt(round, prompt) + IF turn = 1 THEN 0 ELSE Sign(round, prompt)
      /\ \A p \in 0..n - 1 : of(samples, p) = LeadOf(p, Begun(p))
      /\ all(samples) \in -1..1
      /\ \A p \in 0..n - 1 : of(samples, p) \in -1..1
  BY DEF Even
<1>8. /\ LeadAt(round, prompt) \in -1..1 /\ LeadAt(round, prompt) + Sign(round, prompt) \in -1..1
      /\ LeadAt(round, prompt) + Sign(round, prompt)
           = IF prompt + 1 < n THEN LeadAt(round, prompt + 1) ELSE LeadAt(round + 1, 0)
  BY <1>1, LeadAdvances
<1>9. \A r, p : LeadAt(r, p)' = LeadAt(r', p')
  BY DEF LeadAt
<1>10. Even' <=> /\ all(samples') \in -1..1
                 /\ \A p \in 0..n - 1 : of(samples', p) \in -1..1
                 /\ loop' = "measure" =>
                      /\ all(samples') = LeadAt(round', prompt')
                                         + IF turn' = 1 THEN 0 ELSE Sign(round', prompt')
                      /\ \A p \in 0..n - 1 : of(samples', p) = LeadOf(p, Begun(p)')
  BY DEF Even, LeadAt
<1>. HIDE DEF all, of, x
<1>11. CASE turn = 1
  <2>1. turn' = 2 /\ UNCHANGED <<loop, round, prompt>>
    BY <1>1, <1>2, <1>11, Advances
  <2>2. all(samples') = LeadAt(round, prompt) + Sign(round, prompt)
    BY <1>1, <1>4, <1>5, <1>6, <1>7, <1>8, <1>11, SignType
  <2>3. ASSUME NEW p \in 0..n - 1
        PROVE  of(samples', p) = LeadOf(p, Begun(p)') /\ of(samples', p) \in -1..1
    <3>1. p \in Nat
      BY <1>1
    <3>2. CASE p = prompt
      <4>1. Begun(p) = round /\ Begun(p)' = round + 1
        BY <1>1, <1>11, <2>1, <3>2 DEF Begun
      <4>2. of(samples', p) = LeadOf(p, round) + Sign(round, p)
        BY <1>2, <1>4, <1>5, <1>6, <1>7, <1>11, <3>2, <4>1
      <4>. QED BY <1>1, <3>1, <4>1, <4>2, LeadOfAdvances
    <3>3. CASE p # prompt
      <4>1. Begun(p)' = Begun(p)
        BY <1>1, <1>11, <2>1, <3>1, <3>3 DEF Begun
      <4>2. of(samples', p) = of(samples, p)
        <5>1. of(samples', p) = of(samples, p) + 0 /\ of(samples, p) \in Int
          BY <1>2, <1>4, <3>3
        <5>. QED BY <5>1
      <4>. QED BY <1>7, <4>1, <4>2
    <3>. QED BY <3>2, <3>3
  <2>4. all(samples') \in -1..1
    BY <1>8, <2>2
  <2>. QED BY <1>10, <2>1, <2>2, <2>3, <2>4
<1>12. CASE turn = 2
  <2>1. all(samples') = all(samples) /\ \A p : of(samples', p) = of(samples, p)
    <3>1. \A i \in Int : i + 0 = i
      OBVIOUS
    <3>. QED BY <1>4, <1>5, <1>12, <3>1
  <2>2. all(samples) = LeadAt(round, prompt) + Sign(round, prompt)
    BY <1>7, <1>12
  <2>3. ASSUME loop' = "measure"
        PROVE  /\ turn' = 1
               /\ all(samples') = LeadAt(round', prompt')
               /\ \A p \in 0..n - 1 : Begun(p)' = Begun(p)
    <3>1. CASE /\ turn = 2 /\ turn' = 1 /\ prompt + 1 < n /\ prompt' = prompt + 1
               /\ UNCHANGED <<loop, round>>
      <4>1. all(samples') = LeadAt(round', prompt')
        BY <1>8, <2>1, <2>2, <3>1
      <4>2. ASSUME NEW p \in 0..n - 1 PROVE Begun(p)' = Begun(p)
        BY <1>1, <3>1 DEF Begun
      <4>. QED BY <3>1, <4>1, <4>2
    <3>2. CASE /\ turn = 2 /\ turn' = 1 /\ prompt + 1 = n /\ prompt' = 0
               /\ round' = round + 1 /\ UNCHANGED loop
      <4>1. all(samples') = LeadAt(round', prompt')
        BY <1>1, <1>8, <2>1, <2>2, <3>2
      <4>2. ASSUME NEW p \in 0..n - 1 PROVE Begun(p)' = Begun(p)
        BY <1>1, <3>2 DEF Begun
      <4>. QED BY <3>2, <4>1, <4>2
    <3>. QED BY <1>1, <1>2, <1>12, <2>3, <3>1, <3>2, Advances
  <2>4. /\ LeadAt(round', prompt') + 0 = LeadAt(round', prompt') \/ loop' # "measure"
    BY <1>7, <2>1, <2>3
  <2>5. all(samples') \in -1..1 /\ \A p \in 0..n - 1 : of(samples', p) \in -1..1
    BY <1>7, <2>1
  <2>6. \A p \in 0..n - 1 : loop' = "measure" => of(samples', p) = LeadOf(p, Begun(p)')
    BY <1>7, <2>1, <2>3
  <2>. QED BY <1>10, <2>3, <2>4, <2>5, <2>6
<1>. QED BY <1>1, <1>11, <1>12

\* At the first place nobody is ahead.
LEMMA LeadAtFirst ==
  LeadAt(0, 0) = 0 /\ LeadAt(0, 0)' = 0 /\ \A p : LeadOf(p, 0) = 0
<1>1. 0 % 2 = 0 /\ (0 + 0) % 2 = 0
  OBVIOUS
<1>. QED BY <1>1 DEF LeadAt, LeadOf

\* The device is waited for: it does what is queued.
LEMMA Awaited ==
  ASSUME Bench!Synchronize, NEW S, queue \in Seq(S), span \in Seq(S),
         span' = span \o Bench!AwaitedWork
  PROVE  /\ queue' = <<>> /\ span' = span \o queue
         /\ span' \in Seq(S) /\ queue' \in Seq(S)
<1>1. queue' = <<>> /\ Len(queue') = 0 /\ Len(queue) \in Nat
  BY LenProperties DEF Bench!Synchronize
<1>2. SubSeq(queue, 1, Len(queue)) = queue
  BY SubSeqFull
<1>3. Bench!AwaitedWork = queue
  <2>1. Len(queue) - Len(queue') = Len(queue)
    BY <1>1
  <2>. QED BY <1>2, <2>1 DEF Bench!AwaitedWork
<1>4. span \o queue \in Seq(S)
  BY ConcatProperties
<1>. QED BY <1>1, <1>3, <1>4

LEMMA FailStep ==
  ASSUME BenchInv, Bench!Fail
  PROVE  BenchInv'
<1>1. /\ UNCHANGED <<config, round, prompt, turn, callbacks, peak, calls, samples, newest>>
      /\ config \in Bench!Configs /\ Position /\ Calls /\ Sampled /\ Charged /\ Even
      /\ running' = FALSE /\ loop' = "failed"
      /\ \/ UNCHANGED <<queue, span>>
         \/ Bench!Synchronize /\ span' = span \o Bench!AwaitedWork
  BY DEF BenchInv, Bench!Fail
<1>2. /\ \A c : Scheduled(c)' <=> Scheduled(c)
      /\ WarmPairs' = WarmPairs /\ AllPairs' = AllPairs
  BY <1>1, ScheduledStays
<1>3. Position'
  BY <1>1, <1>2 DEF Position, InMotion
<1>4. Calls'
  BY <1>1, <1>2 DEF Calls
<1>5. Sampled'
  BY <1>1, <1>2 DEF Sampled
<1>6. Charged'
  <2>1. Known' = Known
    BY <1>1 DEF Known
  <2>2. queue \in Seq(Known) /\ span \in Seq(Known)
    BY <1>1 DEF Charged
  <2>3. queue' \in Seq(Known) /\ span' \in Seq(Known)
    BY <1>1, <2>2, Awaited
  <2>4. (newest.tokens \in Nat /\ Bench!OwnWork /\ Bench!OwnPeak)'
    BY <1>1 DEF Charged, Bench!OwnWork, Bench!OwnPeak
  <2>5. callbacks' \in 0..MaxCallbacks /\ peak' \subseteq Known
    BY <1>1 DEF Charged
  <2>. QED BY <1>1, <2>1, <2>3, <2>4, <2>5 DEF Charged
<1>7. Even'
  BY <1>1 DEF Even
<1>. QED BY <1>1, <1>3, <1>4, <1>5, <1>6, <1>7 DEF BenchInv

\* What a sample is charged with when its call has returned.
LEMMA OwnCharge ==
  ASSUME Charged, running, loop = "measure", samples \in Seq(CallRecords),
         Bench!Call \in CallRecords,
         queue' = <<>>, span' = span \o queue, samples' = Append(samples, Bench!Call),
         newest' = [tokens |-> callbacks, elapsed |-> span', peak |-> peak],
         MaxCallbacks \in Nat
  PROVE  (newest.tokens \in Nat /\ Bench!OwnWork /\ Bench!OwnPeak)'
<1>. DEFINE x == Bench!Call
<1>1. /\ callbacks \in Nat /\ queue \in Seq(Known) /\ span \in Seq(Known)
      /\ Len(span) + Len(queue) = callbacks
      /\ \A i \in 1..Len(span) : span[i] = x
      /\ \A i \in 1..Len(queue) : queue[i] = x
      /\ peak = IF callbacks = 0 THEN {} ELSE {x}
  <2>1. callbacks \in Nat
    BY DEF Charged
  <2>2. /\ queue \in Seq(Known) /\ span \in Seq(Known)
        /\ Len(span) + Len(queue) = callbacks
    BY DEF Charged
  <2>3. /\ \A i \in 1..Len(span) : span[i] = x
        /\ \A i \in 1..Len(queue) : queue[i] = x
    BY DEF Charged
  <2>4. peak = IF callbacks = 0 THEN {} ELSE {x}
    BY DEF Charged
  <2>. QED BY <2>1, <2>2, <2>3, <2>4
<1>2. samples'[Len(samples')] = x
  BY AppendProperties, LenProperties
<1>. HIDE DEF x
<1>3. Len(span) \in Nat /\ Len(queue) \in Nat
  BY <1>1, LenProperties
<1>4. /\ span' \in Seq(Known) /\ Len(span') = callbacks
      /\ \A i \in 1..callbacks : span'[i] = IF i <= Len(span) THEN span[i]
                                                              ELSE queue[i - Len(span)]
  BY <1>1, ConcatProperties
<1>5. \A i \in 1..callbacks : span'[i] = x
  <2>. TAKE i \in 1..callbacks
  <2>1. CASE i <= Len(span)
    BY <1>1, <1>3, <1>4, <2>1
  <2>2. CASE ~(i <= Len(span))
    <3>1. i - Len(span) \in 1..Len(queue)
      BY <1>1, <1>3, <2>2
    <3>. QED BY <1>1, <1>4, <2>2, <3>1
  <2>. QED BY <2>1, <2>2
<1>6. span' = [i \in 1..callbacks |-> x] /\ DOMAIN span' = 1..callbacks
  <2>1. DOMAIN span' = 1..callbacks /\ span' = [i \in 1..callbacks |-> span'[i]]
    BY <1>1, <1>4, LenProperties
  <2>. QED BY <1>5, <2>1
<1>7. newest'.tokens = callbacks /\ newest'.elapsed = span' /\ newest'.peak = peak
  OBVIOUS
<1>8. Bench!OwnWork'
  BY <1>2, <1>6, <1>7 DEF Bench!OwnWork
<1>9. Bench!OwnPeak'
  <2>1. {span'[i] : i \in 1..callbacks} = IF callbacks = 0 THEN {} ELSE {x}
    <3>1. CASE callbacks = 0
      <4>1. 1..callbacks = {}
        BY <3>1
      <4>. QED BY <3>1, <4>1
    <3>2. CASE callbacks # 0
      <4>1. 1 \in 1..callbacks
        BY <1>1, <3>2
      <4>. QED BY <1>5, <3>2, <4>1
    <3>. QED BY <3>1, <3>2
  <2>. QED BY <1>1, <1>6, <1>7, <2>1 DEF Bench!OwnPeak
<1>. QED BY <1>1, <1>7, <1>8, <1>9

LEMMA ReturnStep ==
  ASSUME BenchInv, Bench!Return
  PROVE  BenchInv'
<1>1. /\ UNCHANGED <<config, callbacks, peak, calls>>
      /\ config \in Bench!Configs /\ Position /\ Calls /\ Sampled /\ Charged /\ Even
      /\ running /\ running' = FALSE /\ Bench!Synchronize /\ Bench!Advance
      /\ span' = span \o Bench!AwaitedWork
      /\ loop = "warmup" => UNCHANGED <<samples, newest>>
      /\ loop # "warmup" =>
           /\ samples' = Append(samples, Bench!Call)
           /\ newest' = [tokens |-> callbacks, elapsed |-> span', peak |-> peak]
  BY DEF BenchInv, Bench!Return
<1>2. InMotion /\ loop \in {"warmup", "measure"}
  BY <1>1 DEF Position, InMotion
<1>3. /\ \A c : Scheduled(c)' <=> Scheduled(c)
      /\ WarmPairs' = WarmPairs /\ AllPairs' = AllPairs /\ WarmPairs \in Nat /\ MaxCallbacks \in Nat
  BY <1>1, ScheduledStays, ConfigTypes
<1>4. /\ Bench!Seed \in Nat /\ turn \in {1, 2} /\ Len(calls) = 2 * Bench!Seed + turn
      /\ Len(calls) \in Nat
  <2>1. Bench!Seed \in Nat /\ turn \in {1, 2}
    BY <1>1, SeedNow
  <2>2. Len(calls) = (2 * Bench!Seed + turn) - 0
    BY <1>1, <1>2 DEF Position
  <2>. QED BY <2>1, <2>2
<1>5. /\ loop' \in {"warmup", "measure", "done"}
      /\ prompt' \in Nat /\ prompt' < config.prompts /\ turn' \in {1, 2}
      /\ round' \in 0..MaxWarmups + MaxMeasured
      /\ loop' = "warmup" => round' < config.warmup_runs
      /\ loop' = "measure" => round' < config.measured_runs
      /\ InMotion' => 2 * Bench!Seed' + turn' = 2 * Bench!Seed + turn + 1
      /\ loop' = "done" => 2 * AllPairs = 2 * Bench!Seed + turn
      /\ loop = "measure" => loop' # "warmup"
      /\ loop = "warmup" => loop' # "done"
      /\ loop = "warmup" /\ loop' = "measure" => /\ 2 * Bench!Seed + turn = 2 * WarmPairs
                                                /\ round' = 0 /\ prompt' = 0 /\ turn' = 1
  BY <1>1, <1>2, NextNumber
<1>6. Position'
  <2>1. InMotion' => Len(calls') = (2 * Bench!Seed' + turn') - 1
    <3>. DEFINE now == 2 * Bench!Seed + turn
                next == 2 * Bench!Seed' + turn'
    <3>1. now \in Nat /\ Len(calls') = now /\ (InMotion' => next = now + 1)
      BY <1>1, <1>4, <1>5
    <3>. HIDE DEF now, next
    <3>2. InMotion' => Len(calls') = next - 1
      BY <3>1
    <3>. QED BY <3>2 DEF next
  <2>2. loop' = "done" => Len(calls') = 2 * AllPairs'
    BY <1>1, <1>3, <1>4, <1>5
  <2>. QED BY <1>1, <1>5, <2>1, <2>2 DEF Position
<1>7. Calls'
  BY <1>1, <1>3 DEF Calls
<1>8. /\ queue \in Seq(Known) /\ span \in Seq(Known) /\ Known' = Known
      /\ queue' = <<>> /\ span' = span \o queue
      /\ span' \in Seq(Known) /\ queue' \in Seq(Known)
  <2>1. queue \in Seq(Known) /\ span \in Seq(Known) /\ Known' = Known
    BY <1>1 DEF Charged, Known
  <2>. QED BY <1>1, <2>1, Awaited
<1>9. Bench!Call \in CallRecords /\ samples \in Seq(CallRecords) /\ Len(samples) \in Nat
  BY <1>1, <1>2, CallNow, LenProperties DEF Sampled
<1>10. ASSUME (newest.tokens \in Nat /\ Bench!OwnWork /\ Bench!OwnPeak)'
       PROVE  Charged'
  <2>1. callbacks' \in 0..MaxCallbacks /\ peak' \subseteq Known'
    BY <1>1, <1>8 DEF Charged
  <2>. QED BY <1>1, <1>8, <1>10, <2>1 DEF Charged
<1>11. CASE loop = "warmup"
  <2>1. samples = <<>> /\ samples' = <<>> /\ UNCHANGED <<samples, newest>>
    BY <1>1, <1>11 DEF Sampled
  <2>2. Sampled'
    <3>1. loop' = "measure" => Len(samples') = Len(calls') - 2 * WarmPairs' - 0
      BY <1>1, <1>3, <1>4, <1>5, <1>11, <2>1
    <3>2. samples' \in Seq(CallRecords) /\ 1..Len(samples') = {}
      BY <2>1
    <3>. QED BY <1>1, <1>5, <1>11, <2>1, <3>1, <3>2 DEF Sampled
  <2>3. Charged'
    <3>1. newest.tokens \in Nat /\ Bench!OwnWork /\ Bench!OwnPeak
      BY <1>1 DEF Charged
    <3>2. Bench!OwnWork'
      BY <2>1, <3>1 DEF Bench!OwnWork
    <3>3. Bench!OwnPeak'
      BY <2>1, <3>1 DEF Bench!OwnPeak
    <3>. QED BY <1>10, <2>1, <3>1, <3>2, <3>3
  <2>4. Even'
    <3>1. /\ Lead(samples', Firsts(samples')) = 0
          /\ \A p : Lead(samples', FirstsOf(samples', p)) = 0
      BY <2>1, LeadOfNothing
    <3>2. ASSUME loop' = "measure"
          PROVE  /\ LeadAt(round, prompt)' = 0 /\ turn' = 1
                 /\ \A p \in 0..config.prompts - 1 : LeadOf(p, Begun(p)') = 0
      <4>1. round' = 0 /\ prompt' = 0 /\ turn' = 1
        BY <1>5, <1>11, <3>2
      <4>2. LeadAt(round, prompt)' = LeadAt(0, 0)'
        BY <4>1 DEF LeadAt
      <4>3. ASSUME NEW p \in 0..config.prompts - 1 PROVE Begun(p)' = 0
        <5>1. p \in Nat
          BY <1>1, ConfigTypes
        <5>. QED BY <4>1, <5>1 DEF Begun
      <4>. QED BY <4>1, <4>2, <4>3, LeadAtFirst
    <3>3. \A p : LeadOf(p, Begun(p))' = LeadOf(p, Begun(p)')
      BY DEF LeadOf
    <3>4. 0 \in -1..1 /\ 0 + 0 = 0
      OBVIOUS
    <3>. QED BY <1>1, <3>1, <3>2, <3>3, <3>4 DEF Even
  <2>. QED BY <1>1, <1>6, <1>7, <2>2, <2>3, <2>4 DEF BenchInv
<1>12. CASE loop = "measure"
  <2>1. /\ samples' = Append(samples, Bench!Call)
        /\ newest' = [tokens |-> callbacks, elapsed |-> span', peak |-> peak]
    BY <1>1, <1>12
  <2>2. Sampled'
    <3>1. /\ samples' \in Seq(CallRecords) /\ Len(samples') = Len(samples) + 1
          /\ samples'[Len(samples) + 1] = Bench!Call
          /\ \A i \in 1..Len(samples) : samples'[i] = samples[i]
      BY <1>9, <2>1, AppendProperties
    <3>2. Len(samples) = Len(calls) - 2 * WarmPairs - 1
      BY <1>1, <1>12 DEF Sampled
    <3>3. Len(samples') = Len(calls) - 2 * WarmPairs
      BY <1>3, <1>4, <1>9, <3>1, <3>2
    <3>4. calls[2 * WarmPairs + (Len(samples) + 1)] = Bench!Call
      <4>1. 2 * WarmPairs + (Len(samples) + 1) = Len(calls)
        BY <1>3, <1>4, <1>9, <3>2
      <4>2. calls[Len(calls)] = Bench!Call
        BY <1>1 DEF Charged
      <4>. QED BY <4>1, <4>2
    <3>5. \A i \in 1..Len(samples') : samples'[i] = calls[2 * WarmPairs + i]
      <4>. TAKE i \in 1..Len(samples')
      <4>1. CASE i \in 1..Len(samples)
        BY <1>1, <3>1, <4>1 DEF Sampled
      <4>2. CASE i \notin 1..Len(samples)
        <5>1. i = Len(samples) + 1
          BY <1>9, <3>1, <4>2
        <5>. QED BY <3>1, <3>4, <5>1
      <4>. QED BY <4>1, <4>2
    <3>6. loop' # "warmup" /\ Len(samples') <= Len(calls) - 2 * WarmPairs
      BY <1>3, <1>4, <1>5, <1>12, <3>3
    <3>7. Len(samples') = Len(calls) - 2 * WarmPairs - 0
      BY <1>3, <1>4, <3>3
    <3>. QED BY <1>1, <1>3, <3>1, <3>3, <3>5, <3>6, <3>7 DEF Sampled
  <2>3. Charged'
    BY <1>1, <1>3, <1>8, <1>9, <1>10, <1>12, <2>1, OwnCharge
  <2>4. Even'
    BY <1>1, <1>12, <2>1, EvenWhenMeasured
  <2>. QED BY <1>1, <1>6, <1>7, <2>2, <2>3, <2>4 DEF BenchInv
<1>. QED BY <1>2, <1>11, <1>12

LEMMA BenchInit ==
  ASSUME Bench!Init
  PROVE  BenchInv
<1>1. /\ config \in Bench!Configs
      /\ loop = IF config.warmup_runs > 0 THEN "warmup" ELSE "measure"
      /\ round = 0 /\ prompt = 0 /\ turn = 1
      /\ running = FALSE /\ callbacks = 0
      /\ queue \in {<<>>, <<Bench!Loading>>}
      /\ span = <<>> /\ peak = {Bench!Loading}
      /\ calls = <<>> /\ samples = <<>>
      /\ newest = [tokens |-> 0, elapsed |-> <<>>, peak |-> {}]
  BY DEF Bench!Init
<1>2. /\ config.warmup_runs \in Nat /\ config.measured_runs \in Nat /\ config.measured_runs >= 1
      /\ config.prompts \in Nat /\ config.prompts >= 1 /\ WarmPairs \in Nat
      /\ MaxWarmups \in Nat /\ MaxMeasured \in Nat /\ MaxCallbacks \in Nat
  BY <1>1, ConfigTypes
<1>3. loop = "measure" => WarmPairs = 0
  <2>1. ASSUME loop = "measure" PROVE config.warmup_runs = 0
    BY <1>1, <1>2, <2>1
  <2>2. 0 * config.prompts = 0
    BY <1>2
  <2>. QED BY <2>1, <2>2 DEF WarmPairs
<1>4. Bench!Seed = 0
  <2>1. Bench!Seed = (IF loop = "measure" THEN WarmPairs ELSE 0) + 0 * config.prompts + 0
    BY <1>1 DEF Bench!Seed, WarmPairs
  <2>2. 0 * config.prompts = 0
    BY <1>2
  <2>. QED BY <1>3, <2>1, <2>2
<1>5. Len(calls) = 0 /\ calls \in Seq(CallRecords) /\ samples \in Seq(CallRecords)
      /\ Len(samples) = 0
  BY <1>1
<1>6. Position
  <2>1. Len(calls) = (2 * Bench!Seed + turn) - 1
    BY <1>1, <1>4, <1>5
  <2>2. 0 \in 0..MaxWarmups + MaxMeasured /\ 0 < config.prompts /\ 0 < config.measured_runs
    BY <1>2
  <2>3. loop = "warmup" => 0 < config.warmup_runs
    BY <1>1, <1>2
  <2>. QED BY <1>1, <2>1, <2>2, <2>3 DEF Position
<1>7. Calls
  BY <1>5 DEF Calls
<1>8. Sampled
  <2>1. loop = "measure" => Len(samples) = Len(calls) - 2 * WarmPairs - 0
    BY <1>3, <1>5
  <2>2. 1..Len(samples) = {} /\ loop # "done"
    BY <1>1, <1>5
  <2>. QED BY <1>1, <1>5, <2>1, <2>2 DEF Sampled
<1>9. Charged
  <2>1. Bench!Loading \in Known
    BY DEF Known
  <2>2. queue \in Seq(Known) /\ span \in Seq(Known) /\ peak \subseteq Known
    <3>1. <<>> \in Seq(Known) /\ <<Bench!Loading>> \in Seq(Known)
      BY <2>1
    <3>. QED BY <1>1, <2>1, <3>1
  <2>3. newest.tokens = 0 /\ newest.elapsed = <<>> /\ newest.peak = {} /\ 1..0 = {}
    BY <1>1
  <2>4. Bench!OwnWork
    <3>1. <<>> = [i \in 1..0 |-> samples[Len(samples)]]
      BY <2>3
    <3>. QED BY <2>3, <3>1 DEF Bench!OwnWork
  <2>5. Bench!OwnPeak
    BY <2>3 DEF Bench!OwnPeak
  <2>6. callbacks \in 0..MaxCallbacks
    BY <1>1, <1>2
  <2>. QED BY <1>1, <2>2, <2>3, <2>4, <2>5, <2>6 DEF Charged
<1>10. Even
  <2>1. /\ Lead(samples, Firsts(samples)) = 0
        /\ \A p : Lead(samples, FirstsOf(samples, p)) = 0
    BY <1>1, LeadOfNothing
  <2>2. LeadAt(round, prompt) = 0
    BY <1>1, LeadAtFirst
  <2>3. ASSUME NEW p \in 0..config.prompts - 1 PROVE LeadOf(p, Begun(p)) = 0
    <3>1. p \in Nat
      BY <1>2
    <3>2. Begun(p) = 0
      BY <1>1, <3>1 DEF Begun
    <3>. QED BY <3>2, LeadAtFirst
  <2>4. 0 \in -1..1 /\ 0 + 0 = 0
    OBVIOUS
  <2>. QED BY <1>1, <2>1, <2>2, <2>3, <2>4 DEF Even
<1>. QED BY <1>1, <1>6, <1>7, <1>8, <1>9, <1>10 DEF BenchInv

LEMMA BenchRest ==
  ASSUME BenchInv, UNCHANGED Bench!vars
  PROVE  BenchInv'
<1>1. /\ UNCHANGED <<config, loop, round, prompt, turn, running, callbacks, queue, span, peak,
                     calls, samples, newest>>
      /\ config \in Bench!Configs /\ Position /\ Calls /\ Sampled /\ Charged /\ Even
  BY DEF BenchInv, Bench!vars, Bench!counters
<1>2. Position' /\ Calls' /\ Sampled' /\ Even'
  BY <1>1, ScheduleRests
<1>3. Bench!Call' = Bench!Call /\ Known' = Known
  BY <1>1 DEF Bench!Seed, Bench!Call, Bench!Order, Known
<1>4. (newest.tokens \in Nat /\ Bench!OwnWork /\ Bench!OwnPeak)'
  BY <1>1 DEF Charged, Bench!OwnWork, Bench!OwnPeak
<1>5. Charged'
  BY <1>1, <1>3, <1>4 DEF Charged
<1>. QED BY <1>1, <1>2, <1>5 DEF BenchInv

LEMMA BenchInvAlways == Bench!Spec => []BenchInv
<1>1. BenchInv /\ [Bench!Next]_(Bench!vars) => BenchInv'
  BY BeginStep, TokenStep, ReturnStep, FailStep, WorkStep, BenchRest DEF Bench!Next
<1>. QED BY <1>1, BenchInit, PTL DEF Bench!Spec

-----------------------------------------------------------------------------
(* The benchmark: what follows.                                            *)

\* The benchmark counts as usual.
LEMMA CountsAsUsual == \A S : Bench!Cardinality(S) = Cardinality(S)
BY DEF Cardinality, Bench!Cardinality, IsFiniteSet, Bench!IsFiniteSet

\* A set is as large as the interval that counts it.
LEMMA Counted ==
  ASSUME NEW n \in Nat, NEW S, NEW f \in [1..n -> S],
         \A i, j \in 1..n : f[i] = f[j] => i = j,
         \A x \in S : \E i \in 1..n : f[i] = x
  PROVE  Cardinality(S) = n
<1>1. IsFiniteSet(1..n) /\ Cardinality(1..n) = n
  BY FS_Interval
<1>2. ExistsBijection(1..n, S)
  BY DEF ExistsBijection, Bijection, Injection, Surjection, IsInjective
<1>. QED BY <1>1, <1>2, FS_Bijection

LEMMA BenchTypes ==
  ASSUME BenchInv
  PROVE  Bench!TypeOK
<1>1. config \in Bench!Configs /\ Position /\ Calls /\ Sampled /\ Charged
  BY DEF BenchInv
<1>2. config.prompts \in Nat /\ WarmPairs \in Nat
  BY <1>1, ConfigTypes
<1>3. prompt \in 0..config.prompts - 1
  BY <1>1, <1>2 DEF Position
<1>4. /\ calls \in Seq(CallRecords) /\ DOMAIN calls = 1..Len(calls) /\ Len(calls) \in Nat
      /\ samples \in Seq(CallRecords) /\ DOMAIN samples = 1..Len(samples) /\ Len(samples) \in Nat
  BY <1>1, LenProperties DEF Calls, Sampled
<1>5. Bench!Elements(calls) \cup {Bench!Loading} = Known
  BY DEF Known, Bench!Elements
<1>6. ASSUME NEW work \in Seq(Known) PROVE Bench!Elements(work) \subseteq Known
  <2>1. DOMAIN work = 1..Len(work) /\ work \in [1..Len(work) -> Known]
    BY LenProperties
  <2>. QED BY <2>1 DEF Bench!Elements
<1>7. Bench!Elements(samples) \subseteq Bench!Elements(calls)
  <2>1. ASSUME NEW i \in 1..Len(samples)
        PROVE  \E j \in 1..Len(calls) : samples[i] = calls[j]
    <3>1. Len(samples) <= Len(calls) - 2 * WarmPairs
      BY <1>1, <1>4, EmptySeq DEF Sampled
    <3>2. 2 * WarmPairs + i \in 1..Len(calls)
      BY <1>2, <1>4, <3>1
    <3>3. samples[i] = calls[2 * WarmPairs + i]
      BY <1>1 DEF Sampled
    <3>. QED BY <3>2, <3>3
  <2>. QED BY <1>4, <2>1 DEF Bench!Elements
<1>8. /\ queue \in Seq(Known) /\ span \in Seq(Known) /\ peak \subseteq Known
      /\ callbacks \in 0..MaxCallbacks
  BY <1>1 DEF Charged
<1>9. /\ loop \in {"warmup", "measure", "done", "failed"}
      /\ round \in 0..MaxWarmups + MaxMeasured
      /\ turn \in {1, 2} /\ running \in BOOLEAN
  BY <1>1 DEF Position
<1>. QED BY <1>1, <1>3, <1>5, <1>6, <1>7, <1>8, <1>9 DEF Bench!TypeOK

LEMMA BenchFresh ==
  ASSUME BenchInv
  PROVE  Bench!FreshSeeds
<1>1. config \in Bench!Configs /\ Calls
  BY DEF BenchInv
<1>2. DOMAIN calls = 1..Len(calls)
  BY <1>1, LenProperties DEF Calls
<1>. SUFFICES ASSUME NEW i \in 1..Len(calls), NEW j \in 1..Len(calls),
                     calls[i].path = calls[j].path, calls[i].seed = calls[j].seed
              PROVE  i = j
  BY <1>2 DEF Bench!FreshSeeds
<1>3. /\ Scheduled(calls[i]) /\ calls[i].seed \in Nat
      /\ i = 2 * calls[i].seed + 1 \/ i = 2 * calls[i].seed + 2
      /\ i = 2 * calls[i].seed + 1 => calls[i].path = Leader(calls[i])
      /\ i = 2 * calls[i].seed + 2 => calls[i].path = Other(Leader(calls[i]))
  BY <1>1, NumberOf
<1>4. /\ Scheduled(calls[j]) /\ calls[j].seed \in Nat
      /\ j = 2 * calls[j].seed + 1 \/ j = 2 * calls[j].seed + 2
      /\ j = 2 * calls[j].seed + 1 => calls[j].path = Leader(calls[j])
      /\ j = 2 * calls[j].seed + 2 => calls[j].path = Other(Leader(calls[j]))
  BY <1>1, NumberOf
<1>5. Leader(calls[i]) = Leader(calls[j])
  BY <1>1, <1>3, <1>4, SeedDetermines DEF Leader
<1>6. Leader(calls[i]) # Other(Leader(calls[i]))
  BY DEF Leader, Other
<1>. QED BY <1>3, <1>4, <1>5, <1>6

LEMMA BenchBalanced ==
  ASSUME BenchInv
  PROVE  Bench!Balanced
<1>1. /\ Lead(samples, Firsts(samples)) \in -1..1
      /\ \A p \in 0..config.prompts - 1 : Lead(samples, FirstsOf(samples, p)) \in -1..1
  BY DEF BenchInv, Even
<1>. QED BY <1>1, CountsAsUsual DEF Bench!Balanced, Lead, Count, Firsts, FirstsOf

LEMMA BenchWarmedUp ==
  ASSUME BenchInv
  PROVE  Bench!WarmedUp
<1>1. config \in Bench!Configs /\ Calls
  BY DEF BenchInv
<1>2. DOMAIN calls = 1..Len(calls) /\ Len(calls) \in Nat
  BY <1>1, LenProperties DEF Calls
<1>. DEFINE n == config.prompts
            w == config.warmup_runs
<1>3. n \in Nat /\ w \in Nat /\ WarmPairs = w * n /\ WarmPairs \in Nat
  BY <1>1, ConfigTypes DEF WarmPairs
<1>. SUFFICES ASSUME NEW j \in 1..Len(calls), calls[j].stage = "measure",
                     NEW runner \in Runners, NEW p \in 0..n - 1
              PROVE  Cardinality({d \in Bench!Given(runner) : d.stage = "warmup" /\ d.prompt = p}) = w
  BY <1>2, CountsAsUsual DEF Bench!WarmedUp, Bench!Elements, Runners
<1>4. 2 * WarmPairs < Len(calls)
  <2>1. /\ Scheduled(calls[j]) /\ calls[j].seed \in Nat
        /\ j = 2 * calls[j].seed + 1 \/ j = 2 * calls[j].seed + 2
    BY <1>1, NumberOf
  <2>2. ~(calls[j].seed < WarmPairs)
    BY <1>1, <2>1, SeedBounds
  <2>. QED BY <1>2, <1>3, <2>1, <2>2
<1>. DEFINE S == {d \in Bench!Given(runner) : d.stage = "warmup" /\ d.prompt = p}
            k == IF runner = "target_only" THEN 1 ELSE 2
            seed(r) == (r - 1) * n + p
            number(r) == 2 * seed(r) + k
            f == [r \in 1..w |-> calls[number(r)]]
<1>5. S = {calls[i] : i \in {h \in 1..Len(calls) : /\ calls[h].path = runner
                                                   /\ calls[h].stage = "warmup"
                                                   /\ calls[h].prompt = p}}
  BY <1>2 DEF Bench!Given, Bench!Elements
<1>6. p \in Nat /\ p < n /\ k \in {1, 2}
  BY <1>3
<1>7. ASSUME NEW r \in 1..w
      PROVE  /\ number(r) \in 1..Len(calls)
             /\ calls[number(r)].path = runner /\ calls[number(r)].stage = "warmup"
             /\ calls[number(r)].prompt = p /\ calls[number(r)].round = r - 1
  <2>. DEFINE c == calls[number(r)]
  <2>1. r - 1 \in Nat /\ r - 1 < w /\ (r - 1) * n \in Nat
    BY <1>3
  <2>2. (r - 1) * n + n <= WarmPairs
    BY <1>3, <2>1, RowsApart
  <2>3. seed(r) \in Nat /\ seed(r) < WarmPairs
    <3>. DEFINE row == (r - 1) * n
    <3>. HIDE DEF row
    <3>1. row \in Nat /\ row + n <= WarmPairs
      BY <2>1, <2>2 DEF row
    <3>2. row + p \in Nat /\ row + p < WarmPairs
      BY <1>3, <1>6, <3>1
    <3>. QED BY <3>2 DEF row
  <2>. HIDE DEF seed
  <2>4. number(r) \in 1..Len(calls) /\ number(r) <= Len(calls)
    <3>. DEFINE s == seed(r)
    <3>. HIDE DEF s
    <3>1. s \in Nat /\ s < WarmPairs
      BY <2>3 DEF s
    <3>. HIDE DEF k
    <3>2. 2 * s + k \in 1..Len(calls) /\ 2 * s + k <= Len(calls)
      BY <1>2, <1>3, <1>4, <1>6, <3>1
    <3>. QED BY <3>2 DEF s
  <2>5. /\ Scheduled(c) /\ c.seed = seed(r)
        /\ c.path = IF k = 1 THEN Leader(c) ELSE Other(Leader(c))
    BY <1>1, <1>6, <2>3, <2>4, CallOf
  <2>. HIDE DEF c
  <2>6. c.stage = "warmup" /\ c.round \in Nat /\ c.prompt \in Nat
    BY <1>1, <2>3, <2>5, SeedBounds
  <2>7. c.path = runner
    BY <2>5, <2>6 DEF Leader, Other, Runners
  <2>8. c.round = r - 1 /\ c.prompt = p
    <3>1. c.prompt < n /\ c.round * n + c.prompt = (r - 1) * n + p
      BY <2>5, <2>6 DEF Scheduled, seed
    <3>. DEFINE a == c.round
                b == r - 1
                x == c.prompt
    <3>2. a \in Nat /\ b \in Nat /\ x \in Nat /\ x < n /\ a * n + x = b * n + p
      BY <2>1, <2>6, <3>1
    <3>. HIDE DEF a, b, x, n
    <3>3. a = b /\ x = p
      BY <1>3, <1>6, <3>2, PlaceUnique
    <3>. QED BY <3>3 DEF a, b, x
  <2>. QED BY <2>4, <2>6, <2>7, <2>8 DEF c
<1>8. ASSUME NEW i \in 1..Len(calls), calls[i].path = runner, calls[i].stage = "warmup",
             calls[i].prompt = p
      PROVE  \E r \in 1..w : calls[i] = calls[number(r)]
  <2>. DEFINE c == calls[i]
  <2>1. /\ Scheduled(c) /\ c.seed \in Nat
        /\ i = 2 * c.seed + 1 \/ i = 2 * c.seed + 2
        /\ i = 2 * c.seed + 1 => c.path = Leader(c)
        /\ i = 2 * c.seed + 2 => c.path = Other(Leader(c))
    BY <1>1, NumberOf
  <2>2. c.stage = "warmup" /\ c.path = runner /\ c.prompt = p
    BY <1>8
  <2>. HIDE DEF c
  <2>3. Leader(c) = "target_only"
    BY <2>2 DEF Leader
  <2>4. i = 2 * c.seed + k
    BY <2>1, <2>2, <2>3 DEF Other
  <2>5. c.round \in Nat /\ c.round < w /\ c.seed = c.round * n + p
    BY <1>1, <2>1, <2>2, SeedBounds DEF Scheduled
  <2>6. c.round + 1 \in 1..w /\ (c.round + 1) - 1 = c.round
    <3>. DEFINE a == c.round
    <3>1. a \in Nat /\ a < w
      BY <2>5
    <3>. HIDE DEF a, w
    <3>2. a + 1 \in 1..w /\ (a + 1) - 1 = a
      BY <1>3, <3>1
    <3>. QED BY <3>2 DEF a
  <2>7. number(c.round + 1) = i
    BY <2>4, <2>5, <2>6
  <2>. QED BY <2>6, <2>7
<1>. HIDE DEF number
<1>9. f \in [1..w -> S]
  BY <1>5, <1>7
<1>10. ASSUME NEW a \in 1..w, NEW b \in 1..w, f[a] = f[b] PROVE a = b
  <2>1. f[a].round = a - 1 /\ f[b].round = b - 1
    BY <1>7
  <2>2. a - 1 = b - 1
    BY <1>10, <2>1, Zenon
  <2>3. a \in Int /\ b \in Int
    <3>. HIDE DEF f, w
    <3>. QED BY <1>3
  <2>. HIDE DEF f, S
  <2>. QED BY <2>2, <2>3
<1>11. \A d \in S : \E r \in 1..w : f[r] = d
  BY <1>5, <1>8
<1>. HIDE DEF S, f, w
<1>12. Cardinality(S) = w
  <2>1. w \in Nat
    BY <1>3
  <2>2. \A a, b \in 1..w : f[a] = f[b] => a = b
    BY <1>10
  <2>. QED BY <1>9, <1>11, <2>1, <2>2, Counted
<1>. QED BY <1>12 DEF S, w

LEMMA BenchSameRuns ==
  ASSUME BenchInv
  PROVE  Bench!SameRuns
<1>. SUFFICES ASSUME loop = "done"
              PROVE  /\ Bench!Pairs("target_only") = Bench!Pairs("speculative")
                     /\ Cardinality(Bench!Pairs("target_only"))
                          = config.measured_runs * config.prompts
                     /\ Len(samples) = 2 * config.measured_runs * config.prompts
  BY CountsAsUsual DEF Bench!SameRuns
<1>1. config \in Bench!Configs /\ Calls /\ Position /\ Sampled
  BY DEF BenchInv
<1>. DEFINE m == config.measured_runs * config.prompts
<1>2. m \in Nat /\ WarmPairs \in Nat /\ AllPairs = WarmPairs + m
  BY <1>1, ConfigTypes DEF AllPairs
<1>3. /\ Len(samples) = 2 * m /\ Len(calls) = 2 * AllPairs
      /\ DOMAIN samples = 1..Len(samples)
  <2>1. Len(calls) = 2 * AllPairs /\ Len(samples) = Len(calls) - 2 * WarmPairs
    BY <1>1 DEF Position, Sampled
  <2>2. DOMAIN samples = 1..Len(samples)
    BY <1>1, LenProperties DEF Sampled
  <2>. HIDE DEF m
  <2>. QED BY <1>2, <2>1, <2>2
<1>4. Len(samples) = 2 * config.measured_runs * config.prompts
  <2>1. 2 * config.measured_runs * config.prompts = 2 * m
    BY <1>1, ConfigTypes
  <2>. QED BY <1>3, <2>1
<1>. HIDE DEF m
<1>. DEFINE first(i) == calls[2 * (WarmPairs + i - 1) + 1]
            second(i) == calls[2 * (WarmPairs + i - 1) + 2]
            pair(i) == <<first(i).prompt, WarmPairs + i - 1>>
            G == {pair(i) : i \in 1..m}
            f == [i \in 1..m |-> pair(i)]
<1>5. ASSUME NEW i \in 1..m
      PROVE  /\ samples[2 * (i - 1) + 1] = first(i) /\ samples[2 * (i - 1) + 2] = second(i)
             /\ 2 * (i - 1) + 1 \in 1..Len(samples) /\ 2 * (i - 1) + 2 \in 1..Len(samples)
             /\ first(i).seed = WarmPairs + i - 1 /\ second(i).seed = WarmPairs + i - 1
             /\ first(i).prompt = second(i).prompt
             /\ {first(i).path, second(i).path} = Runners
  <2>. DEFINE s == WarmPairs + i - 1
              a == first(i)
              b == second(i)
  <2>1. s \in Nat /\ 2 * s + 1 <= Len(calls) /\ 2 * s + 2 <= Len(calls)
    BY <1>2, <1>3
  <2>2. /\ 2 * (i - 1) + 1 \in 1..Len(samples) /\ 2 * (i - 1) + 2 \in 1..Len(samples)
        /\ 2 * WarmPairs + (2 * (i - 1) + 1) = 2 * s + 1
        /\ 2 * WarmPairs + (2 * (i - 1) + 2) = 2 * s + 2
    BY <1>2, <1>3
  <2>3. samples[2 * (i - 1) + 1] = a /\ samples[2 * (i - 1) + 2] = b
    BY <1>1, <2>2 DEF Sampled
  <2>. HIDE DEF s
  <2>4. Scheduled(a) /\ a.seed = s /\ a.path = Leader(a)
    <3>1. 1 \in {1, 2}
      OBVIOUS
    <3>2. /\ Scheduled(calls[2 * s + 1]) /\ calls[2 * s + 1].seed = s
          /\ calls[2 * s + 1].path = Leader(calls[2 * s + 1])
      BY <1>1, <2>1, <3>1, CallOf
    <3>. QED BY <3>2 DEF s
  <2>5. Scheduled(b) /\ b.seed = s /\ b.path = Other(Leader(b))
    <3>1. 2 \in {1, 2} /\ 2 # 1
      OBVIOUS
    <3>2. /\ Scheduled(calls[2 * s + 2]) /\ calls[2 * s + 2].seed = s
          /\ calls[2 * s + 2].path = Other(Leader(calls[2 * s + 2]))
      BY <1>1, <2>1, <3>1, CallOf
    <3>. QED BY <3>2 DEF s
  <2>. HIDE DEF a, b
  <2>6. a.stage = b.stage /\ a.round = b.round /\ a.prompt = b.prompt
    BY <1>1, <2>4, <2>5, SeedDetermines
  <2>7. Leader(b) = Leader(a)
    BY <2>6 DEF Leader
  <2>8. {a.path, b.path} = Runners
    BY <2>4, <2>5, <2>7 DEF Leader, Other, Runners
  <2>. QED BY <2>2, <2>3, <2>4, <2>5, <2>6, <2>8 DEF a, b, s
<1>6. ASSUME NEW k \in 1..Len(samples)
      PROVE  \E i \in 1..m : <<samples[k].prompt, samples[k].seed>> = pair(i)
  <2>. DEFINE c == samples[k]
              i == c.seed - WarmPairs + 1
  <2>1. c = calls[2 * WarmPairs + k] /\ 2 * WarmPairs + k \in 1..Len(calls)
    BY <1>1, <1>2, <1>3 DEF Sampled
  <2>. HIDE DEF c
  <2>2. /\ Scheduled(c) /\ c.seed \in Nat
        /\ 2 * WarmPairs + k = 2 * c.seed + 1 \/ 2 * WarmPairs + k = 2 * c.seed + 2
    BY <1>1, <2>1, NumberOf
  <2>3. i \in 1..m /\ WarmPairs + i - 1 = c.seed
    <3>. DEFINE s == c.seed
    <3>1. /\ s \in Nat /\ k \in Nat /\ k >= 1 /\ k <= 2 * m
          /\ 2 * WarmPairs + k = 2 * s + 1 \/ 2 * WarmPairs + k = 2 * s + 2
      BY <1>2, <1>3, <2>2
    <3>. HIDE DEF s
    <3>2. s >= WarmPairs /\ s < WarmPairs + m
      BY <1>2, <3>1
    <3>3. s - WarmPairs + 1 \in 1..m /\ WarmPairs + (s - WarmPairs + 1) - 1 = s
      BY <1>2, <3>1, <3>2
    <3>. QED BY <3>3 DEF s
  <2>. DEFINE d == first(i)
  <2>4. d.seed = c.seed /\ Scheduled(d)
    <3>1. d.seed = c.seed
      BY <1>5, <2>3
    <3>2. samples[2 * (i - 1) + 1] = d /\ 2 * (i - 1) + 1 \in 1..Len(samples)
      BY <1>5, <2>3
    <3>3. /\ 2 * WarmPairs + (2 * (i - 1) + 1) \in 1..Len(calls)
          /\ d = calls[2 * WarmPairs + (2 * (i - 1) + 1)]
      <4>. DEFINE h == 2 * (i - 1) + 1
      <4>1. h \in 1..Len(samples) /\ d = samples[h]
        BY <3>2
      <4>. HIDE DEF h, d
      <4>2. samples[h] = calls[2 * WarmPairs + h]
        BY <1>1, <4>1 DEF Sampled
      <4>3. 2 * WarmPairs + h \in 1..Len(calls)
        BY <1>2, <1>3, <4>1
      <4>. QED BY <4>1, <4>2, <4>3 DEF h
    <3>. HIDE DEF d, i
    <3>4. Scheduled(d)
      BY <1>1, <3>3, NumberOf
    <3>. QED BY <3>1, <3>4
  <2>5. d.prompt = c.prompt
    BY <1>1, <2>2, <2>4, SeedDetermines
  <2>6. <<c.prompt, c.seed>> = pair(i)
    BY <2>3, <2>5
  <2>. QED BY <2>3, <2>6 DEF c
<1>7. ASSUME NEW runner \in Runners
      PROVE  Bench!Pairs(runner) = G
  <2>1. Bench!Pairs(runner) = {<<samples[k].prompt, samples[k].seed>> :
                               k \in {h \in 1..Len(samples) : samples[h].path = runner}}
    BY <1>3 DEF Bench!Pairs, Bench!Elements
  <2>2. ASSUME NEW k \in 1..Len(samples)
        PROVE  <<samples[k].prompt, samples[k].seed>> \in G
    BY <1>6
  <2>3. ASSUME NEW i \in 1..m
        PROVE  \E k \in 1..Len(samples) : /\ samples[k].path = runner
                                          /\ <<samples[k].prompt, samples[k].seed>> = pair(i)
    <3>1. CASE first(i).path = runner
      <4>1. 2 * (i - 1) + 1 \in 1..Len(samples)
        BY <1>5
      <4>2. samples[2 * (i - 1) + 1] = first(i) /\ first(i).seed = WarmPairs + i - 1
        BY <1>5
      <4>. WITNESS 2 * (i - 1) + 1 \in 1..Len(samples)
      <4>. QED BY <3>1, <4>2
    <3>2. CASE second(i).path = runner
      <4>1. 2 * (i - 1) + 2 \in 1..Len(samples)
        BY <1>5
      <4>2. /\ samples[2 * (i - 1) + 2] = second(i) /\ second(i).seed = WarmPairs + i - 1
            /\ first(i).prompt = second(i).prompt
        BY <1>5
      <4>. WITNESS 2 * (i - 1) + 2 \in 1..Len(samples)
      <4>. QED BY <3>2, <4>2
    <3>3. runner \in {first(i).path, second(i).path}
      BY <1>5
    <3>. QED BY <3>1, <3>2, <3>3
  <2>. HIDE DEF pair
  <2>. QED BY <2>1, <2>2, <2>3
<1>8. Cardinality(G) = m
  <2>1. f \in [1..m -> G]
    OBVIOUS
  <2>2. ASSUME NEW i \in 1..m, NEW j \in 1..m, f[i] = f[j] PROVE i = j
    <3>1. WarmPairs + i - 1 = WarmPairs + j - 1
      BY <2>2
    <3>. QED BY <1>2, <3>1
  <2>3. \A x \in G : \E i \in 1..m : f[i] = x
    OBVIOUS
  <2>. HIDE DEF f, G
  <2>. QED BY <1>2, <2>1, <2>2, <2>3, Counted
<1>9. Bench!Pairs("target_only") = G /\ Bench!Pairs("speculative") = G
  BY <1>7 DEF Runners
<1>. QED BY <1>4, <1>8, <1>9 DEF m

\* The benchmark compares what is comparable: both paths get the same prompts and
\* seeds, each path is warmed up on each prompt, no seed is used twice, neither
\* path goes first more often than once more than the other, and each sample is
\* charged with its own work and memory; for any number of prompts, warm-ups,
\* repetitions and tokens.
THEOREM FairComparisonAlways == Bench!Spec => []FairComparison
<1>1. BenchInv => FairComparison
  BY BenchTypes, BenchSameRuns, BenchWarmedUp, BenchFresh, BenchBalanced
  DEF BenchInv, Charged, FairComparison, Bench!FairComparison
<1>. QED BY <1>1, BenchInvAlways, PTL
-----------------------------------------------------------------------------
(* The law of one proposal.                                                *)

\* Draws come in every fraction of a row.
LEMMA Resolution ==
  /\ VocabSize \in Nat \ {0} /\ Mass \in Nat \ {0} /\ Uniforms \in Nat \ {0}
  /\ \A d \in 1..Mass : \E k \in Nat \ {0} : Uniforms = k * d
<1>1. /\ VocabSize \in Nat \ {0} /\ Mass \in Nat \ {0} /\ Uniforms \in Nat \ {0}
      /\ \A d \in 1..Mass : Uniforms % d = 0
  BY PartsAssumption DEF Proposal!ResolutionAssumption
<1>2. ASSUME NEW d \in 1..Mass
      PROVE  \E k \in Nat \ {0} : Uniforms = k * d
  <2>. DEFINE k == Uniforms \div d
  <2>1. d \in Nat \ {0} /\ Uniforms \in Nat /\ Uniforms % d = 0
    BY <1>1
  <2>2. k \in Nat /\ Uniforms = d * k + (Uniforms % d)
    BY <2>1, DivMod
  <2>. HIDE DEF k
  <2>3. Uniforms = k * d /\ k # 0
    BY <1>1, <2>1, <2>2
  <2>. QED BY <2>2, <2>3
<1>. QED BY <1>1, <1>2

\* Weights of the tokens, normalized or not.
Weights == [1..VocabSize -> Nat]

\* The loop over a row goes through its partial sums.
LEMMA CumulativeIs ==
  ASSUME NEW w \in Weights
  PROVE  PartialSums(VocabSize, w, Proposal!Cumulative(w))
<1>1. VocabSize \in Nat
  BY Resolution
<1>2. PICK g : PartialSums(VocabSize, w, g)
  BY <1>1, PartialSumsExist DEF Weights
<1>3. /\ g \in [0..VocabSize -> Nat] /\ g[0] = 0
      /\ \A x \in 1..VocabSize : g[x] = g[x - 1] + w[x]
  BY <1>2 DEF PartialSums
<1>4. g = [x \in 0..VocabSize |-> IF x = 0 THEN 0 ELSE g[x - 1] + w[x]]
  <2>1. \A x \in 0..VocabSize : x = 0 \/ x \in 1..VocabSize
    BY <1>1
  <2>2. \A x \in 0..VocabSize : g[x] = IF x = 0 THEN 0 ELSE g[x - 1] + w[x]
    BY <1>3, <2>1
  <2>. QED BY <1>3, <2>2
<1>. DEFINE c == Proposal!Cumulative(w)
<1>5. c = [x \in 0..VocabSize |-> IF x = 0 THEN 0 ELSE c[x - 1] + w[x]]
  BY <1>4 DEF Proposal!Cumulative
<1>. HIDE DEF c
<1>. DEFINE equal == {n \in 0..VocabSize : c[n] = g[n]}
<1>6. 0 \in equal
  <2>1. 0 \in 0..VocabSize
    BY <1>1
  <2>. QED BY <1>3, <1>5, <2>1
<1>7. ASSUME NEW n \in 0..VocabSize, n \in equal, n < VocabSize
      PROVE  n + 1 \in equal
  <2>1. n + 1 \in 0..VocabSize /\ n + 1 \in 1..VocabSize /\ n + 1 # 0 /\ (n + 1) - 1 = n
    BY <1>1, <1>7
  <2>2. c[n + 1] = c[n] + w[n + 1]
    BY <1>5, <2>1
  <2>3. g[n + 1] = g[n] + w[n + 1]
    BY <1>3, <2>1
  <2>. QED BY <1>7, <2>1, <2>2, <2>3
<1>8. \A n \in 0..VocabSize : c[n] = g[n]
  <2>1. \A n \in 0..VocabSize : n \in equal
    <3>. HIDE DEF equal
    <3>. QED BY <1>1, <1>6, <1>7, Climb
  <2>. QED BY <2>1
<1>9. c = g
  BY <1>3, <1>5, <1>8
<1>. QED BY <1>2, <1>9 DEF c

\* The sums begin with zero, never fall, and end with the total.
LEMMA CumulativeProperties ==
  ASSUME NEW w \in Weights
  PROVE  /\ \A x \in 0..VocabSize : Proposal!Cumulative(w)[x] \in Nat
         /\ Proposal!Cumulative(w)[0] = 0
         /\ Proposal!Total(w) = Proposal!Cumulative(w)[VocabSize]
         /\ Proposal!Total(w) \in Nat
         /\ \A x \in 1..VocabSize :
              /\ Proposal!Cumulative(w)[x] = Proposal!Cumulative(w)[x - 1] + w[x]
              /\ Proposal!Cumulative(w)[x] <= Proposal!Total(w)
         /\ \A x \in 0..VocabSize : \A y \in x..VocabSize :
              Proposal!Cumulative(w)[x] <= Proposal!Cumulative(w)[y]
<1>. DEFINE c == Proposal!Cumulative(w)
<1>1. VocabSize \in Nat
  BY Resolution
<1>2. PartialSums(VocabSize, w, c)
  BY CumulativeIs
<1>3. Proposal!Total(w) = c[VocabSize]
  BY DEF Proposal!Total
<1>. HIDE DEF c
<1>4. /\ c \in [0..VocabSize -> Nat] /\ c[0] = 0
      /\ \A x \in 1..VocabSize : c[x] = c[x - 1] + w[x]
  BY <1>2 DEF PartialSums
<1>5. \A x \in 0..VocabSize : \A y \in x..VocabSize : c[x] <= c[y]
  BY <1>1, <1>2, PartialSumsGrow DEF Weights
<1>6. \A x \in 1..VocabSize : x \in 0..VocabSize /\ VocabSize \in x..VocabSize
  BY <1>1
<1>7. VocabSize \in 0..VocabSize
  BY <1>1
<1>8. \A x \in 0..VocabSize : c[x] \in Nat
  BY <1>4
<1>9. \A x \in 1..VocabSize : c[x] = c[x - 1] + w[x] /\ c[x] <= c[VocabSize]
  BY <1>4, <1>5, <1>6
<1>10. c[VocabSize] \in Nat
  BY <1>7, <1>8
<1>. QED BY <1>3, <1>4, <1>5, <1>8, <1>9, <1>10 DEF c

\* A token with weight leaves a total.
LEMMA SomeWeight ==
  ASSUME NEW w \in Weights, NEW x \in 1..VocabSize
  PROVE  /\ w[x] <= Proposal!Total(w)
         /\ w[x] \in Nat
<1>. DEFINE c == Proposal!Cumulative(w)
<1>1. x \in 0..VocabSize /\ x - 1 \in 0..VocabSize /\ w[x] \in Nat
  BY Resolution DEF Weights
<1>2. c[x] \in Nat /\ c[x - 1] \in Nat /\ c[x] = c[x - 1] + w[x]
  BY <1>1, CumulativeProperties
<1>3. c[x] <= Proposal!Total(w) /\ Proposal!Total(w) \in Nat
  BY CumulativeProperties
<1>. HIDE DEF c
<1>. QED BY <1>1, <1>2, <1>3

\* Scaling keeps the order.
LEMMA Scaled ==
  ASSUME NEW n \in Nat \ {0}, NEW a \in Int, NEW b \in Int
  PROVE  /\ a * n < b * n <=> a < b
         /\ a * n <= b * n <=> a <= b
<1>1. a <= b => a * n <= b * n
  OBVIOUS
<1>2. a < b => a * n < b * n
  <2>. SUFFICES ASSUME a < b PROVE a * n < b * n
    OBVIOUS
  <2>1. (a + 1) * n <= b * n
    OBVIOUS
  <2>2. (a + 1) * n = a * n + n /\ a * n \in Int /\ b * n \in Int
    OBVIOUS
  <2>. QED BY <2>1, <2>2
<1>3. b < a => b * n < a * n
  <2>. SUFFICES ASSUME b < a PROVE b * n < a * n
    OBVIOUS
  <2>1. (b + 1) * n <= a * n
    OBVIOUS
  <2>2. (b + 1) * n = b * n + n /\ a * n \in Int /\ b * n \in Int
    OBVIOUS
  <2>. QED BY <2>1, <2>2
<1>4. a * n \in Int /\ b * n \in Int /\ (a = b => a * n = b * n)
  OBVIOUS
<1>. QED BY <1>1, <1>2, <1>3, <1>4

\* The token drawn is the one whose part of the total the draw falls into.
LEMMA CategoricalIs ==
  ASSUME NEW w \in Weights, Proposal!Total(w) > 0, NEW u \in Proposal!Uniform
  PROVE  /\ Proposal!Categorical(w, u) \in 1..VocabSize
         /\ \A x \in 1..VocabSize :
              Proposal!Categorical(w, u) = x
                <=> /\ Uniforms * Proposal!Cumulative(w)[x - 1] <= u * Proposal!Total(w)
                    /\ u * Proposal!Total(w) < Uniforms * Proposal!Cumulative(w)[x]
<1>. DEFINE c == Proposal!Cumulative(w)
            t == Proposal!Total(w)
            exceeds == {x \in 1..VocabSize : u * t < Uniforms * c[x]}
            d == Proposal!Categorical(w, u)
<1>1. /\ VocabSize \in Nat \ {0} /\ Uniforms \in Nat \ {0} /\ u \in Nat /\ u < Uniforms
  BY Resolution DEF Proposal!Uniform
<1>2. /\ \A x \in 0..VocabSize : c[x] \in Nat
      /\ c[0] = 0 /\ t = c[VocabSize] /\ t \in Nat /\ t > 0
      /\ \A x \in 0..VocabSize : \A y \in x..VocabSize : c[x] <= c[y]
  BY CumulativeProperties
<1>3. d = IF exceeds = {} THEN VocabSize ELSE CHOOSE x \in exceeds : \A y \in exceeds : x =< y
  BY DEF Proposal!Categorical, Proposal!Vocabulary, Proposal!Min
<1>. HIDE DEF c, t, d
<1>4. VocabSize \in exceeds
  <2>1. u * t < Uniforms * t
    BY <1>1, <1>2, Scaled
  <2>. QED BY <1>1, <1>2, <2>1
<1>5. exceeds \subseteq Nat
  OBVIOUS
<1>6. d \in exceeds /\ \A y \in exceeds : d <= y
  <2>. HIDE DEF exceeds
  <2>1. \E x \in exceeds : \A y \in exceeds : x <= y
    BY <1>4, <1>5, LeastExists
  <2>. QED BY <1>3, <1>4, <2>1
<1>7. ASSUME NEW x \in 1..VocabSize
      PROVE  d = x <=> Uniforms * c[x - 1] <= u * t /\ u * t < Uniforms * c[x]
  <2>1. x - 1 \in 0..VocabSize /\ x \in 0..VocabSize /\ c[x - 1] \in Nat /\ c[x] \in Nat
    BY <1>1, <1>2
  <2>2. Uniforms * c[x - 1] \in Nat /\ u * t \in Nat /\ Uniforms * c[x] \in Nat
    BY <1>1, <1>2, <2>1
  <2>3. ASSUME d = x
        PROVE  Uniforms * c[x - 1] <= u * t /\ u * t < Uniforms * c[x]
    <3>1. u * t < Uniforms * c[x]
      BY <1>6, <2>3
    <3>2. CASE x = 1
      <4>1. Uniforms * c[x - 1] = 0
        BY <1>1, <1>2, <3>2
      <4>. QED BY <2>2, <3>1, <4>1
    <3>3. CASE x # 1
      <4>1. x - 1 \in 1..VocabSize /\ ~(x <= x - 1)
        BY <1>1, <3>3
      <4>2. x - 1 \notin exceeds
        BY <1>6, <2>3, <4>1
      <4>3. ~(u * t < Uniforms * c[x - 1])
        BY <4>1, <4>2
      <4>. QED BY <2>2, <3>1, <4>3
    <3>. QED BY <3>2, <3>3
  <2>4. ASSUME Uniforms * c[x - 1] <= u * t, u * t < Uniforms * c[x]
        PROVE  d = x
    <3>1. x \in exceeds /\ d <= x /\ d \in 1..VocabSize
      BY <1>6, <2>4
    <3>2. ASSUME d < x PROVE FALSE
      <4>1. d \in 0..VocabSize /\ x - 1 \in d..VocabSize
        BY <1>1, <3>1, <3>2
      <4>2. c[d] <= c[x - 1] /\ c[d] \in Nat
        BY <1>2, <4>1
      <4>3. Uniforms * c[d] <= Uniforms * c[x - 1]
        BY <1>1, <2>1, <4>2
      <4>4. u * t < Uniforms * c[d]
        BY <1>6
      <4>5. Uniforms * c[d] \in Nat
        BY <1>1, <4>2
      <4>. QED BY <2>2, <2>4, <4>3, <4>4, <4>5
    <3>. QED BY <1>1, <3>1, <3>2
  <2>. QED BY <2>3, <2>4
<1>8. d \in 1..VocabSize
  BY <1>6
<1>. QED BY <1>7, <1>8 DEF c, t, d

\* So many draws lead to a token as it has weight.
LEMMA DrawsOf ==
  ASSUME NEW w \in Weights, Proposal!Total(w) > 0, NEW k \in Nat \ {0},
         Uniforms = k * Proposal!Total(w), NEW x \in 1..VocabSize
  PROVE  LET draws == {u \in Proposal!Uniform : Proposal!Categorical(w, u) = x}
         IN  IsFiniteSet(draws) /\ Cardinality(draws) = k * w[x]
<1>. DEFINE c == Proposal!Cumulative(w)
            t == Proposal!Total(w)
            low == k * c[x - 1]
            high == k * c[x]
            draws == {u \in Proposal!Uniform : Proposal!Categorical(w, u) = x}
<1>1. x - 1 \in 0..VocabSize /\ x \in 0..VocabSize /\ w[x] \in Nat
  BY Resolution DEF Weights
<1>2. /\ t \in Nat \ {0} /\ c[x - 1] \in Nat /\ c[x] \in Nat /\ c[x] = c[x - 1] + w[x]
      /\ c[x] <= t
  BY <1>1, CumulativeProperties
<1>3. Uniforms = k * t /\ Uniforms \in Nat
  BY Resolution
<1>4. \A u \in Proposal!Uniform :
        Proposal!Categorical(w, u) = x <=> Uniforms * c[x - 1] <= u * t /\ u * t < Uniforms * c[x]
  BY CategoricalIs
<1>. HIDE DEF c, t
<1>5. low \in Nat /\ high \in Nat /\ low <= high /\ high <= Uniforms /\ high - low = k * w[x]
  <2>1. k * c[x - 1] \in Nat /\ k * c[x] \in Nat /\ k * t \in Nat /\ k * w[x] \in Nat
    BY <1>1, <1>2
  <2>2. k * (c[x - 1] + w[x]) = k * c[x - 1] + k * w[x]
    BY <1>1, <1>2
  <2>3. k * c[x] <= k * t
    BY <1>2
  <2>. QED BY <1>2, <1>3, <2>1, <2>2, <2>3
<1>6. Uniforms * c[x - 1] = low * t /\ Uniforms * c[x] = high * t
  <2>1. (k * t) * c[x - 1] = (k * c[x - 1]) * t
    BY <1>2
  <2>2. (k * t) * c[x] = (k * c[x]) * t
    BY <1>2
  <2>. QED BY <1>3, <2>1, <2>2
<1>7. ASSUME NEW u \in Proposal!Uniform
      PROVE  Proposal!Categorical(w, u) = x <=> u \in low..high - 1
  <2>1. u \in Nat
    BY <1>3 DEF Proposal!Uniform
  <2>4. Proposal!Categorical(w, u) = x <=> low * t <= u * t /\ u * t < high * t
    BY <1>4, <1>6
  <2>. HIDE DEF low, high
  <2>2. low * t <= u * t <=> low <= u
    BY <1>2, <1>5, <2>1, Scaled
  <2>3. u * t < high * t <=> u < high
    BY <1>2, <1>5, <2>1, Scaled
  <2>. QED BY <1>5, <2>1, <2>2, <2>3, <2>4
<1>. HIDE DEF low, high
<1>8. low..high - 1 \subseteq Proposal!Uniform
  BY <1>3, <1>5 DEF Proposal!Uniform
<1>9. draws = low..high - 1
  BY <1>7, <1>8
<1>10. IsFiniteSet(low..high - 1) /\ Cardinality(low..high - 1) = high - low
  <2>1. low \in Int /\ high - 1 \in Int
    BY <1>5
  <2>2. /\ IsFiniteSet(low..high - 1)
        /\ Cardinality(low..high - 1) = IF low > high - 1 THEN 0 ELSE (high - 1) - low + 1
    BY <2>1, FS_Interval
  <2>. QED BY <1>5, <2>2
<1>. QED BY <1>5, <1>9, <1>10

\* The rows of the models.
LEMMA RowType ==
  ASSUME NEW row \in Proposal!Row
  PROVE  /\ row \in Weights /\ Proposal!Total(row) = Mass
         /\ \A x \in 1..VocabSize : row[x] \in 0..Mass /\ row[x] \in Nat
BY Resolution DEF Proposal!Row, Proposal!Vocabulary, Weights

\* What two rows have in common, and what the first has above the second.
Shared(p, q) == [x \in 1..VocabSize |-> IF p[x] < q[x] THEN p[x] ELSE q[x]]
Above(p, q) == [x \in 1..VocabSize |-> IF p[x] > q[x] THEN p[x] - q[x] ELSE 0]

\* The rejected share of the proposals, in units of the mass.
Excess(p, q) == Proposal!Total(Above(p, q))

LEMMA Split ==
  ASSUME NEW p \in Proposal!Row, NEW q \in Proposal!Row
  PROVE  /\ Shared(p, q) \in Weights /\ Above(p, q) \in Weights
         /\ \A x \in 1..VocabSize : p[x] = Shared(p, q)[x] + Above(p, q)[x]
         /\ Excess(p, q) \in 0..Mass
         /\ Proposal!Total(Shared(p, q)) \in Nat
         /\ Proposal!Total(Shared(p, q)) + Excess(p, q) = Mass
<1>. DEFINE m == Shared(p, q)
            r == Above(p, q)
<1>1. /\ p \in Weights /\ Proposal!Total(p) = Mass
      /\ \A x \in 1..VocabSize : p[x] \in Nat /\ q[x] \in Nat
  BY RowType
<1>2. m \in Weights
  BY <1>1 DEF Shared, Weights
<1>3. \A x \in 1..VocabSize : r[x] \in Nat
  BY <1>1 DEF Above
<1>4. r \in Weights
  BY <1>3 DEF Above, Weights
<1>5. \A x \in 1..VocabSize : p[x] = m[x] + r[x]
  BY <1>1 DEF Shared, Above
<1>. HIDE DEF m, r
<1>6. VocabSize \in Nat /\ VocabSize \in 0..VocabSize /\ Mass \in Nat
  BY Resolution
<1>7. /\ PartialSums(VocabSize, m, Proposal!Cumulative(m))
      /\ PartialSums(VocabSize, r, Proposal!Cumulative(r))
      /\ PartialSums(VocabSize, p, Proposal!Cumulative(p))
  BY <1>1, <1>2, <1>4, CumulativeIs
<1>8. Proposal!Cumulative(p)[VocabSize] = Proposal!Cumulative(m)[VocabSize] + Proposal!Cumulative(r)[VocabSize]
  <2>1. m \in [1..VocabSize -> Nat] /\ r \in [1..VocabSize -> Nat] /\ p \in [1..VocabSize -> Nat]
    BY <1>1, <1>2, <1>4 DEF Weights
  <2>2. Adds(VocabSize, m, r, p)
    BY <1>5 DEF Adds
  <2>3. Adds(VocabSize, Proposal!Cumulative(m), Proposal!Cumulative(r), Proposal!Cumulative(p))
    BY <1>6, <1>7, <2>1, <2>2, PartialSumsAdd
  <2>4. VocabSize \in 1..VocabSize
    BY Resolution
  <2>. QED BY <2>3, <2>4 DEF Adds
<1>9. Proposal!Total(m) + Proposal!Total(r) = Mass
  BY <1>1, <1>8 DEF Proposal!Total
<1>10. Proposal!Total(m) \in Nat /\ Proposal!Total(r) \in Nat
  BY <1>2, <1>4, CumulativeProperties
<1>11. Proposal!Total(r) \in 0..Mass
  BY <1>6, <1>9, <1>10
<1>. QED BY <1>2, <1>4, <1>5, <1>9, <1>10, <1>11 DEF m, r, Excess

\* So many draws accept a proposal as the target has of it.
LEMMA AcceptsOf ==
  ASSUME NEW p \in Proposal!Row, NEW q \in Proposal!Row, NEW x \in 1..VocabSize, q[x] > 0,
         NEW k \in Nat \ {0}, Uniforms = k * q[x]
  PROVE  LET draws == {u \in Proposal!Uniform : Proposal!Accepts(p, q, x, u)}
         IN  IsFiniteSet(draws) /\ Cardinality(draws) = k * Shared(p, q)[x]
<1>. DEFINE m == Shared(p, q)[x]
            a == p[x]
            b == q[x]
            high == k * m
            draws == {u \in Proposal!Uniform : Proposal!Accepts(p, q, x, u)}
<1>1. a \in Nat /\ b \in Nat \ {0} /\ m = (IF a < b THEN a ELSE b) /\ Uniforms = k * b
  BY RowType DEF Shared
<1>2. \A u \in Proposal!Uniform : Proposal!Accepts(p, q, x, u) <=> u * b < Uniforms * a
  BY <1>1 DEF Proposal!Accepts
<1>. HIDE DEF a, b, m
<1>3. m \in Nat /\ m <= b /\ m <= a /\ (m = a \/ m = b) /\ (a < b => m = a) /\ (~(a < b) => m = b)
  BY <1>1
<1>4. Uniforms \in Nat
  BY Resolution
<1>5. high \in Nat /\ high <= Uniforms
  <2>1. k * m \in Nat /\ k * m <= k * b
    BY <1>1, <1>3
  <2>. QED BY <1>1, <2>1
<1>6. Uniforms * a = (k * a) * b /\ k * a \in Nat
  <2>1. (k * b) * a = (k * a) * b
    BY <1>1
  <2>. QED BY <1>1, <2>1
<1>7. ASSUME NEW u \in Proposal!Uniform
      PROVE  Proposal!Accepts(p, q, x, u) <=> u \in 0..high - 1
  <2>1. u \in Nat /\ u < Uniforms
    BY <1>4 DEF Proposal!Uniform
  <2>2. Proposal!Accepts(p, q, x, u) <=> u * b < (k * a) * b
    BY <1>2, <1>6
  <2>3. u * b < (k * a) * b <=> u < k * a
    BY <1>1, <1>6, <2>1, Scaled
  <2>4. u < k * a <=> u < high
    <3>1. CASE a < b
      BY <1>3, <3>1
    <3>2. CASE ~(a < b)
      <4>1. high = Uniforms
        BY <1>1, <1>3, <3>2
      <4>2. k * b <= k * a
        BY <1>1, <3>2
      <4>. HIDE DEF high
      <4>. QED BY <1>1, <1>4, <1>6, <2>1, <4>1, <4>2
    <3>. QED BY <3>1, <3>2
  <2>. HIDE DEF high
  <2>. QED BY <1>5, <2>1, <2>2, <2>3, <2>4
<1>. HIDE DEF high
<1>8. 0..high - 1 \subseteq Proposal!Uniform
  BY <1>4, <1>5 DEF Proposal!Uniform
<1>9. draws = 0..high - 1
  BY <1>7, <1>8
<1>10. IsFiniteSet(0..high - 1) /\ Cardinality(0..high - 1) = high
  <2>1. 0 \in Int /\ high - 1 \in Int
    BY <1>5
  <2>2. /\ IsFiniteSet(0..high - 1)
        /\ Cardinality(0..high - 1) = IF 0 > high - 1 THEN 0 ELSE (high - 1) - 0 + 1
    BY <2>1, FS_Interval
  <2>. QED BY <1>5, <2>2
<1>. QED BY <1>9, <1>10 DEF high, m

\* The pairs of draws that propose a token and accept it.
Pairs == Proposal!Uniform \X Proposal!Uniform
Accepting(p, q) ==
  {u \in Pairs : Proposal!Accepts(p, q, Proposal!Categorical(q, u[1]), u[2])}
Kept(p, q, x) == {u \in Accepting(p, q) : Proposal!Categorical(q, u[1]) = x}

LEMMA Uniformly ==
  /\ IsFiniteSet(Proposal!Uniform) /\ Cardinality(Proposal!Uniform) = Uniforms
  /\ IsFiniteSet(Pairs) /\ Cardinality(Pairs) = Uniforms * Uniforms
<1>1. Uniforms \in Nat \ {0} /\ 0 \in Int /\ Uniforms - 1 \in Int
  BY Resolution
<1>2. /\ IsFiniteSet(0..Uniforms - 1)
      /\ Cardinality(0..Uniforms - 1) = IF 0 > Uniforms - 1 THEN 0 ELSE (Uniforms - 1) - 0 + 1
  BY <1>1, FS_Interval
<1>3. IsFiniteSet(Proposal!Uniform) /\ Cardinality(Proposal!Uniform) = Uniforms
  BY <1>1, <1>2 DEF Proposal!Uniform
<1>. QED BY <1>3, FS_Product DEF Pairs

\* Their share is what the rows have in common.
LEMMA KeptShare ==
  ASSUME NEW p \in Proposal!Row, NEW q \in Proposal!Row, NEW x \in 1..VocabSize
  PROVE  /\ IsFiniteSet(Kept(p, q, x)) /\ Cardinality(Kept(p, q, x)) \in Nat
         /\ Mass * Cardinality(Kept(p, q, x)) = (Uniforms * Uniforms) * Shared(p, q)[x]
<1>. DEFINE proposing == {u \in Proposal!Uniform : Proposal!Categorical(q, u) = x}
            accepting == {u \in Proposal!Uniform : Proposal!Accepts(p, q, x, u)}
            m == Shared(p, q)[x]
            b == q[x]
<1>1. /\ q \in Weights /\ Proposal!Total(q) = Mass /\ b \in 0..Mass /\ p[x] \in Nat
      /\ Mass \in Nat \ {0} /\ Uniforms \in Nat \ {0}
  BY RowType, Resolution
<1>2. m \in Nat /\ (b = 0 => m = 0)
  BY <1>1 DEF Shared
<1>3. Kept(p, q, x) = proposing \X accepting
  <2>1. Kept(p, q, x) = {u \in Pairs : /\ Proposal!Accepts(p, q, Proposal!Categorical(q, u[1]), u[2])
                                       /\ Proposal!Categorical(q, u[1]) = x}
    BY DEF Kept, Accepting
  <2>. QED BY <2>1 DEF Pairs
<1>4. PICK k \in Nat \ {0} : Uniforms = k * Mass
  <2>1. Mass \in 1..Mass
    BY <1>1
  <2>. QED BY <2>1, Resolution
<1>5. IsFiniteSet(proposing) /\ Cardinality(proposing) = k * b
  BY <1>1, <1>4, DrawsOf
<1>6. IsFiniteSet(accepting)
  BY Uniformly, FS_Subset
<1>. HIDE DEF proposing, accepting, m
<1>7. /\ IsFiniteSet(Kept(p, q, x))
      /\ Cardinality(Kept(p, q, x)) = (k * b) * Cardinality(accepting)
      /\ Cardinality(accepting) \in Nat
  BY <1>3, <1>5, <1>6, FS_Product, FS_CardinalityType
<1>. HIDE DEF b
<1>8. CASE b = 0
  <2>1. Cardinality(Kept(p, q, x)) = 0
    BY <1>4, <1>7, <1>8
  <2>2. (Uniforms * Uniforms) * 0 = 0 /\ Mass * 0 = 0
    BY <1>1
  <2>. QED BY <1>2, <1>7, <1>8, <2>1, <2>2 DEF m
<1>9. CASE b # 0
  <2>1. b \in 1..Mass
    BY <1>1, <1>9
  <2>2. PICK j \in Nat \ {0} : Uniforms = j * b
    BY <2>1, Resolution
  <2>3. Cardinality(accepting) = j * m
    <3>1. q[x] > 0 /\ Uniforms = j * q[x]
      BY <2>1, <2>2 DEF b
    <3>. QED BY <3>1, AcceptsOf DEF accepting, m
  <2>4. Cardinality(Kept(p, q, x)) = (k * b) * (j * m)
    BY <1>7, <2>3
  <2>5. Mass * ((k * b) * (j * m)) = ((k * Mass) * (j * b)) * m
    BY <1>1, <1>2, <1>4, <2>1, <2>2
  <2>6. (k * b) * (j * m) \in Nat
    BY <1>1, <1>2, <1>4, <2>1, <2>2
  <2>7. (k * Mass) * (j * b) = Uniforms * Uniforms
    BY <1>4, <2>2
  <2>8. Mass * Cardinality(Kept(p, q, x)) = (Uniforms * Uniforms) * m
    BY <2>4, <2>5, <2>7
  <2>. QED BY <1>7, <2>4, <2>6, <2>8 DEF m
<1>. QED BY <1>8, <1>9

\* The share that is rejected is what the target's row has above the draft's.
LEMMA RejectedShare ==
  ASSUME NEW p \in Proposal!Row, NEW q \in Proposal!Row
  PROVE  /\ Cardinality(Pairs \ Accepting(p, q)) \in Nat
         /\ Mass * Cardinality(Pairs \ Accepting(p, q)) = (Uniforms * Uniforms) * Excess(p, q)
<1>. DEFINE m == Shared(p, q)
            c == Proposal!Cumulative(m)
            square == Uniforms * Uniforms
            upto(n) == {u \in Accepting(p, q) : Proposal!Categorical(q, u[1]) \in 1..n}
            counted == {n \in 0..VocabSize : Mass * Cardinality(upto(n)) = square * c[n]}
<1>1. VocabSize \in Nat \ {0} /\ Mass \in Nat \ {0} /\ square \in Nat
  BY Resolution
<1>2. m \in Weights
  BY Split
<1>3. /\ c[0] = 0 /\ \A n \in 0..VocabSize : c[n] \in Nat
      /\ \A x \in 1..VocabSize : c[x] = c[x - 1] + m[x]
      /\ Proposal!Total(m) = c[VocabSize]
  BY <1>2, CumulativeProperties
<1>. HIDE DEF m, c
<1>4. /\ IsFiniteSet(Pairs) /\ Cardinality(Pairs) = square
      /\ Accepting(p, q) \subseteq Pairs
  BY Uniformly DEF Accepting
<1>. HIDE DEF square
<1>5. \A n \in 0..VocabSize : IsFiniteSet(upto(n)) /\ Cardinality(upto(n)) \in Nat
  <2>. SUFFICES ASSUME NEW n \in 0..VocabSize
                PROVE  IsFiniteSet(upto(n)) /\ Cardinality(upto(n)) \in Nat
    OBVIOUS
  <2>1. upto(n) \in SUBSET Pairs
    BY <1>4
  <2>. HIDE DEF upto
  <2>. QED BY <1>4, <2>1, FS_Subset, FS_CardinalityType
<1>6. 0 \in counted
  <2>1. upto(0) = {}
    OBVIOUS
  <2>2. Cardinality(upto(0)) = 0
    BY <2>1, FS_EmptySet
  <2>3. Mass * 0 = 0 /\ square * 0 = 0 /\ 0 \in 0..VocabSize
    BY <1>1
  <2>. HIDE DEF upto
  <2>. QED BY <1>3, <2>2, <2>3
<1>7. ASSUME NEW n \in 0..VocabSize, n \in counted, n < VocabSize
      PROVE  n + 1 \in counted
  <2>1. n + 1 \in 1..VocabSize /\ n + 1 \in 0..VocabSize /\ (n + 1) - 1 = n
    BY <1>1, <1>7
  <2>2. upto(n + 1) = upto(n) \cup Kept(p, q, n + 1)
    <3>1. \A d : d \in 1..n + 1 <=> d \in 1..n \/ d = n + 1
      BY <1>1
    <3>. QED BY <3>1 DEF Kept
  <2>3. upto(n) \cap Kept(p, q, n + 1) = {}
    <3>1. n + 1 \notin 1..n
      BY <1>1
    <3>. QED BY <3>1 DEF Kept
  <2>4. /\ IsFiniteSet(Kept(p, q, n + 1)) /\ Cardinality(Kept(p, q, n + 1)) \in Nat
        /\ Mass * Cardinality(Kept(p, q, n + 1)) = square * m[n + 1]
    BY <2>1, KeptShare DEF square, m
  <2>. HIDE DEF upto
  <2>5. Cardinality(upto(n + 1)) = Cardinality(upto(n)) + Cardinality(Kept(p, q, n + 1))
    <3>1. IsFiniteSet(upto(n)) /\ Cardinality(upto(n)) \in Nat
      BY <1>5
    <3>2. Cardinality(upto(n + 1)) = Cardinality(upto(n)) + Cardinality(Kept(p, q, n + 1)) - Cardinality({})
      BY <2>2, <2>3, <2>4, <3>1, FS_Union
    <3>3. Cardinality({}) = 0
      BY FS_EmptySet
    <3>. QED BY <2>4, <3>1, <3>2, <3>3
  <2>6. Mass * Cardinality(upto(n + 1)) = square * c[n + 1]
    <3>. DEFINE i == Cardinality(upto(n))
                j == Cardinality(Kept(p, q, n + 1))
    <3>1. i \in Nat /\ j \in Nat /\ c[n] \in Nat /\ m[n + 1] \in Nat
      BY <1>2, <1>3, <1>5, <2>1, <2>4 DEF Weights
    <3>2. Mass * i = square * c[n] /\ Mass * j = square * m[n + 1] /\ c[n + 1] = c[n] + m[n + 1]
      BY <1>3, <1>7, <2>1, <2>4
    <3>3. Cardinality(upto(n + 1)) = i + j
      BY <2>5
    <3>. HIDE DEF i, j
    <3>4. Mass * (i + j) = Mass * i + Mass * j
      BY <1>1, <3>1
    <3>5. square * (c[n] + m[n + 1]) = square * c[n] + square * m[n + 1]
      BY <1>1, <3>1
    <3>. QED BY <3>2, <3>3, <3>4, <3>5
  <2>. QED BY <2>1, <2>6
<1>8. \A n \in 0..VocabSize : n \in counted
  <2>1. VocabSize \in Nat
    BY <1>1
  <2>. HIDE DEF counted
  <2>. QED BY <1>6, <1>7, <2>1, Climb
<1>9. upto(VocabSize) = Accepting(p, q)
  <2>1. q \in Weights /\ Proposal!Total(q) > 0
    BY <1>1, RowType
  <2>2. \A u \in Pairs : u[1] \in Proposal!Uniform
    BY DEF Pairs
  <2>3. \A u \in Pairs : Proposal!Categorical(q, u[1]) \in 1..VocabSize
    BY <2>1, <2>2, CategoricalIs
  <2>. QED BY <1>4, <2>3
<1>. DEFINE a == Cardinality(Accepting(p, q))
            r == Cardinality(Pairs \ Accepting(p, q))
            e == Excess(p, q)
            s == c[VocabSize]
<1>10. Mass * a = square * s /\ a \in Nat
  <2>1. VocabSize \in 0..VocabSize
    BY <1>1
  <2>. HIDE DEF upto
  <2>. QED BY <1>5, <1>8, <1>9, <2>1
<1>11. r = square - a
  <2>1. r = square - Cardinality(Pairs \cap Accepting(p, q))
    BY <1>4, FS_Difference
  <2>2. Pairs \cap Accepting(p, q) = Accepting(p, q)
    BY <1>4
  <2>. QED BY <2>1, <2>2
<1>12. r \in Nat
  <2>1. IsFiniteSet(Pairs \ Accepting(p, q))
    BY <1>4, FS_Difference
  <2>. QED BY <2>1, FS_CardinalityType
<1>13. s \in Nat /\ e \in Nat /\ s + e = Mass
  BY <1>3, Split DEF m
<1>. HIDE DEF a, r, e, s
<1>14. Mass * r = square * e
  <2>1. Mass * (square - a) = Mass * square - Mass * a
    BY <1>1, <1>10
  <2>2. (s + e) * square = square * s + square * e
    BY <1>1, <1>13
  <2>3. Mass * square = square * s + square * e
    BY <1>13, <2>2
  <2>4. square * s \in Int /\ square * e \in Int
    BY <1>1, <1>13
  <2>. QED BY <1>10, <1>11, <2>1, <2>3, <2>4
<1>. QED BY <1>12, <1>14 DEF r, e, square

\* A correction is drawn from what the target has above the draft.
LEMMA CorrectionWeights ==
  ASSUME NEW p \in Proposal!Row, NEW q \in Proposal!Row
  PROVE  Proposal!ResidualWeights(p, q) = IF Excess(p, q) = 0 THEN p ELSE Above(p, q)
BY DEF Proposal!ResidualWeights, Excess, Above, Proposal!Vocabulary

\* So often each token.
LEMMA CorrectedShare ==
  ASSUME NEW p \in Proposal!Row, NEW q \in Proposal!Row, NEW x \in 1..VocabSize,
         Excess(p, q) # 0
  PROVE  LET draws == {u \in Proposal!Uniform :
                         Proposal!Categorical(Proposal!ResidualWeights(p, q), u) = x}
         IN  /\ Cardinality(draws) \in Nat
             /\ Excess(p, q) * Cardinality(draws) = Uniforms * Above(p, q)[x]
<1>. DEFINE r == Above(p, q)
            e == Excess(p, q)
            draws == {u \in Proposal!Uniform : Proposal!Categorical(r, u) = x}
<1>1. Proposal!ResidualWeights(p, q) = r
  BY CorrectionWeights
<1>2. r \in Weights /\ e \in 1..Mass /\ Proposal!Total(r) = e
  BY Split, Resolution DEF Excess
<1>3. PICK k \in Nat \ {0} : Uniforms = k * e
  BY <1>2, Resolution
<1>4. Cardinality(draws) = k * r[x]
  <2>1. e > 0
    BY <1>2, Resolution
  <2>. HIDE DEF r, e
  <2>. QED BY <1>2, <1>3, <2>1, DrawsOf
<1>5. r[x] \in Nat /\ e \in Nat
  BY <1>2, Resolution DEF Weights
<1>. HIDE DEF r, e, draws
<1>6. k * r[x] \in Nat /\ e * (k * r[x]) = (k * e) * r[x]
  BY <1>5
<1>. QED BY <1>1, <1>3, <1>4, <1>6 DEF r, e, draws

LEMMA DrawsCount == \A S : Proposal!Cardinality(S) = Cardinality(S)
BY DEF Cardinality, Proposal!Cardinality, IsFiniteSet, Proposal!IsFiniteSet

\* What is kept and what is corrected add up to the target's row.
LEMMA ExactShare ==
  ASSUME NEW p \in Proposal!Row, NEW q \in Proposal!Row, NEW x \in 1..VocabSize
  PROVE  LET corrected == {u \in Proposal!Uniform :
                             Proposal!Categorical(Proposal!ResidualWeights(p, q), u) = x}
         IN  Mass * (Cardinality(Kept(p, q, x)) * Uniforms
                       + Cardinality(Pairs \ Accepting(p, q)) * Cardinality(corrected))
               = p[x] * Uniforms * Uniforms * Uniforms
<1>. DEFINE corrected == {u \in Proposal!Uniform :
                            Proposal!Categorical(Proposal!ResidualWeights(p, q), u) = x}
            k == Cardinality(Kept(p, q, x))
            r == Cardinality(Pairs \ Accepting(p, q))
            d == Cardinality(corrected)
            m == Shared(p, q)[x]
            a == Above(p, q)[x]
            e == Excess(p, q)
            v == Uniforms
            square == v * v
<1>1. k \in Nat /\ Mass * k = square * m
  BY KeptShare
<1>2. r \in Nat /\ Mass * r = square * e
  BY RejectedShare
<1>3. m \in Nat /\ a \in Nat /\ p[x] = m + a /\ e \in Nat /\ a <= e
  <2>1. Shared(p, q) \in Weights /\ Above(p, q) \in Weights /\ p[x] = m + a
    BY Split
  <2>2. m \in Nat /\ a \in Nat
    BY <2>1 DEF Weights
  <2>3. a <= e
    BY <2>1, SomeWeight DEF Excess
  <2>4. e \in Nat
    BY Split, Resolution
  <2>. QED BY <2>1, <2>2, <2>3, <2>4
<1>4. d \in Nat
  <2>1. corrected \in SUBSET Proposal!Uniform
    OBVIOUS
  <2>. HIDE DEF corrected
  <2>. QED BY <2>1, Uniformly, FS_Subset, FS_CardinalityType
<1>5. e # 0 => e * d = v * a
  BY CorrectedShare
<1>6. v \in Nat /\ Mass \in Nat \ {0} /\ square \in Nat
  BY Resolution
<1>. HIDE DEF corrected, k, r, d, m, a, e
<1>7. Mass * (r * d) = square * (v * a)
  <2>1. CASE e = 0
    <3>1. a = 0
      BY <1>3, <2>1
    <3>2. square * e = 0 /\ v * a = 0
      BY <1>6, <2>1, <3>1
    <3>3. r = 0
      BY <1>2, <1>6, <3>2
    <3>4. r * d = 0 /\ Mass * 0 = 0 /\ square * 0 = 0
      BY <1>4, <1>6, <3>3
    <3>. QED BY <3>2, <3>4
  <2>2. CASE e # 0
    <3>. HIDE DEF square
    <3>1. Mass * (r * d) = (Mass * r) * d
      BY <1>2, <1>4, <1>6
    <3>2. (square * e) * d = square * (e * d)
      BY <1>3, <1>4, <1>6
    <3>. QED BY <1>2, <1>5, <2>2, <3>1, <3>2
  <2>. QED BY <2>1, <2>2
<1>8. Mass * (k * v + r * d) = (Mass * k) * v + Mass * (r * d)
  BY <1>1, <1>2, <1>4, <1>6
<1>9. (square * m) * v + square * (v * a) = (m + a) * v * v * v
  BY <1>3, <1>6
<1>10. Mass * (k * v + r * d) = p[x] * v * v * v
  BY <1>1, <1>3, <1>7, <1>8, <1>9
<1>. QED BY <1>10 DEF k, r, d, corrected

LEMMA ExactLawHolds ==
  ASSUME targetRow \in Proposal!Row, draftRow \in Proposal!Row
  PROVE  Proposal!ExactLaw
<1>. DEFINE p == targetRow
            q == draftRow
<1>1. Accepting(p, q) = {u \in Proposal!Uniform \X Proposal!Uniform :
                           Proposal!Accepts(p, q, Proposal!Categorical(q, u[1]), u[2])}
  BY DEF Accepting, Pairs
<1>2. \A x \in Proposal!Vocabulary :
        Mass * (Cardinality(Kept(p, q, x)) * Uniforms
                  + Cardinality(Pairs \ Accepting(p, q))
                      * Cardinality({u \in Proposal!Uniform :
                          Proposal!Categorical(Proposal!ResidualWeights(p, q), u) = x}))
          = p[x] * Uniforms * Uniforms * Uniforms
  BY ExactShare DEF Proposal!Vocabulary
<1>. QED BY <1>1, <1>2, DrawsCount DEF Proposal!ExactLaw, Kept, Pairs

\* A drawn token has weight, and every token with weight is drawn.
LEMMA DrawnHasWeight ==
  ASSUME NEW w \in Weights, Proposal!Total(w) > 0, NEW u \in Proposal!Uniform
  PROVE  w[Proposal!Categorical(w, u)] > 0
<1>. DEFINE x == Proposal!Categorical(w, u)
            c == Proposal!Cumulative(w)
            t == u * Proposal!Total(w)
<1>1. x \in 1..VocabSize /\ Uniforms * c[x - 1] <= t /\ t < Uniforms * c[x]
  BY CategoricalIs
<1>. HIDE DEF x
<1>2. x - 1 \in 0..VocabSize /\ x \in 0..VocabSize /\ Uniforms \in Nat
  BY <1>1, Resolution
<1>3. c[x] \in Nat /\ c[x - 1] \in Nat /\ c[x] = c[x - 1] + w[x] /\ w[x] \in Nat
  BY <1>1, <1>2, CumulativeProperties, SomeWeight
<1>4. t \in Nat
  BY <1>2, CumulativeProperties DEF Proposal!Uniform
<1>. HIDE DEF c, t
<1>5. w[x] # 0
  <2>. SUFFICES ASSUME w[x] = 0 PROVE FALSE
    OBVIOUS
  <2>1. c[x] = c[x - 1]
    BY <1>3
  <2>2. Uniforms * c[x] \in Nat
    BY <1>2, <1>3
  <2>. QED BY <1>1, <1>4, <2>1, <2>2
<1>. QED BY <1>3, <1>5 DEF x

LEMMA WeightIsDrawn ==
  ASSUME NEW w \in Weights, Proposal!Total(w) \in 1..Mass, NEW x \in 1..VocabSize, w[x] > 0
  PROVE  \E u \in Proposal!Uniform : Proposal!Categorical(w, u) = x
<1>1. PICK k \in Nat \ {0} : Uniforms = k * Proposal!Total(w)
  BY Resolution
<1>. DEFINE draws == {u \in Proposal!Uniform : Proposal!Categorical(w, u) = x}
<1>2. Cardinality(draws) = k * w[x]
  <2>1. Proposal!Total(w) > 0
    BY Resolution
  <2>. QED BY <1>1, <2>1, DrawsOf
<1>3. draws # {}
  <2>1. k * w[x] # 0
    BY <1>1, SomeWeight
  <2>. HIDE DEF draws
  <2>. QED BY <1>2, <2>1, FS_EmptySet
<1>. QED BY <1>3

\* The target is somewhere above the draft if and only if some share is rejected.
LEMMA ExcessSomewhere ==
  ASSUME NEW p \in Proposal!Row, NEW q \in Proposal!Row
  PROVE  /\ \A x \in 1..VocabSize : p[x] > q[x] => Excess(p, q) # 0
         /\ Excess(p, q) # 0 => \E x \in 1..VocabSize : p[x] > q[x]
<1>. DEFINE r == Above(p, q)
<1>1. r \in Weights /\ Excess(p, q) = Proposal!Total(r) /\ Excess(p, q) \in Nat
  BY Split, Resolution DEF Excess
<1>2. \A x \in 1..VocabSize : p[x] \in Nat /\ q[x] \in Nat
  BY RowType
<1>3. \A x \in 1..VocabSize : r[x] > 0 <=> p[x] > q[x]
  BY <1>2 DEF Above
<1>. HIDE DEF r
<1>4. \A x \in 1..VocabSize : r[x] <= Excess(p, q) /\ r[x] \in Nat
  BY <1>1, SomeWeight
<1>5. ASSUME Excess(p, q) # 0 PROVE \E x \in 1..VocabSize : p[x] > q[x]
  <2>1. 0 \in Proposal!Uniform /\ Proposal!Total(r) > 0
    BY <1>1, <1>5, Resolution DEF Proposal!Uniform
  <2>2. Proposal!Categorical(r, 0) \in 1..VocabSize /\ r[Proposal!Categorical(r, 0)] > 0
    BY <1>1, <2>1, CategoricalIs, DrawnHasWeight
  <2>. QED BY <1>3, <2>2
<1>6. ASSUME NEW x \in 1..VocabSize, p[x] > q[x] PROVE Excess(p, q) # 0
  BY <1>1, <1>3, <1>4, <1>6
<1>. QED BY <1>5, <1>6

\* Where the target is somewhere below the draft, it is somewhere above it.
LEMMA ExcessBalanced ==
  ASSUME NEW p \in Proposal!Row, NEW q \in Proposal!Row, NEW x \in 1..VocabSize, p[x] < q[x]
  PROVE  Excess(p, q) # 0
<1>. DEFINE m == Shared(p, q)
            n == Shared(q, p)
<1>1. /\ Proposal!Total(m) \in Nat /\ Proposal!Total(m) + Excess(p, q) = Mass
      /\ Proposal!Total(n) \in Nat /\ Proposal!Total(n) + Excess(q, p) = Mass
      /\ Excess(p, q) \in Nat /\ Excess(q, p) \in Nat
  BY Split, Resolution
<1>2. m = n
  <2>1. \A y \in 1..VocabSize : p[y] \in Nat /\ q[y] \in Nat
    BY RowType
  <2>2. \A y \in 1..VocabSize : m[y] = n[y]
    BY <2>1 DEF Shared
  <2>. QED BY <2>2 DEF Shared
<1>3. Excess(q, p) # 0
  <2>1. p[x] \in Nat /\ q[x] \in Nat
    BY RowType
  <2>2. q[x] > p[x]
    BY <2>1
  <2>. QED BY <2>2, ExcessSomewhere
<1>. HIDE DEF m, n
<1>. QED BY <1>1, <1>2, <1>3

\* What a correction may be, as the decoder's model has it.
LEMMA CorrectionDrawn ==
  ASSUME NEW p \in Proposal!Row, NEW q \in Proposal!Row
  PROVE  {Proposal!Categorical(Proposal!ResidualWeights(p, q), u) : u \in Proposal!Uniform}
           = IF \E x \in 1..VocabSize : p[x] > q[x] THEN {x \in 1..VocabSize : p[x] > q[x]}
             ELSE {x \in 1..VocabSize : p[x] > 0}
<1>. DEFINE w == Proposal!ResidualWeights(p, q)
            draw(u) == Proposal!Categorical(w, u)
<1>1. w \in Weights /\ Proposal!Total(w) \in 1..Mass /\ Proposal!Total(w) > 0
  <2>1. CASE Excess(p, q) = 0
    <3>1. w = p
      BY <2>1, CorrectionWeights
    <3>. QED BY <3>1, RowType, Resolution
  <2>2. CASE Excess(p, q) # 0
    <3>1. w = Above(p, q)
      BY <2>2, CorrectionWeights
    <3>2. Proposal!Total(w) = Excess(p, q)
      BY <3>1 DEF Excess
    <3>. QED BY <2>2, <3>1, <3>2, Split, Resolution
  <2>. QED BY <2>1, <2>2
<1>2. \A x \in 1..VocabSize : p[x] \in Nat /\ q[x] \in Nat
  BY RowType
<1>3. {draw(u) : u \in Proposal!Uniform} = {x \in 1..VocabSize : w[x] > 0}
  <2>. HIDE DEF w
  <2>1. \A u \in Proposal!Uniform : draw(u) \in 1..VocabSize /\ w[draw(u)] > 0
    BY <1>1, CategoricalIs, DrawnHasWeight
  <2>2. \A x \in 1..VocabSize : w[x] > 0 => \E u \in Proposal!Uniform : draw(u) = x
    BY <1>1, WeightIsDrawn
  <2>. HIDE DEF draw
  <2>. QED BY <2>1, <2>2
<1>4. CASE Excess(p, q) = 0
  <2>1. w = p /\ ~\E x \in 1..VocabSize : p[x] > q[x]
    BY <1>4, CorrectionWeights, ExcessSomewhere
  <2>2. {x \in 1..VocabSize : w[x] > 0} = {x \in 1..VocabSize : p[x] > 0}
    <3>. HIDE DEF w
    <3>. QED BY <2>1
  <2>. QED BY <1>3, <2>1, <2>2
<1>5. CASE Excess(p, q) # 0
  <2>1. w = Above(p, q) /\ \E x \in 1..VocabSize : p[x] > q[x]
    BY <1>5, CorrectionWeights, ExcessSomewhere
  <2>2. \A x \in 1..VocabSize : w[x] > 0 <=> p[x] > q[x]
    BY <1>2, <2>1 DEF Above
  <2>3. {x \in 1..VocabSize : w[x] > 0} = {x \in 1..VocabSize : p[x] > q[x]}
    <3>. HIDE DEF w
    <3>. QED BY <2>2
  <2>. QED BY <1>3, <2>1, <2>3
<1>. QED BY <1>4, <1>5

\* What a draw from a row may be.
LEMMA RowDrawn ==
  ASSUME NEW p \in Proposal!Row
  PROVE  {Proposal!Categorical(p, u) : u \in Proposal!Uniform} = {x \in 1..VocabSize : p[x] > 0}
<1>1. p \in Weights /\ Proposal!Total(p) \in 1..Mass /\ Proposal!Total(p) > 0
  BY RowType, Resolution
<1>2. \A u \in Proposal!Uniform :
        Proposal!Categorical(p, u) \in 1..VocabSize /\ p[Proposal!Categorical(p, u)] > 0
  BY <1>1, CategoricalIs, DrawnHasWeight
<1>3. \A x \in 1..VocabSize :
        p[x] > 0 => \E u \in Proposal!Uniform : Proposal!Categorical(p, u) = x
  BY <1>1, WeightIsDrawn
<1>. QED BY <1>2, <1>3

\* A draw of zero accepts what the target has, and the greatest draw rejects
\* what the draft has more of.
LEMMA VerdictDrawn ==
  ASSUME NEW p \in Proposal!Row, NEW q \in Proposal!Row, NEW x \in 1..VocabSize
  PROVE  /\ (q[x] = 0 \/ p[x] > 0) <=> \E u \in Proposal!Uniform : Proposal!Accepts(p, q, x, u)
         /\ (q[x] > 0 /\ p[x] < q[x]) <=> \E u \in Proposal!Uniform : ~Proposal!Accepts(p, q, x, u)
<1>. DEFINE a == p[x]
            b == q[x]
            v == Uniforms
<1>1. a \in Nat /\ b \in 0..Mass /\ b \in Nat /\ v \in Nat \ {0}
  BY RowType, Resolution
<1>2. \A u \in Proposal!Uniform : Proposal!Accepts(p, q, x, u) <=> b = 0 \/ u * b < v * a
  BY DEF Proposal!Accepts
<1>3. b # 0 => \E k \in Nat \ {0} : v = k * b
  <2>1. b # 0 => b \in 1..Mass
    BY <1>1, Resolution
  <2>. HIDE DEF b
  <2>. QED BY <2>1, Resolution
<1>4. Proposal!Uniform = 0..v - 1
  BY DEF Proposal!Uniform
<1>. HIDE DEF a, b, v
<1>5. 0 \in Proposal!Uniform /\ v - 1 \in Proposal!Uniform
  BY <1>1, <1>4
<1>6. \A u \in Proposal!Uniform : u \in Nat /\ u < v
  BY <1>1, <1>4
<1>7. (b = 0 \/ a > 0) <=> \E u \in Proposal!Uniform : b = 0 \/ u * b < v * a
  <2>1. ASSUME a > 0 PROVE 0 * b < v * a
    <3>1. v * a # 0 /\ v * a \in Nat /\ 0 * b = 0
      BY <1>1, <2>1
    <3>. QED BY <3>1
  <2>2. ASSUME NEW u \in Proposal!Uniform, u * b < v * a PROVE a # 0
    <3>1. u * b \in Nat /\ v * 0 = 0
      BY <1>1, <1>6
    <3>. QED BY <2>2, <3>1
  <2>. QED BY <1>1, <1>5, <2>1, <2>2
<1>8. (b > 0 /\ a < b) <=> \E u \in Proposal!Uniform : ~(b = 0 \/ u * b < v * a)
  <2>1. ASSUME b > 0, a < b PROVE ~((v - 1) * b < v * a)
    <3>1. PICK k \in Nat \ {0} : v = k * b
      BY <1>3, <2>1
    <3>2. (v - 1) * b = v * b - b /\ v * b \in Nat /\ v * a \in Nat
      BY <1>1
    <3>3. v * (a + 1) = v * a + v /\ v * (a + 1) <= v * b
      BY <1>1, <2>1
    <3>4. b <= v
      BY <1>1, <3>1
    <3>. QED BY <1>1, <3>2, <3>3, <3>4
  <2>2. ASSUME NEW u \in Proposal!Uniform, b # 0, ~(u * b < v * a) PROVE a < b
    <3>1. u * b < v * b
      BY <1>1, <1>6, <2>2, Scaled
    <3>2. ASSUME b <= a PROVE v * b <= v * a
      BY <1>1, <3>2
    <3>3. u * b \in Nat /\ v * b \in Nat /\ v * a \in Nat
      BY <1>1, <1>6
    <3>. QED BY <1>1, <2>2, <3>1, <3>2, <3>3
  <2>. QED BY <1>1, <1>5, <2>1, <2>2
<1>. QED BY <1>2, <1>7, <1>8 DEF a, b

\* While a proposal is in doubt it is a token, and one that is to be corrected
\* has less mass in the target than in the draft.
ProposalInv ==
  /\ targetRow \in Proposal!Row
  /\ draftRow \in Proposal!Row
  /\ verdict \in {"verify", "correct"} => drawn \in 1..VocabSize
  /\ verdict = "correct" => targetRow[drawn] < draftRow[drawn]

LEMMA ProposalInvAlways == Proposal!Spec => []ProposalInv
<1>1. Proposal!Init => ProposalInv
  BY DEF Proposal!Init, ProposalInv
<1>2. ProposalInv /\ [Proposal!Next]_Proposal!vars => ProposalInv'
  <2>. SUFFICES ASSUME ProposalInv, [Proposal!Next]_Proposal!vars PROVE ProposalInv'
    OBVIOUS
  <2>1. CASE Proposal!Propose
    <3>1. draftRow \in Weights /\ Proposal!Total(draftRow) > 0
      BY RowType, Resolution DEF ProposalInv
    <3>2. drawn' \in 1..VocabSize
      BY <2>1, <3>1, CategoricalIs DEF Proposal!Propose
    <3>. QED BY <2>1, <3>2 DEF Proposal!Propose, ProposalInv
  <2>2. CASE Proposal!Verify
    <3>1. PICK u \in Proposal!Uniform :
            verdict' = IF Proposal!Accepts(targetRow, draftRow, drawn, u) THEN "emitted" ELSE "correct"
      BY <2>2 DEF Proposal!Verify
    <3>2. drawn \in 1..VocabSize /\ targetRow \in Proposal!Row /\ draftRow \in Proposal!Row
      BY <2>2 DEF Proposal!Verify, ProposalInv
    <3>3. verdict' = "correct" => targetRow[drawn] < draftRow[drawn]
      BY <3>1, <3>2, VerdictDrawn
    <3>. QED BY <2>2, <3>2, <3>3 DEF Proposal!Verify, ProposalInv
  <2>3. CASE Proposal!Correct
    BY <2>3 DEF Proposal!Correct, ProposalInv
  <2>4. CASE UNCHANGED Proposal!vars
    BY <2>4 DEF Proposal!vars, ProposalInv
  <2>. QED BY <2>1, <2>2, <2>3, <2>4 DEF Proposal!Next
<1>. QED BY <1>1, <1>2, PTL DEF Proposal!Spec

LEMMA UndervaluedHolds ==
  ASSUME ProposalInv
  PROVE  Proposal!CorrectionIsUndervalued
<1>. SUFFICES ASSUME verdict = "correct", NEW u \in Proposal!Uniform
              PROVE  /\ targetRow[drawn] < draftRow[drawn]
                     /\ LET y == Proposal!Categorical(Proposal!ResidualWeights(targetRow, draftRow), u)
                        IN  targetRow[y] > draftRow[y]
  <2>1. 0 \in Proposal!Uniform
    BY Resolution DEF Proposal!Uniform
  <2>. QED BY <2>1 DEF Proposal!CorrectionIsUndervalued
<1>1. /\ targetRow \in Proposal!Row /\ draftRow \in Proposal!Row
      /\ drawn \in 1..VocabSize /\ targetRow[drawn] < draftRow[drawn]
  BY DEF ProposalInv
<1>2. \E x \in 1..VocabSize : targetRow[x] > draftRow[x]
  BY <1>1, ExcessBalanced, ExcessSomewhere
<1>3. Proposal!Categorical(Proposal!ResidualWeights(targetRow, draftRow), u)
        \in {x \in 1..VocabSize : targetRow[x] > draftRow[x]}
  BY <1>1, <1>2, CorrectionDrawn
<1>. QED BY <1>1, <1>3

\* docs/architecture.md, "Correctness contract": whatever the draft proposes, the
\* emitted token has the distribution of the target, exactly; what is corrected
\* was overvalued by the draft, and becomes what it undervalued.  For every
\* vocabulary, every mass, all rows and every resolution of the draws that has
\* the fractions of the mass.
THEOREM ExactProposalAlways == Proposal!Spec => []ExactProposal
<1>1. ProposalInv => ExactProposal
  BY ExactLawHolds, UndervaluedHolds DEF ProposalInv, ExactProposal, Proposal!ExactProposal
<1>. QED BY <1>1, ProposalInvAlways, PTL

\* The choices of the decoder's model in Support, MayAccept, MayReject and Residual
\* are those that some draw makes, for every vocabulary and all rows.
THEOREM OutcomesAreTheDrawsAlways == Proposal!Spec => []OutcomesAreTheDraws
<1>1. ProposalInv => OutcomesAreTheDraws
  <2>. SUFFICES ASSUME ProposalInv PROVE Proposal!OutcomesAreTheDraws
    BY DEF OutcomesAreTheDraws
  <2>1. targetRow \in Proposal!Row /\ draftRow \in Proposal!Row
    BY DEF ProposalInv
  <2>2. {Proposal!Categorical(targetRow, u) : u \in Proposal!Uniform}
          = Proposal!Outcomes!Support(targetRow)
    BY <2>1, RowDrawn DEF Proposal!Outcomes!Support, Proposal!Vocabulary
  <2>3. {Proposal!Categorical(Proposal!ResidualWeights(targetRow, draftRow), u) : u \in Proposal!Uniform}
          = Proposal!Outcomes!Residual(targetRow, draftRow)
    BY <2>1, CorrectionDrawn DEF Proposal!Outcomes!Residual, Proposal!Outcomes!Support, Proposal!Vocabulary
  <2>4. ASSUME NEW x \in Proposal!Vocabulary
        PROVE  /\ Proposal!Outcomes!MayAccept(targetRow, draftRow, x)
                    <=> \E u \in Proposal!Uniform : Proposal!Accepts(targetRow, draftRow, x, u)
               /\ Proposal!Outcomes!MayReject(targetRow, draftRow, x)
                    <=> \E u \in Proposal!Uniform : ~Proposal!Accepts(targetRow, draftRow, x, u)
    BY <2>1, VerdictDrawn DEF Proposal!Outcomes!MayAccept, Proposal!Outcomes!MayReject, Proposal!Vocabulary
  <2>. QED BY <2>2, <2>3, <2>4 DEF Proposal!OutcomesAreTheDraws
<1>. QED BY <1>1, ProposalInvAlways, PTL
=============================================================================
