-------------------------- MODULE GenerationProofs --------------------------
(***************************************************************************)
(* Proofs about what a generation gives.  GenerationServer, for any number *)
(* of connections, requests and tokens: the lock is held by the thread     *)
(* that generates and no other, and each token is drawn from the row of    *)
(* its own request.  GenerationLaw, for any vocabulary, rows, windows and  *)
(* length: every output of SpeculativeDecoder.generate is as probable as   *)
(* under the target alone.                                                 *)
(*                                                                         *)
(* The second proof fixes an output u and weighs each configuration with   *)
(* the probability that the call goes on from it to an output that begins  *)
(* with u (Worth).  A configuration is worth what its successors are, with *)
(* their probabilities (Follows): a proposal of the draft, a verdict, the  *)
(* bonus and the fallback change nothing.  So the mixture of the law is    *)
(* worth at every step what the call was when it began, which is what the  *)
(* target gives u.  All numbers are kept whole by a denominator that every *)
(* total of a row divides (Whole).                                         *)
(***************************************************************************)
EXTENDS GenerationServer, GenerationLaw, SharedTheorems

-----------------------------------------------------------------------------
(* GenerationServer: the invariant.                                        *)

Busy == {"decoding", "calling"}

Connection == [request : Requests, sent : 0..MaxRequests, stray : BOOLEAN,
               gone : BOOLEAN, answer : Statuses \cup {"none", "page"}]

Generation == [prompt : Seq(Tokens), output : Seq(Tokens), rows : Seq(Seq(Tokens)),
               reuse : Nat]

Types == /\ pc \in [Connections -> Places]
         /\ conn \in [Connections -> Connection]
         /\ work \in [Connections -> Generation]
         /\ lock \in Connections \cup {NoOne}
         /\ cached \in Seq(Tokens)

\* A generation of a thread is that of its request, within the limit.
Limited == \A c \in Connections :
  /\ Len(work[c].output) <= MaxNewTokens
  /\ Len(work[c].rows) = Len(work[c].output)
  /\ pc[c] \in Busy \cup {"waiting"} =>
       /\ work[c].prompt # <<>>
       /\ conn[c].request.limit \in 0..MaxNewTokens
       /\ Len(work[c].output) <= conn[c].request.limit
  /\ pc[c] = "calling" => Len(work[c].output) < conn[c].request.limit

\* What is cached during a model call is what the call reuses.
Calling == \A c \in Connections :
  pc[c] = "calling" => /\ work[c].reuse \in 0..Len(Context(c))
                       /\ cached = SubSeq(Context(c), 1, work[c].reuse)

IInv == Types /\ Limited /\ LockIsHeld /\ Calling /\ Isolated

\* The invariant gives the types.
LEMMA TypesSuffice == ASSUME IInv PROVE TypeOK
BY DEF IInv, Types, Limited, TypeOK, Connection

LEMMA InitHolds == ASSUME Init PROVE IInv
<1>1. <<>> \in Seq(Tokens) /\ <<>> \in Seq(Seq(Tokens)) /\ Len(<<>>) = 0 /\ DOMAIN <<>> = {}
  BY EmptySeq
<1>2. Types
  BY <1>1, ServerAssumption DEF Init, Types, Connection, Generation, Places, Statuses,
        Requests, Nothing
<1>3. Limited /\ Calling /\ Isolated
  BY <1>1, ServerAssumption DEF Init, Limited, Calling, Isolated, Nothing, Busy
<1>4. LockIsHeld
  BY ServerAssumption DEF Init, LockIsHeld
<1>. QED BY <1>2, <1>3, <1>4 DEF IInv

-----------------------------------------------------------------------------
(* Steps of one thread that leave the models alone.                        *)

\* Only the connection of one thread changes, and that thread neither holds the
\* lock nor asks for it.
LEMMA QuietStep ==
  ASSUME IInv, NEW c \in Connections, NEW p \in Places \ (Busy \cup {"waiting"}),
         pc[c] \notin Busy \cup {"closed"},
         pc' = [pc EXCEPT ![c] = p],
         conn' \in [Connections -> Connection],
         \A d \in Connections \ {c} : conn'[d] = conn[d],
         UNCHANGED <<work, lock, cached>>
  PROVE  IInv'
<1>1. Types'
  BY DEF IInv, Types
<1>2. Limited'
  <2>. SUFFICES ASSUME NEW d \in Connections
                PROVE  /\ Len(work[d].output) <= MaxNewTokens
                       /\ Len(work[d].rows) = Len(work[d].output)
                       /\ pc'[d] \in Busy \cup {"waiting"} =>
                            /\ work[d].prompt # <<>>
                            /\ conn'[d].request.limit \in 0..MaxNewTokens
                            /\ Len(work[d].output) <= conn'[d].request.limit
                       /\ pc'[d] = "calling" => Len(work[d].output) < conn'[d].request.limit
    BY DEF Limited
  <2>1. pc'[d] = IF d = c THEN p ELSE pc[d]
    BY DEF IInv, Types
  <2>2. CASE d = c
    BY <2>1, <2>2 DEF IInv, Limited, Busy
  <2>3. CASE d # c
    BY <2>1, <2>3 DEF IInv, Limited
  <2>. QED BY <2>2, <2>3
<1>3. LockIsHeld'
  BY DEF IInv, Types, LockIsHeld, Busy
<1>4. Calling'
  BY DEF IInv, Types, Calling, Context, Busy
<1>5. Isolated'
  BY DEF IInv, Isolated
<1>. QED BY <1>1, <1>2, <1>3, <1>4, <1>5 DEF IInv

\* An answer changes the connection as QuietStep allows.
LEMMA Answering ==
  ASSUME Types, NEW c \in Connections, NEW status \in Statuses \cup {"page"},
         NEW place \in {"idle", "closed"},
         Answer(c, status, place)
  PROVE  \E p \in {"idle", "closed"} :
           /\ pc' = [pc EXCEPT ![c] = p]
           /\ conn' \in [Connections -> Connection]
           /\ \A d \in Connections \ {c} : conn'[d] = conn[d]
           /\ conn'[c].request = conn[c].request
<1>1. conn[c] \in Connection
  BY DEF Types
<1>2. /\ conn' \in [Connections -> Connection]
      /\ \A d \in Connections \ {c} : conn'[d] = conn[d]
      /\ conn'[c].request = conn[c].request
  BY <1>1 DEF Types, Answer, Connection
<1>. QED BY <1>2 DEF Answer, Go

LEMMA AnsweringUnread ==
  ASSUME Types, NEW c \in Connections, NEW status \in Statuses,
         conn[c].request.kind \in {"health", "unknown", "lengthless"},
         AnswerUnread(c, status)
  PROVE  \E p \in {"idle", "closed"} :
           /\ pc' = [pc EXCEPT ![c] = p]
           /\ conn' \in [Connections -> Connection]
           /\ \A d \in Connections \ {c} : conn'[d] = conn[d]
<1>1. conn[c] \in Connection
  BY DEF Types
<1>2. conn[c].request.body \in BOOLEAN
  BY <1>1 DEF Connection, Requests
<1>3. /\ conn' \in [Connections -> Connection]
      /\ \A d \in Connections \ {c} : conn'[d] = conn[d]
  BY <1>1, <1>2 DEF Types, AnswerUnread, Connection
<1>. QED BY <1>3 DEF AnswerUnread, Go

\* A thread that answers without having used the models.
LEMMA AnswerStep ==
  ASSUME IInv, NEW c \in Connections, pc[c] \notin Busy \cup {"closed"},
         NEW status \in Statuses \cup {"page"}, NEW place \in {"idle", "closed"},
         Answer(c, status, place), UNCHANGED <<work, lock, cached>>
  PROVE  IInv'
<1>1. PICK p \in {"idle", "closed"} :
        /\ pc' = [pc EXCEPT ![c] = p]
        /\ conn' \in [Connections -> Connection]
        /\ \A d \in Connections \ {c} : conn'[d] = conn[d]
  BY Answering DEF IInv
<1>2. p \in Places \ (Busy \cup {"waiting"})
  BY DEF Places, Busy
<1>. QED BY <1>1, <1>2, QuietStep

LEMMA AnswerUnreadStep ==
  ASSUME IInv, NEW c \in Connections, pc[c] \notin Busy \cup {"closed"},
         conn[c].request.kind \in {"health", "unknown", "lengthless"},
         NEW status \in Statuses,
         AnswerUnread(c, status), UNCHANGED <<work, lock, cached>>
  PROVE  IInv'
<1>1. PICK p \in {"idle", "closed"} :
        /\ pc' = [pc EXCEPT ![c] = p]
        /\ conn' \in [Connections -> Connection]
        /\ \A d \in Connections \ {c} : conn'[d] = conn[d]
  BY AnsweringUnread DEF IInv
<1>2. p \in Places \ (Busy \cup {"waiting"})
  BY DEF Places, Busy
<1>. QED BY <1>1, <1>2, QuietStep

\* The lock, when one thread that is not closed moves.
LEMMA LockStep ==
  ASSUME IInv, NEW c \in Connections, NEW p \in Places,
         pc[c] # "closed", pc' = [pc EXCEPT ![c] = p],
         \/ lock' = lock /\ (pc[c] \in Busy <=> p \in Busy)
         \/ lock = NoOne /\ lock' = c /\ p \in Busy
         \/ pc[c] \in Busy /\ lock' = NoOne /\ p \notin Busy
  PROVE  LockIsHeld'
BY ServerAssumption DEF IInv, Types, LockIsHeld, Busy

-----------------------------------------------------------------------------
(* Steps of one thread that use the models.                                *)

\* The parts of the invariant that are about one generation at a time, after a
\* step that changes one thread's generation to w and its place to p.
LEMMA WorkStep ==
  ASSUME IInv, NEW c \in Connections, NEW p \in Places, NEW w \in Generation,
         pc' = [pc EXCEPT ![c] = p],
         work' = [work EXCEPT ![c] = w],
         conn' \in [Connections -> Connection],
         \A d \in Connections \ {c} : conn'[d] = conn[d],
         lock' \in Connections \cup {NoOne},
         cached' \in Seq(Tokens),
         Len(w.output) <= MaxNewTokens,
         Len(w.rows) = Len(w.output),
         p \in Busy \cup {"waiting"} =>
            /\ w.prompt # <<>>
            /\ conn'[c].request.limit \in 0..MaxNewTokens
            /\ Len(w.output) <= conn'[c].request.limit,
         p = "calling" => Len(w.output) < conn'[c].request.limit,
         \A k \in DOMAIN w.rows : w.rows[k] = w.prompt \o SubSeq(w.output, 1, k - 1)
  PROVE  Types' /\ Limited' /\ Isolated'
<1>1. Types'
  BY DEF IInv, Types
<1>2. \A d \in Connections : /\ pc'[d] = IF d = c THEN p ELSE pc[d]
                             /\ work'[d] = IF d = c THEN w ELSE work[d]
  BY DEF IInv, Types
<1>3. Limited'
  <2>. SUFFICES ASSUME NEW d \in Connections
                PROVE  /\ Len(work'[d].output) <= MaxNewTokens
                       /\ Len(work'[d].rows) = Len(work'[d].output)
                       /\ pc'[d] \in Busy \cup {"waiting"} =>
                            /\ work'[d].prompt # <<>>
                            /\ conn'[d].request.limit \in 0..MaxNewTokens
                            /\ Len(work'[d].output) <= conn'[d].request.limit
                       /\ pc'[d] = "calling" => Len(work'[d].output) < conn'[d].request.limit
    BY DEF Limited
  <2>1. CASE d = c
    BY <1>2, <2>1
  <2>2. CASE d # c
    BY <1>2, <2>2 DEF IInv, Limited
  <2>. QED BY <2>1, <2>2
<1>4. Isolated'
  <2>. SUFFICES ASSUME NEW d \in Connections, NEW k \in DOMAIN work'[d].rows
                PROVE  work'[d].rows[k] = work'[d].prompt \o SubSeq(work'[d].output, 1, k - 1)
    BY DEF Isolated
  <2>1. CASE d = c
    BY <1>2, <2>1
  <2>2. CASE d # c
    <3>1. work'[d] = work[d]
      BY <1>2, <2>2
    <3>. QED BY <3>1 DEF IInv, Isolated
  <2>. QED BY <2>1, <2>2
<1>. QED BY <1>1, <1>3, <1>4

\* At most one thread is in a model call.
LEMMA OnlyCaller ==
  ASSUME IInv, NEW c \in Connections, NEW d \in Connections, c # d,
         pc[c] \in Busy \/ lock = NoOne
  PROVE  pc[d] \notin Busy
BY ServerAssumption DEF IInv, Types, LockIsHeld, Busy

LEMMA NothingProperties == /\ Nothing \in Generation
                           /\ Nothing.output = <<>> /\ Nothing.rows = <<>>
                           /\ Len(<<>>) = 0 /\ DOMAIN <<>> = {}
BY EmptySeq DEF Nothing, Generation

\* The body was parsed; if it was valid, a new generation waits for the lock.
LEMMA ParseStep ==
  ASSUME IInv, NEW c \in Connections, Parse(c)
  PROVE  IInv'
<1>. DEFINE r == conn[c].request
            w == [Nothing EXCEPT !.prompt = r.prompt]
<1>1. pc[c] = "parsing" /\ lock' = lock /\ cached' = cached
  BY DEF Parse, At
<1>2. ASSUME UNCHANGED work, NEW status \in Statuses, Answer(c, status, "idle")
      PROVE  IInv'
  BY <1>1, <1>2, AnswerStep DEF Busy
<1>3. ASSUME r.kind = "generate", Valid(r), Go(c, "waiting"),
             work' = [work EXCEPT ![c] = w], UNCHANGED conn
      PROVE  IInv'
  <2>1. r \in Requests /\ r.prompt \in Prompts /\ r.limit \in 0..MaxNewTokens + 1
    BY <1>3 DEF IInv, Types, Connection, Requests
  <2>2. r.prompt \in Seq(Tokens) /\ r.prompt # <<>> /\ r.limit \in 0..MaxNewTokens
    BY <1>3, <2>1, ServerAssumption DEF Valid
  <2>3. /\ w \in Generation /\ w.prompt = r.prompt
        /\ w.output = <<>> /\ w.rows = <<>>
    BY <2>2, NothingProperties DEF Nothing, Generation
  <2>4. pc' = [pc EXCEPT ![c] = "waiting"] /\ "waiting" \in Places
    BY <1>3 DEF Go, Places
  <2>. HIDE DEF w
  <2>5. Types' /\ Limited' /\ Isolated'
    <3>1. /\ conn' \in [Connections -> Connection] /\ conn'[c].request.limit = r.limit
          /\ lock' \in Connections \cup {NoOne} /\ cached' \in Seq(Tokens)
      BY <1>1, <1>3 DEF IInv, Types
    <3>2. /\ Len(w.output) = 0 /\ Len(w.rows) = 0 /\ DOMAIN w.rows = {}
          /\ 0 <= r.limit /\ 0 <= MaxNewTokens
      BY <2>2, <2>3, NothingProperties, ServerAssumption
    <3>3. \A d \in Connections \ {c} : conn'[d] = conn[d]
      BY <1>3
    <3>4. w.prompt # <<>>
      BY <2>2, <2>3
    <3>5. \A k \in DOMAIN w.rows : w.rows[k] = w.prompt \o SubSeq(w.output, 1, k - 1)
      BY <3>2
    <3>. HIDE DEF r
    <3>. QED BY <1>3, <2>2, <2>3, <2>4, <3>1, <3>2, <3>3, <3>4, <3>5, WorkStep
  <2>6. LockIsHeld'
    BY <1>1, <2>4, LockStep DEF Busy
  <2>7. Calling'
    BY <1>1, <1>3, <2>4 DEF IInv, Types, Calling, Context, Busy
  <2>. QED BY <2>5, <2>6, <2>7 DEF IInv
<1>. QED BY <1>1, <1>2, <1>3 DEF Parse, Statuses
LEMMA AcquireStep ==
  ASSUME IInv, NEW c \in Connections, Acquire(c)
  PROVE  IInv'
<1>1. /\ pc[c] = "waiting" /\ lock = NoOne /\ lock' = c /\ cached' = <<>>
      /\ pc' = [pc EXCEPT ![c] = "decoding"] /\ conn' = conn /\ work' = work
  BY DEF Acquire, At, Free, Go
<1>2. "decoding" \in Places /\ <<>> \in Seq(Tokens)
  BY EmptySeq DEF Places
<1>3. Types'
  BY <1>1, <1>2 DEF IInv, Types
<1>4. Limited'
  <2>. SUFFICES ASSUME NEW d \in Connections
                PROVE  /\ pc'[d] \in Busy \cup {"waiting"} => pc[d] \in Busy \cup {"waiting"}
                       /\ pc'[d] = "calling" => pc[d] = "calling"
    BY <1>1 DEF IInv, Limited
  <2>. QED BY <1>1 DEF IInv, Types, Busy
<1>5. Isolated'
  BY <1>1 DEF IInv, Isolated
<1>6. LockIsHeld'
  BY <1>1, <1>2, LockStep DEF Busy
<1>7. Calling'
  <2>. SUFFICES ASSUME NEW d \in Connections, pc'[d] = "calling" PROVE FALSE
    BY DEF Calling
  <2>1. pc[d] = "calling" /\ d # c
    BY <1>1 DEF IInv, Types
  <2>. QED BY <1>1, <2>1, OnlyCaller DEF Busy
<1>. QED BY <1>3, <1>4, <1>5, <1>6, <1>7 DEF IInv

LEMMA FinishStep ==
  ASSUME IInv, NEW c \in Connections, Finish(c)
  PROVE  IInv'
<1>1. /\ pc[c] = "decoding" /\ lock' = NoOne /\ cached' = cached
      /\ pc' = [pc EXCEPT ![c] = "formatting"] /\ conn' = conn /\ work' = work
  BY DEF Finish, At, Unlock, Go
<1>2. "formatting" \in Places
  BY DEF Places
<1>3. Types'
  BY <1>1, <1>2 DEF IInv, Types
<1>4. Limited'
  <2>. SUFFICES ASSUME NEW d \in Connections
                PROVE  /\ pc'[d] \in Busy \cup {"waiting"} => pc[d] \in Busy \cup {"waiting"}
                       /\ pc'[d] = "calling" => pc[d] = "calling"
    BY <1>1 DEF IInv, Limited
  <2>. QED BY <1>1 DEF IInv, Types, Busy
<1>5. Isolated'
  BY <1>1 DEF IInv, Isolated
<1>6. LockIsHeld'
  BY <1>1, <1>2, LockStep DEF Busy
<1>7. Calling'
  BY <1>1 DEF IInv, Types, Calling, Context
<1>. QED BY <1>3, <1>4, <1>5, <1>6, <1>7 DEF IInv

\* The context of a generation that is under way.
LEMMA ContextTyped ==
  ASSUME IInv, NEW c \in Connections, pc[c] \in Busy
  PROVE  /\ Context(c) \in Seq(Tokens)
         /\ Len(Context(c)) \in Nat \ {0}
         /\ work[c] \in Generation
<1>1. /\ work[c] \in Generation /\ work[c].prompt # <<>>
      /\ work[c].prompt \in Seq(Tokens) /\ work[c].output \in Seq(Tokens)
  BY DEF IInv, Types, Limited, Generation
<1>2. Len(work[c].prompt) \in Nat \ {0} /\ Len(work[c].output) \in Nat
  BY <1>1, LenProperties, EmptySeq
<1>3. /\ Context(c) \in Seq(Tokens)
      /\ Len(Context(c)) = Len(work[c].prompt) + Len(work[c].output)
  BY <1>1, ConcatProperties DEF Context
<1>4. \A i \in Nat \ {0}, j \in Nat : i + j \in Nat \ {0}
  OBVIOUS
<1>5. Len(Context(c)) \in Nat \ {0}
  BY <1>2, <1>3, <1>4
<1>. QED BY <1>1, <1>3, <1>5

\* Before the forward pass the cache is cut to a prefix of the context.
LEMMA PrepareStep ==
  ASSUME IInv, NEW c \in Connections, Prepare(c)
  PROVE  IInv'
<1>. DEFINE m == CommonLength(cached, Context(c))
            n == Smaller(m, Len(Context(c)) - 1)
            w == [work[c] EXCEPT !.reuse = n]
<1>1. /\ pc[c] = "decoding" /\ ~Complete(c)
      /\ cached' = SubSeq(cached, 1, n)
      /\ work' = [work EXCEPT ![c].reuse = n]
      /\ pc' = [pc EXCEPT ![c] = "calling"] /\ conn' = conn /\ lock' = lock
  BY DEF Prepare, At, Go
<1>2. /\ Context(c) \in Seq(Tokens) /\ Len(Context(c)) \in Nat \ {0}
      /\ work[c] \in Generation /\ cached \in Seq(Tokens) /\ Len(cached) \in Nat
  BY <1>1, ContextTyped, LenProperties DEF Busy, IInv, Types
<1>3. /\ m \in 0..Len(cached) /\ m \in 0..Len(Context(c))
      /\ SubSeq(cached, 1, m) = SubSeq(Context(c), 1, m)
  <2>1. /\ m \in 0..Smaller(Len(cached), Len(Context(c)))
        /\ SubSeq(cached, 1, m) = SubSeq(Context(c), 1, m)
    BY <1>2, CommonLengthProperties
  <2>. HIDE DEF m
  <2>. QED BY <1>2, <2>1 DEF Smaller
<1>. HIDE DEF m
<1>4. n \in 0..m /\ n \in 0..Len(cached) /\ n \in 0..Len(Context(c)) /\ n \in Nat
  BY <1>2, <1>3 DEF Smaller
<1>. HIDE DEF n
<1>5. /\ SubSeq(cached, 1, n) = SubSeq(Context(c), 1, n)
      /\ SubSeq(cached, 1, n) \in Seq(Tokens)
  <2>1. /\ SubSeq(SubSeq(cached, 1, m), 1, n) = SubSeq(cached, 1, n)
        /\ SubSeq(SubSeq(Context(c), 1, m), 1, n) = SubSeq(Context(c), 1, n)
    BY <1>2, <1>3, <1>4, PrefixOfPrefix
  <2>. QED BY <1>2, <1>3, <1>4, <2>1, PrefixProperties
<1>6. /\ work' = [work EXCEPT ![c] = w]
      /\ w \in Generation /\ w.prompt = work[c].prompt /\ w.output = work[c].output
      /\ w.rows = work[c].rows /\ w.reuse = n
  BY <1>1, <1>2, <1>4 DEF Generation
<1>. HIDE DEF w
<1>7. "calling" \in Places
  BY DEF Places
<1>8. Types' /\ Limited' /\ Isolated'
  <2>1. /\ conn' \in [Connections -> Connection]
        /\ lock' \in Connections \cup {NoOne} /\ cached' \in Seq(Tokens)
        /\ \A d \in Connections \ {c} : conn'[d] = conn[d]
    BY <1>1, <1>5 DEF IInv, Types
  <2>2. /\ w.prompt # <<>> /\ conn'[c].request.limit \in 0..MaxNewTokens
        /\ Len(w.output) <= conn'[c].request.limit
        /\ Len(w.output) <= MaxNewTokens /\ Len(w.rows) = Len(w.output)
    BY <1>1, <1>6 DEF IInv, Limited, Busy
  <2>3. Len(w.output) \in Nat /\ Len(w.output) # conn'[c].request.limit
    BY <1>1, <1>6, LenProperties DEF Complete, Generation
  <2>4. Len(w.output) < conn'[c].request.limit
    BY <2>2, <2>3, ServerAssumption
  <2>5. \A k \in DOMAIN w.rows : w.rows[k] = w.prompt \o SubSeq(w.output, 1, k - 1)
    BY <1>6 DEF IInv, Isolated
  <2>. QED BY <1>1, <1>6, <1>7, <2>1, <2>2, <2>4, <2>5, WorkStep
<1>9. LockIsHeld'
  BY <1>1, <1>7, LockStep DEF Busy
<1>10. Calling'
  <2>. SUFFICES ASSUME NEW d \in Connections, pc'[d] = "calling"
                PROVE  /\ work'[d].reuse \in 0..Len(Context(d)')
                       /\ cached' = SubSeq(Context(d)', 1, work'[d].reuse)
    BY DEF Calling
  <2>1. d = c
    <3>. SUFFICES ASSUME d # c PROVE FALSE
      OBVIOUS
    <3>1. pc[d] = "calling"
      BY <1>1 DEF IInv, Types
    <3>. QED BY <1>1, <3>1, OnlyCaller DEF Busy
  <2>2. work'[c] = w
    BY <1>6 DEF IInv, Types
  <2>3. Context(c)' = Context(c) /\ work'[c].reuse = n
    BY <1>6, <2>2 DEF Context
  <2>. QED BY <1>1, <1>4, <1>5, <2>1, <2>3
<1>. QED BY <1>8, <1>9, <1>10 DEF IInv
\* The row of a forward pass over what the cache leaves is that of the context.
LEMMA ForwardStep ==
  ASSUME IInv, NEW c \in Connections, Forward(c)
  PROVE  IInv'
<1>. DEFINE x == Context(c)
            rest == SubSeq(x, work[c].reuse + 1, Len(x))
            row == cached \o rest
<1>1. PICK token \in Tokens :
        /\ pc[c] = "calling" /\ cached' = row
        /\ work' = [work EXCEPT ![c].output = Append(@, token), ![c].rows = Append(@, row)]
        /\ pc' = [pc EXCEPT ![c] = "decoding"] /\ conn' = conn /\ lock' = lock
  BY DEF Forward, At, Go
<1>2. /\ x \in Seq(Tokens) /\ Len(x) \in Nat /\ work[c] \in Generation
      /\ work[c].reuse \in 0..Len(x) /\ cached = SubSeq(x, 1, work[c].reuse)
  BY <1>1, ContextTyped DEF Busy, IInv, Calling
<1>3. row = x
  <2>1. /\ SubSeq(x, 1, work[c].reuse) \o SubSeq(rest, 1, Len(x) - work[c].reuse)
             = SubSeq(x, 1, Len(x))
    <3>1. Len(x) \in work[c].reuse..Len(x)
      BY <1>2
    <3>. HIDE DEF x
    <3>. QED BY <1>2, <3>1, PrefixExtended
  <2>2. SubSeq(rest, 1, Len(x) - work[c].reuse) = rest
    <3>1. /\ rest \in Seq(Tokens)
          /\ Len(rest) = Len(x) - work[c].reuse
      <4>1. \A i \in work[c].reuse + 1..Len(x) : x[i] \in Tokens
        BY <1>2, ElementOfSeq
      <4>2. /\ rest \in Seq(Tokens)
            /\ Len(rest) = IF work[c].reuse + 1 <= Len(x)
                           THEN Len(x) - (work[c].reuse + 1) + 1 ELSE 0
        BY <1>2, <4>1, SubSeqProperties
      <4>. HIDE DEF rest, x
      <4>. QED BY <1>2, <4>2
    <3>. HIDE DEF rest, x
    <3>. QED BY <3>1, SubSeqFull
  <2>3. SubSeq(x, 1, Len(x)) = x
    BY <1>2, SubSeqFull
  <2>. HIDE DEF rest, x
  <2>. QED BY <1>2, <2>1, <2>2, <2>3
<1>. HIDE DEF row
<1>. DEFINE w == [work[c] EXCEPT !.output = Append(@, token), !.rows = Append(@, row)]
<1>4. /\ work[c].output \in Seq(Tokens) /\ work[c].rows \in Seq(Seq(Tokens))
      /\ Len(work[c].output) \in Nat /\ Len(work[c].rows) = Len(work[c].output)
  BY <1>2, LenProperties DEF Generation, IInv, Limited
<1>5. /\ Append(work[c].output, token) \in Seq(Tokens)
      /\ Len(Append(work[c].output, token)) = Len(work[c].output) + 1
      /\ \A i \in 1..Len(work[c].output) :
           Append(work[c].output, token)[i] = work[c].output[i]
  BY <1>4, AppendProperties
<1>6. /\ Append(work[c].rows, row) \in Seq(Seq(Tokens))
      /\ Len(Append(work[c].rows, row)) = Len(work[c].output) + 1
      /\ DOMAIN Append(work[c].rows, row) = 1..Len(work[c].output) + 1
      /\ \A i \in 1..Len(work[c].output) : Append(work[c].rows, row)[i] = work[c].rows[i]
      /\ Append(work[c].rows, row)[Len(work[c].output) + 1] = x
  <2>. DEFINE rows == work[c].rows
              k == Len(work[c].output)
  <2>1. rows \in Seq(Seq(Tokens)) /\ Len(rows) = k /\ k \in Nat /\ row \in Seq(Tokens)
    BY <1>2, <1>3, <1>4
  <2>. HIDE DEF rows, k
  <2>2. /\ Append(rows, row) \in Seq(Seq(Tokens)) /\ Len(Append(rows, row)) = k + 1
        /\ \A i \in 1..k : Append(rows, row)[i] = rows[i]
        /\ Append(rows, row)[k + 1] = row
    BY <2>1, AppendProperties
  <2>3. DOMAIN Append(rows, row) = 1..k + 1
    BY <2>1, <2>2, LenProperties
  <2>. QED BY <1>3, <2>2, <2>3 DEF rows, k
<1>7. /\ work' = [work EXCEPT ![c] = w] /\ w \in Generation
      /\ w.prompt = work[c].prompt
      /\ w.output = Append(work[c].output, token)
      /\ w.rows = Append(work[c].rows, row)
  BY <1>1, <1>2, <1>5, <1>6 DEF Generation
<1>. HIDE DEF w
<1>8. \A k \in DOMAIN w.rows : w.rows[k] = w.prompt \o SubSeq(w.output, 1, k - 1)
  <2>1. SUFFICES ASSUME NEW k \in 1..Len(work[c].output) + 1
                 PROVE  w.rows[k] = w.prompt \o SubSeq(w.output, 1, k - 1)
    BY <1>6, <1>7
  <2>2. k - 1 \in 0..Len(work[c].output)
    BY <1>4
  <2>3. SubSeq(w.output, 1, k - 1) = SubSeq(work[c].output, 1, k - 1)
    <3>1. /\ SubSeq(w.output, 1, k - 1) \in Seq(Tokens)
          /\ Len(SubSeq(w.output, 1, k - 1)) = k - 1
          /\ \A i \in 1..k - 1 : SubSeq(w.output, 1, k - 1)[i] = w.output[i]
      <4>1. k - 1 \in 0..Len(w.output) /\ w.output \in Seq(Tokens)
        BY <1>4, <1>5, <1>7
      <4>. QED BY <4>1, PrefixProperties
    <3>2. /\ SubSeq(work[c].output, 1, k - 1) \in Seq(Tokens)
          /\ Len(SubSeq(work[c].output, 1, k - 1)) = k - 1
          /\ \A i \in 1..k - 1 : SubSeq(work[c].output, 1, k - 1)[i] = work[c].output[i]
      BY <1>4, <2>2, PrefixProperties
    <3>3. \A i \in 1..k - 1 : w.output[i] = work[c].output[i]
      BY <1>4, <1>5, <1>7, <2>2
    <3>. QED BY <3>1, <3>2, <3>3, SeqEqual
  <2>4. CASE k \in 1..Len(work[c].output)
    <3>1. k \in DOMAIN work[c].rows
      BY <1>4, <2>4, LenProperties
    <3>2. work[c].rows[k] = work[c].prompt \o SubSeq(work[c].output, 1, k - 1)
      BY <3>1 DEF IInv, Isolated
    <3>. QED BY <1>6, <1>7, <2>3, <2>4, <3>2
  <2>5. CASE k = Len(work[c].output) + 1
    <3>1. k - 1 = Len(work[c].output)
      BY <1>4, <2>5
    <3>2. SubSeq(work[c].output, 1, k - 1) = work[c].output
      BY <1>4, <3>1, SubSeqFull
    <3>. QED BY <1>6, <1>7, <2>3, <2>5, <3>2 DEF Context
  <2>6. k \in 1..Len(work[c].output) \/ k = Len(work[c].output) + 1
    BY <1>4
  <2>. QED BY <2>4, <2>5, <2>6
<1>9. "decoding" \in Places
  BY DEF Places
<1>10. Types' /\ Limited' /\ Isolated'
  <2>1. /\ conn' \in [Connections -> Connection]
        /\ lock' \in Connections \cup {NoOne} /\ cached' \in Seq(Tokens)
        /\ \A d \in Connections \ {c} : conn'[d] = conn[d]
    BY <1>1, <1>2, <1>3 DEF IInv, Types
  <2>2. /\ work[c].prompt # <<>> /\ conn[c].request.limit \in 0..MaxNewTokens
        /\ Len(work[c].output) < conn[c].request.limit
    BY <1>1 DEF IInv, Limited, Busy
  <2>3. /\ Len(w.output) <= conn'[c].request.limit /\ Len(w.output) <= MaxNewTokens
        /\ Len(w.rows) = Len(w.output) /\ w.prompt # <<>>
        /\ conn'[c].request.limit \in 0..MaxNewTokens
    BY <1>1, <1>4, <1>5, <1>6, <1>7, <2>2, ServerAssumption
  <2>. QED BY <1>1, <1>7, <1>8, <1>9, <2>1, <2>3, WorkStep
<1>11. LockIsHeld'
  BY <1>1, <1>9, LockStep DEF Busy
<1>12. Calling'
  <2>. SUFFICES ASSUME NEW d \in Connections, pc'[d] = "calling" PROVE FALSE
    BY DEF Calling
  <2>1. pc[d] = "calling" /\ d # c
    BY <1>1 DEF IInv, Types
  <2>. QED BY <1>1, <2>1, OnlyCaller DEF Busy
<1>. QED BY <1>10, <1>11, <1>12 DEF IInv

\* A thread that is done with its generation forgets it.
LEMMA ForgetStep ==
  ASSUME IInv, NEW c \in Connections, pc[c] # "closed",
         NEW status \in Statuses, Answer(c, status, "idle"),
         work' = [work EXCEPT ![c] = Nothing],
         \/ pc[c] \notin Busy /\ lock' = lock /\ cached' = cached
         \/ pc[c] \in Busy /\ lock' = NoOne /\ cached' = <<>>
  PROVE  IInv'
<1>1. PICK p \in {"idle", "closed"} :
        /\ pc' = [pc EXCEPT ![c] = p]
        /\ conn' \in [Connections -> Connection]
        /\ \A d \in Connections \ {c} : conn'[d] = conn[d]
  BY Answering DEF IInv
<1>2. p \in Places /\ p \notin Busy \cup {"waiting"} /\ p # "calling"
  BY DEF Places, Busy
<1>3. Types' /\ Limited' /\ Isolated'
  <2>1. lock' \in Connections \cup {NoOne} /\ cached' \in Seq(Tokens)
    BY EmptySeq DEF IInv, Types
  <2>2. /\ Nothing \in Generation
        /\ Len(Nothing.output) <= MaxNewTokens /\ Len(Nothing.rows) = Len(Nothing.output)
        /\ DOMAIN Nothing.rows = {}
    BY NothingProperties, ServerAssumption
  <2>. QED BY <1>1, <1>2, <2>1, <2>2, WorkStep
<1>4. LockIsHeld'
  BY <1>1, <1>2, LockStep
<1>5. Calling'
  <2>. SUFFICES ASSUME NEW d \in Connections, pc'[d] = "calling"
                PROVE  /\ work'[d].reuse \in 0..Len(Context(d)')
                       /\ cached' = SubSeq(Context(d)', 1, work'[d].reuse)
    BY DEF Calling
  <2>1. pc[d] = "calling" /\ d # c
    BY <1>1, <1>2 DEF IInv, Types
  <2>2. cached' = cached
    BY <2>1, OnlyCaller DEF Busy
  <2>3. work'[d] = work[d]
    BY <2>1 DEF IInv, Types
  <2>4. Context(d)' = Context(d)
    BY <2>3 DEF Context
  <2>. QED BY <2>1, <2>2, <2>3, <2>4 DEF IInv, Calling
<1>. QED BY <1>3, <1>4, <1>5 DEF IInv
-----------------------------------------------------------------------------
(* Every step.                                                             *)

\* What a client does to its connection.
LEMMA ClientStep ==
  ASSUME IInv, NEW c \in Connections, Send(c) \/ BodyArrives(c) \/ Leave(c)
  PROVE  IInv'
<1>1. conn[c] \in Connection
  BY DEF IInv, Types
<1>2. CASE Send(c)
  <2>1. PICK r \in Requests :
          /\ pc[c] = "idle" /\ pc' = [pc EXCEPT ![c] = "sent"]
          /\ conn[c].sent < MaxRequests
          /\ conn' = [conn EXCEPT ![c].request = r, ![c].sent = @ + 1, ![c].answer = "none"]
          /\ UNCHANGED <<work, lock, cached>>
    BY <1>2 DEF Send, At, Go
  <2>2. conn[c].sent + 1 \in 0..MaxRequests
    BY <1>1, <2>1, ServerAssumption DEF Connection
  <2>3. /\ conn' \in [Connections -> Connection]
        /\ \A d \in Connections \ {c} : conn'[d] = conn[d]
    BY <1>1, <2>1, <2>2 DEF IInv, Types, Connection
  <2>4. "sent" \in Places \ (Busy \cup {"waiting"}) /\ pc[c] \notin Busy \cup {"closed"}
    BY <2>1 DEF Places, Busy
  <2>. QED BY <2>1, <2>3, <2>4, QuietStep
<1>3. CASE BodyArrives(c)
  <2>1. /\ pc[c] = "reading" /\ pc' = [pc EXCEPT ![c] = "parsing"]
        /\ conn' = conn /\ UNCHANGED <<work, lock, cached>>
    BY <1>3 DEF BodyArrives, At, Go
  <2>2. /\ "parsing" \in Places \ (Busy \cup {"waiting"}) /\ pc[c] \notin Busy \cup {"closed"}
        /\ conn' \in [Connections -> Connection]
        /\ \A d \in Connections \ {c} : conn'[d] = conn[d]
    BY <2>1 DEF Places, Busy, IInv, Types
  <2>. QED BY <2>1, <2>2, QuietStep
<1>4. CASE Leave(c)
  <2>1. /\ conn' = [conn EXCEPT ![c].gone = TRUE]
        /\ pc' = pc /\ work' = work /\ lock' = lock /\ cached' = cached
    BY <1>4 DEF Leave
  <2>2. /\ conn' \in [Connections -> Connection]
        /\ \A d \in Connections : conn'[d].request = conn[d].request
    BY <1>1, <2>1 DEF IInv, Types, Connection
  <2>3. Types' /\ Limited'
    BY <2>1, <2>2 DEF IInv, Types, Limited
  <2>4. LockIsHeld' /\ Calling' /\ Isolated'
    BY <2>1 DEF IInv, LockIsHeld, Calling, Context, Isolated
  <2>. QED BY <2>3, <2>4 DEF IInv
<1>. QED BY <1>2, <1>3, <1>4

\* What the thread of a connection does.
LEMMA ThreadStep ==
  ASSUME IInv, NEW c \in Connections, Handler(c) \/ ModelStep(c)
  PROVE  IInv'
<1>1. CASE Misread(c) \/ EndOfBody(c)
  <2>1. /\ pc[c] \notin Busy \cup {"closed"}
        /\ UNCHANGED <<work, lock, cached>>
        /\ \E status \in Statuses \cup {"page"}, place \in {"idle", "closed"} :
             Answer(c, status, place)
    BY <1>1 DEF Misread, EndOfBody, At, Busy, Statuses
  <2>. QED BY <2>1, AnswerStep
<1>0. CASE DoGet(c)
  <2>1. /\ pc[c] \notin Busy \cup {"closed"}
        /\ UNCHANGED <<work, lock, cached>>
        /\ conn[c].request.kind = "health"
        /\ "200" \in Statuses
        /\ AnswerUnread(c, "200")
    BY <1>0 DEF DoGet, At, Busy, Statuses
  <2>. QED BY <2>1, AnswerUnreadStep
<1>2. CASE DoPost(c)
  <2>1. /\ pc[c] = "sent" /\ pc[c] \notin Busy \cup {"closed"}
        /\ UNCHANGED <<work, lock, cached>>
    BY <1>2 DEF DoPost, At, Busy
  <2>2. CASE conn[c].request.kind \in {"unknown", "lengthless"}
    <3>1. \E status \in Statuses : AnswerUnread(c, status)
      BY <1>2, <2>2 DEF DoPost, Statuses
    <3>. QED BY <2>1, <2>2, <3>1, AnswerUnreadStep
  <2>3. CASE Answer(c, "413", "closed")
    BY <2>1, <2>3, AnswerStep DEF Statuses
  <2>4. CASE Go(c, "reading") /\ UNCHANGED conn
    <3>1. /\ "reading" \in Places \ (Busy \cup {"waiting"})
          /\ conn' \in [Connections -> Connection]
          /\ \A d \in Connections \ {c} : conn'[d] = conn[d]
      BY <2>4 DEF Places, Busy, IInv, Types
    <3>. QED BY <2>1, <2>4, <3>1, QuietStep DEF Go
  <2>. QED BY <1>2, <2>2, <2>3, <2>4 DEF DoPost
<1>3. CASE Close(c)
  <2>1. /\ pc[c] = "idle" /\ pc' = [pc EXCEPT ![c] = "closed"]
        /\ conn' = conn /\ UNCHANGED <<work, lock, cached>>
    BY <1>3 DEF Close, At, Go
  <2>2. /\ "closed" \in Places \ (Busy \cup {"waiting"}) /\ pc[c] \notin Busy \cup {"closed"}
        /\ conn' \in [Connections -> Connection]
        /\ \A d \in Connections \ {c} : conn'[d] = conn[d]
    BY <2>1 DEF Places, Busy, IInv, Types
  <2>. QED BY <2>1, <2>2, QuietStep
<1>4. CASE Format(c)
  <2>1. PICK status \in Statuses : Answer(c, status, "idle")
    BY <1>4 DEF Format, Statuses
  <2>. QED BY <1>4, <2>1, ForgetStep DEF Format, At, Busy
<1>5. CASE Raise(c)
  <2>1. "500" \in Statuses
    BY DEF Statuses
  <2>. QED BY <1>5, <2>1, ForgetStep DEF Raise, At, Unlock, Busy
<1>. QED BY <1>0, <1>1, <1>2, <1>3, <1>4, <1>5, ParseStep, AcquireStep, FinishStep,
            PrepareStep, ForwardStep DEF Handler, ModelStep

LEMMA StepKeeps == ASSUME IInv, [Next]_vars PROVE IInv'
<1>1. CASE UNCHANGED vars
  BY <1>1 DEF vars, IInv, Types, Limited, LockIsHeld, Calling, Context, Isolated
<1>2. CASE Stop
  <2>1. /\ pc' = [c \in Connections |-> "closed"]
        /\ conn' = conn /\ work' = work /\ lock' = lock /\ cached' = cached
    BY <1>2 DEF Stop
  <2>2. Types'
    BY <2>1 DEF IInv, Types, Places
  <2>3. Limited' /\ LockIsHeld' /\ Calling' /\ Isolated'
    BY <2>1 DEF IInv, Limited, LockIsHeld, Calling, Isolated, Busy
  <2>. QED BY <2>2, <2>3 DEF IInv
<1>. QED BY <1>1, <1>2, ClientStep, ThreadStep DEF Next

LEMMA Invariance == Spec => []IInv
BY InitHolds, StepKeeps, PTL DEF Spec

-----------------------------------------------------------------------------
(* Theorems.                                                               *)

\* However requests of any number of connections interleave, fail, stall or are
\* abandoned, each token is drawn from the row of its own request.
THEOREM RequestsAreIsolated == Spec => []Isolated
<1>1. IInv => Isolated
  BY DEF IInv
<1>. QED BY <1>1, Invariance, PTL

\* The model lock is held exactly while a thread generates; no way to end a
\* generation leaves it taken.
THEOREM LockHeldExactly == Spec => []LockIsHeld
<1>1. IInv => LockIsHeld
  BY DEF IInv
<1>. QED BY <1>1, Invariance, PTL

\* Types, and the ceiling on the tokens of a request.
THEOREM TypeCorrect == Spec => []TypeOK
BY TypesSuffice, Invariance, PTL
-----------------------------------------------------------------------------
(* GenerationLaw: fractions.                                               *)

IsGcd(d, gcd) ==
  gcd = [s \in Nat \X (0..d) |-> IF s[2] = 0 THEN s[1] ELSE gcd[<<s[2], s[1] % s[2]>>]]

GcdSteps(d, gcd) ==
  \A a \in Nat, b \in 0..d : gcd[<<a, b>>] = IF b = 0 THEN a ELSE gcd[<<b, a % b>>]

\* The recursion of the divisor has a solution.
LEMMA GcdExists ==
  ASSUME NEW d \in Nat
  PROVE  \E gcd : IsGcd(d, gcd)
<1>. DEFINE Then(g, a, b) == IF b = 0 THEN a ELSE g[<<b, a % b>>]
            Good(n, g) == /\ g \in [Nat \X (0..n) -> Nat]
                          /\ \A a \in Nat, b \in 0..n : g[<<a, b>>] = Then(g, a, b)
            level == {n \in 0..d : \E g : Good(n, g)}
<1>1. 0 \in level
  <2>. DEFINE g == [s \in Nat \X (0..0) |-> s[1]]
  <2>1. g \in [Nat \X (0..0) -> Nat]
    OBVIOUS
  <2>2. \A a \in Nat, b \in 0..0 : g[<<a, b>>] = Then(g, a, b)
    OBVIOUS
  <2>3. Good(0, g)
    BY <2>1, <2>2
  <2>. HIDE DEF Good
  <2>. QED BY <2>3
<1>2. ASSUME NEW n \in 0..d, n \in level, n < d
      PROVE  n + 1 \in level
  <2>1. PICK g : Good(n, g)
    BY <1>2
  <2>. DEFINE h == [s \in Nat \X (0..n + 1) |-> Then(g, s[1], s[2])]
  <2>2. ASSUME NEW a \in Nat, NEW b \in 0..n + 1
        PROVE  Then(g, a, b) \in Nat
    <3>1. CASE b = 0
      BY <3>1
    <3>2. CASE b # 0
      <4>1. b \in Nat /\ a % b \in 0..n
        BY <3>2
      <4>2. g[<<b, a % b>>] \in Nat
        BY <2>1, <4>1
      <4>. QED BY <3>2, <4>2
    <3>. QED BY <3>1, <3>2
  <2>3. h \in [Nat \X (0..n + 1) -> Nat]
    <3>. HIDE DEF Then
    <3>. QED BY <2>2
  <2>4. \A a \in Nat, b \in 0..n + 1 : h[<<a, b>>] = Then(g, a, b)
    <3>. HIDE DEF Then
    <3>. QED OBVIOUS
  <2>. HIDE DEF h
  <2>5. ASSUME NEW a \in Nat, NEW b \in 0..n + 1
        PROVE  h[<<a, b>>] = Then(h, a, b)
    <3>1. CASE b = 0
      BY <2>4, <3>1
    <3>2. CASE b # 0
      <4>1. b \in Nat /\ a % b \in 0..n /\ a % b \in 0..n + 1
        BY <3>2
      <4>2. h[<<b, a % b>>] = Then(g, b, a % b) /\ g[<<b, a % b>>] = Then(g, b, a % b)
        BY <2>1, <2>4, <4>1
      <4>. QED BY <2>4, <3>2, <4>2
    <3>. QED BY <3>1, <3>2
  <2>6. Good(n + 1, h)
    <3>. HIDE DEF Then
    <3>. QED BY <2>3, <2>5
  <2>7. n + 1 \in 0..d
    BY <1>2
  <2>. HIDE DEF Good
  <2>. QED BY <2>6, <2>7
<1>3. d \in level
  <2>1. \A n \in 0..d : n \in level
    <3>. HIDE DEF level
    <3>. QED BY <1>1, <1>2, Climb
  <2>2. d \in 0..d
    OBVIOUS
  <2>. HIDE DEF level
  <2>. QED BY <2>1, <2>2
<1>4. PICK g : Good(d, g)
  BY <1>3
<1>. DEFINE F(s) == IF s[2] = 0 THEN s[1] ELSE g[<<s[2], s[1] % s[2]>>]
<1>5. ASSUME NEW s \in Nat \X (0..d)
      PROVE  g[s] = F(s)
  <2>1. s[1] \in Nat /\ s[2] \in 0..d /\ s = <<s[1], s[2]>>
    OBVIOUS
  <2>. QED BY <1>4, <2>1
<1>6. g = [s \in Nat \X (0..d) |-> g[s]]
  BY <1>4
<1>7. g = [s \in Nat \X (0..d) |-> F(s)]
  <2>. HIDE DEF F
  <2>. QED BY <1>5, <1>6
<1>. QED BY <1>7 DEF IsGcd

\* It takes the steps of Euclid.
LEMMA GcdIs ==
  ASSUME NEW d \in Nat, NEW gcd, IsGcd(d, gcd)
  PROVE  GcdSteps(d, gcd)
<1>. DEFINE F(s) == IF s[2] = 0 THEN s[1] ELSE gcd[<<s[2], s[1] % s[2]>>]
<1>1. gcd = [s \in Nat \X (0..d) |-> F(s)]
  BY DEF IsGcd
<1>2. ASSUME NEW a \in Nat, NEW b \in 0..d
      PROVE  gcd[<<a, b>>] = F(<<a, b>>)
  <2>. HIDE DEF F
  <2>. QED BY <1>1
<1>. QED BY <1>2 DEF GcdSteps

\* What the reduction of a fraction divides by.
LEMMA GcdDivides ==
  ASSUME NEW d \in Nat, NEW gcd, GcdSteps(d, gcd), NEW a \in Nat, NEW b \in 0..d
  PROVE  /\ gcd[<<a, b>>] \in Nat
         /\ b # 0 => gcd[<<a, b>>] # 0
         /\ \E i, j \in Nat : a = gcd[<<a, b>>] * i /\ b = gcd[<<a, b>>] * j
<1>. DEFINE Good(x, y) == /\ gcd[<<x, y>>] \in Nat
                          /\ x # 0 \/ y # 0 => gcd[<<x, y>>] # 0
                          /\ \E i, j \in Nat : x = gcd[<<x, y>>] * i /\ y = gcd[<<x, y>>] * j
            level == {n \in 0..d : \A x \in Nat, y \in 0..n : Good(x, y)}
<1>1. 0 \in level
  <2>1. ASSUME NEW x \in Nat
        PROVE  Good(x, 0)
    <3>0. 0 \in 0..d
      OBVIOUS
    <3>1. gcd[<<x, 0>>] = x
      BY <3>0 DEF GcdSteps
    <3>2. x = x * 1 /\ 0 = x * 0 /\ 1 \in Nat /\ 0 \in Nat
      OBVIOUS
    <3>. QED BY <3>1, <3>2
  <2>2. \A y \in 0..0 : y = 0
    OBVIOUS
  <2>. HIDE DEF Good
  <2>. QED BY <2>1, <2>2
<1>2. ASSUME NEW n \in 0..d, n \in level, n < d
      PROVE  n + 1 \in level
  <2>1. ASSUME NEW x \in Nat, NEW y \in 0..n + 1
        PROVE  Good(x, y)
    <3>1. CASE y \in 0..n
      <4>. HIDE DEF Good
      <4>. QED BY <1>2, <3>1
    <3>2. CASE y # 0
      <4>. DEFINE q == x \div y
                  r == x % y
                  g == gcd[<<y, r>>]
      <4>1. y \in Nat \ {0} /\ r \in 0..n /\ y \in 0..d
        BY <1>2, <3>2
      <4>0. q \in Nat /\ r \in 0..y - 1 /\ x = y * q + r
        BY <4>1, DivMod
      <4>2. q \in Nat /\ x = q * y + r
        <5>. HIDE DEF q, r
        <5>. QED BY <4>0, <4>1
      <4>3. gcd[<<x, y>>] = g
        BY <3>2, <4>1 DEF GcdSteps
      <4>4. Good(y, r)
        <5>. HIDE DEF Good, r
        <5>. QED BY <1>2, <4>1
      <4>5. PICK i \in Nat, j \in Nat : y = g * i /\ r = g * j
        BY <4>4
      <4>6. g \in Nat /\ g # 0
        BY <4>1, <4>4
      <4>. HIDE DEF g, q, r
      <4>7. q * (g * i) + g * j = g * (q * i + j) /\ q * i + j \in Nat
        BY <4>2, <4>5, <4>6
      <4>8. x = g * (q * i + j)
        BY <4>2, <4>5, <4>7
      <4>. QED BY <4>3, <4>5, <4>6, <4>7, <4>8
    <3>3. y = 0 => y \in 0..n
      BY <1>2
    <3>. QED BY <3>1, <3>2, <3>3
  <2>2. n + 1 \in 0..d
    BY <1>2
  <2>. HIDE DEF Good
  <2>. QED BY <2>1, <2>2
<1>3. d \in 0..d /\ \A n \in 0..d : n \in level
  <2>. HIDE DEF level
  <2>. QED BY <1>1, <1>2, Climb
<1>4. Good(a, b)
  <2>. HIDE DEF Good
  <2>. QED BY <1>3
<1>. QED BY <1>4

Fractions == Nat \X (Nat \ {0})

\* A fraction in lowest terms is the fraction.
LEMMA FractionIs ==
  ASSUME NEW n \in Nat, NEW d \in Nat \ {0}
  PROVE  /\ Fraction(n, d) \in Fractions
         /\ Fraction(n, d)[1] * d = n * Fraction(n, d)[2]
<1>. DEFINE gcd == CHOOSE gcd : IsGcd(d, gcd)
            g == gcd[<<n, d>>]
<1>1. IsGcd(d, gcd)
  BY GcdExists
<1>2. Fraction(n, d) = <<n \div g, d \div g>>
  BY DEF Fraction, IsGcd
<1>. HIDE DEF gcd
<1>3. GcdSteps(d, gcd)
  BY <1>1, GcdIs
<1>4. d \in 0..d
  OBVIOUS
<1>5. g \in Nat /\ g # 0 /\ \E i, j \in Nat : n = g * i /\ d = g * j
  <2>. HIDE DEF gcd
  <2>1. /\ gcd[<<n, d>>] \in Nat
        /\ d # 0 => gcd[<<n, d>>] # 0
        /\ \E i, j \in Nat : n = gcd[<<n, d>>] * i /\ d = gcd[<<n, d>>] * j
    BY <1>3, <1>4, GcdDivides
  <2>. QED BY <2>1
<1>6. PICK i \in Nat, j \in Nat : n = g * i /\ d = g * j
  BY <1>5
<1>. HIDE DEF g
<1>7. n \div g = i /\ d \div g = j
  BY <1>5, <1>6, DivOf
<1>8. j # 0
  BY <1>5, <1>6
<1>9. i * (g * j) = (g * i) * j
  BY <1>5
<1>. QED BY <1>2, <1>6, <1>7, <1>8, <1>9 DEF Fractions

\* A factor cancels.
LEMMA Cancel ==
  ASSUME NEW x \in Nat, NEW y \in Nat, NEW d \in Nat \ {0}, x * d = y * d
  PROVE  x = y
<1>1. 0 \in 0..d - 1 /\ x * d + 0 = x * d /\ y * d + 0 = y * d
  OBVIOUS
<1>2. (x * d + 0) \div d = x /\ (y * d + 0) \div d = y
  BY <1>1, DivOf
<1>. QED BY <1>1, <1>2

\* A fraction says w parts of N.
Stands(f, w, N) == f \in Fractions /\ f[1] * N = w * f[2]

\* A fraction says what it says in lowest terms.
LEMMA FractionStands ==
  ASSUME NEW n \in Nat, NEW d \in Nat \ {0}, NEW w \in Nat, NEW N \in Nat, n * N = w * d
  PROVE  Stands(Fraction(n, d), w, N)
<1>. DEFINE a == Fraction(n, d)[1]
            b == Fraction(n, d)[2]
<1>1. a \in Nat /\ b \in Nat /\ a * d = n * b /\ Fraction(n, d) \in Fractions
  BY FractionIs DEF Fractions
<1>. HIDE DEF a, b
<1>2. (a * N) * d = (a * d) * N
  BY <1>1
<1>3. (n * b) * N = (n * N) * b
  BY <1>1
<1>4. (w * d) * b = (w * b) * d
  BY <1>1
<1>5. (a * N) * d = (w * b) * d
  BY <1>1, <1>2, <1>3, <1>4
<1>6. a * N \in Nat /\ w * b \in Nat
  BY <1>1
<1>7. a * N = w * b
  BY <1>5, <1>6, Cancel
<1>. QED BY <1>1, <1>7 DEF Stands, a, b

\* The sum of two fractions of the same whole.
LEMMA PlusStands ==
  ASSUME NEW f, NEW g, NEW w \in Nat, NEW v \in Nat, NEW N \in Nat, Stands(f, w, N), Stands(g, v, N)
  PROVE  Stands(Plus(f, g), w + v, N)
<1>1. PICK a \in Nat, b \in Nat \ {0} : f[1] = a /\ f[2] = b /\ a * N = w * b
  BY DEF Stands, Fractions
<1>2. PICK c \in Nat, d \in Nat \ {0} : g[1] = c /\ g[2] = d /\ c * N = v * d
  BY DEF Stands, Fractions
<1>3. a * d + c * b \in Nat /\ b * d \in Nat \ {0} /\ w + v \in Nat
  <2>1. a * d \in Nat /\ c * b \in Nat /\ b * d \in Nat
    BY <1>1, <1>2
  <2>2. b * d # 0
    BY <1>1, <1>2
  <2>. QED BY <2>1, <2>2
<1>4. (a * d + c * b) * N = (a * N) * d + (c * N) * b
  BY <1>1, <1>2
<1>5. (w * b) * d + (v * d) * b = (w + v) * (b * d)
  BY <1>1, <1>2
<1>6. (a * d + c * b) * N = (w + v) * (b * d)
  BY <1>1, <1>2, <1>4, <1>5
<1>7. Stands(Fraction(a * d + c * b, b * d), w + v, N)
  <2>. DEFINE n == a * d + c * b
              m == b * d
              u == w + v
  <2>1. n \in Nat /\ m \in Nat \ {0} /\ u \in Nat /\ n * N = u * m
    BY <1>3, <1>6
  <2>. HIDE DEF n, m, u
  <2>2. Stands(Fraction(n, m), u, N)
    BY <2>1, FractionStands
  <2>. QED BY <2>2 DEF n, m, u
<1>. QED BY <1>1, <1>2, <1>7 DEF Plus

\* The product of two fractions.
LEMMA TimesStands ==
  ASSUME NEW f, NEW g, NEW w \in Nat, NEW v \in Nat, NEW N \in Nat, NEW M \in Nat,
         Stands(f, w, N), Stands(g, v, M)
  PROVE  Stands(Times(f, g), w * v, N * M)
<1>1. PICK a \in Nat, b \in Nat \ {0} : f[1] = a /\ f[2] = b /\ a * N = w * b
  BY DEF Stands, Fractions
<1>2. PICK c \in Nat, d \in Nat \ {0} : g[1] = c /\ g[2] = d /\ c * M = v * d
  BY DEF Stands, Fractions
<1>3. a * c \in Nat /\ b * d \in Nat /\ b * d # 0 /\ w * v \in Nat /\ N * M \in Nat
  BY <1>1, <1>2
<1>4. (a * c) * (N * M) = (a * N) * (c * M)
  <2>1. (a * c) * (N * M) = a * (c * (N * M)) /\ c * (N * M) = N * (c * M)
    BY <1>1, <1>2
  <2>2. a * (N * (c * M)) = (a * N) * (c * M)
    BY <1>1, <1>2
  <2>. QED BY <2>1, <2>2
<1>5. (w * b) * (v * d) = (w * v) * (b * d)
  <2>1. (w * b) * (v * d) = w * (b * (v * d)) /\ b * (v * d) = v * (b * d)
    BY <1>1, <1>2
  <2>2. w * (v * (b * d)) = (w * v) * (b * d)
    BY <1>1, <1>2
  <2>. QED BY <2>1, <2>2
<1>6. (a * c) * (N * M) = (w * v) * (b * d)
  BY <1>1, <1>2, <1>4, <1>5
<1>7. Stands(Fraction(a * c, b * d), w * v, N * M)
  <2>. DEFINE n == a * c
              m == b * d
              u == w * v
              K == N * M
  <2>1. n \in Nat /\ m \in Nat \ {0} /\ u \in Nat /\ n * K = u * m /\ K \in Nat
    BY <1>3, <1>6
  <2>. HIDE DEF n, m, u, K
  <2>2. Stands(Fraction(n, m), u, K)
    BY <2>1, FractionStands
  <2>. QED BY <2>2 DEF n, m, u, K
<1>. QED BY <1>1, <1>2, <1>7 DEF Times

\* Sums and products of fractions are fractions.
LEMMA FractionTypes ==
  /\ \A f, g \in Fractions : Plus(f, g) \in Fractions /\ Times(f, g) \in Fractions
  /\ <<0, 1>> \in Fractions /\ <<1, 1>> \in Fractions
<1>1. ASSUME NEW f \in Fractions, NEW g \in Fractions
      PROVE  Plus(f, g) \in Fractions /\ Times(f, g) \in Fractions
  <2>1. f[1] \in Nat /\ g[1] \in Nat /\ f[2] \in Nat \ {0} /\ g[2] \in Nat \ {0}
    BY DEF Fractions
  <2>. DEFINE n == f[1] * g[2] + g[1] * f[2]
              m == f[2] * g[2]
              k == f[1] * g[1]
  <2>2. n \in Nat /\ m \in Nat \ {0} /\ k \in Nat
    <3>1. f[1] * g[2] \in Nat /\ g[1] * f[2] \in Nat /\ m \in Nat /\ k \in Nat
      BY <2>1
    <3>2. m # 0
      BY <2>1
    <3>. QED BY <3>1, <3>2
  <2>. HIDE DEF n, m, k
  <2>3. Fraction(n, m) \in Fractions /\ Fraction(k, m) \in Fractions
    BY <2>2, FractionIs
  <2>. QED BY <2>3 DEF n, m, k, Plus, Times
<1>. QED BY <1>1 DEF Fractions

IsSumOf(f, S, iter) ==
  iter = [T \in SUBSET S |->
            IF T = {} THEN <<0, 1>> ELSE LET x == CHOOSE x \in T : TRUE IN Plus(f[x], iter[T \ {x}])]

\* The sum of fractions of the same whole.
LEMMA SumStands ==
  ASSUME NEW S, IsFiniteSet(S), NEW f, DOMAIN f = S, NEW w, Amounts(w, S), NEW N \in Nat,
         \A x \in S : Stands(f[x], w[x], N)
  PROVE  Stands(SumOf(f), Sum(w, S), N)
<1>. DEFINE step == [s \in S \X Fractions |-> Plus(f[s[1]], s[2])]
            Then(iter, T) == IF T = {} THEN <<0, 1>> ELSE LET x == CHOOSE x \in T : TRUE IN Plus(f[x], iter[T \ {x}])
            i == CHOOSE iter : IsSumOf(f, S, iter)
<1>1. step \in [S \X Fractions -> Fractions]
  BY FractionTypes DEF Stands
<1>2. PICK iter \in [SUBSET S -> Fractions] : Folded(step, <<0, 1>>, S, iter)
  <2>. HIDE DEF step
  <2>. QED BY <1>1, FoldExists, FractionTypes
<1>3. ASSUME NEW T \in SUBSET S
      PROVE  iter[T] = Then(iter, T)
  <2>1. CASE T = {}
    BY <1>2, <2>1 DEF Folded
  <2>2. CASE T # {}
    <3>1. iter[T] = step[<<Pick(T), iter[T \ {Pick(T)}]>>]
      BY <1>2, <2>2 DEF Folded
    <3>2. Pick(T) \in S /\ iter[T \ {Pick(T)}] \in Fractions
      BY <2>2 DEF Pick
    <3>3. iter[T] = Plus(f[Pick(T)], iter[T \ {Pick(T)}])
      BY <3>1, <3>2
    <3>. QED BY <2>2, <3>3 DEF Pick
  <2>. QED BY <2>1, <2>2
<1>4. IsSumOf(f, S, iter)
  <2>. HIDE DEF Then
  <2>1. iter = [T \in SUBSET S |-> Then(iter, T)]
    BY <1>3
  <2>. QED BY <2>1 DEF IsSumOf, Then
<1>5. IsSumOf(f, S, i)
  BY <1>4
<1>6. SumOf(f) = i[S]
  BY DEF SumOf, FoldFunction, FoldFunctionOnSet, MapThenFoldSet, IsSumOf
<1>. HIDE DEF i
<1>. DEFINE G == {T \in SUBSET S : Stands(i[T], Sum(w, T), N)}
<1>7. {} \in G
  <2>1. i[{}] = <<0, 1>>
    BY <1>5 DEF IsSumOf
  <2>2. Sum(w, {}) = 0
    BY SumType
  <2>3. Stands(<<0, 1>>, 0, N)
    BY FractionTypes DEF Stands
  <2>4. {} \in SUBSET S
    OBVIOUS
  <2>. QED BY <2>1, <2>2, <2>3, <2>4
<1>8. ASSUME NEW T \in SUBSET S, T # {}, T \ {Pick(T)} \in G
      PROVE  T \in G
  <2>1. i[T] = Plus(f[Pick(T)], i[T \ {Pick(T)}])
    BY <1>5, <1>8 DEF IsSumOf, Pick
  <2>2. IsFiniteSet(T) /\ Amounts(w, T)
    BY FS_Subset DEF Amounts
  <2>3. /\ Pick(T) \in T /\ w[Pick(T)] \in Nat /\ Sum(w, T \ {Pick(T)}) \in Nat
        /\ Sum(w, T) = w[Pick(T)] + Sum(w, T \ {Pick(T)})
    BY <1>8, <2>2, SumPick
  <2>4. Stands(f[Pick(T)], w[Pick(T)], N)
    BY <2>3
  <2>5. Stands(i[T \ {Pick(T)}], Sum(w, T \ {Pick(T)}), N)
    BY <1>8
  <2>6. Stands(i[T], Sum(w, T), N)
    BY <2>1, <2>3, <2>4, <2>5, PlusStands
  <2>. QED BY <2>6
<1>9. S \in G
  <2>. HIDE DEF G
  <2>1. \A T \in SUBSET S : T \in G
    BY <1>7, <1>8, PickInduction
  <2>. QED BY <2>1
<1>. QED BY <1>6, <1>9
-----------------------------------------------------------------------------
(* GenerationLaw: weights as whole numbers.                                *)

\* A number that every number up to Mass divides, and the quotients.
IsWhole(U, s, n) == /\ U \in Nat \ {0}
                    /\ s \in [0..n -> Nat]
                    /\ s[0] = 0
                    /\ \A k \in 1..n : k * s[k] = U

\* There is such a number.
LEMMA WholeExists ==
  ASSUME NEW M \in Nat
  PROVE  \E U, s : IsWhole(U, s, M)
<1>. DEFINE level == {n \in 0..M : \E U, s : IsWhole(U, s, n)}
<1>1. 0 \in level
  <2>. DEFINE s == [k \in 0..0 |-> 0]
  <2>1. IsWhole(1, s, 0)
    BY DEF IsWhole
  <2>. HIDE DEF s
  <2>. QED BY <2>1
<1>2. ASSUME NEW n \in 0..M, n \in level, n < M
      PROVE  n + 1 \in level
  <2>1. PICK U, s : IsWhole(U, s, n)
    BY <1>2
  <2>. DEFINE h == [k \in 0..n + 1 |-> IF k = n + 1 THEN U ELSE s[k] * (n + 1)]
  <2>2. n + 1 \in Nat \ {0} /\ U * (n + 1) \in Nat \ {0} /\ n + 1 \in 0..M /\ U \in Nat \ {0}
    <3>1. n + 1 \in Nat \ {0} /\ U \in Nat \ {0} /\ n + 1 \in 0..M
      BY <1>2, <2>1 DEF IsWhole
    <3>2. U * (n + 1) \in Nat /\ U * (n + 1) # 0
      BY <3>1
    <3>. QED BY <3>1, <3>2
  <2>3. \A k \in 0..n + 1 : k # n + 1 => k \in 0..n
    BY <1>2
  <2>4. ASSUME NEW k \in 0..n
        PROVE  s[k] \in Nat /\ s[k] * (n + 1) \in Nat
    BY <2>1, <2>2 DEF IsWhole
  <2>5. h \in [0..n + 1 -> Nat]
    BY <2>2, <2>3, <2>4
  <2>6. h[0] = 0
    <3>1. 0 \in 0..n + 1 /\ 0 # n + 1 /\ s[0] = 0
      BY <2>1, <2>2 DEF IsWhole
    <3>. QED BY <2>2, <3>1
  <2>7. ASSUME NEW k \in 1..n + 1
        PROVE  k * h[k] = U * (n + 1)
    <3>1. CASE k = n + 1
      BY <2>2, <3>1
    <3>2. CASE k # n + 1
      <4>1. k \in 1..n /\ k \in 0..n + 1 /\ k * s[k] = U /\ k \in 0..n
        BY <2>1, <2>3, <3>2 DEF IsWhole
      <4>2. h[k] = s[k] * (n + 1)
        BY <3>2, <4>1
      <4>3. k * (s[k] * (n + 1)) = (k * s[k]) * (n + 1)
        BY <2>4, <4>1
      <4>. QED BY <4>1, <4>2, <4>3
    <3>. QED BY <3>1, <3>2
  <2>. HIDE DEF h
  <2>8. IsWhole(U * (n + 1), h, n + 1)
    BY <2>2, <2>5, <2>6, <2>7 DEF IsWhole
  <2>. QED BY <2>2, <2>8
<1>3. M \in 0..M /\ \A n \in 0..M : n \in level
  <2>. HIDE DEF level
  <2>. QED BY <1>1, <1>2, Climb
<1>. QED BY <1>3

Whole == CHOOSE U : \E s : IsWhole(U, s, Mass)
Share == CHOOSE s : IsWhole(Whole, s, Mass)

\* Each number up to Mass has its quotient.
LEMMA Shares ==
  /\ Whole \in Nat \ {0}
  /\ \A k \in 0..Mass : Share[k] \in Nat
  /\ \A k \in 1..Mass : k * Share[k] = Whole
<1>1. Mass \in Nat
  BY LawAssumption
<1>2. \E s : IsWhole(Whole, s, Mass)
  BY <1>1, WholeExists DEF Whole
<1>3. IsWhole(Whole, Share, Mass)
  BY <1>2 DEF Share
<1>. QED BY <1>3 DEF IsWhole

IsScale(s, n) == /\ s \in [0..n -> Nat \ {0}]
                 /\ s[0] = 1
                 /\ \A k \in 1..n : s[k] = s[k - 1] * (Whole * Whole)

\* The powers of the square of the whole exist.
LEMMA ScaleExists ==
  ASSUME NEW M \in Nat
  PROVE  \E s : IsScale(s, M)
<1>. DEFINE level == {n \in 0..M : \E s : IsScale(s, n)}
            W == Whole * Whole
<1>0. W \in Nat \ {0}
  <2>1. Whole \in Nat \ {0}
    BY Shares
  <2>2. W \in Nat /\ W # 0
    BY <2>1
  <2>. QED BY <2>2
<1>1. 0 \in level
  <2>. DEFINE s == [k \in 0..0 |-> 1]
  <2>1. IsScale(s, 0)
    BY DEF IsScale
  <2>. HIDE DEF s
  <2>. QED BY <2>1
<1>2. ASSUME NEW n \in 0..M, n \in level, n < M
      PROVE  n + 1 \in level
  <2>1. PICK s : IsScale(s, n)
    BY <1>2
  <2>. DEFINE h == [k \in 0..n + 1 |-> IF k = n + 1 THEN s[n] * W ELSE s[k]]
  <2>2. n \in 0..n /\ n + 1 \in 0..M /\ 0 # n + 1 /\ 0 \in 0..n
    BY <1>2
  <2>3. \A k \in 0..n + 1 : k # n + 1 => k \in 0..n
    BY <1>2
  <2>4. s[n] * W \in Nat \ {0} /\ \A k \in 0..n : s[k] \in Nat \ {0}
    <3>1. \A k \in 0..n : s[k] \in Nat \ {0}
      BY <2>1 DEF IsScale
    <3>2. s[n] \in Nat \ {0}
      BY <2>2, <3>1
    <3>. HIDE DEF W
    <3>3. s[n] * W \in Nat /\ s[n] * W # 0
      BY <1>0, <3>2
    <3>. QED BY <3>1, <3>3
  <2>. HIDE DEF W
  <2>5. h \in [0..n + 1 -> Nat \ {0}]
    BY <2>3, <2>4
  <2>6. h[0] = 1
    BY <2>1, <2>2 DEF IsScale
  <2>7. ASSUME NEW k \in 1..n + 1
        PROVE  h[k] = h[k - 1] * W
    <3>1. k - 1 \in 0..n /\ k - 1 # n + 1 /\ k - 1 \in 0..n + 1 /\ k \in 0..n + 1
      BY <1>2
    <3>2. h[k - 1] = s[k - 1]
      BY <3>1
    <3>3. CASE k = n + 1
      <4>1. k - 1 = n
        BY <2>2, <3>3
      <4>. QED BY <3>1, <3>2, <3>3, <4>1
    <3>4. CASE k # n + 1
      <4>1. k \in 1..n
        BY <2>2, <3>4
      <4>. QED BY <2>1, <3>1, <3>2, <3>4, <4>1 DEF IsScale, W
    <3>. QED BY <3>3, <3>4
  <2>. HIDE DEF h
  <2>8. IsScale(h, n + 1)
    BY <2>5, <2>6, <2>7 DEF IsScale, W
  <2>. QED BY <2>2, <2>8
<1>3. M \in 0..M /\ \A n \in 0..M : n \in level
  <2>. HIDE DEF level
  <2>. QED BY <1>1, <1>2, Climb
<1>. QED BY <1>3

Scale == CHOOSE s : IsScale(s, MaxEmitted)

\* The scale of each length.
LEMMA Scales ==
  /\ \A k \in 0..MaxEmitted : Scale[k] \in Nat \ {0}
  /\ Scale[0] = 1
  /\ \A k \in 1..MaxEmitted : Scale[k] = Scale[k - 1] * (Whole * Whole)
<1>1. MaxEmitted \in Nat
  BY LawAssumption
<1>2. IsScale(Scale, MaxEmitted)
  BY <1>1, ScaleExists DEF Scale
<1>. QED BY <1>2 DEF IsScale

\* How likely the rest of an output is, after so many of its tokens and with
\* these proposals pending: one proposal is kept or lost at a time.
Values(n, go, keep, lose, v) ==
  /\ v \in [(0..n) \X Seq(Vocabulary) -> Nat]
  /\ \A r \in Seq(Vocabulary) : v[<<n, r>>] = 1
  /\ \A k \in 0..n - 1, r \in Seq(Vocabulary) :
       v[<<k, r>>] = IF r = <<>> THEN go[k] * v[<<k + 1, <<>>>>]
                     ELSE keep[<<k, Head(r)>>] * v[<<k + 1, Tail(r)>>]
                            + lose[<<k, Head(r)>>] * v[<<k + 1, <<>>>>]

\* There are such values: each follows from those of a token more.
LEMMA ValuesExist ==
  ASSUME NEW n \in Nat, NEW go \in [0..n - 1 -> Nat],
         NEW keep \in [(0..n - 1) \X Vocabulary -> Nat],
         NEW lose \in [(0..n - 1) \X Vocabulary -> Nat]
  PROVE  \E v : Values(n, go, keep, lose, v)
<1>. DEFINE R == Seq(Vocabulary)
            Then(v, k, r) == IF r = <<>> THEN go[k] * v[<<k + 1, <<>>>>]
                             ELSE keep[<<k, Head(r)>>] * v[<<k + 1, Tail(r)>>]
                                    + lose[<<k, Head(r)>>] * v[<<k + 1, <<>>>>]
            Good(m, v) == /\ v \in [(m..n) \X R -> Nat]
                          /\ \A r \in R : v[<<n, r>>] = 1
                          /\ \A k \in m..n - 1 : \A r \in R : v[<<k, r>>] = Then(v, k, r)
            level == {j \in 0..n : \E v : Good(n - j, v)}
<1>1. 0 \in level
  <2>. DEFINE v == [s \in (n..n) \X R |-> 1]
  <2>1. v \in [(n..n) \X R -> Nat] /\ \A r \in R : v[<<n, r>>] = 1
    OBVIOUS
  <2>2. n..n - 1 = {} /\ n - 0 = n
    OBVIOUS
  <2>. HIDE DEF v
  <2>3. Good(n - 0, v)
    BY <2>1, <2>2
  <2>. HIDE DEF Good
  <2>. QED BY <2>3
<1>2. ASSUME NEW j \in 0..n, j \in level, j < n
      PROVE  j + 1 \in level
  <2>1. PICK v : Good(n - j, v)
    BY <1>2
  <2>2. PICK m \in 0..n - 1 : m + 1 = n - j /\ m = n - (j + 1) /\ m # n /\ j + 1 \in 0..n
    <3>1. n - (j + 1) \in 0..n - 1 /\ n - (j + 1) + 1 = n - j /\ n - (j + 1) # n /\ j + 1 \in 0..n
      BY <1>2
    <3>. QED BY <3>1
  <2>3. Good(m + 1, v)
    BY <2>1, <2>2
  <2>. DEFINE h == [s \in (m..n) \X R |-> IF s[1] = m THEN Then(v, m, s[2]) ELSE v[s]]
  <2>4. \A k \in m..n : k # m => k \in m + 1..n
    BY <2>2
  <2>5. ASSUME NEW r \in R
        PROVE  Then(v, m, r) \in Nat
    <3>1. m + 1 \in m + 1..n /\ <<>> \in R
      BY <2>2
    <3>2. v[<<m + 1, <<>>>>] \in Nat
      BY <2>3, <3>1
    <3>3. CASE r = <<>>
      <4>1. go[m] * v[<<m + 1, <<>>>>] \in Nat
        BY <2>2, <3>2
      <4>. QED BY <3>3, <4>1
    <3>4. CASE r # <<>>
      <4>1. Head(r) \in Vocabulary /\ Tail(r) \in R
        BY <3>4
      <4>2. v[<<m + 1, Tail(r)>>] \in Nat
        BY <2>3, <3>1, <4>1
      <4>3. keep[<<m, Head(r)>>] \in Nat /\ lose[<<m, Head(r)>>] \in Nat
        BY <2>2, <4>1
      <4>4. keep[<<m, Head(r)>>] * v[<<m + 1, Tail(r)>>] + lose[<<m, Head(r)>>] * v[<<m + 1, <<>>>>] \in Nat
        <5>1. \A x, y \in Nat : x * y \in Nat /\ x + y \in Nat
          OBVIOUS
        <5>2. keep[<<m, Head(r)>>] * v[<<m + 1, Tail(r)>>] \in Nat
          BY <4>2, <4>3, <5>1
        <5>3. lose[<<m, Head(r)>>] * v[<<m + 1, <<>>>>] \in Nat
          BY <3>2, <4>3, <5>1
        <5>. QED BY <5>1, <5>2, <5>3
      <4>. QED BY <3>4, <4>4
    <3>. QED BY <3>3, <3>4
  <2>. HIDE DEF Then
  <2>6. \A k \in m + 1..n : k \in m..n /\ k # m
    BY <2>2
  <2>7. h \in [(m..n) \X R -> Nat]
    <3>1. ASSUME NEW s \in (m..n) \X R
          PROVE  h[s] \in Nat
      <4>1. CASE s[1] = m
        BY <2>5, <4>1
      <4>2. CASE s[1] # m
        <5>1. s \in (m + 1..n) \X R
          BY <2>4, <4>2
        <5>2. v[s] \in Nat
          BY <2>3, <5>1
        <5>. QED BY <4>2, <5>2
      <4>. QED BY <4>1, <4>2
    <3>. QED BY <3>1
  <2>8. \A k \in m + 1..n : \A r \in R : h[<<k, r>>] = v[<<k, r>>]
    BY <2>6
  <2>9. \A r \in R : h[<<m, r>>] = Then(v, m, r)
    BY <2>2
  <2>. HIDE DEF h
  <2>10. \A r \in R : h[<<n, r>>] = 1
    <3>1. n \in m + 1..n
      BY <2>2
    <3>. QED BY <2>3, <2>8, <3>1
  <2>11. ASSUME NEW k \in m..n - 1, NEW r \in R
         PROVE  h[<<k, r>>] = Then(h, k, r)
    <3>1. k + 1 \in m + 1..n /\ <<>> \in R /\ (k # m => k \in m + 1..n /\ k \in m + 1..n - 1)
      BY <2>2
    <3>2. h[<<k + 1, <<>>>>] = v[<<k + 1, <<>>>>]
      BY <2>8, <3>1
    <3>3. r # <<>> => h[<<k + 1, Tail(r)>>] = v[<<k + 1, Tail(r)>>]
      <4>1. r # <<>> => Tail(r) \in R
        OBVIOUS
      <4>. QED BY <2>8, <3>1, <4>1
    <3>4. Then(h, k, r) = Then(v, k, r)
      BY <3>2, <3>3 DEF Then
    <3>5. CASE k = m
      BY <2>9, <3>4, <3>5
    <3>6. CASE k # m
      <4>1. v[<<k, r>>] = Then(v, k, r)
        BY <2>3, <3>1, <3>6
      <4>. QED BY <2>8, <3>1, <3>4, <3>6, <4>1
    <3>. QED BY <3>5, <3>6
  <2>12. Good(m, h)
    BY <2>7, <2>10, <2>11
  <2>. HIDE DEF Good
  <2>. QED BY <2>2, <2>12
<1>5. n \in 0..n /\ n - n = 0
  OBVIOUS
<1>3. \A j \in 0..n : j \in level
  <2>. HIDE DEF level
  <2>. QED BY <1>1, <1>2, Climb
<1>4. PICK v : Good(0, v)
  <2>1. n \in level
    <3>. HIDE DEF level
    <3>. QED BY <1>3, <1>5
  <2>2. \E v : Good(n - n, v)
    <3>. HIDE DEF Good
    <3>. QED BY <2>1
  <2>. HIDE DEF Good
  <2>. QED BY <1>5, <2>2
<1>6. Values(n, go, keep, lose, v)
  <2>. HIDE DEF Then
  <2>. QED BY <1>4 DEF Values, Then
<1>. QED BY <1>6

\* Products of numbers.
LEMMA Products ==
  /\ \A a, b \in Nat : a * b \in Nat /\ a + b \in Nat /\ a * b = b * a
  /\ \A a, b, c \in Nat : a * (b * c) = (a * b) * c
  /\ \A a, b, c \in Nat : a * (b * c) = b * (a * c)
  /\ \A a, b, c \in Nat : a * (b + c) = a * b + a * c
  /\ \A a \in Nat : a * 0 = 0 /\ 0 * a = 0 /\ a * 1 = a /\ 1 * a = a
OBVIOUS

\* What is assumed of the constants that most proofs need.
LEMMA VocabularyFinite == IsFiniteSet(Vocabulary) /\ Mass \in Nat \ {0} /\ MaxEmitted \in Nat \ {0}
BY LawAssumption

RowTypes == [Vocabulary -> 0..Mass]

\* A row of a model is numbers that add up.
LEMMA RowSums ==
  ASSUME NEW row \in RowTypes
  PROVE  /\ Amounts(row, Vocabulary)
         /\ Total(row) = Sum(row, Vocabulary)
         /\ Total(row) \in Nat
         /\ \A x \in Vocabulary : row[x] \in Nat /\ row[x] <= Total(row)
         /\ row \in Rows <=> Total(row) = Mass
<1>1. Amounts(row, Vocabulary) /\ DOMAIN row = Vocabulary
  BY VocabularyFinite DEF Amounts, RowTypes
<1>2. Total(row) = Sum(row, Vocabulary)
  BY <1>1 DEF Total, SumFunction, Sum
<1>3. Total(row) \in Nat
  BY <1>1, <1>2, SumType, VocabularyFinite
<1>4. ASSUME NEW x \in Vocabulary
      PROVE  row[x] \in Nat /\ row[x] <= Total(row)
  <2>1. Sum(row, Vocabulary) = row[x] + Sum(row, Vocabulary \ {x})
    BY <1>1, SumElement, VocabularyFinite
  <2>2. IsFiniteSet(Vocabulary \ {x}) /\ Amounts(row, Vocabulary \ {x})
    BY <1>1, FS_Subset, VocabularyFinite DEF Amounts
  <2>3. Sum(row, Vocabulary \ {x}) \in Nat
    BY <2>2, SumType
  <2>4. row[x] \in Nat
    BY <1>1 DEF Amounts
  <2>. QED BY <1>2, <2>1, <2>3, <2>4
<1>. QED BY <1>1, <1>2, <1>3, <1>4 DEF Rows, RowTypes

\* What of a proposal's probability is kept, and what is lost.
Kept(p, q, x) == Smaller(p[x], q[x])
Lost(p, q, x) == q[x] - Smaller(p[x], q[x])

\* The two parts of a proposal, and the residual.
LEMMA KeptAndLost ==
  ASSUME NEW p \in RowTypes, NEW q \in RowTypes, NEW x \in Vocabulary
  PROVE  /\ Kept(p, q, x) \in Nat /\ Lost(p, q, x) \in Nat
         /\ Residual(p, q) \in RowTypes
         /\ q[x] \in 0..Mass /\ p[x] \in 0..Mass
         /\ q[x] = Kept(p, q, x) + Lost(p, q, x)
         /\ p[x] = Kept(p, q, x) + Residual(p, q)[x]
         /\ Lost(p, q, x) # 0 => Residual(p, q)[x] = 0
<1>1. \A z \in Vocabulary : p[z] \in 0..Mass /\ q[z] \in 0..Mass
  BY DEF RowTypes
<1>2. \A z \in Vocabulary : Residual(p, q)[z] = IF 0 < p[z] - q[z] THEN p[z] - q[z] ELSE 0
  BY DEF Residual, Larger
<1>3. \A z \in Vocabulary : Residual(p, q)[z] \in 0..Mass
  BY <1>1, <1>2, VocabularyFinite
<1>4. Residual(p, q) \in RowTypes
  BY <1>3 DEF Residual, RowTypes
<1>. QED BY <1>1, <1>2, <1>4, VocabularyFinite DEF Kept, Lost, Smaller

\* As much is lost as the residual has.
LEMMA ResidualTotal ==
  ASSUME NEW p \in Rows, NEW q \in RowTypes
  PROVE  /\ p \in RowTypes
         /\ Total(Residual(p, q)) \in 0..Mass
         /\ q \in Rows => Sum([x \in Vocabulary |-> Lost(p, q, x)], Vocabulary) = Total(Residual(p, q))
         /\ \A x \in Vocabulary : q \in Rows /\ Lost(p, q, x) # 0 => Total(Residual(p, q)) # 0
<1>. DEFINE kept == [x \in Vocabulary |-> Kept(p, q, x)]
            lost == [x \in Vocabulary |-> Lost(p, q, x)]
            res == Residual(p, q)
<1>1. p \in RowTypes
  BY DEF Rows, RowTypes
<1>2. Amounts(kept, Vocabulary) /\ Amounts(lost, Vocabulary)
  BY <1>1, KeptAndLost DEF Amounts
<1>3. res \in RowTypes
  <2>1. \A x \in Vocabulary : res[x] \in 0..Mass
    BY <1>1, KeptAndLost DEF RowTypes
  <2>. QED BY <2>1 DEF Residual, RowTypes
<1>4. Amounts(res, Vocabulary) /\ Total(res) = Sum(res, Vocabulary)
  BY <1>3, RowSums
<1>5. Sums(kept, res, p, Vocabulary) /\ Sums(kept, lost, q, Vocabulary)
  BY <1>1, KeptAndLost DEF Sums
<1>. HIDE DEF kept, lost, res
<1>6. Sum(p, Vocabulary) = Sum(kept, Vocabulary) + Sum(res, Vocabulary)
  BY <1>2, <1>4, <1>5, SumAdds, VocabularyFinite
<1>7. Sum(q, Vocabulary) = Sum(kept, Vocabulary) + Sum(lost, Vocabulary)
  BY <1>2, <1>5, SumAdds, VocabularyFinite
<1>8. /\ Sum(kept, Vocabulary) \in Nat /\ Sum(lost, Vocabulary) \in Nat /\ Sum(res, Vocabulary) \in Nat
  BY <1>2, <1>4, SumType, VocabularyFinite
<1>9. Sum(p, Vocabulary) = Mass
  BY <1>1, RowSums
<1>10. q \in Rows => Sum(q, Vocabulary) = Mass
  BY RowSums
<1>11. Total(res) \in 0..Mass
  BY <1>4, <1>6, <1>8, <1>9, VocabularyFinite
<1>12. q \in Rows => Sum(lost, Vocabulary) = Total(res)
  BY <1>4, <1>6, <1>7, <1>8, <1>9, <1>10
<1>13. ASSUME NEW x \in Vocabulary, q \in Rows, Lost(p, q, x) # 0
       PROVE  Total(res) # 0
  <2>1. Sum(lost, Vocabulary) = lost[x] + Sum(lost, Vocabulary \ {x})
    BY <1>2, SumElement, VocabularyFinite
  <2>2. IsFiniteSet(Vocabulary \ {x}) /\ Amounts(lost, Vocabulary \ {x})
    BY <1>2, FS_Subset, VocabularyFinite DEF Amounts
  <2>3. Sum(lost, Vocabulary \ {x}) \in Nat
    BY <2>2, SumType
  <2>4. lost[x] \in Nat /\ lost[x] # 0
    BY <1>2, <1>13 DEF Amounts, lost
  <2>. QED BY <1>12, <1>13, <2>1, <2>3, <2>4
<1>. QED BY <1>1, <1>11, <1>12, <1>13 DEF lost, res

KeepWeight(p, q, x) == Kept(p, q, x) * Share[q[x]]
LoseWeight(p, q, x) == Lost(p, q, x) * Share[q[x]]
CorrectWeight(p, q, y) == Residual(p, q)[y] * Share[Total(Residual(p, q))]

\* The weights are the parts, over the whole.
LEMMA Weights ==
  ASSUME NEW p \in Rows, NEW q \in RowTypes, NEW x \in Vocabulary
  PROVE  /\ KeepWeight(p, q, x) \in Nat /\ LoseWeight(p, q, x) \in Nat /\ CorrectWeight(p, q, x) \in Nat
         /\ q[x] * KeepWeight(p, q, x) = Kept(p, q, x) * Whole
         /\ q[x] * LoseWeight(p, q, x) = Lost(p, q, x) * Whole
         /\ Total(Residual(p, q)) * CorrectWeight(p, q, x) = Residual(p, q)[x] * Whole
<1>. DEFINE R == Total(Residual(p, q))
            k == Kept(p, q, x)
            l == Lost(p, q, x)
            z == q[x]
            e == Residual(p, q)[x]
<1>1. p \in RowTypes /\ R \in 0..Mass
  BY ResidualTotal
<1>2. k \in Nat /\ l \in Nat /\ z \in 0..Mass /\ z = k + l /\ Residual(p, q) \in RowTypes
  BY <1>1, KeptAndLost
<1>3. e \in Nat /\ e <= R
  BY <1>2, RowSums
<1>. HIDE DEF R, k, l, z, e
<1>4. Share[z] \in Nat /\ Share[R] \in Nat /\ Whole \in Nat
  BY <1>1, <1>2, Shares
<1>5. z # 0 => z * Share[z] = Whole
  <2>1. z # 0 => z \in 1..Mass
    BY <1>2
  <2>. QED BY <2>1, Shares
<1>6. R # 0 => R * Share[R] = Whole
  <2>1. R # 0 => R \in 1..Mass
    BY <1>1
  <2>. QED BY <2>1, Shares
<1>7. z \in Nat /\ R \in Nat
  BY <1>1, <1>2
<1>8. z * (k * Share[z]) = k * Whole
  <2>1. z * (k * Share[z]) = k * (z * Share[z])
    BY <1>2, <1>4, <1>7, Products
  <2>2. CASE z = 0
    <3>1. k = 0 /\ z * (k * Share[z]) = 0 /\ k * Whole = 0
      BY <1>2, <1>4, <2>2, Products
    <3>. QED BY <3>1
  <2>. QED BY <1>5, <2>1, <2>2
<1>9. z * (l * Share[z]) = l * Whole
  <2>1. z * (l * Share[z]) = l * (z * Share[z])
    BY <1>2, <1>4, <1>7, Products
  <2>2. CASE z = 0
    <3>1. l = 0 /\ z * (l * Share[z]) = 0 /\ l * Whole = 0
      BY <1>2, <1>4, <2>2, Products
    <3>. QED BY <3>1
  <2>. QED BY <1>5, <2>1, <2>2
<1>10. R * (e * Share[R]) = e * Whole
  <2>1. R * (e * Share[R]) = e * (R * Share[R])
    BY <1>3, <1>4, <1>7, Products
  <2>2. CASE R = 0
    <3>1. e = 0 /\ R * (e * Share[R]) = 0 /\ e * Whole = 0
      BY <1>3, <1>4, <2>2, Products
    <3>. QED BY <3>1
  <2>. QED BY <1>6, <2>1, <2>2
<1>11. k * Share[z] \in Nat /\ l * Share[z] \in Nat /\ e * Share[R] \in Nat
  BY <1>2, <1>3, <1>4, Products
<1>. QED BY <1>8, <1>9, <1>10, <1>11 DEF KeepWeight, LoseWeight, CorrectWeight, R, k, l, z, e

\* What an output gains from a proposal that is kept, and from one that is lost:
\* y is its next token, x the proposal.
KeepAt(p, q, y, x) == IF x = y THEN KeepWeight(p, q, x) * Whole ELSE 0
LoseAt(p, q, y, x) == LoseWeight(p, q, x) * CorrectWeight(p, q, y)

\* Rejection sampling: a token is as likely through a proposal as under the target.
LEMMA ProposalExact ==
  ASSUME NEW p \in Rows, NEW q \in Rows, NEW y \in Vocabulary, NEW f,
         \A x \in Vocabulary : f[x] = q[x] * (KeepAt(p, q, y, x) + LoseAt(p, q, y, x))
  PROVE  Sum(f, Vocabulary) = Mass * (p[y] * (Whole * Share[Mass]))
<1>. DEFINE k == Kept(p, q, y)
            R == Total(Residual(p, q))
            e == Residual(p, q)[y]
            W == CorrectWeight(p, q, y)
            lost == [x \in Vocabulary |-> Lost(p, q, x)]
            one == [x \in Vocabulary |-> IF x = y THEN k * (Whole * Whole) ELSE 0]
            rest == [x \in Vocabulary |-> (Whole * W) * Lost(p, q, x)]
            m == p[y]
<1>1. p \in RowTypes /\ q \in RowTypes /\ R \in Nat /\ Sum(lost, Vocabulary) = R
  BY ResidualTotal DEF Rows, RowTypes
<1>2. k \in Nat /\ e \in Nat /\ m = k + e /\ m \in Nat
  <2>1. p[y] \in 0..Mass /\ Residual(p, q) \in RowTypes /\ p[y] = Kept(p, q, y) + Residual(p, q)[y] /\ k \in Nat
    BY <1>1, KeptAndLost
  <2>2. e \in Nat
    BY <2>1, RowSums
  <2>. QED BY <2>1, <2>2
<1>3. W \in Nat /\ R * W = e * Whole /\ Whole \in Nat
  BY <1>1, Weights, Shares
<1>4. ASSUME NEW x \in Vocabulary
      PROVE  /\ Lost(p, q, x) \in Nat
             /\ f[x] = one[x] + rest[x]
             /\ one[x] \in Nat /\ rest[x] \in Nat
  <2>1. q[x] \in Nat /\ Lost(p, q, x) \in Nat /\ Kept(p, q, x) \in Nat
    BY <1>1, KeptAndLost
  <2>2. KeepWeight(p, q, x) \in Nat /\ LoseWeight(p, q, x) \in Nat
        /\ q[x] * KeepWeight(p, q, x) = Kept(p, q, x) * Whole
        /\ q[x] * LoseWeight(p, q, x) = Lost(p, q, x) * Whole
    BY <1>1, Weights
  <2>. DEFINE z == q[x]
              kw == KeepWeight(p, q, x)
              lw == LoseWeight(p, q, x)
              l == Lost(p, q, x)
  <2>. HIDE DEF W, z, kw, lw, l
  <2>3. z * (lw * W) = (Whole * W) * l
    <3>1. z * (lw * W) = (z * lw) * W
      BY <1>3, <2>1, <2>2, Products DEF z, lw
    <3>2. (l * Whole) * W = (Whole * W) * l
      <4>1. Whole * W \in Nat /\ l \in Nat
        BY <1>3, <2>1, Products DEF l
      <4>2. (Whole * W) * l = l * (Whole * W)
        BY <4>1, Products
      <4>. QED BY <1>3, <4>1, <4>2, Products
    <3>. QED BY <2>2, <3>1, <3>2 DEF z, lw, l
  <2>4. z * (kw * Whole) = Kept(p, q, x) * (Whole * Whole)
    <3>1. z * (kw * Whole) = (z * kw) * Whole
      BY <1>3, <2>1, <2>2, Products DEF z, kw
    <3>. QED BY <1>3, <2>1, <2>2, <3>1, Products DEF z, kw
  <2>5. kw * Whole \in Nat /\ lw * W \in Nat /\ Whole * Whole \in Nat /\ Whole * W \in Nat /\ z \in Nat /\ l \in Nat
    BY <1>3, <2>1, <2>2, Products DEF kw, lw, z, l
  <2>6. Kept(p, q, x) * (Whole * Whole) \in Nat /\ (Whole * W) * l \in Nat /\ z * (lw * W) \in Nat
    BY <2>1, <2>5, Products
  <2>7. one[x] = IF x = y THEN Kept(p, q, x) * (Whole * Whole) ELSE 0
    OBVIOUS
  <2>8. rest[x] = (Whole * W) * l
    BY DEF l
  <2>. HIDE DEF one, rest
  <2>9. f[x] = z * ((IF x = y THEN kw * Whole ELSE 0) + lw * W)
    BY DEF KeepAt, LoseAt, z, kw, lw, W
  <2>10. f[x] = one[x] + rest[x]
    <3>1. CASE x = y
      <4>1. f[x] = z * (kw * Whole) + z * (lw * W)
        BY <2>5, <2>9, <3>1, Products
      <4>. QED BY <2>3, <2>4, <2>7, <2>8, <3>1, <4>1
    <3>2. CASE x # y
      <4>1. f[x] = z * (lw * W)
        BY <2>5, <2>9, <3>2
      <4>. QED BY <2>3, <2>6, <2>7, <2>8, <3>2, <4>1
    <3>. QED BY <3>1, <3>2
  <2>. QED BY <2>1, <2>6, <2>7, <2>8, <2>10 DEF l
<1>5. Amounts(one, Vocabulary) /\ Amounts(rest, Vocabulary) /\ Amounts(lost, Vocabulary) /\ Sums(one, rest, f, Vocabulary)
      /\ Multiples(Whole * W, lost, rest, Vocabulary)
  <2>1. \A x \in Vocabulary : lost[x] = Lost(p, q, x) /\ rest[x] = (Whole * W) * lost[x]
    OBVIOUS
  <2>. HIDE DEF one, rest, lost
  <2>. QED BY <1>4, <2>1 DEF Amounts, Sums, Multiples
<1>6. Sum(f, Vocabulary) = Sum(one, Vocabulary) + Sum(rest, Vocabulary)
  <2>. HIDE DEF one, rest
  <2>. QED BY <1>5, SumAdds, VocabularyFinite
<1>7. Sum(one, Vocabulary) = k * (Whole * Whole)
  <2>1. one[y] = k * (Whole * Whole) /\ \A x \in Vocabulary : x # y => one[x] = 0
    OBVIOUS
  <2>2. one[y] \in Nat
    BY <1>4
  <2>. HIDE DEF one
  <2>3. Sum(one, Vocabulary) = one[y]
    BY <2>1, <2>2, SumOne, VocabularyFinite
  <2>. QED BY <2>1, <2>3
<1>8. Sum(rest, Vocabulary) = (Whole * W) * R
  <2>1. Whole * W \in Nat
    BY <1>3, Products
  <2>. HIDE DEF rest, lost, W
  <2>2. Sum(rest, Vocabulary) = (Whole * W) * Sum(lost, Vocabulary)
    BY <1>5, <2>1, SumScales, VocabularyFinite
  <2>. QED BY <1>1, <2>2
<1>9. Mass \in Nat /\ Share[Mass] \in Nat /\ Mass * Share[Mass] = Whole
  <2>1. Mass \in 1..Mass /\ Mass \in 0..Mass
    BY VocabularyFinite
  <2>. QED BY <2>1, Shares, VocabularyFinite
<1>. HIDE DEF k, R, e, W, lost, one, rest, m
<1>10. (Whole * W) * R = e * (Whole * Whole)
  <2>1. (Whole * W) * R = Whole * (R * W)
    BY <1>1, <1>3, Products
  <2>2. Whole * (e * Whole) = e * (Whole * Whole)
    BY <1>2, <1>3, Products
  <2>. QED BY <1>3, <2>1, <2>2
<1>11. k * (Whole * Whole) + e * (Whole * Whole) = m * (Whole * Whole)
  <2>1. Whole * Whole \in Nat
    BY <1>3, Products
  <2>2. (Whole * Whole) * (k + e) = (Whole * Whole) * k + (Whole * Whole) * e
    BY <1>2, <2>1, Products
  <2>. QED BY <1>2, <2>1, <2>2, Products
<1>12. Mass * (m * (Whole * Share[Mass])) = m * (Whole * Whole)
  <2>1. Whole * Share[Mass] \in Nat
    BY <1>3, <1>9, Products
  <2>2. Mass * (m * (Whole * Share[Mass])) = m * (Mass * (Whole * Share[Mass]))
    BY <1>2, <1>9, <2>1, Products
  <2>3. Mass * (Whole * Share[Mass]) = Whole * (Mass * Share[Mass])
    BY <1>3, <1>9, Products
  <2>. QED BY <1>9, <2>2, <2>3
<1>. QED BY <1>6, <1>7, <1>8, <1>10, <1>11, <1>12 DEF m
-----------------------------------------------------------------------------
(* GenerationLaw: outputs and their beginnings.                            *)

\* A prefix has the same elements.
LEMMA PrefixIs ==
  ASSUME NEW T, NEW s \in Seq(T), NEW u \in Seq(T)
  PROVE  IsPrefix(s, u) <=> Len(s) <= Len(u) /\ \A i \in 1..Len(s) : s[i] = u[i]
<1>1. Len(s) \in Nat /\ Len(u) \in Nat
  BY LenProperties
<1>2. SubSeq(s, 1, Len(s)) = s
  BY SubSeqFull
<1>3. ASSUME Len(s) <= Len(u)
      PROVE  s = SubSeq(u, 1, Len(s)) <=> \A i \in 1..Len(s) : s[i] = u[i]
  <2>1. Len(s) \in 0..Len(u)
    BY <1>1, <1>3
  <2>2. /\ SubSeq(u, 1, Len(s)) \in Seq(T)
        /\ Len(SubSeq(u, 1, Len(s))) = Len(s)
        /\ \A i \in 1..Len(s) : SubSeq(u, 1, Len(s))[i] = u[i]
    BY <2>1, PrefixProperties
  <2>3. (\A i \in 1..Len(s) : s[i] = u[i]) => s = SubSeq(u, 1, Len(s))
    <3> SUFFICES ASSUME \A i \in 1..Len(s) : s[i] = u[i]
                 PROVE  s = SubSeq(u, 1, Len(s))
      OBVIOUS
    <3>1. \A i \in 1..Len(s) : s[i] = SubSeq(u, 1, Len(s))[i]
      BY <2>2
    <3>. QED BY <2>2, <3>1, SeqEqual
  <2>4. s = SubSeq(u, 1, Len(s)) => \A i \in 1..Len(s) : s[i] = u[i]
    BY <2>2
  <2>. QED BY <2>3, <2>4
<1>. QED BY <1>2, <1>3 DEF IsPrefix

\* What appending a token makes of a sequence.
LEMMA AppendIs ==
  ASSUME NEW T, NEW s \in Seq(T), NEW x \in T
  PROVE  /\ Append(s, x) \in Seq(T)
         /\ Len(s) \in Nat
         /\ Len(Append(s, x)) = Len(s) + 1
         /\ Append(s, x)[Len(s) + 1] = x
         /\ Last(Append(s, x)) = x
         /\ \A i \in 1..Len(s) : Append(s, x)[i] = s[i]
BY DEF Last

\* What begins with one token more, and what one token more begins with.
LEMMA PrefixOfAppend ==
  ASSUME NEW T, NEW s \in Seq(T), NEW u \in Seq(T), NEW x \in T
  PROVE  /\ IsPrefix(Append(s, x), u) <=> IsPrefix(s, u) /\ Len(s) < Len(u) /\ u[Len(s) + 1] = x
         /\ IsPrefix(u, s) => IsPrefix(u, Append(s, x))
         /\ IsPrefix(u, Append(s, x)) => IsPrefix(u, s) \/ (IsPrefix(s, u) /\ Len(s) < Len(u))
<1>. DEFINE a == Append(s, x)
            n == Len(s)
            m == Len(u)
<1>1. n \in Nat /\ m \in Nat /\ a \in Seq(T) /\ Len(a) = n + 1 /\ a[n + 1] = x
      /\ \A i \in 1..n : a[i] = s[i]
  BY AppendIs, LenProperties
<1>2. IsPrefix(a, u) <=> Len(a) <= m /\ \A i \in 1..Len(a) : a[i] = u[i]
  <2>1. a \in Seq(T)
    BY <1>1
  <2>. HIDE DEF a
  <2>. QED BY <2>1, PrefixIs
<1>3. IsPrefix(s, u) <=> n <= m /\ \A i \in 1..n : s[i] = u[i]
  BY PrefixIs
<1>4. IsPrefix(u, s) <=> m <= n /\ \A i \in 1..m : u[i] = s[i]
  BY PrefixIs
<1>5. IsPrefix(u, a) <=> m <= Len(a) /\ \A i \in 1..m : u[i] = a[i]
  <2>1. a \in Seq(T)
    BY <1>1
  <2>. HIDE DEF a
  <2>. QED BY <2>1, PrefixIs
<1>. HIDE DEF a, n, m
<1>6. IsPrefix(a, u) <=> IsPrefix(s, u) /\ n < m /\ u[n + 1] = x
  <2>1. ASSUME IsPrefix(a, u)
        PROVE  IsPrefix(s, u) /\ n < m /\ u[n + 1] = x
    <3>1. n + 1 <= m /\ \A i \in 1..n + 1 : a[i] = u[i]
      BY <1>1, <1>2, <2>1
    <3>2. \A i \in 1..n : s[i] = u[i]
      BY <1>1, <3>1
    <3>3. n + 1 \in 1..n + 1
      BY <1>1
    <3>. QED BY <1>1, <1>3, <3>1, <3>2, <3>3
  <2>2. ASSUME IsPrefix(s, u), n < m, u[n + 1] = x
        PROVE  IsPrefix(a, u)
    <3>1. \A i \in 1..n + 1 : i \in 1..n \/ i = n + 1
      BY <1>1
    <3>2. \A i \in 1..n + 1 : a[i] = u[i]
      BY <1>1, <1>3, <2>2, <3>1
    <3>3. n + 1 <= m
      BY <1>1, <2>2
    <3>. QED BY <1>1, <1>2, <3>2, <3>3
  <2>. QED BY <2>1, <2>2
<1>7. IsPrefix(u, s) => IsPrefix(u, a)
  <2>1. ASSUME IsPrefix(u, s)
        PROVE  m <= n + 1 /\ \A i \in 1..m : u[i] = a[i]
    <3>1. m <= n /\ \A i \in 1..m : u[i] = s[i] /\ i \in 1..n
      BY <1>1, <1>4, <2>1
    <3>. QED BY <1>1, <3>1
  <2>. QED BY <1>1, <1>5, <2>1
<1>8. ASSUME IsPrefix(u, a)
      PROVE  IsPrefix(u, s) \/ (IsPrefix(s, u) /\ n < m)
  <2>1. m <= n + 1 /\ \A i \in 1..m : u[i] = a[i]
    BY <1>1, <1>5, <1>8
  <2>2. CASE m = n + 1
    <3>1. \A i \in 1..n : s[i] = u[i]
      BY <1>1, <2>1, <2>2
    <3>. QED BY <1>1, <1>3, <2>2, <3>1
  <2>3. CASE m # n + 1
    <3>1. m <= n
      BY <1>1, <2>1, <2>3
    <3>2. \A i \in 1..m : u[i] = s[i]
      BY <1>1, <2>1, <3>1
    <3>. QED BY <1>4, <3>1, <3>2
  <2>. QED BY <2>2, <2>3
<1>. QED BY <1>6, <1>7, <1>8 DEF a, n, m

\* Two sequences of which each begins with the other are one.
LEMMA PrefixBoth ==
  ASSUME NEW T, NEW s \in Seq(T), NEW u \in Seq(T), IsPrefix(s, u), Len(u) <= Len(s)
  PROVE  s = u
<1>1. Len(s) <= Len(u) /\ \A i \in 1..Len(s) : s[i] = u[i]
  BY PrefixIs
<1>2. Len(s) \in Nat /\ Len(u) \in Nat
  BY LenProperties
<1>3. Len(s) = Len(u)
  BY <1>1, <1>2
<1>. QED BY <1>1, <1>3, SeqEqual

\* The first and the others of a sequence, and of one with a token more.
LEMMA AppendEnds ==
  ASSUME NEW T, NEW s \in Seq(T), NEW x \in T
  PROVE  /\ Append(s, x) # <<>>
         /\ s = <<>> => Head(Append(s, x)) = x /\ Tail(Append(s, x)) = <<>>
         /\ s # <<>> => Head(Append(s, x)) = Head(s) /\ Tail(Append(s, x)) = Append(Tail(s), x)
<1>1. Append(s, x) \in Seq(T) /\ Len(Append(s, x)) = Len(s) + 1 /\ Len(s) \in Nat
  BY AppendIs
<1>2. Append(s, x) # <<>>
  <2>1. Len(Append(s, x)) # 0
    BY <1>1
  <2>2. Len(<<>>) = 0
    OBVIOUS
  <2>. QED BY <2>1, <2>2
<1>3. ASSUME s = <<>>
      PROVE  Head(Append(s, x)) = x /\ Tail(Append(s, x)) = <<>>
  BY <1>3
<1>4. ASSUME s # <<>>
      PROVE  Head(Append(s, x)) = Head(s) /\ Tail(Append(s, x)) = Append(Tail(s), x)
  <2>1. /\ Tail(s) \in Seq(T) /\ Len(Tail(s)) = Len(s) - 1 /\ Len(s) # 0
        /\ \A i \in 1..Len(Tail(s)) : Tail(s)[i] = s[i + 1]
    <3>1. Tail(s) \in Seq(T) /\ Len(Tail(s)) = Len(s) - 1 /\ \A i \in 1..Len(Tail(s)) : Tail(s)[i] = s[i + 1]
      BY <1>4, HeadTailProperties
    <3>2. Len(s) # 0
      BY <1>4
    <3>. QED BY <3>1, <3>2
  <2>2. /\ Tail(Append(s, x)) \in Seq(T) /\ Len(Tail(Append(s, x))) = Len(s)
        /\ \A i \in 1..Len(s) : Tail(Append(s, x))[i] = Append(s, x)[i + 1]
    <3>1. Len(Tail(Append(s, x))) = Len(Append(s, x)) - 1
      BY <1>1, <1>2, HeadTailProperties
    <3>2. Len(Tail(Append(s, x))) = Len(s)
      BY <1>1, <3>1
    <3>. QED BY <1>1, <1>2, <3>2, HeadTailProperties
  <2>3. /\ Append(Tail(s), x) \in Seq(T) /\ Len(Append(Tail(s), x)) = Len(s)
        /\ \A i \in 1..Len(s) : Append(Tail(s), x)[i] = IF i = Len(s) THEN x ELSE s[i + 1]
    <3>1. /\ Append(Tail(s), x) \in Seq(T) /\ Len(Append(Tail(s), x)) = Len(Tail(s)) + 1
          /\ Append(Tail(s), x)[Len(Tail(s)) + 1] = x
          /\ \A i \in 1..Len(Tail(s)) : Append(Tail(s), x)[i] = Tail(s)[i]
      BY <2>1, AppendIs
    <3>2. Len(Tail(s)) + 1 = Len(s)
      BY <1>1, <2>1
    <3>. DEFINE m == Len(Tail(s))
    <3>3. m \in Nat /\ Len(s) = m + 1
      BY <1>1, <2>1, <3>2
    <3>. HIDE DEF m
    <3>4. (\A i \in 1..Len(s) : i = Len(s) \/ i \in 1..m) /\ \A i \in 1..m : i # Len(s)
      BY <3>3
    <3>5. \A i \in 1..Len(s) : i = Len(s) \/ i \in 1..Len(Tail(s))
      BY <3>4 DEF m
    <3>6. \A i \in 1..Len(Tail(s)) : i # Len(s)
      BY <3>4 DEF m
    <3>. QED BY <2>1, <3>1, <3>2, <3>5, <3>6
  <2>4. ASSUME NEW i \in 1..Len(s)
        PROVE  Append(s, x)[i + 1] = IF i = Len(s) THEN x ELSE s[i + 1]
    <3>1. i # Len(s) => i + 1 \in 1..Len(s)
      BY <1>1
    <3>. QED BY <3>1, AppendIs
  <2>5. Tail(Append(s, x)) = Append(Tail(s), x)
    <3>1. \A i \in 1..Len(s) : Tail(Append(s, x))[i] = Append(Tail(s), x)[i]
      BY <2>2, <2>3, <2>4
    <3>. QED BY <2>2, <2>3, <3>1, SeqEqual
  <2>6. Head(Append(s, x)) = Head(s)
    <3>1. 1 \in 1..Len(s)
      BY <1>1, <2>1
    <3>2. Append(s, x)[1] = s[1]
      BY <3>1, AppendIs
    <3>. QED BY <3>2
  <2>. QED BY <2>5, <2>6
<1>. QED BY <1>2, <1>3, <1>4

Before(u, k) == SubSeq(u, 1, k)

\* The part before a token, the token and what follows.
LEMMA BeforeNext ==
  ASSUME NEW T, NEW u \in Seq(T), NEW k \in 0..Len(u)
  PROVE  /\ Before(u, k) \in Seq(T) /\ Len(Before(u, k)) = k
         /\ Before(u, k) \o <<>> = Before(u, k)
         /\ k < Len(u) => /\ u[k + 1] \in T
                          /\ Before(u, k + 1) = Append(Before(u, k), u[k + 1])
         /\ \A r \in Seq(T) : k < Len(u) /\ r # <<>> /\ Head(r) = u[k + 1]
                                => Before(u, k) \o r = Before(u, k + 1) \o Tail(r)
<1>0. Len(u) \in Nat
  BY LenProperties
<1>1. Before(u, k) \in Seq(T) /\ Len(Before(u, k)) = k /\ \A i \in 1..k : Before(u, k)[i] = u[i]
  BY PrefixProperties DEF Before
<1>2. Before(u, k) \o <<>> = Before(u, k)
  BY <1>1, ConcatEmptySeq
<1>3. ASSUME k < Len(u)
      PROVE  /\ u[k + 1] \in T
             /\ Before(u, k + 1) = Append(Before(u, k), u[k + 1])
             /\ Before(u, k + 1) = Before(u, k) \o <<u[k + 1]>>
  <2>1. k + 1 \in 1..Len(u) /\ k + 1 \in 0..Len(u) /\ 1 \in 1..Len(u)
    BY <1>0, <1>3
  <2>2. u[k + 1] \in T
    BY <2>1, ElementOfSeq
  <2>3. SubSeq(u, 1, k + 1) = SubSeq(u, 1, (k + 1) - 1) \o <<u[k + 1]>>
    BY <2>1, SubSeqRecursiveSecond
  <2>4. (k + 1) - 1 = k
    OBVIOUS
  <2>5. Before(u, k + 1) = Before(u, k) \o <<u[k + 1]>>
    BY <2>3, <2>4 DEF Before
  <2>6. Append(Before(u, k), u[k + 1]) = Before(u, k) \o <<u[k + 1]>>
    BY <1>1, <2>2, AppendProperties
  <2>. QED BY <2>2, <2>5, <2>6
<1>4. ASSUME NEW r \in Seq(T), k < Len(u), r # <<>>, Head(r) = u[k + 1]
      PROVE  Before(u, k) \o r = Before(u, k + 1) \o Tail(r)
  <2>1. Tail(r) \in Seq(T) /\ <<Head(r)>> \in Seq(T) /\ Head(r) \in T
    BY <1>4, HeadTailProperties
  <2>2. r = <<Head(r)>> \o Tail(r)
    <3>1. Len(r) \in Nat /\ Len(r) # 0
      BY <1>4
    <3>2. 1 \in 1..Len(r) /\ Len(r) \in 1..Len(r)
      BY <3>1
    <3>3. SubSeq(r, 1, Len(r)) = <<r[1]>> \o SubSeq(r, 1 + 1, Len(r))
      BY <3>2, SubSeqRecursiveFirst
    <3>4. SubSeq(r, 1, Len(r)) = r /\ Tail(r) = SubSeq(r, 2, Len(r))
      BY <1>4, SubSeqFull, TailIsSubSeq
    <3>. QED BY <3>3, <3>4
  <2>3. Before(u, k) \o (<<Head(r)>> \o Tail(r)) = (Before(u, k) \o <<Head(r)>>) \o Tail(r)
    BY <1>1, <2>1, ConcatAssociative
  <2>. QED BY <1>3, <1>4, <2>2, <2>3
<1>. QED BY <1>1, <1>2, <1>3, <1>4

Texts == Seq(Vocabulary)

\* What the models see of a sequence that is not too long.
LEMMA ContextIs ==
  ASSUME NEW s \in Texts, Len(s) <= MaxEmitted
  PROVE  Seen(s) \in Contexts
<1>1. Len(s) \in Nat /\ s \in [1..Len(s) -> Vocabulary]
  BY LenProperties DEF Texts
<1>2. Len(s) \in 0..MaxEmitted
  BY <1>1, VocabularyFinite
<1>3. s \in BoundedSeq(Vocabulary, MaxEmitted)
  BY <1>1, <1>2 DEF BoundedSeq, SeqOf
<1>. QED BY <1>3 DEF Contexts

\* The answers of the target and of the draft.
Targets == [Contexts -> Rows]
Drafts == [Contexts -> Rows \cup {Fails}]

NoRow == [x \in Vocabulary |-> 0]
Drafted(d, s) == IF d[Seen(s)] \in Rows THEN d[Seen(s)] ELSE NoRow

\* The rows of the models.
LEMMA RowsAre ==
  ASSUME NEW t \in Targets, NEW d \in Drafts, NEW s \in Texts, Len(s) <= MaxEmitted
  PROVE  /\ t[Seen(s)] \in Rows
         /\ Drafted(d, s) \in RowTypes
         /\ d[Seen(s)] # Fails => d[Seen(s)] \in Rows /\ Drafted(d, s) = d[Seen(s)]
<1>1. Seen(s) \in Contexts
  BY ContextIs
<1>2. NoRow \in RowTypes
  <2>1. 0 \in 0..Mass
    BY VocabularyFinite
  <2>. QED BY <2>1 DEF NoRow, RowTypes
<1>3. \A row \in Rows : row \in RowTypes
  BY DEF Rows, RowTypes
<1>. QED BY <1>1, <1>2, <1>3 DEF Targets, Drafts, Drafted

\* The numbers that an output's chance is made of, for each of its tokens.
Give(t, u) == [k \in 0..Len(u) - 1 |-> t[Seen(Before(u, k))][u[k + 1]] * (Whole * Share[Mass])]
KeepOf(t, d, u, k, x) == KeepAt(t[Seen(Before(u, k))], Drafted(d, Before(u, k)), u[k + 1], x)
LoseOf(t, d, u, k, x) == LoseAt(t[Seen(Before(u, k))], Drafted(d, Before(u, k)), u[k + 1], x)
Keep(t, d, u) == [s \in (0..Len(u) - 1) \X Vocabulary |-> KeepOf(t, d, u, s[1], s[2])]
Lose(t, d, u) == [s \in (0..Len(u) - 1) \X Vocabulary |-> LoseOf(t, d, u, s[1], s[2])]

\* How likely an output is, after so many of its tokens and with these proposals
\* pending.
Chance(t, d, u) == CHOOSE v : Values(Len(u), Give(t, u), Keep(t, d, u), Lose(t, d, u), v)

\* The weights of the token after so many.
LEMMA TokenWeights ==
  ASSUME NEW t \in Targets, NEW d \in Drafts, NEW u \in Texts, Len(u) <= MaxEmitted,
         NEW k \in 0..Len(u) - 1
  PROVE  /\ Give(t, u)[k] = t[Seen(Before(u, k))][u[k + 1]] * (Whole * Share[Mass])
         /\ Give(t, u)[k] \in Nat
         /\ \A x \in Vocabulary : /\ Keep(t, d, u)[<<k, x>>] = KeepOf(t, d, u, k, x)
                                  /\ Lose(t, d, u)[<<k, x>>] = LoseOf(t, d, u, k, x)
                                  /\ KeepOf(t, d, u, k, x) \in Nat
                                  /\ LoseOf(t, d, u, k, x) \in Nat
<1>1. /\ Len(u) \in Nat /\ k \in 0..Len(u) /\ k < Len(u) /\ k <= MaxEmitted
  BY LenProperties, VocabularyFinite DEF Texts
<1>2. /\ u[k + 1] \in Vocabulary
      /\ Before(u, k) \in Texts /\ Len(Before(u, k)) = k
  BY <1>1, BeforeNext DEF Texts
<1>3. t[Seen(Before(u, k))] \in Rows /\ Drafted(d, Before(u, k)) \in RowTypes
  BY <1>1, <1>2, RowsAre
<1>. DEFINE p == t[Seen(Before(u, k))]
            q == Drafted(d, Before(u, k))
            y == u[k + 1]
<1>4. p \in RowTypes
  BY <1>3 DEF Rows, RowTypes
<1>5. Whole \in Nat /\ Share[Mass] \in Nat
  <2>1. Mass \in 0..Mass
    BY VocabularyFinite
  <2>. QED BY <2>1, Shares
<1>6. p[y] * (Whole * Share[Mass]) \in Nat
  <2>1. p[y] \in Nat
    BY <1>2, <1>4, RowSums
  <2>2. Whole * Share[Mass] \in Nat
    BY <1>5, Products
  <2>. HIDE DEF p, y
  <2>. QED BY <2>1, <2>2, Products
<1>7. Give(t, u)[k] = p[y] * (Whole * Share[Mass])
  BY DEF Give
<1>8. ASSUME NEW x \in Vocabulary
      PROVE  KeepAt(p, q, y, x) \in Nat /\ LoseAt(p, q, y, x) \in Nat
  <2>1. KeepWeight(p, q, x) \in Nat /\ LoseWeight(p, q, x) \in Nat /\ CorrectWeight(p, q, y) \in Nat
    BY <1>2, <1>3, Weights
  <2>. HIDE DEF p, q, y
  <2>2. KeepWeight(p, q, x) * Whole \in Nat /\ LoseWeight(p, q, x) * CorrectWeight(p, q, y) \in Nat
    BY <1>5, <2>1, Products
  <2>. QED BY <2>2 DEF KeepAt, LoseAt
<1>9. \A x \in Vocabulary : KeepOf(t, d, u, k, x) \in Nat /\ LoseOf(t, d, u, k, x) \in Nat
  BY <1>8 DEF KeepOf, LoseOf
<1>10. \A x \in Vocabulary : /\ Keep(t, d, u)[<<k, x>>] = KeepOf(t, d, u, k, x)
                             /\ Lose(t, d, u)[<<k, x>>] = LoseOf(t, d, u, k, x)
  BY DEF Keep, Lose
<1>. QED BY <1>6, <1>7, <1>9, <1>10

\* The chances satisfy their recursion.
LEMMA Chances ==
  ASSUME NEW t \in Targets, NEW d \in Drafts, NEW u \in Texts, Len(u) <= MaxEmitted
  PROVE  /\ \A k \in 0..Len(u), r \in Texts : Chance(t, d, u)[<<k, r>>] \in Nat
         /\ \A r \in Texts : Chance(t, d, u)[<<Len(u), r>>] = 1
         /\ \A k \in 0..Len(u) - 1 :
              /\ Chance(t, d, u)[<<k, <<>>>>] = Give(t, u)[k] * Chance(t, d, u)[<<k + 1, <<>>>>]
              /\ \A r \in Texts : r # <<>> =>
                   Chance(t, d, u)[<<k, r>>]
                     = KeepOf(t, d, u, k, Head(r)) * Chance(t, d, u)[<<k + 1, Tail(r)>>]
                         + LoseOf(t, d, u, k, Head(r)) * Chance(t, d, u)[<<k + 1, <<>>>>]
<1>. DEFINE n == Len(u)
            go == Give(t, u)
            keep == Keep(t, d, u)
            lose == Lose(t, d, u)
            v == Chance(t, d, u)
<1>1. n \in Nat
  BY LenProperties DEF Texts
<1>2. \A k \in 0..n - 1 : go[k] \in Nat
  BY TokenWeights
<1>3. go \in [0..n - 1 -> Nat]
  BY <1>2 DEF Give
<1>4. \A k \in 0..n - 1 : \A x \in Vocabulary : keep[<<k, x>>] \in Nat /\ lose[<<k, x>>] \in Nat
  <2> TAKE k \in 0..n - 1
  <2>. QED BY TokenWeights
<1>5. keep \in [(0..n - 1) \X Vocabulary -> Nat] /\ lose \in [(0..n - 1) \X Vocabulary -> Nat]
  BY <1>4 DEF Keep, Lose
<1>. HIDE DEF n, go, keep, lose
<1>6. \E w : Values(n, go, keep, lose, w)
  BY <1>1, <1>3, <1>5, ValuesExist
<1>7. Values(n, go, keep, lose, v)
  BY <1>6 DEF Chance, n, go, keep, lose
<1>. HIDE DEF v
<1>8. /\ v \in [(0..n) \X Texts -> Nat]
      /\ \A r \in Texts : v[<<n, r>>] = 1
      /\ \A k \in 0..n - 1 : \A r \in Texts :
           v[<<k, r>>] = IF r = <<>> THEN go[k] * v[<<k + 1, <<>>>>]
                         ELSE keep[<<k, Head(r)>>] * v[<<k + 1, Tail(r)>>]
                                + lose[<<k, Head(r)>>] * v[<<k + 1, <<>>>>]
  BY <1>7 DEF Values, Texts
<1>9. \A k \in 0..n, r \in Texts : v[<<k, r>>] \in Nat
  BY <1>8
<1>10. ASSUME NEW k \in 0..n - 1
       PROVE  /\ v[<<k, <<>>>>] = go[k] * v[<<k + 1, <<>>>>]
              /\ \A r \in Texts : r # <<>> =>
                   v[<<k, r>>] = KeepOf(t, d, u, k, Head(r)) * v[<<k + 1, Tail(r)>>]
                                   + LoseOf(t, d, u, k, Head(r)) * v[<<k + 1, <<>>>>]
  <2>1. v[<<k, <<>>>>] = go[k] * v[<<k + 1, <<>>>>]
    <3>1. <<>> \in Texts
      BY DEF Texts
    <3>. QED BY <1>8, <3>1
  <2>2. ASSUME NEW r \in Texts, r # <<>>
        PROVE  v[<<k, r>>] = KeepOf(t, d, u, k, Head(r)) * v[<<k + 1, Tail(r)>>]
                               + LoseOf(t, d, u, k, Head(r)) * v[<<k + 1, <<>>>>]
    <3>1. Head(r) \in Vocabulary
      BY <2>2, HeadTailProperties DEF Texts
    <3>2. keep[<<k, Head(r)>>] = KeepOf(t, d, u, k, Head(r)) /\ lose[<<k, Head(r)>>] = LoseOf(t, d, u, k, Head(r))
      BY <3>1, TokenWeights DEF n, keep, lose
    <3>3. v[<<k, r>>] = keep[<<k, Head(r)>>] * v[<<k + 1, Tail(r)>>]
                          + lose[<<k, Head(r)>>] * v[<<k + 1, <<>>>>]
      BY <1>8, <2>2
    <3>. QED BY <3>2, <3>3
  <2>. QED BY <2>1, <2>2
<1>. QED BY <1>8, <1>9, <1>10 DEF n, go, v
-----------------------------------------------------------------------------
(* GenerationLaw: a proposal is exact.                                     *)

\* Sums of a row's tokens: what each is worth, by a factor and by two parts.
LEMMA RowScaled ==
  ASSUME NEW row \in RowTypes, NEW w \in Nat, NEW h, \A x \in Vocabulary : h[x] = row[x] * w
  PROVE  Sum(h, Vocabulary) = Total(row) * w
<1>1. Amounts(row, Vocabulary) /\ Total(row) = Sum(row, Vocabulary) /\ Total(row) \in Nat
      /\ \A x \in Vocabulary : row[x] \in Nat
  BY RowSums
<1>2. Multiples(w, row, h, Vocabulary)
  BY <1>1, Products DEF Multiples
<1>3. Sum(h, Vocabulary) = w * Sum(row, Vocabulary)
  BY <1>1, <1>2, SumScales, VocabularyFinite
<1>. QED BY <1>1, <1>3, Products

Weighted(row, g) == [x \in Vocabulary |-> row[x] * g[x]]
Mixed(row, a, g, b) == [x \in Vocabulary |-> row[x] * (a * g[x] + b)]

MixedSum(row, a, g, b, G) ==
  (a # 0 => Sum(Weighted(row, g), Vocabulary) = Total(row) * G)
    => Sum(Mixed(row, a, g, b), Vocabulary) = Total(row) * (a * G + b)

\* A row that is mixed of two has a mixed sum.
LEMMA RowMixed ==
  ASSUME NEW row \in RowTypes, NEW a \in Nat, NEW b \in Nat,
         NEW g, Amounts(g, Vocabulary), NEW G \in Nat
  PROVE  MixedSum(row, a, g, b, G)
<1>. SUFFICES ASSUME a # 0 => Sum(Weighted(row, g), Vocabulary) = Total(row) * G
              PROVE  Sum(Mixed(row, a, g, b), Vocabulary) = Total(row) * (a * G + b)
  BY DEF MixedSum
<1>. DEFINE M == Total(row)
            f == [x \in Vocabulary |-> row[x] * g[x]]
            one == [x \in Vocabulary |-> a * f[x]]
            two == [x \in Vocabulary |-> row[x] * b]
            h == [x \in Vocabulary |-> row[x] * (a * g[x] + b)]
<1>1. M \in Nat /\ \A x \in Vocabulary : row[x] \in Nat
  BY RowSums
<1>2. ASSUME NEW x \in Vocabulary
      PROVE  /\ f[x] \in Nat /\ one[x] \in Nat /\ two[x] \in Nat
             /\ one[x] = a * f[x] /\ two[x] = row[x] * b /\ h[x] = one[x] + two[x]
  <2>1. row[x] \in Nat /\ g[x] \in Nat
    BY <1>1 DEF Amounts
  <2>2. f[x] = row[x] * g[x] /\ one[x] = a * f[x] /\ two[x] = row[x] * b /\ h[x] = row[x] * (a * g[x] + b)
    OBVIOUS
  <2>. HIDE DEF f, one, two, h
  <2>7. row[x] * g[x] \in Nat /\ row[x] * b \in Nat /\ a * g[x] \in Nat
    BY <2>1, Products
  <2>3. f[x] \in Nat /\ two[x] \in Nat /\ a * g[x] \in Nat
    BY <2>2, <2>7
  <2>4. one[x] \in Nat
    BY <2>2, <2>3, Products
  <2>5. row[x] * (a * g[x]) = a * (row[x] * g[x])
    BY <2>1, Products
  <2>6. h[x] = row[x] * (a * g[x]) + row[x] * b
    BY <2>1, <2>2, <2>3, Products
  <2>. QED BY <2>2, <2>3, <2>4, <2>5, <2>6
<1>. HIDE DEF f, one, two, h
<1>3. Amounts(f, Vocabulary) /\ Amounts(one, Vocabulary) /\ Amounts(two, Vocabulary)
      /\ Multiples(a, f, one, Vocabulary) /\ Sums(one, two, h, Vocabulary)
  BY <1>2 DEF Amounts, Multiples, Sums
<1>4. Sum(h, Vocabulary) = Sum(one, Vocabulary) + Sum(two, Vocabulary)
  BY <1>3, SumAdds, VocabularyFinite
<1>5. Sum(one, Vocabulary) = a * Sum(f, Vocabulary)
  BY <1>3, SumScales, VocabularyFinite
<1>6. Sum(two, Vocabulary) = M * b
  BY <1>2, RowScaled
<1>7. Sum(f, Vocabulary) \in Nat
  BY <1>3, SumType, VocabularyFinite
<1>. HIDE DEF M
<1>8. a * Sum(f, Vocabulary) = M * (a * G)
  <2>1. CASE a = 0
    <3>1. M * 0 = 0
      BY <1>1
    <3>. QED BY <1>1, <1>7, <2>1, <3>1, Products
  <2>2. CASE a # 0
    <3>1. Sum(f, Vocabulary) = M * G
      BY <2>2 DEF f, M, Weighted
    <3>. QED BY <1>1, <3>1, Products
  <2>. QED BY <2>1, <2>2
<1>9. M * (a * G) + M * b = M * (a * G + b)
  <2>1. a * G \in Nat
    BY Products
  <2>. QED BY <1>1, <2>1, Products
<1>. QED BY <1>4, <1>5, <1>6, <1>8, <1>9 DEF h, M, Mixed

\* One proposal more leaves an output as likely as it was.
Exact(t, d, u, k, r) ==
  d[Seen(Before(u, k) \o r)] # Fails =>
    Sum([x \in Vocabulary |-> d[Seen(Before(u, k) \o r)][x] * Chance(t, d, u)[<<k, Append(r, x)>>]],
        Vocabulary)
      = Mass * Chance(t, d, u)[<<k, r>>]

\* All of u is there: nothing changes.
LEMMA ExactBehind ==
  ASSUME NEW t \in Targets, NEW d \in Drafts, NEW u \in Texts, Len(u) <= MaxEmitted,
         NEW r \in Texts, Len(u) + Len(r) <= MaxEmitted
  PROVE  Exact(t, d, u, Len(u), r)
<1>. DEFINE k == Len(u)
            v == Chance(t, d, u)
            row == d[Seen(Before(u, k) \o r)]
            h == [x \in Vocabulary |-> row[x] * v[<<k, Append(r, x)>>]]
<1>1. SUFFICES ASSUME row # Fails
               PROVE  Sum(h, Vocabulary) = Mass * v[<<k, r>>]
  BY DEF Exact
<1>2. k \in Nat /\ Before(u, k) \in Texts /\ Len(Before(u, k)) = k
  BY LenProperties, BeforeNext DEF Texts
<1>3. Before(u, k) \o r \in Texts /\ Len(Before(u, k) \o r) = k + Len(r)
  <2>. DEFINE b == Before(u, k)
  <2>1. b \in Seq(Vocabulary) /\ r \in Seq(Vocabulary) /\ Len(b) = k
    BY <1>2 DEF Texts
  <2>. HIDE DEF b
  <2>2. b \o r \in Seq(Vocabulary) /\ Len(b \o r) = Len(b) + Len(r)
    BY <2>1, ConcatProperties
  <2>. QED BY <2>1, <2>2 DEF b, Texts
<1>4. row \in Rows
  BY <1>1, <1>3, RowsAre
<1>5. row \in RowTypes /\ Total(row) = Mass
  BY <1>4 DEF Rows, RowTypes
<1>6. \A x \in Vocabulary : h[x] = row[x] * 1
  <2> TAKE x \in Vocabulary
  <2>1. Append(r, x) \in Texts
    BY AppendIs DEF Texts
  <2>2. v[<<k, Append(r, x)>>] = 1
    BY <2>1, Chances
  <2>. QED BY <2>2
<1>7. v[<<k, r>>] = 1
  BY Chances
<1>. HIDE DEF h, v, k, row
<1>8. Sum(h, Vocabulary) = Total(row) * 1
  BY <1>5, <1>6, RowScaled
<1>. QED BY <1>5, <1>7, <1>8

\* Nothing is pending: the next proposal is the next token of u.
LEMMA ExactNext ==
  ASSUME NEW t \in Targets, NEW d \in Drafts, NEW u \in Texts, Len(u) <= MaxEmitted,
         NEW k \in 0..Len(u) - 1
  PROVE  Exact(t, d, u, k, <<>>)
<1>. DEFINE v == Chance(t, d, u)
            w == v[<<k + 1, <<>>>>]
            s == Before(u, k)
            row == d[Seen(s)]
            p == t[Seen(s)]
            y == u[k + 1]
            f == [x \in Vocabulary |-> row[x] * (KeepAt(p, row, y, x) + LoseAt(p, row, y, x))]
            h == [x \in Vocabulary |-> row[x] * v[<<k, Append(<<>>, x)>>]]
<1>0. Len(u) \in Nat /\ k \in 0..Len(u) /\ k + 1 \in 0..Len(u) /\ k < Len(u) /\ k <= MaxEmitted /\ <<>> \in Texts
  BY LenProperties, VocabularyFinite DEF Texts
<1>1. s \in Texts /\ Len(s) = k /\ s \o <<>> = s /\ y \in Vocabulary
  BY <1>0, BeforeNext DEF Texts
<1>2. SUFFICES ASSUME row # Fails
               PROVE  Sum(h, Vocabulary) = Mass * v[<<k, <<>>>>]
  BY <1>1 DEF Exact
<1>3. row \in Rows /\ p \in Rows /\ Drafted(d, s) = row
  BY <1>0, <1>1, <1>2, RowsAre
<1>4. w \in Nat /\ v[<<k, <<>>>>] = Give(t, u)[k] * w /\ Give(t, u)[k] \in Nat
      /\ Give(t, u)[k] = p[y] * (Whole * Share[Mass])
  <2>1. w \in Nat /\ v[<<k, <<>>>>] = Give(t, u)[k] * w
    BY <1>0, Chances
  <2>. QED BY <2>1, TokenWeights
<1>5. ASSUME NEW x \in Vocabulary
      PROVE  f[x] \in Nat /\ h[x] = w * f[x]
  <2>1. Append(<<>>, x) \in Texts /\ Append(<<>>, x) # <<>> /\ Head(Append(<<>>, x)) = x /\ Tail(Append(<<>>, x)) = <<>>
    BY <1>0, AppendIs, AppendEnds DEF Texts
  <2>2. v[<<k, Append(<<>>, x)>>] = KeepOf(t, d, u, k, x) * w + LoseOf(t, d, u, k, x) * w
    <3>1. \A r \in Texts : r # <<>> =>
            v[<<k, r>>] = KeepOf(t, d, u, k, Head(r)) * v[<<k + 1, Tail(r)>>]
                            + LoseOf(t, d, u, k, Head(r)) * v[<<k + 1, <<>>>>]
      BY Chances
    <3>. HIDE DEF v
    <3>. QED BY <2>1, <3>1
  <2>3. /\ KeepOf(t, d, u, k, x) = KeepAt(p, row, y, x) /\ LoseOf(t, d, u, k, x) = LoseAt(p, row, y, x)
    BY <1>3 DEF KeepOf, LoseOf
  <2>4. KeepOf(t, d, u, k, x) \in Nat /\ LoseOf(t, d, u, k, x) \in Nat
    BY TokenWeights
  <2>5. row[x] \in Nat
    <3>1. row \in RowTypes
      BY <1>3 DEF Rows, RowTypes
    <3>. QED BY <3>1, RowSums
  <2>6. f[x] = row[x] * (KeepOf(t, d, u, k, x) + LoseOf(t, d, u, k, x))
    BY <2>3
  <2>7. h[x] = row[x] * (KeepOf(t, d, u, k, x) * w + LoseOf(t, d, u, k, x) * w)
    BY <2>2
  <2>. DEFINE a == KeepOf(t, d, u, k, x)
              b == LoseOf(t, d, u, k, x)
              z == row[x]
  <2>. HIDE DEF w, f, h, a, b, z
  <2>8. a + b \in Nat /\ z * (a + b) \in Nat
    BY <2>4, <2>5, Products DEF a, b, z
  <2>9. z * (a * w + b * w) = w * (z * (a + b))
    <3>1. a * w + b * w = w * (a + b)
      BY <1>4, <2>4, Products DEF a, b
    <3>2. w \in Nat /\ z \in Nat /\ a + b \in Nat
      BY <1>4, <2>5, <2>8 DEF z
    <3>3. z * (w * (a + b)) = w * (z * (a + b))
      BY <3>2, Products
    <3>. QED BY <3>1, <3>3
  <2>. QED BY <2>6, <2>7, <2>8, <2>9 DEF a, b, z
<1>6. Sum(f, Vocabulary) = Mass * (p[y] * (Whole * Share[Mass]))
  <2>1. \A x \in Vocabulary : f[x] = row[x] * (KeepAt(p, row, y, x) + LoseAt(p, row, y, x))
    OBVIOUS
  <2>. HIDE DEF f, row, p, y
  <2>. QED BY <1>1, <1>3, <2>1, ProposalExact
<1>7. Amounts(f, Vocabulary) /\ Multiples(w, f, h, Vocabulary)
  <2>. HIDE DEF f, h, w
  <2>. QED BY <1>5 DEF Amounts, Multiples
<1>. DEFINE g == Give(t, u)[k]
<1>. HIDE DEF f, h, w, row, p, y, v, g
<1>8. Sum(h, Vocabulary) = w * Sum(f, Vocabulary)
  BY <1>4, <1>7, SumScales, VocabularyFinite
<1>9. w * (Mass * g) = Mass * (g * w)
  <2>1. w * (Mass * g) = Mass * (w * g) /\ w * g = g * w
    BY <1>4, VocabularyFinite, Products DEF g
  <2>. QED BY <2>1
<1>. QED BY <1>4, <1>6, <1>8, <1>9 DEF g

\* A proposal is pending before the next one.
LEMMA ExactBefore ==
  ASSUME NEW t \in Targets, NEW d \in Drafts, NEW u \in Texts, Len(u) <= MaxEmitted,
         NEW k \in 0..Len(u) - 1, NEW r \in Texts, r # <<>>, k + Len(r) <= MaxEmitted,
         Exact(t, d, u, k + 1, Tail(r))
  PROVE  Exact(t, d, u, k, r)
<1>. DEFINE v == Chance(t, d, u)
            w == v[<<k + 1, <<>>>>]
            row == d[Seen(Before(u, k) \o r)]
            a == KeepOf(t, d, u, k, Head(r))
            b == LoseOf(t, d, u, k, Head(r)) * w
            g == [x \in Vocabulary |-> v[<<k + 1, Append(Tail(r), x)>>]]
            G == v[<<k + 1, Tail(r)>>]
<1>0. Len(u) \in Nat /\ k \in 0..Len(u) /\ k + 1 \in 0..Len(u) /\ k < Len(u) /\ Len(r) \in Nat /\ <<>> \in Texts
      /\ Head(r) \in Vocabulary /\ Tail(r) \in Texts
  BY LenProperties, HeadTailProperties DEF Texts
<1>1. Before(u, k) \in Texts /\ Len(Before(u, k)) = k
  BY <1>0, BeforeNext DEF Texts
<1>2. Before(u, k) \o r \in Texts /\ Len(Before(u, k) \o r) = k + Len(r)
  BY <1>0, <1>1, ConcatProperties DEF Texts
<1>3. SUFFICES ASSUME row # Fails
               PROVE  Sum([x \in Vocabulary |-> row[x] * v[<<k, Append(r, x)>>]], Vocabulary) = Mass * v[<<k, r>>]
  BY DEF Exact
<1>4. row \in Rows
  BY <1>2, <1>3, RowsAre
<1>5. row \in RowTypes /\ Total(row) = Mass
  BY <1>4 DEF Rows, RowTypes
<1>6. w \in Nat /\ G \in Nat /\ a \in Nat /\ b \in Nat /\ v[<<k, r>>] = a * G + b
  <2>1. w \in Nat /\ G \in Nat /\ v[<<k, r>>] = a * G + b
    <3>1. /\ \A j \in 0..Len(u), s \in Texts : v[<<j, s>>] \in Nat
          /\ \A s \in Texts : s # <<>> =>
               v[<<k, s>>] = KeepOf(t, d, u, k, Head(s)) * v[<<k + 1, Tail(s)>>]
                               + LoseOf(t, d, u, k, Head(s)) * v[<<k + 1, <<>>>>]
      BY Chances
    <3>. HIDE DEF v
    <3>. QED BY <1>0, <3>1
  <2>2. a \in Nat /\ LoseOf(t, d, u, k, Head(r)) \in Nat
    BY <1>0, TokenWeights
  <2>3. b \in Nat
    <3>. HIDE DEF w
    <3>. QED BY <2>1, <2>2, Products
  <2>. QED BY <2>1, <2>2, <2>3
<1>7. ASSUME NEW x \in Vocabulary
      PROVE  g[x] \in Nat /\ v[<<k, Append(r, x)>>] = a * g[x] + b
  <2>1. Append(r, x) \in Texts /\ Append(r, x) # <<>> /\ Head(Append(r, x)) = Head(r)
        /\ Tail(Append(r, x)) = Append(Tail(r), x) /\ Append(Tail(r), x) \in Texts
    BY <1>0, AppendIs, AppendEnds DEF Texts
  <2>2. v[<<k, Append(r, x)>>] = a * v[<<k + 1, Append(Tail(r), x)>>] + b
    <3>1. \A s \in Texts : s # <<>> =>
            v[<<k, s>>] = KeepOf(t, d, u, k, Head(s)) * v[<<k + 1, Tail(s)>>]
                            + LoseOf(t, d, u, k, Head(s)) * v[<<k + 1, <<>>>>]
      BY Chances
    <3>. HIDE DEF v
    <3>. QED BY <2>1, <3>1
  <2>3. v[<<k + 1, Append(Tail(r), x)>>] \in Nat
    BY <1>0, <2>1, Chances
  <2>. QED BY <2>2, <2>3
<1>8. a # 0 => Head(r) = u[k + 1]
  BY DEF KeepOf, KeepAt
<1>9. a # 0 => Sum([x \in Vocabulary |-> row[x] * g[x]], Vocabulary) = Mass * G
  <2>1. ASSUME a # 0
        PROVE  Sum([x \in Vocabulary |-> row[x] * g[x]], Vocabulary) = Mass * G
    <3>1. Before(u, k) \o r = Before(u, k + 1) \o Tail(r)
      <4>1. \A s \in Seq(Vocabulary) : k < Len(u) /\ s # <<>> /\ Head(s) = u[k + 1]
                                        => Before(u, k) \o s = Before(u, k + 1) \o Tail(s)
        BY <1>0, BeforeNext DEF Texts
      <4>2. r \in Seq(Vocabulary) /\ Head(r) = u[k + 1]
        BY <1>8, <2>1 DEF Texts
      <4>. QED BY <1>0, <4>1, <4>2
    <3>2. row = d[Seen(Before(u, k + 1) \o Tail(r))]
      BY <3>1
    <3>3. [x \in Vocabulary |-> row[x] * g[x]]
            = [x \in Vocabulary |-> d[Seen(Before(u, k + 1) \o Tail(r))][x] * v[<<k + 1, Append(Tail(r), x)>>]]
      BY <3>2
    <3>. QED BY <1>3, <3>2, <3>3 DEF Exact
  <2>. QED BY <2>1
<1>10. [x \in Vocabulary |-> row[x] * v[<<k, Append(r, x)>>]] = [x \in Vocabulary |-> row[x] * (a * g[x] + b)]
  <2>. HIDE DEF g, a, b, v, row
  <2>. QED BY <1>7
<1>. HIDE DEF g, G, a, b, v, row
<1>11. Sum(Mixed(row, a, g, b), Vocabulary) = Total(row) * (a * G + b)
  <2>1. Amounts(g, Vocabulary)
    BY <1>7 DEF Amounts
  <2>2. a # 0 => Sum(Weighted(row, g), Vocabulary) = Total(row) * G
    BY <1>5, <1>9 DEF Weighted
  <2>3. a \in Nat /\ b \in Nat /\ G \in Nat
    BY <1>6
  <2>4. MixedSum(row, a, g, b, G)
    BY <1>5, <2>1, <2>3, RowMixed
  <2>. QED BY <2>2, <2>4 DEF MixedSum
<1>. QED BY <1>5, <1>6, <1>10, <1>11 DEF Mixed

\* Whatever is pending.
LEMMA ProposedExact ==
  ASSUME NEW t \in Targets, NEW d \in Drafts, NEW u \in Texts, Len(u) <= MaxEmitted,
         NEW k \in 0..Len(u), NEW r \in Texts, k + Len(r) <= MaxEmitted
  PROVE  Exact(t, d, u, k, r)
<1>. DEFINE level == {n \in 0..MaxEmitted :
                        \A m \in 0..Len(u), s \in Texts :
                          Len(s) = n /\ m + n <= MaxEmitted => Exact(t, d, u, m, s)}
<1>0. MaxEmitted \in Nat /\ Len(u) \in Nat /\ Len(r) \in Nat
  BY VocabularyFinite, LenProperties DEF Texts
<1>1. ASSUME NEW n \in 0..MaxEmitted, NEW m \in 0..Len(u), NEW s \in Texts, Len(s) = n, m + n <= MaxEmitted, m = Len(u)
      PROVE  Exact(t, d, u, m, s)
  BY <1>1, ExactBehind
<1>2. 0 \in level
  <2>1. ASSUME NEW m \in 0..Len(u), NEW s \in Texts, Len(s) = 0
        PROVE  Exact(t, d, u, m, s)
    <3>1. s = <<>>
      BY <2>1, EmptySeq DEF Texts
    <3>2. CASE m = Len(u)
      <4>1. Len(u) + Len(s) <= MaxEmitted
        BY <1>0, <2>1
      <4>. QED BY <3>2, <4>1, ExactBehind
    <3>3. CASE m # Len(u)
      <4>1. m \in 0..Len(u) - 1
        BY <1>0, <3>3
      <4>. QED BY <3>1, <4>1, ExactNext
    <3>. QED BY <3>2, <3>3
  <2>. HIDE DEF Exact
  <2>. QED BY <1>0, <2>1
<1>3. ASSUME NEW n \in 0..MaxEmitted, n \in level, n < MaxEmitted
      PROVE  n + 1 \in level
  <2>1. ASSUME NEW m \in 0..Len(u), NEW s \in Texts, Len(s) = n + 1, m + (n + 1) <= MaxEmitted
        PROVE  Exact(t, d, u, m, s)
    <3>1. CASE m = Len(u)
      <4>1. Len(u) + Len(s) <= MaxEmitted
        BY <1>0, <2>1, <3>1
      <4>. QED BY <3>1, <4>1, ExactBehind
    <3>2. CASE m # Len(u)
      <4>1. m \in 0..Len(u) - 1 /\ m + 1 \in 0..Len(u) /\ s # <<>> /\ m + 1 + n <= MaxEmitted
        BY <1>0, <2>1, <3>2
      <4>2. Tail(s) \in Texts /\ Len(Tail(s)) = n
        <5>1. Tail(s) \in Texts /\ Len(Tail(s)) = Len(s) - 1
          BY <4>1, HeadTailProperties DEF Texts
        <5>. QED BY <2>1, <5>1
      <4>3. Exact(t, d, u, m + 1, Tail(s))
        <5>. HIDE DEF Exact
        <5>. QED BY <1>3, <4>1, <4>2
      <4>4. m + Len(s) <= MaxEmitted
        BY <2>1
      <4>. QED BY <4>1, <4>3, <4>4, ExactBefore
    <3>. QED BY <3>1, <3>2
  <2>2. n + 1 \in 0..MaxEmitted
    BY <1>0, <1>3
  <2>. QED BY <2>1, <2>2
<1>4. \A n \in 0..MaxEmitted : n \in level
  <2>. HIDE DEF level
  <2>. QED BY <1>0, <1>2, <1>3, Climb
<1>5. Len(r) \in 0..MaxEmitted
  BY <1>0
<1>6. Len(r) \in level
  <2>. HIDE DEF level
  <2>. QED BY <1>4, <1>5
<1>. QED BY <1>6
-----------------------------------------------------------------------------
(* GenerationLaw: what a configuration is worth.                           *)

\* How likely a call that has emitted s, with r pending, is to end in an output
\* that begins with u.
Gain(t, d, u, s, r) ==
  IF IsPrefix(s, u) THEN Scale[Len(s)] * Chance(t, d, u)[<<Len(s), r>>]
  ELSE IF IsPrefix(u, s) THEN Scale[Len(u)] ELSE 0

\* The cases: s is behind u, before it, or beside it.
GainCases(t, d, u, s, r) ==
  /\ Gain(t, d, u, s, r) \in Nat
  /\ Scale[Len(u)] \in Nat \ {0}
  /\ IsPrefix(u, s) => Gain(t, d, u, s, r) = Scale[Len(u)]
  /\ IsPrefix(s, u) => /\ Len(s) \in 0..Len(u) /\ s = Before(u, Len(s))
                       /\ Scale[Len(s)] \in Nat \ {0} /\ Chance(t, d, u)[<<Len(s), r>>] \in Nat
                       /\ Gain(t, d, u, s, r) = Scale[Len(s)] * Chance(t, d, u)[<<Len(s), r>>]
                       /\ Len(s) < Len(u) \/ s = u
  /\ ~IsPrefix(u, s) /\ ~IsPrefix(s, u) => Gain(t, d, u, s, r) = 0

\* What a gain is, by where s is.
LEMMA Gains ==
  ASSUME NEW t \in Targets, NEW d \in Drafts, NEW u \in Texts, Len(u) <= MaxEmitted,
         NEW s \in Texts, NEW r \in Texts
  PROVE  GainCases(t, d, u, s, r)
<1>. DEFINE n == Len(s)
            m == Len(u)
            v == Chance(t, d, u)
<1>1. n \in Nat /\ m \in 0..MaxEmitted
  BY LenProperties, VocabularyFinite DEF Texts
<1>2. Scale[m] \in Nat \ {0}
  BY <1>1, Scales
<1>3. ASSUME IsPrefix(s, u)
      PROVE  /\ n \in 0..m /\ s = Before(u, n) /\ (n < m \/ s = u)
             /\ Scale[n] \in Nat \ {0} /\ v[<<n, r>>] \in Nat /\ Scale[n] * v[<<n, r>>] \in Nat
             /\ s = u => v[<<n, r>>] = 1
  <2>1. n <= m /\ \A i \in 1..n : s[i] = u[i]
    BY <1>3, PrefixIs DEF Texts
  <2>2. n \in 0..m /\ n \in 0..MaxEmitted
    BY <1>1, <2>1, VocabularyFinite
  <2>3. s = Before(u, n)
    <3>1. SubSeq(s, 1, Len(s)) = s
      BY SubSeqFull DEF Texts
    <3>. QED BY <1>3, <3>1 DEF IsPrefix, Before
  <2>4. n < m \/ s = u
    <3>1. m <= n => s = u
      BY <1>3, PrefixBoth DEF Texts
    <3>. QED BY <1>1, <3>1
  <2>5. Scale[n] \in Nat \ {0}
    BY <2>2, Scales
  <2>6. v[<<n, r>>] \in Nat
    BY <2>2, Chances
  <2>7. Scale[n] * v[<<n, r>>] \in Nat
    <3>. HIDE DEF v, n
    <3>. QED BY <2>5, <2>6, Products
  <2>8. s = u => v[<<n, r>>] = 1
    BY Chances
  <2>. QED BY <2>2, <2>3, <2>4, <2>5, <2>6, <2>7, <2>8
<1>4. ASSUME IsPrefix(u, s)
      PROVE  Gain(t, d, u, s, r) = Scale[m]
  <2>1. CASE IsPrefix(s, u)
    <3>1. s = u
      <4>1. Len(u) <= Len(s)
        BY <1>4, PrefixIs DEF Texts
      <4>. QED BY <2>1, <4>1, PrefixBoth DEF Texts
    <3>2. Scale[n] * v[<<n, r>>] = Scale[m]
      BY <1>2, <1>3, <2>1, <3>1
    <3>. QED BY <2>1, <3>2 DEF Gain
  <2>2. CASE ~IsPrefix(s, u)
    BY <1>4, <2>2 DEF Gain
  <2>. QED BY <2>1, <2>2
<1>5. Gain(t, d, u, s, r) \in Nat
  <2>1. CASE IsPrefix(s, u)
    BY <1>3, <2>1 DEF Gain
  <2>2. CASE ~IsPrefix(s, u)
    BY <1>2, <2>2 DEF Gain
  <2>. QED BY <2>1, <2>2
<1>6. IsPrefix(s, u) => Gain(t, d, u, s, r) = Scale[n] * v[<<n, r>>]
  BY DEF Gain
<1>7. ~IsPrefix(u, s) /\ ~IsPrefix(s, u) => Gain(t, d, u, s, r) = 0
  BY DEF Gain
<1>. QED BY <1>2, <1>3, <1>4, <1>5, <1>6, <1>7 DEF GainCases

\* A proposal changes nothing of it.
ProposedSum(t, d, u, s, r) ==
  d[Seen(s \o r)] # Fails =>
    Sum([x \in Vocabulary |-> d[Seen(s \o r)][x] * Gain(t, d, u, s, Append(r, x))], Vocabulary)
      = Mass * Gain(t, d, u, s, r)

\* One proposal more changes nothing.
LEMMA GainProposed ==
  ASSUME NEW t \in Targets, NEW d \in Drafts, NEW u \in Texts, Len(u) <= MaxEmitted,
         NEW s \in Texts, NEW r \in Texts, Len(s) + Len(r) <= MaxEmitted
  PROVE  ProposedSum(t, d, u, s, r)
<1>. DEFINE row == d[Seen(s \o r)]
            h == [x \in Vocabulary |-> row[x] * Gain(t, d, u, s, Append(r, x))]
<1>. SUFFICES ASSUME row # Fails
              PROVE  Sum(h, Vocabulary) = Mass * Gain(t, d, u, s, r)
  BY DEF ProposedSum
<1>5. \A x \in Vocabulary : h[x] = row[x] * Gain(t, d, u, s, Append(r, x))
  OBVIOUS
<1>6. row = d[Seen(s \o r)]
  OBVIOUS
<1>. HIDE DEF h, row
<1>. DEFINE n == Len(s)
            v == Chance(t, d, u)
            z == Scale[n]
            f == [x \in Vocabulary |-> row[x] * v[<<n, Append(r, x)>>]]
<1>1. \A x \in Vocabulary : Append(r, x) \in Texts
  BY AppendIs DEF Texts
<1>2. row \in Rows /\ row \in RowTypes /\ Total(row) = Mass /\ \A x \in Vocabulary : row[x] \in Nat
  <2>1. s \o r \in Texts /\ Len(s \o r) <= MaxEmitted
    BY ConcatProperties DEF Texts
  <2>2. row \in Rows
    BY <1>6, <2>1, RowsAre
  <2>3. row \in RowTypes /\ Total(row) = Mass
    BY <2>2 DEF Rows, RowTypes
  <2>. QED BY <2>2, <2>3, RowSums
<1>3. CASE IsPrefix(s, u)
  <2>1. n \in 0..Len(u) /\ s = Before(u, n) /\ z \in Nat /\ Gain(t, d, u, s, r) = z * v[<<n, r>>] /\ v[<<n, r>>] \in Nat
    <3>1. GainCases(t, d, u, s, r)
      BY <1>3, Gains
    <3>. QED BY <1>3, <3>1 DEF GainCases
  <2>2. ASSUME NEW x \in Vocabulary
        PROVE  f[x] \in Nat /\ h[x] = z * f[x]
    <3>3. Append(r, x) \in Texts
      BY <1>1
    <3>1. v[<<n, Append(r, x)>>] \in Nat /\ Gain(t, d, u, s, Append(r, x)) = z * v[<<n, Append(r, x)>>]
      <4>1. GainCases(t, d, u, s, Append(r, x))
        BY <3>3, Gains
      <4>. QED BY <1>3, <3>3, <4>1 DEF GainCases
    <3>2. f[x] = row[x] * v[<<n, Append(r, x)>>] /\ h[x] = row[x] * (z * v[<<n, Append(r, x)>>])
      BY <1>5, <3>1
    <3>. HIDE DEF f, v, z, n
    <3>. QED BY <1>2, <2>1, <3>1, <3>2, Products
  <2>3. Amounts(f, Vocabulary) /\ Multiples(z, f, h, Vocabulary)
    <3>. HIDE DEF f, z
    <3>. QED BY <2>2 DEF Amounts, Multiples
  <2>4. Sum(f, Vocabulary) = Mass * v[<<n, r>>]
    <3>1. Exact(t, d, u, n, r)
      BY <2>1, ProposedExact
    <3>2. row = d[Seen(Before(u, n) \o r)]
      BY <1>6, <2>1
    <3>. QED BY <3>1, <3>2 DEF Exact
  <2>. HIDE DEF f, z, v, n
  <2>5. Sum(h, Vocabulary) = z * Sum(f, Vocabulary)
    BY <2>1, <2>3, SumScales, VocabularyFinite
  <2>. QED BY <2>1, <2>4, <2>5, VocabularyFinite, Products
<1>4. CASE ~IsPrefix(s, u)
  <2>1. \A x \in Vocabulary : h[x] = row[x] * Gain(t, d, u, s, r)
    BY <1>4, <1>5 DEF Gain
  <2>2. Gain(t, d, u, s, r) \in Nat
    BY Gains DEF GainCases
  <2>. QED BY <1>2, <2>1, <2>2, RowScaled
<1>. QED BY <1>3, <1>4

\* One token more.
GainNext(t, d, u, s, x, r) ==
  /\ Gain(t, d, u, Append(s, x), r) \in Nat
  /\ IsPrefix(u, s) => Gain(t, d, u, Append(s, x), r) = Scale[Len(u)]
  /\ IsPrefix(s, u) /\ Len(s) < Len(u) =>
       Gain(t, d, u, Append(s, x), r)
         = IF x = u[Len(s) + 1] THEN Scale[Len(s) + 1] * Chance(t, d, u)[<<Len(s) + 1, r>>] ELSE 0
  /\ ~IsPrefix(u, s) /\ ~IsPrefix(s, u) => Gain(t, d, u, Append(s, x), r) = 0

\* What a token more gains.
LEMMA GainAppended ==
  ASSUME NEW t \in Targets, NEW d \in Drafts, NEW u \in Texts, Len(u) <= MaxEmitted,
         NEW s \in Texts, NEW r \in Texts, NEW x \in Vocabulary
  PROVE  GainNext(t, d, u, s, x, r)
<1>. DEFINE n == Len(s)
            y == u[n + 1]
            a == Append(s, x)
            g == Gain(t, d, u, a, r)
<1>1. /\ a \in Texts /\ Len(a) = n + 1 /\ n \in Nat /\ Len(u) \in Nat
      /\ IsPrefix(a, u) <=> IsPrefix(s, u) /\ n < Len(u) /\ y = x
      /\ IsPrefix(u, s) => IsPrefix(u, a)
      /\ IsPrefix(u, a) => IsPrefix(u, s) \/ (IsPrefix(s, u) /\ n < Len(u))
  BY AppendIs, PrefixOfAppend, LenProperties DEF Texts
<1>2. GainCases(t, d, u, a, r)
  <2>. HIDE DEF a
  <2>. QED BY <1>1, Gains
<1>3. ASSUME IsPrefix(u, s)
      PROVE  g = Scale[Len(u)]
  BY <1>1, <1>2, <1>3 DEF GainCases
<1>4. ASSUME IsPrefix(s, u), n < Len(u), x = y
      PROVE  g = Scale[n + 1] * Chance(t, d, u)[<<n + 1, r>>]
  <2>1. g = Scale[Len(a)] * Chance(t, d, u)[<<Len(a), r>>]
    BY <1>1, <1>2, <1>4 DEF GainCases
  <2>. QED BY <1>1, <2>1
<1>5. ASSUME IsPrefix(s, u), n < Len(u), x # y
      PROVE  g = 0
  <2>1. ~IsPrefix(a, u)
    BY <1>1, <1>5
  <2>2. ASSUME IsPrefix(u, a)
        PROVE  u = a
    <3>1. Len(a) <= Len(u)
      BY <1>1, <1>5
    <3>. HIDE DEF a
    <3>. QED BY <1>1, <2>2, <3>1, PrefixBoth DEF Texts
  <2>3. IsPrefix(u, a) => IsPrefix(a, u)
    <3>. HIDE DEF a
    <3>. QED BY <2>2
  <2>. QED BY <1>2, <2>1, <2>3 DEF GainCases
<1>6. ASSUME ~IsPrefix(u, s), ~IsPrefix(s, u)
      PROVE  g = 0
  BY <1>1, <1>2, <1>6 DEF GainCases
<1>7. g \in Nat
  BY <1>2 DEF GainCases
<1>. HIDE DEF g, a, n, y
<1>. QED BY <1>3, <1>4, <1>5, <1>6, <1>7 DEF GainNext, g, a, n, y

\* What a token that is drawn from a row adds up to.
LEMMA GainDrawn ==
  ASSUME NEW t \in Targets, NEW d \in Drafts, NEW u \in Texts, Len(u) <= MaxEmitted,
         NEW s \in Texts, NEW row \in RowTypes,
         NEW h, \A x \in Vocabulary : h[x] = row[x] * Gain(t, d, u, Append(s, x), <<>>)
  PROVE  /\ IsPrefix(u, s) => Sum(h, Vocabulary) = Total(row) * Scale[Len(u)]
         /\ IsPrefix(s, u) /\ Len(s) < Len(u) =>
              Sum(h, Vocabulary)
                = row[u[Len(s) + 1]] * (Scale[Len(s) + 1] * Chance(t, d, u)[<<Len(s) + 1, <<>>>>])
         /\ ~IsPrefix(u, s) /\ ~IsPrefix(s, u) => Sum(h, Vocabulary) = 0
         /\ Amounts(h, Vocabulary)
<1>. DEFINE n == Len(s)
            y == u[n + 1]
            g == [x \in Vocabulary |-> Gain(t, d, u, Append(s, x), <<>>)]
<1>0. <<>> \in Texts /\ n \in Nat /\ Len(u) \in Nat
  BY LenProperties DEF Texts
<1>1. \A x \in Vocabulary : GainNext(t, d, u, s, x, <<>>)
  BY <1>0, GainAppended
<1>2. ASSUME NEW x \in Vocabulary
      PROVE  row[x] \in Nat /\ h[x] = row[x] * g[x] /\ h[x] \in Nat
  <2>1. row[x] \in Nat /\ h[x] = row[x] * g[x]
    BY RowSums
  <2>2. g[x] \in Nat
    BY <1>1 DEF GainNext
  <2>3. row[x] * g[x] \in Nat
    <3>. HIDE DEF g
    <3>. QED BY <2>1, <2>2, Products
  <2>. QED BY <2>1, <2>3
<1>3. Amounts(h, Vocabulary)
  BY <1>2 DEF Amounts
<1>4. ASSUME IsPrefix(u, s)
      PROVE  Sum(h, Vocabulary) = Total(row) * Scale[Len(u)]
  <2>1. \A x \in Vocabulary : g[x] = Scale[Len(u)]
    BY <1>1, <1>4 DEF GainNext
  <2>2. Scale[Len(u)] \in Nat
    <3>1. GainCases(t, d, u, s, <<>>)
      BY <1>0, Gains
    <3>. QED BY <3>1 DEF GainCases
  <2>. HIDE DEF g
  <2>3. \A x \in Vocabulary : h[x] = row[x] * Scale[Len(u)]
    BY <1>2, <2>1
  <2>. QED BY <2>2, <2>3, RowScaled
<1>5. ASSUME IsPrefix(s, u), n < Len(u)
      PROVE  Sum(h, Vocabulary) = row[y] * (Scale[n + 1] * Chance(t, d, u)[<<n + 1, <<>>>>])
  <2>1. y \in Vocabulary
    <3>1. n + 1 \in 1..Len(u)
      BY <1>0, <1>5
    <3>. QED BY <3>1, ElementOfSeq DEF Texts
  <2>2. \A x \in Vocabulary : g[x] = IF x = y THEN Scale[n + 1] * Chance(t, d, u)[<<n + 1, <<>>>>] ELSE 0
    BY <1>1, <1>5 DEF GainNext
  <2>3. \A x \in Vocabulary : x # y => h[x] = 0
    <3>. HIDE DEF g, y
    <3>. QED BY <1>2, <2>2, Products
  <2>4. Sum(h, Vocabulary) = h[y]
    BY <1>2, <2>1, <2>3, SumOne, VocabularyFinite
  <2>5. h[y] = row[y] * g[y]
    BY <1>2, <2>1
  <2>6. g[y] = Scale[n + 1] * Chance(t, d, u)[<<n + 1, <<>>>>]
    <3>. HIDE DEF g, y
    <3>. QED BY <2>1, <2>2
  <2>. QED BY <2>4, <2>5, <2>6
<1>6. ASSUME ~IsPrefix(u, s), ~IsPrefix(s, u)
      PROVE  Sum(h, Vocabulary) = 0
  <2>1. \A x \in Vocabulary : g[x] = 0
    BY <1>1, <1>6 DEF GainNext
  <2>. HIDE DEF g
  <2>2. \A x \in Vocabulary : h[x] = row[x] * 0
    BY <1>2, <2>1
  <2>3. Sum(h, Vocabulary) = Total(row) * 0 /\ Total(row) \in Nat
    BY <2>2, RowScaled, RowSums
  <2>. QED BY <2>3
<1>. QED BY <1>3, <1>4, <1>5, <1>6

\* A token of the target changes nothing.
LEMMA GainTarget ==
  ASSUME NEW t \in Targets, NEW d \in Drafts, NEW u \in Texts, Len(u) <= MaxEmitted,
         NEW s \in Texts, Len(s) < MaxEmitted, NEW row, row = t[Seen(s)],
         NEW h, \A x \in Vocabulary : h[x] = row[x] * Gain(t, d, u, Append(s, x), <<>>)
  PROVE  Sum(h, Vocabulary) = Mass * Gain(t, d, u, s, <<>>)
<1>. DEFINE n == Len(s)
            y == u[n + 1]
            v == Chance(t, d, u)
<1>0. <<>> \in Texts /\ n \in Nat /\ Len(u) \in Nat /\ Mass \in Nat
  BY LenProperties, VocabularyFinite DEF Texts
<1>1. row \in RowTypes /\ Total(row) = Mass
  <2>1. row \in Rows
    BY <1>0, RowsAre, VocabularyFinite
  <2>. QED BY <2>1 DEF Rows, RowTypes
<1>2. /\ IsPrefix(u, s) => Sum(h, Vocabulary) = Mass * Scale[Len(u)]
      /\ IsPrefix(s, u) /\ n < Len(u) =>
           Sum(h, Vocabulary) = row[y] * (Scale[n + 1] * v[<<n + 1, <<>>>>])
      /\ ~IsPrefix(u, s) /\ ~IsPrefix(s, u) => Sum(h, Vocabulary) = 0
  BY <1>1, GainDrawn
<1>3. GainCases(t, d, u, s, <<>>)
  BY <1>0, Gains
<1>4. CASE IsPrefix(u, s)
  BY <1>2, <1>3, <1>4 DEF GainCases
<1>5. CASE IsPrefix(s, u) /\ ~IsPrefix(u, s)
  <2>1. n < Len(u) /\ n \in 0..Len(u) /\ s = Before(u, n) /\ Gain(t, d, u, s, <<>>) = Scale[n] * v[<<n, <<>>>>]
    <3>1. s = u => IsPrefix(u, s)
      BY <1>5
    <3>. QED BY <1>3, <1>5, <3>1 DEF GainCases
  <2>2. n \in 0..Len(u) - 1 /\ n + 1 \in 0..Len(u) /\ n + 1 \in 1..MaxEmitted /\ n \in 0..MaxEmitted
    BY <1>0, <2>1, VocabularyFinite
  <2>3. y \in Vocabulary
    BY <2>1, BeforeNext DEF Texts
  <2>. DEFINE a == row[y]
              w == v[<<n + 1, <<>>>>]
              z == Scale[n]
              S == Share[Mass]
  <2>4. v[<<n, <<>>>>] = Give(t, u)[n] * w /\ w \in Nat
    BY <1>0, <2>2, Chances
  <2>5. Give(t, u)[n] = a * (Whole * S)
    BY <2>1, <2>2, TokenWeights
  <2>6. z \in Nat /\ Scale[n + 1] = z * (Whole * Whole)
    <3>1. Scale[n + 1] = Scale[(n + 1) - 1] * (Whole * Whole) /\ z \in Nat
      BY <2>2, Scales
    <3>2. (n + 1) - 1 = n
      BY <1>0
    <3>. QED BY <3>1, <3>2
  <2>7. a \in Nat
    BY <1>1, <2>3, RowSums
  <2>8. Whole \in Nat /\ S \in Nat /\ Whole = Mass * S
    <3>1. Mass \in 1..Mass /\ Mass \in 0..Mass
      BY VocabularyFinite
    <3>. QED BY <3>1, Shares
  <2>9. Sum(h, Vocabulary) = a * ((z * (Whole * Whole)) * w)
    BY <1>2, <1>5, <2>1, <2>6
  <2>10. Gain(t, d, u, s, <<>>) = z * ((a * (Whole * S)) * w)
    BY <2>1, <2>4, <2>5
  <2>. HIDE DEF a, w, z, S
  <2>11. a * ((z * (Whole * (Mass * S))) * w) = Mass * (z * ((a * (Whole * S)) * w))
    BY <1>0, <2>4, <2>6, <2>7, <2>8
  <2>12. Whole * Whole = Whole * (Mass * S)
    BY <2>8
  <2>. QED BY <2>9, <2>10, <2>11, <2>12
<1>6. CASE ~IsPrefix(s, u) /\ ~IsPrefix(u, s)
  <2>1. Sum(h, Vocabulary) = 0 /\ Gain(t, d, u, s, <<>>) = 0
    BY <1>2, <1>3, <1>6 DEF GainCases
  <2>. QED BY <1>0, <2>1
<1>. QED BY <1>4, <1>5, <1>6

\* A verdict changes nothing: the proposal is kept, or a token of the residual
\* takes its place.
LEMMA GainVerified ==
  ASSUME NEW t \in Targets, NEW d \in Drafts, NEW u \in Texts, Len(u) <= MaxEmitted,
         NEW s \in Texts, NEW r \in Texts, r # <<>>, Len(s) + Len(r) <= MaxEmitted,
         NEW p, p = t[Seen(s)], NEW q, q = d[Seen(s)], q # Fails, q[Head(r)] # 0,
         NEW h, \A y \in Vocabulary : h[y] = Residual(p, q)[y] * Gain(t, d, u, Append(s, y), <<>>)
  PROVE  (KeepWeight(p, q, Head(r)) * Whole) * Gain(t, d, u, Append(s, Head(r)), Tail(r))
           + (LoseWeight(p, q, Head(r)) * Share[Total(Residual(p, q))]) * Sum(h, Vocabulary)
           = (Whole * Whole) * Gain(t, d, u, s, r)
<1>. DEFINE n == Len(s)
            x == Head(r)
            y == u[n + 1]
            v == Chance(t, d, u)
            res == Residual(p, q)
            R == Total(res)
            K == KeepWeight(p, q, x)
            J == LoseWeight(p, q, x)
            S == Share[R]
            g == Gain(t, d, u, Append(s, x), Tail(r))
            G == Gain(t, d, u, s, r)
            H == Sum(h, Vocabulary)
            C == Scale[Len(u)]
<1>0. <<>> \in Texts /\ n \in Nat /\ Len(u) \in Nat /\ x \in Vocabulary /\ Tail(r) \in Texts
      /\ n < MaxEmitted /\ Len(r) \in Nat
  <2>1. n \in Nat /\ Len(u) \in Nat /\ x \in Vocabulary /\ Tail(r) \in Texts /\ Len(r) \in Nat /\ Len(r) # 0
    BY LenProperties, HeadTailProperties, EmptySeq DEF Texts
  <2>. QED BY <2>1, VocabularyFinite DEF Texts
<1>1. p \in Rows /\ q \in Rows /\ q \in RowTypes /\ p \in RowTypes /\ Drafted(d, s) = q
  <2>1. p \in Rows /\ q \in Rows /\ Drafted(d, s) = q
    BY <1>0, RowsAre, VocabularyFinite
  <2>. QED BY <2>1 DEF Rows, RowTypes
<1>2. res \in RowTypes /\ R \in 0..Mass
  BY <1>0, <1>1, KeptAndLost, ResidualTotal
<1>3. Whole \in Nat /\ S \in Nat /\ K \in Nat /\ J \in Nat
  BY <1>0, <1>1, <1>2, Shares, Weights
<1>4. K + J = Whole
  <2>1. /\ q[x] = Kept(p, q, x) + Lost(p, q, x) /\ Kept(p, q, x) \in Nat /\ Lost(p, q, x) \in Nat
        /\ q[x] \in 1..Mass
    <3>1. q[x] \in 0..Mass /\ q[x] = Kept(p, q, x) + Lost(p, q, x) /\ Kept(p, q, x) \in Nat /\ Lost(p, q, x) \in Nat
      BY <1>0, <1>1, KeptAndLost
    <3>. QED BY <3>1, VocabularyFinite
  <2>2. q[x] * Share[q[x]] = Whole /\ Share[q[x]] \in Nat
    <3>1. q[x] \in 0..Mass
      BY <2>1, VocabularyFinite
    <3>. QED BY <2>1, <3>1, Shares
  <2>. DEFINE k == Kept(p, q, x)
              l == Lost(p, q, x)
              e == Share[q[x]]
  <2>3. K = k * e /\ J = l * e
    BY DEF KeepWeight, LoseWeight
  <2>. HIDE DEF k, l, e, K, J
  <2>4. k * e + l * e = (k + l) * e
    BY <2>1, <2>2 DEF k, l, e
  <2>. QED BY <2>1, <2>2, <2>3, <2>4 DEF k, l, e
<1>5. J * (R * S) = J * Whole /\ R \in Nat
  <2>1. CASE R = 0
    <3>1. Lost(p, q, x) = 0
      BY <1>0, <1>1, <2>1, ResidualTotal
    <3>2. J = 0
      BY <1>1, <1>0, <1>2, <3>1, Shares, KeptAndLost DEF LoseWeight
    <3>. QED BY <1>2, <1>3, <2>1, <3>2, Products
  <2>2. CASE R # 0
    <3>1. R \in 1..Mass
      BY <1>2, <2>2
    <3>2. R * S = Whole
      BY <3>1, Shares
    <3>. QED BY <1>2, <3>2
  <2>. QED BY <2>1, <2>2
<1>6. /\ IsPrefix(u, s) => H = R * C
      /\ IsPrefix(s, u) /\ n < Len(u) => H = res[y] * (Scale[n + 1] * v[<<n + 1, <<>>>>])
      /\ ~IsPrefix(u, s) /\ ~IsPrefix(s, u) => H = 0
  BY <1>2, GainDrawn
<1>7. GainNext(t, d, u, s, x, Tail(r))
  <2>. HIDE DEF x
  <2>. QED BY <1>0, GainAppended
<1>8. GainCases(t, d, u, s, r)
  BY Gains
<1>9. CASE IsPrefix(u, s)
  <2>1. H = R * C /\ g = C /\ G = C /\ C \in Nat
    BY <1>6, <1>7, <1>8, <1>9 DEF GainCases, GainNext
  <2>. HIDE DEF H, R, C, g, G, K, J, S
  <2>2. (K * Whole) * C + (J * S) * (R * C) = (K * Whole) * C + (J * (R * S)) * C
    BY <1>3, <1>5, <2>1
  <2>3. (K * Whole) * C + (J * Whole) * C = ((K + J) * Whole) * C
    BY <1>3, <2>1
  <2>. QED BY <1>4, <1>5, <2>1, <2>2, <2>3 DEF H, g, G, K, J, S, R
<1>10. CASE IsPrefix(s, u) /\ ~IsPrefix(u, s)
  <2>1. n < Len(u) /\ n \in 0..Len(u) /\ s = Before(u, n) /\ G = Scale[n] * v[<<n, r>>]
    <3>1. s = u => IsPrefix(u, s)
      BY <1>10
    <3>. QED BY <1>8, <1>10, <3>1 DEF GainCases
  <2>2. n \in 0..Len(u) - 1 /\ n + 1 \in 0..Len(u) /\ n + 1 \in 1..MaxEmitted /\ n \in 0..MaxEmitted
    BY <1>0, <2>1, VocabularyFinite
  <2>3. y \in Vocabulary
    BY <2>1, BeforeNext DEF Texts
  <2>. DEFINE w == v[<<n + 1, <<>>>>]
              W == v[<<n + 1, Tail(r)>>]
              z == Scale[n]
              e == res[y]
              k == KeepOf(t, d, u, n, x)
              l == LoseOf(t, d, u, n, x)
  <2>4. v[<<n, r>>] = k * W + l * w /\ w \in Nat /\ W \in Nat
    <3>1. \A o \in Texts : o # <<>> =>
            v[<<n, o>>] = KeepOf(t, d, u, n, Head(o)) * v[<<n + 1, Tail(o)>>]
                            + LoseOf(t, d, u, n, Head(o)) * v[<<n + 1, <<>>>>]
      BY <2>2, Chances
    <3>2. w \in Nat /\ W \in Nat
      BY <1>0, <2>2, Chances
    <3>. HIDE DEF v
    <3>. QED BY <3>1, <3>2
  <2>5. /\ k = IF x = y THEN K * Whole ELSE 0
        /\ l = J * (e * S)
    <3>1. Before(u, n) = s
      BY <2>1
    <3>2. k = KeepAt(p, q, y, x) /\ l = LoseAt(p, q, y, x)
      BY <1>1, <3>1 DEF KeepOf, LoseOf
    <3>. QED BY <3>2 DEF KeepAt, LoseAt, CorrectWeight
  <2>6. z \in Nat /\ Scale[n + 1] = z * (Whole * Whole)
    <3>1. Scale[n + 1] = Scale[(n + 1) - 1] * (Whole * Whole) /\ z \in Nat
      BY <2>2, Scales
    <3>2. (n + 1) - 1 = n
      BY <1>0
    <3>. QED BY <3>1, <3>2
  <2>7. e \in Nat
    BY <1>2, <2>3, RowSums
  <2>8. H = e * ((z * (Whole * Whole)) * w)
    BY <1>6, <1>10, <2>1, <2>6
  <2>9. g = IF x = y THEN (z * (Whole * Whole)) * W ELSE 0
    <3>1. g = IF x = y THEN Scale[n + 1] * W ELSE 0
      BY <1>7, <1>10, <2>1 DEF GainNext
    <3>. QED BY <2>6, <3>1
  <2>10. G = z * (k * W + (J * (e * S)) * w)
    BY <2>1, <2>4, <2>5
  <2>13. PICK U \in Nat : U = Whole * Whole
    BY <1>3, Products
  <2>14. \A o \in Nat : o * ((z * U) * W) = U * (z * (o * W)) /\ o * W \in Nat
    <3>. HIDE DEF z, W
    <3>. QED BY <2>4, <2>6
  <2>15. (J * S) * (e * ((z * U) * w)) = U * (z * ((J * (e * S)) * w)) /\ (J * (e * S)) * w \in Nat
    <3>. HIDE DEF z, w, J, S, e
    <3>1. e * S \in Nat
      BY <1>3, <2>7, Products
    <3>2. J * (e * S) \in Nat
      BY <1>3, <3>1, Products
    <3>3. (J * (e * S)) * w \in Nat
      BY <2>4, <3>2, Products
    <3>4. (J * S) * (e * ((z * U) * w)) = U * (z * ((J * (e * S)) * w))
      BY <1>3, <2>4, <2>6, <2>7
    <3>. QED BY <3>3, <3>4
  <2>16. \A o \in Nat, i \in Nat : U * (z * o) + U * (z * i) = U * (z * (o + i))
    <3>. HIDE DEF z
    <3>. QED BY <2>6
  <2>11. CASE x = y
    <3>1. k = K * Whole /\ g = (z * (Whole * Whole)) * W
      BY <2>5, <2>9, <2>11
    <3>. HIDE DEF H, R, C, g, G, K, J, S, w, W, z, e, k, l, x
    <3>2. (K * Whole) * ((z * (Whole * Whole)) * W) + (J * S) * (e * ((z * (Whole * Whole)) * w))
            = (Whole * Whole) * (z * ((K * Whole) * W + (J * (e * S)) * w))
      <4>1. K * Whole \in Nat
        BY <1>3, Products
      <4>2. (K * Whole) * ((z * U) * W) = U * (z * ((K * Whole) * W)) /\ (K * Whole) * W \in Nat
        BY <2>14, <4>1
      <4>3. U * (z * ((K * Whole) * W)) + U * (z * ((J * (e * S)) * w))
              = U * (z * ((K * Whole) * W + (J * (e * S)) * w))
        BY <2>15, <2>16, <4>2
      <4>. QED BY <2>13, <2>15, <4>2, <4>3
    <3>. QED BY <2>8, <2>10, <3>1, <3>2 DEF K, J, S, R, g, G, H, x
  <2>12. CASE x # y
    <3>1. k = 0 /\ g = 0
      BY <2>5, <2>9, <2>12
    <3>. HIDE DEF H, R, C, g, G, K, J, S, w, W, z, e, k, l, x
    <3>2. (K * Whole) * 0 + (J * S) * (e * ((z * (Whole * Whole)) * w))
            = (Whole * Whole) * (z * (0 * W + (J * (e * S)) * w))
      <4>1. (K * Whole) * 0 = 0 /\ 0 * W = 0
        BY <1>3, <2>4, Products
      <4>2. (J * S) * (e * ((z * U) * w)) \in Nat
        BY <1>3, <2>4, <2>6, <2>7, <2>15, Products
      <4>. QED BY <2>13, <2>15, <4>1, <4>2
    <3>. QED BY <2>8, <2>10, <3>1, <3>2 DEF K, J, S, R, g, G, H, x
  <2>. QED BY <2>11, <2>12
<1>11. CASE ~IsPrefix(s, u) /\ ~IsPrefix(u, s)
  <2>1. H = 0 /\ g = 0 /\ G = 0
    BY <1>6, <1>7, <1>8, <1>11 DEF GainCases, GainNext
  <2>. HIDE DEF H, g, G, K, J, S
  <2>2. (K * Whole) * 0 + (J * S) * 0 = (Whole * Whole) * 0
    BY <1>3
  <2>. QED BY <2>1, <2>2 DEF K, J, S, g, G, H
<1>. QED BY <1>9, <1>10, <1>11
-----------------------------------------------------------------------------
(* GenerationLaw: configurations.                                          *)

Stages == {"draft", "verify", "bonus", "fallback", "done"}
Configurations == [out : Texts, proposed : Texts, accepted : Nat, window : Nat, at : Stages]

Finished(out) == [Start EXCEPT !.out = out, !.at = "done"]

\* An output that goes on, and one that has ended.
Open(out) == Len(out) < MaxEmitted /\ \A i \in 1..Len(out) : out[i] # eos
Ended(out) == /\ out # <<>>
              /\ Ends(out)
              /\ Len(out) <= MaxEmitted
              /\ \A i \in 1..Len(out) - 1 : out[i] # eos

\* The proposals without a verdict; the draft gave each of them.
Pending(c) == SubSeq(c.proposed, c.accepted + 1, Len(c.proposed))
Backed(out, r) ==
  \A i \in 1..Len(r) : /\ Q[Seen(out \o SubSeq(r, 1, i - 1))] # Fails
                       /\ Q[Seen(out \o SubSeq(r, 1, i - 1))][r[i]] # 0

\* What holds of every configuration that a call may be in.
Legal(c) ==
  /\ c \in Configurations
  /\ IF c.at = "done" THEN Ended(c.out) /\ c = Finished(c.out) ELSE Open(c.out)
  /\ c.accepted <= Len(c.proposed)
  /\ c.at = "draft" => c.accepted = 0 /\ Len(c.proposed) <= c.window
  /\ c.at = "verify" => c.accepted < Len(c.proposed)
  /\ c.at \in {"bonus", "fallback"} => c.accepted = Len(c.proposed)
  /\ Len(c.out) + Len(Pending(c)) <= MaxEmitted
  /\ Backed(c.out, Pending(c))

\* The outputs that a call may make, and their beginnings.
Outputs == {u \in Texts : Len(u) <= MaxEmitted /\ \A i \in 1..Len(u) - 1 : u[i] # eos}

Worth(t, d, u, c) == Gain(t, d, u, c.out, Pending(c))

\* What is left of a sequence behind its first elements.
LEMMA PendingIs ==
  ASSUME NEW s \in Texts, NEW k \in 0..Len(s)
  PROVE  /\ SubSeq(s, k + 1, Len(s)) \in Texts
         /\ Len(SubSeq(s, k + 1, Len(s))) = Len(s) - k
         /\ k = 0 => SubSeq(s, k + 1, Len(s)) = s
         /\ k = Len(s) => SubSeq(s, k + 1, Len(s)) = <<>>
         /\ k < Len(s) => /\ SubSeq(s, k + 1, Len(s)) # <<>>
                          /\ Head(SubSeq(s, k + 1, Len(s))) = s[k + 1]
                          /\ s[k + 1] \in Vocabulary
                          /\ Tail(SubSeq(s, k + 1, Len(s))) = SubSeq(s, k + 2, Len(s))
<1>1. Len(s) \in Nat
  BY LenProperties DEF Texts
<1>2. \A i \in k + 1..Len(s) : i \in 1..Len(s) /\ s[i] \in Vocabulary
  <2> TAKE i \in k + 1..Len(s)
  <2>1. i \in 1..Len(s)
    BY <1>1
  <2>. QED BY <2>1, ElementOfSeq DEF Texts
<1>3. SubSeq(s, k + 1, Len(s)) \in Texts
      /\ Len(SubSeq(s, k + 1, Len(s))) = IF k + 1 <= Len(s) THEN Len(s) - (k + 1) + 1 ELSE 0
  BY <1>1, <1>2, SubSeqProperties DEF Texts
<1>4. k = 0 => SubSeq(s, k + 1, Len(s)) = s
  BY SubSeqFull DEF Texts
<1>5. k = Len(s) => SubSeq(s, k + 1, Len(s)) = <<>>
  <2>1. k = Len(s) => Len(SubSeq(s, k + 1, Len(s))) = 0
    BY <1>1, <1>3
  <2>. QED BY <1>3, <2>1, EmptySeq DEF Texts
<1>6. ASSUME k < Len(s)
      PROVE  /\ SubSeq(s, k + 1, Len(s)) # <<>>
             /\ Head(SubSeq(s, k + 1, Len(s))) = s[k + 1]
             /\ s[k + 1] \in Vocabulary
             /\ Tail(SubSeq(s, k + 1, Len(s))) = SubSeq(s, k + 2, Len(s))
  <2>1. k + 1 \in 1..Len(s) /\ Len(s) \in k + 1..Len(s) /\ (k + 1) + 1 = k + 2
    BY <1>1, <1>6
  <2>2. SubSeq(s, k + 1, Len(s)) # <<>>
    <3>1. Len(SubSeq(s, k + 1, Len(s))) # 0
      BY <1>1, <1>3, <1>6
    <3>2. Len(<<>>) = 0
      OBVIOUS
    <3>. QED BY <3>1, <3>2
  <2>3. Head(SubSeq(s, k + 1, Len(s))) = s[k + 1] /\ Tail(SubSeq(s, k + 1, Len(s))) = SubSeq(s, (k + 1) + 1, Len(s))
    BY <2>1, HeadTailOfSubSeq DEF Texts
  <2>4. s[k + 1] \in Vocabulary
    BY <2>1, ElementOfSeq DEF Texts
  <2>. QED BY <2>1, <2>2, <2>3, <2>4
<1>7. Len(SubSeq(s, k + 1, Len(s))) = Len(s) - k
  BY <1>1, <1>3
<1>. QED BY <1>3, <1>4, <1>5, <1>6, <1>7

\* What has ended is worth the same whatever was pending.
LEMMA EndedGain ==
  ASSUME P \in Targets, Q \in Drafts, NEW u \in Outputs, NEW s \in Texts, Ended(s), s # <<>>,
         NEW r \in Texts
  PROVE  Gain(P, Q, u, s, r) = Gain(P, Q, u, s, <<>>)
<1>0. u \in Texts /\ Len(u) <= MaxEmitted /\ <<>> \in Texts /\ Len(s) \in Nat \ {0} /\ Len(u) \in Nat
  BY LenProperties, EmptySeq DEF Texts, Outputs
<1>1. CASE IsPrefix(s, u)
  <2>1. Len(s) <= Len(u) /\ \A i \in 1..Len(s) : s[i] = u[i]
    BY <1>0, <1>1, PrefixIs DEF Texts
  <2>2. Len(u) <= Len(s)
    <3>1. CASE Len(s) = MaxEmitted
      BY <1>0, <3>1
    <3>2. CASE Last(s) = eos
      <4>1. Len(s) \in 1..Len(s) /\ u[Len(s)] = eos
        BY <1>0, <2>1, <3>2 DEF Last
      <4>2. ~(Len(s) \in 1..Len(u) - 1)
        BY <4>1 DEF Outputs
      <4>. QED BY <1>0, <2>1, <4>2
    <3>. QED BY <3>1, <3>2 DEF Ended, Ends
  <2>3. s = u
    BY <1>0, <1>1, <2>2, PrefixBoth DEF Texts
  <2>4. IsPrefix(u, s)
    BY <1>1, <2>3
  <2>5. GainCases(P, Q, u, s, r) /\ GainCases(P, Q, u, s, <<>>)
    BY <1>0, Gains
  <2>. QED BY <2>4, <2>5 DEF GainCases
<1>2. CASE ~IsPrefix(s, u)
  BY <1>2 DEF Gain
<1>. QED BY <1>1, <1>2

\* What emitting a token makes of a configuration.
EmitsTo(c, x, at, e) ==
  /\ e \in Configurations
  /\ e.out = Append(c.out, x) /\ Last(e.out) = x
  /\ e.out \in Texts /\ e.out # <<>>
  /\ IF Ends(e.out) THEN e = Finished(e.out) /\ e.at = "done" /\ Ended(e.out) /\ e.proposed = <<>> /\ e.accepted = 0
     ELSE /\ Open(e.out) /\ e = [c EXCEPT !.out = e.out, !.at = at] /\ e.at = at
          /\ e.proposed = c.proposed /\ e.accepted = c.accepted /\ e.window = c.window

\* Emit emits.
LEMMA Emits ==
  ASSUME NEW c \in Configurations, Open(c.out), NEW x \in Vocabulary, NEW at \in Stages
  PROVE  EmitsTo(c, x, at, Emit(c, x, at))
<1>. DEFINE o == Append(c.out, x)
            e == Emit(c, x, at)
<1>1. c.out \in Texts /\ Len(c.out) \in Nat /\ MaxEmitted \in Nat
  BY VocabularyFinite, LenProperties DEF Configurations, Texts
<1>2. /\ o \in Texts /\ Len(o) = Len(c.out) + 1 /\ Last(o) = x
      /\ \A i \in 1..Len(c.out) : o[i] = c.out[i]
      /\ o[Len(c.out) + 1] = x
  BY <1>1, AppendIs DEF Texts
<1>3. o # <<>>
  BY <1>1, AppendProperties DEF Texts
<1>4. Len(o) <= MaxEmitted /\ \A i \in 1..Len(o) - 1 : o[i] # eos
  <2>1. Len(o) - 1 = Len(c.out) /\ Len(o) <= MaxEmitted
    BY <1>1, <1>2 DEF Open
  <2>. QED BY <1>2, <2>1 DEF Open
<1>5. ~Ends(o) => Open(o)
  <2>1. ASSUME ~Ends(o)
        PROVE  Open(o)
    <3>1. Len(o) # MaxEmitted /\ x # eos
      BY <1>2, <2>1 DEF Ends
    <3>2. Len(o) < MaxEmitted
      BY <1>1, <1>2, <1>4, <3>1
    <3>3. \A i \in 1..Len(o) : i \in 1..Len(c.out) \/ i = Len(c.out) + 1
      BY <1>1, <1>2
    <3>4. \A i \in 1..Len(o) : o[i] # eos
      BY <1>2, <3>1, <3>3 DEF Open
    <3>. QED BY <3>2, <3>4 DEF Open
  <2>. QED BY <2>1
<1>. HIDE DEF o
<1>6. e = IF Ends(o) THEN [Start EXCEPT !.out = o, !.at = "done"] ELSE [c EXCEPT !.out = o, !.at = at]
  BY DEF Emit, o
<1>. HIDE DEF e
<1>7. InitialDraft \in Nat /\ <<>> \in Texts /\ "done" \in Stages
  BY LawAssumption DEF Texts, Stages
<1>8. CASE Ends(o)
  <2>1. e = [out |-> o, proposed |-> <<>>, accepted |-> 0, window |-> InitialDraft, at |-> "done"]
    BY <1>6, <1>8 DEF Start
  <2>2. e \in Configurations /\ e.out = o /\ e.at = "done" /\ e.proposed = <<>> /\ e.accepted = 0
    BY <1>2, <1>7, <2>1 DEF Configurations
  <2>3. Ended(o)
    BY <1>3, <1>4, <1>8 DEF Ended
  <2>4. e = Finished(e.out)
    BY <1>6, <1>8, <2>2 DEF Finished
  <2>. QED BY <1>2, <1>3, <1>8, <2>2, <2>3, <2>4 DEF EmitsTo, e, o
<1>9. CASE ~Ends(o)
  <2>1. e = [c EXCEPT !.out = o, !.at = at]
    BY <1>6, <1>9
  <2>2. /\ e \in Configurations /\ e.out = o /\ e.at = at
        /\ e.proposed = c.proposed /\ e.accepted = c.accepted /\ e.window = c.window
    BY <1>2, <2>1 DEF Configurations
  <2>3. Open(o)
    BY <1>5, <1>9
  <2>. QED BY <1>2, <1>3, <1>9, <2>1, <2>2, <2>3 DEF EmitsTo, e, o
<1>. QED BY <1>8, <1>9

\* Nothing is pending: nothing is left to back.
LEMMA NothingPending ==
  ASSUME NEW c \in Configurations, c.accepted = Len(c.proposed)
  PROVE  Pending(c) = <<>> /\ \A s : Backed(s, <<>>)
<1>1. c.proposed \in Texts /\ Len(c.proposed) \in Nat
  BY LenProperties DEF Configurations, Texts
<1>2. Len(c.proposed) \in 0..Len(c.proposed)
  BY <1>1
<1>3. Pending(c) = <<>>
  BY <1>1, <1>2, PendingIs DEF Pending
<1>4. \A s : Backed(s, <<>>)
  BY DEF Backed
<1>. QED BY <1>3, <1>4

DrawnFrom(c, row) == {Emit(NewRound(c), x, "draft") : x \in Possible(row)}

\* Each successor of a draw: what it is, how likely, and what it is worth.
DrawnAs(c, row, e) ==
  /\ Legal(e)
  /\ Last(e.out) \in Possible(row)
  /\ e = Emit(NewRound(c), Last(e.out), "draft")
  /\ e.out = Append(c.out, Last(e.out))
  /\ Pending(e) = <<>>

\* Each successor of a draw is legal and has nothing pending.
LEMMA DrawnEach ==
  ASSUME NEW c \in Configurations, Open(c.out), NEW row \in RowTypes, NEW e \in DrawnFrom(c, row)
  PROVE  DrawnAs(c, row, e)
<1>1. PICK x \in Possible(row) : e = Emit(NewRound(c), x, "draft")
  BY DEF DrawnFrom
<1>2. x \in Vocabulary
  BY <1>1 DEF Possible
<1>3. NewRound(c) \in Configurations /\ NewRound(c).out = c.out /\ NewRound(c).proposed = <<>> /\ NewRound(c).accepted = 0
      /\ "draft" \in Stages
  BY EmptySeq DEF NewRound, Configurations, Stages, Texts
<1>4. EmitsTo(NewRound(c), x, "draft", e)
  <2>1. Open(NewRound(c).out)
    BY <1>3
  <2>. QED BY <1>1, <1>2, <1>3, <2>1, Emits
<1>5. e \in Configurations /\ e.out = Append(c.out, x) /\ Last(e.out) = x /\ e.out \in Texts
      /\ e.proposed = <<>> /\ e.accepted = 0
  BY <1>3, <1>4 DEF EmitsTo
<1>6. Len(<<>>) = 0
  OBVIOUS
<1>7. Pending(e) = <<>> /\ Backed(e.out, Pending(e))
  BY <1>5, <1>6, NothingPending
<1>8. e.window \in Nat /\ Len(e.out) \in Nat
  BY <1>5, LenProperties DEF Configurations, Texts
<1>9. Legal(e)
  <2>1. Len(e.proposed) = 0 /\ Len(Pending(e)) = 0
    BY <1>5, <1>6, <1>7
  <2>2. CASE Ends(e.out)
    <3>1. e.at = "done" /\ Ended(e.out) /\ e = Finished(e.out)
      BY <1>4, <2>2 DEF EmitsTo
    <3>2. Len(e.out) <= MaxEmitted
      BY <3>1 DEF Ended
    <3>. QED BY <1>5, <1>7, <1>8, <2>1, <3>1, <3>2 DEF Legal
  <2>3. CASE ~Ends(e.out)
    <3>1. e.at = "draft" /\ Open(e.out)
      BY <1>4, <2>3 DEF EmitsTo
    <3>2. Len(e.out) <= MaxEmitted
      BY <1>8, <3>1, VocabularyFinite DEF Open
    <3>. QED BY <1>5, <1>7, <1>8, <2>1, <3>1, <3>2 DEF Legal
  <2>. QED BY <2>2, <2>3
<1>. QED BY <1>1, <1>5, <1>7, <1>9 DEF DrawnAs

\* What the successors of a draw are worth, by the tokens drawn.
LEMMA DrawnSum ==
  ASSUME P \in Targets, Q \in Drafts, NEW c \in Configurations, Open(c.out), NEW row \in RowTypes,
         NEW u \in Outputs
  PROVE  /\ IsFiniteSet(DrawnFrom(c, row))
         /\ \A e \in DrawnFrom(c, row) : /\ row[Last(e.out)] \in Nat
                                         /\ Worth(P, Q, u, e) \in Nat
         /\ Sum([e \in DrawnFrom(c, row) |-> row[Last(e.out)] * Worth(P, Q, u, e)], DrawnFrom(c, row))
              = Sum([x \in Vocabulary |-> row[x] * Gain(P, Q, u, Append(c.out, x), <<>>)], Vocabulary)
<1>. DEFINE D == DrawnFrom(c, row)
            S == Possible(row)
            b == [x \in S |-> Emit(NewRound(c), x, "draft")]
            f == [e \in D |-> row[Last(e.out)] * Worth(P, Q, u, e)]
            h == [x \in Vocabulary |-> row[x] * Gain(P, Q, u, Append(c.out, x), <<>>)]
<1>0. S \in SUBSET Vocabulary /\ IsFiniteSet(S)
  BY FS_Subset, VocabularyFinite DEF Possible
<1>1. b \in [S -> D] /\ \A e \in D : \E x \in S : b[x] = e
  BY DEF DrawnFrom
<1>2. \A e \in D : DrawnAs(c, row, e)
  BY DrawnEach
<1>3. u \in Texts /\ Len(u) <= MaxEmitted /\ <<>> \in Texts /\ c.out \in Texts
  BY EmptySeq DEF Outputs, Texts, Configurations
<1>4. ASSUME NEW x \in S
      PROVE  Last(b[x].out) = x /\ b[x].out = Append(c.out, x) /\ b[x] \in D
  <2>1. NewRound(c) \in Configurations /\ NewRound(c).out = c.out /\ "draft" \in Stages
    BY EmptySeq DEF NewRound, Configurations, Stages, Texts
  <2>2. EmitsTo(NewRound(c), x, "draft", Emit(NewRound(c), x, "draft"))
    <3>1. x \in Vocabulary /\ Open(NewRound(c).out)
      BY <1>0, <2>1
    <3>. QED BY <2>1, <3>1, Emits
  <2>. QED BY <1>1, <2>1, <2>2 DEF EmitsTo
<1>5. ASSUME NEW x \in Vocabulary
      PROVE  row[x] \in Nat /\ h[x] \in Nat /\ Gain(P, Q, u, Append(c.out, x), <<>>) \in Nat
  <2>1. row[x] \in Nat
    BY RowSums
  <2>2. Gain(P, Q, u, Append(c.out, x), <<>>) \in Nat
    <3>1. Append(c.out, x) \in Texts
      BY <1>3, AppendIs DEF Texts
    <3>2. GainCases(P, Q, u, Append(c.out, x), <<>>)
      BY <1>3, <3>1, Gains
    <3>. QED BY <3>2 DEF GainCases
  <2>3. row[x] * Gain(P, Q, u, Append(c.out, x), <<>>) \in Nat
    BY <2>1, <2>2, Products
  <2>. QED BY <2>1, <2>2, <2>3
<1>6. ASSUME NEW e \in D
      PROVE  /\ Last(e.out) \in S /\ e.out = Append(c.out, Last(e.out))
             /\ Worth(P, Q, u, e) = Gain(P, Q, u, Append(c.out, Last(e.out)), <<>>)
             /\ f[e] = h[Last(e.out)] /\ f[e] \in Nat
             /\ row[Last(e.out)] \in Nat /\ Worth(P, Q, u, e) \in Nat
  <2>1. Last(e.out) \in S /\ e.out = Append(c.out, Last(e.out)) /\ Pending(e) = <<>>
    BY <1>2 DEF DrawnAs
  <2>2. Last(e.out) \in Vocabulary
    BY <1>0, <2>1
  <2>3. Worth(P, Q, u, e) = Gain(P, Q, u, Append(c.out, Last(e.out)), <<>>)
    BY <2>1 DEF Worth
  <2>4. f[e] = h[Last(e.out)]
    BY <2>2, <2>3
  <2>. QED BY <1>5, <2>1, <2>2, <2>3, <2>4
<1>7. Amounts(f, D) /\ Amounts(h, S) /\ Amounts(h, Vocabulary)
  BY <1>0, <1>5, <1>6 DEF Amounts
<1>8. \A x \in S : h[x] = f[b[x]]
  BY <1>4, <1>6
<1>9. \A x, y \in S : b[x] = b[y] => x = y
  BY <1>4
<1>10. \A x \in Vocabulary \ S : h[x] = 0
  <2> TAKE x \in Vocabulary \ S
  <2>1. row[x] = 0
    BY <1>5 DEF Possible
  <2>2. Gain(P, Q, u, Append(c.out, x), <<>>) \in Nat
    BY <1>5
  <2>. QED BY <2>1, <2>2, Products
<1>. HIDE DEF D, S, b, f, h
<1>11. Sum(h, S) = Sum(f, D) /\ IsFiniteSet(D)
  BY <1>0, <1>1, <1>7, <1>8, <1>9, SumRenamed
<1>12. Sum(h, Vocabulary) = Sum(h, S)
  BY <1>0, <1>7, <1>10, SumOnly, VocabularyFinite
<1>. QED BY <1>6, <1>11, <1>12 DEF D, f, h

\* How likely each is.
LEMMA DrawnStands ==
  ASSUME NEW c \in Configurations, Open(c.out), NEW row \in RowTypes, Total(row) \in 0..Mass,
         NEW e \in DrawnFrom(c, row)
  PROVE  /\ Drawn(c, row) = [i \in DrawnFrom(c, row) |-> Fraction(row[Last(i.out)], Total(row))]
         /\ Stands(Drawn(c, row)[e], row[Last(e.out)] * Share[Total(row)], Whole)
<1>1. Drawn(c, row) = [i \in DrawnFrom(c, row) |-> Fraction(row[Last(i.out)], Total(row))]
  BY DEF Drawn, DrawnFrom
<1>2. Last(e.out) \in Possible(row)
  BY DrawnEach DEF DrawnAs
<1>. DEFINE n == row[Last(e.out)]
            R == Total(row)
            S == Share[R]
<1>3. n \in Nat \ {0} /\ n <= R
  BY <1>2, RowSums DEF Possible
<1>4. R \in 1..Mass
  BY <1>3
<1>5. S \in Nat /\ R * S = Whole /\ Whole \in Nat
  BY <1>4, Shares
<1>6. Drawn(c, row)[e] = Fraction(n, R)
  BY <1>1
<1>. HIDE DEF n, R, S
<1>7. R \in Nat \ {0} /\ n * S \in Nat
  BY <1>3, <1>4, <1>5, Products
<1>8. n * Whole = (n * S) * R
  BY <1>3, <1>5, <1>7
<1>9. Stands(Fraction(n, R), n * S, Whole)
  BY <1>3, <1>5, <1>7, <1>8, FractionStands
<1>. QED BY <1>1, <1>6, <1>9 DEF n, R, S
-----------------------------------------------------------------------------
(* GenerationLaw: draws of the target.                                     *)

\* A step of one configuration: its successors are legal, their probabilities
\* are parts of a square, and together they are worth what it was.
Follows(c, moves, mu) ==
  /\ IsFiniteSet(DOMAIN moves)
  /\ \A e \in DOMAIN moves : /\ Legal(e)
                             /\ mu[e] \in Nat
                             /\ Stands(moves[e], mu[e], Whole * Whole)
  /\ \A u \in Outputs :
       Sum([e \in DOMAIN moves |-> mu[e] * Worth(P, Q, u, e)], DOMAIN moves)
         = (Whole * Whole) * Worth(P, Q, u, c)

\* A fraction of a larger whole.
LEMMA StandsScaled ==
  ASSUME NEW f, NEW w \in Nat, NEW N \in Nat, NEW k \in Nat, Stands(f, w, N)
  PROVE  Stands(f, w * k, N * k)
<1>1. PICK a \in Nat, b \in Nat : f[1] = a /\ f[2] = b /\ a * N = w * b
  BY DEF Stands, Fractions
<1>2. a * (N * k) = (a * N) * k
  BY <1>1
<1>3. (w * b) * k = (w * k) * b
  BY <1>1
<1>. QED BY <1>1, <1>2, <1>3 DEF Stands

\* The types of a legal configuration.
LEMMA LegalTypes ==
  ASSUME NEW c, Legal(c)
  PROVE  /\ c \in Configurations
         /\ c.out \in Texts /\ c.proposed \in Texts /\ c.accepted \in 0..Len(c.proposed) /\ c.window \in Nat
         /\ Len(c.out) \in Nat /\ Len(c.out) <= MaxEmitted /\ Len(c.proposed) \in Nat
         /\ Pending(c) \in Texts /\ Len(Pending(c)) = Len(c.proposed) - c.accepted
<1>1. c \in Configurations /\ c.accepted <= Len(c.proposed) /\ c.out \in Texts /\ c.proposed \in Texts
      /\ c.accepted \in Nat /\ c.window \in Nat
  BY DEF Legal, Configurations
<1>2. Len(c.out) \in Nat /\ Len(c.proposed) \in Nat
  BY <1>1, LenProperties DEF Texts
<1>3. c.accepted \in 0..Len(c.proposed)
  BY <1>1, <1>2
<1>4. Pending(c) \in Texts /\ Len(Pending(c)) = Len(c.proposed) - c.accepted
  BY <1>1, <1>3, PendingIs DEF Pending
<1>5. Len(c.out) <= MaxEmitted
  <2>1. Len(c.out) + Len(Pending(c)) <= MaxEmitted
    BY DEF Legal
  <2>. QED BY <1>2, <1>3, <1>4, <2>1, VocabularyFinite
<1>. QED BY <1>1, <1>2, <1>3, <1>4, <1>5

\* A worth is a number.
LEMMA WorthIs ==
  ASSUME P \in Targets, Q \in Drafts, NEW c, Legal(c), NEW u \in Outputs
  PROVE  Worth(P, Q, u, c) \in Nat
<1>1. u \in Texts /\ Len(u) <= MaxEmitted
  BY DEF Outputs
<1>2. GainCases(P, Q, u, c.out, Pending(c))
  BY <1>1, LegalTypes, Gains
<1>. QED BY <1>2 DEF GainCases, Worth

\* The square of the whole.
LEMMA WholeSquare == Whole \in Nat \ {0} /\ Whole * Whole \in Nat \ {0}
<1>1. Whole \in Nat \ {0}
  BY Shares
<1>2. \A w \in Nat \ {0} : w * w \in Nat \ {0}
  OBVIOUS
<1>. QED BY <1>1, <1>2

\* The empty output begins every output.
LEMMA NoOutput == <<>> \in Outputs
BY VocabularyFinite, EmptySeq DEF Outputs, Texts

\* One successor that is worth the same.
LEMMA CertainFollows ==
  ASSUME P \in Targets, Q \in Drafts, NEW c, NEW e, Legal(e), e.out = c.out, Pending(e) = Pending(c)
  PROVE  \E mu : Follows(c, Certainly(e), mu)
<1>. DEFINE U == Whole * Whole
            mu == [x \in {e} |-> U]
            m == Certainly(e)
<1>1. U \in Nat
  BY WholeSquare
<1>2. m = [x \in {e} |-> <<1, 1>>] /\ IsFiniteSet({e})
  BY FS_Singleton DEF Certainly
<1>3. Stands(<<1, 1>>, U, U)
  <2>1. <<1, 1>> \in Fractions
    BY FractionTypes
  <2>. HIDE DEF U
  <2>. QED BY <1>1, <2>1 DEF Stands
<1>4. ASSUME NEW u \in Outputs
      PROVE  Sum([x \in {e} |-> mu[x] * Worth(P, Q, u, x)], {e}) = U * Worth(P, Q, u, c)
  <2>. DEFINE f == [x \in {e} |-> mu[x] * Worth(P, Q, u, x)]
  <2>1. Worth(P, Q, u, e) = Worth(P, Q, u, c)
    BY DEF Worth
  <2>2. Worth(P, Q, u, e) \in Nat
    BY WorthIs
  <2>3. f[e] = U * Worth(P, Q, u, e)
    OBVIOUS
  <2>4. U * Worth(P, Q, u, e) \in Nat
    BY <1>1, <2>2, Products
  <2>5. \A y \in {e} : y # e => f[y] = 0
    OBVIOUS
  <2>. HIDE DEF f, U
  <2>6. Sum(f, {e}) = f[e]
    BY <1>2, <2>3, <2>4, <2>5, SumOne
  <2>. QED BY <2>1, <2>3, <2>6 DEF f
<1>5. Follows(c, m, mu)
  <2>1. DOMAIN m = {e} /\ m[e] = <<1, 1>> /\ mu[e] = U
    BY <1>2
  <2>. HIDE DEF m, mu, U
  <2>. QED BY <1>1, <1>2, <1>3, <1>4, <2>1 DEF Follows, U
<1>. QED BY <1>5

\* A token of the target.
LEMMA TargetFollows ==
  ASSUME P \in Targets, Q \in Drafts, NEW c, Legal(c), c.at # "done", c.accepted = Len(c.proposed)
  PROVE  \E mu : Follows(c, Drawn(c, P[Seen(c.out)]), mu)
<1>. DEFINE row == P[Seen(c.out)]
            D == DrawnFrom(c, row)
            S == Share[Mass]
            mu == [e \in D |-> (row[Last(e.out)] * S) * Whole]
            m == Drawn(c, row)
<1>1. c \in Configurations /\ c.out \in Texts /\ Len(c.out) <= MaxEmitted /\ Open(c.out)
      /\ Pending(c) = <<>> /\ Len(c.out) < MaxEmitted
  BY LegalTypes, NothingPending DEF Legal, Open
<1>2. row \in RowTypes /\ Total(row) = Mass
  <2>1. row \in Rows
    BY <1>1, RowsAre
  <2>. QED BY <2>1 DEF Rows, RowTypes
<1>3. Mass \in 0..Mass /\ Mass \in 1..Mass /\ Mass \in Nat
  BY VocabularyFinite
<1>4. S \in Nat /\ Mass * S = Whole /\ Whole \in Nat
  BY <1>3, Shares
<1>5. \A e \in D : /\ Legal(e)
                   /\ row[Last(e.out)] \in Nat
                   /\ Stands(m[e], row[Last(e.out)] * S, Whole)
  <2> TAKE e \in D
  <2>1. Legal(e) /\ Last(e.out) \in Possible(row)
    BY <1>1, <1>2, DrawnEach DEF DrawnAs
  <2>2. Stands(m[e], row[Last(e.out)] * S, Whole)
    BY <1>1, <1>2, <1>3, DrawnStands
  <2>. QED BY <1>2, <2>1, <2>2, RowSums DEF Possible
<1>6. ASSUME NEW e \in D
      PROVE  Legal(e) /\ mu[e] \in Nat /\ Stands(m[e], mu[e], Whole * Whole)
  <2>1. mu[e] = (row[Last(e.out)] * S) * Whole
    OBVIOUS
  <2>2. row[Last(e.out)] * S \in Nat
    BY <1>4, <1>5, Products
  <2>3. (row[Last(e.out)] * S) * Whole \in Nat
    BY <1>4, <2>2, Products
  <2>4. Stands(m[e], (row[Last(e.out)] * S) * Whole, Whole * Whole)
    BY <1>4, <1>5, <2>2, StandsScaled
  <2>. QED BY <1>5, <2>1, <2>3, <2>4
<1>7. IsFiniteSet(D) /\ DOMAIN m = D
  <2>1. IsFiniteSet(D)
    BY <1>1, <1>2, NoOutput, DrawnSum
  <2>. QED BY <2>1 DEF Drawn, DrawnFrom
<1>8. ASSUME NEW u \in Outputs
      PROVE  Sum([e \in D |-> mu[e] * Worth(P, Q, u, e)], D) = (Whole * Whole) * Worth(P, Q, u, c)
  <2>. DEFINE f == [e \in D |-> row[Last(e.out)] * Worth(P, Q, u, e)]
              g == [e \in D |-> mu[e] * Worth(P, Q, u, e)]
              h == [x \in Vocabulary |-> row[x] * Gain(P, Q, u, Append(c.out, x), <<>>)]
              G == Gain(P, Q, u, c.out, <<>>)
  <2>0. u \in Texts /\ Len(u) <= MaxEmitted
    BY DEF Outputs
  <2>1. Sum(f, D) = Sum(h, Vocabulary) /\ \A e \in D : row[Last(e.out)] \in Nat /\ Worth(P, Q, u, e) \in Nat
    BY <1>1, <1>2, DrawnSum
  <2>2. Sum(h, Vocabulary) = Mass * G
    <3>1. \A x \in Vocabulary : h[x] = row[x] * Gain(P, Q, u, Append(c.out, x), <<>>)
      OBVIOUS
    <3>. HIDE DEF h
    <3>. QED BY <1>1, <2>0, <3>1, GainTarget
  <2>3. S * Whole \in Nat
    BY <1>4, Products
  <2>4. ASSUME NEW e \in D
        PROVE  f[e] \in Nat /\ g[e] = (S * Whole) * f[e]
    <3>1. PICK a \in Nat, w \in Nat : a = row[Last(e.out)] /\ w = Worth(P, Q, u, e)
      BY <2>1
    <3>2. f[e] = a * w /\ g[e] = ((a * S) * Whole) * w
      BY <3>1
    <3>3. a * w \in Nat /\ ((a * S) * Whole) * w = (S * Whole) * (a * w)
      <4>. HIDE DEF S
      <4>. QED BY <1>4, <3>1
    <3>. QED BY <3>2, <3>3
  <2>5. Amounts(f, D) /\ Multiples(S * Whole, f, g, D)
    <3>. HIDE DEF f, g, D
    <3>. QED BY <2>4 DEF Amounts, Multiples
  <2>6. G \in Nat /\ Worth(P, Q, u, c) = G
    <3>1. Worth(P, Q, u, c) = G
      BY <1>1 DEF Worth
    <3>. QED BY <3>1, WorthIs
  <2>. HIDE DEF f, g, h, D, G, S
  <2>7. Sum(g, D) = (S * Whole) * Sum(f, D)
    BY <1>7, <2>3, <2>5, SumScales
  <2>8. (S * Whole) * (Mass * G) = ((Mass * S) * Whole) * G
    BY <1>3, <1>4, <2>6
  <2>. QED BY <1>4, <2>1, <2>2, <2>6, <2>7, <2>8 DEF g, D
<1>9. Follows(c, m, mu)
  <2>. HIDE DEF m, mu, D
  <2>. QED BY <1>6, <1>7, <1>8 DEF Follows
<1>. QED BY <1>9
-----------------------------------------------------------------------------
(* GenerationLaw: steps of the draft.                                      *)

ProposedFrom(c, row) == {[c EXCEPT !.proposed = Append(@, x)] : x \in Possible(row)}

\* What backs the proposals backs them and one more that the draft may give.
LEMMA BackedNext ==
  ASSUME NEW s, NEW r \in Texts, Backed(s, r), NEW row, row = Q[Seen(s \o r)], row # Fails,
         NEW x \in Vocabulary, row[x] # 0
  PROVE  Backed(s, Append(r, x))
<1>. DEFINE a == Append(r, x)
<1>1. a \in Texts /\ Len(r) \in Nat /\ Len(a) = Len(r) + 1 /\ a[Len(r) + 1] = x /\ \A i \in 1..Len(r) : a[i] = r[i]
  BY AppendIs DEF Texts
<1>2. ASSUME NEW i \in 1..Len(a)
      PROVE  SubSeq(a, 1, i - 1) = SubSeq(r, 1, i - 1)
  <2>1. i - 1 \in 0..Len(r) /\ i - 1 \in 0..Len(a)
    BY <1>1
  <2>2. /\ SubSeq(r, 1, i - 1) \in Texts /\ Len(SubSeq(r, 1, i - 1)) = i - 1
        /\ \A j \in 1..i - 1 : SubSeq(r, 1, i - 1)[j] = r[j]
    BY <2>1, PrefixProperties DEF Texts
  <2>. HIDE DEF a
  <2>3. /\ SubSeq(a, 1, i - 1) \in Texts /\ Len(SubSeq(a, 1, i - 1)) = i - 1
        /\ \A j \in 1..i - 1 : SubSeq(a, 1, i - 1)[j] = a[j]
    BY <1>1, <2>1, PrefixProperties DEF Texts
  <2>4. \A j \in 1..i - 1 : a[j] = r[j]
    BY <1>1, <2>1
  <2>. QED BY <2>2, <2>3, <2>4, SeqEqual DEF Texts
<1>3. SubSeq(r, 1, Len(r)) = r
  BY SubSeqFull DEF Texts
<1>. HIDE DEF a
<1>4. ASSUME NEW i \in 1..Len(a)
      PROVE  /\ Q[Seen(s \o SubSeq(a, 1, i - 1))] # Fails
             /\ Q[Seen(s \o SubSeq(a, 1, i - 1))][a[i]] # 0
  <2>1. CASE i = Len(r) + 1
    <3>1. i - 1 = Len(r)
      BY <1>1, <2>1
    <3>2. SubSeq(a, 1, i - 1) = r
      BY <1>2, <1>3, <3>1
    <3>. QED BY <1>1, <2>1, <3>2
  <2>2. CASE i # Len(r) + 1
    <3>1. i \in 1..Len(r)
      BY <1>1, <2>2
    <3>2. a[i] = r[i] /\ SubSeq(a, 1, i - 1) = SubSeq(r, 1, i - 1)
      BY <1>1, <1>2, <3>1
    <3>. QED BY <3>1, <3>2 DEF Backed
  <2>. QED BY <2>1, <2>2
<1>. QED BY <1>4 DEF Backed, a

ProposedAs(c, x, e) ==
  /\ e = [c EXCEPT !.proposed = Append(@, x)]
  /\ Legal(e) /\ e.out = c.out /\ Last(e.proposed) = x /\ Pending(e) = Append(Pending(c), x)

\* Each successor of a proposal is legal.
LEMMA ProposedEach ==
  ASSUME NEW c, Legal(c), c.at = "draft", NEW row, row = Q[Seen(c.out \o c.proposed)], row # Fails,
         Len(c.proposed) < c.window, Len(c.out) + Len(c.proposed) < MaxEmitted,
         NEW x \in Vocabulary, row[x] # 0
  PROVE  ProposedAs(c, x, [c EXCEPT !.proposed = Append(@, x)]) /\ Pending(c) = c.proposed
<1>. DEFINE e == [c EXCEPT !.proposed = Append(@, x)]
            o == Append(c.proposed, x)
<1>1. /\ c \in Configurations /\ c.accepted = 0 /\ c.proposed \in Texts /\ c.out \in Texts
      /\ Len(c.proposed) \in Nat /\ c.window \in Nat /\ Len(c.out) \in Nat
  BY LegalTypes DEF Legal
<1>2. /\ o \in Texts /\ Len(o) = Len(c.proposed) + 1 /\ Last(o) = x
  BY <1>1, AppendIs DEF Texts
<1>. HIDE DEF o
<1>3. e = [c EXCEPT !.proposed = o]
  BY DEF o
<1>. HIDE DEF e
<1>4. /\ e \in Configurations /\ e.out = c.out /\ e.proposed = o /\ e.accepted = 0 /\ e.window = c.window
      /\ e.at = "draft"
  BY <1>1, <1>2, <1>3 DEF Configurations
<1>5. Pending(c) = c.proposed /\ Pending(e) = o
  <2>1. 0 \in 0..Len(c.proposed) /\ 0 \in 0..Len(o)
    BY <1>1, <1>2
  <2>. QED BY <1>1, <1>2, <1>4, <2>1, PendingIs DEF Pending
<1>6. Backed(c.out, o)
  <2>1. Backed(c.out, c.proposed)
    BY <1>5 DEF Legal
  <2>. QED BY <1>1, <2>1, BackedNext DEF o
<1>7. Open(c.out)
  BY DEF Legal
<1>8. Legal(e)
  <2>1. e.accepted <= Len(e.proposed) /\ Len(e.proposed) <= e.window /\ Len(e.out) + Len(Pending(e)) <= MaxEmitted
    <3>1. \A n, w, i, k \in Nat : /\ n < w => n + 1 <= w
                                  /\ i + n < k => i + (n + 1) <= k
                                  /\ 0 <= n + 1
      OBVIOUS
    <3>2. MaxEmitted \in Nat
      BY VocabularyFinite
    <3>3. Len(o) <= c.window /\ Len(c.out) + Len(o) <= MaxEmitted /\ 0 <= Len(o)
      BY <1>1, <1>2, <3>1, <3>2
    <3>. QED BY <1>4, <1>5, <3>3
  <2>2. Backed(e.out, Pending(e)) /\ Open(e.out)
    BY <1>4, <1>5, <1>6, <1>7
  <2>. QED BY <1>4, <2>1, <2>2 DEF Legal
<1>. QED BY <1>2, <1>4, <1>5, <1>8 DEF ProposedAs, e, o

\* A proposal is added: the draft changes nothing.
LEMMA ProposalFollows ==
  ASSUME P \in Targets, Q \in Drafts, NEW c, Legal(c), c.at = "draft",
         NEW row, row = Q[Seen(c.out \o c.proposed)], row # Fails,
         Len(c.proposed) < c.window, Len(c.out) + Len(c.proposed) < MaxEmitted
  PROVE  \E mu : Follows(c, [e \in ProposedFrom(c, row) |-> Fraction(row[Last(e.proposed)], Mass)], mu)
<1>. DEFINE D == ProposedFrom(c, row)
            S == Possible(row)
            k == Whole * Share[Mass]
            m == [e \in D |-> Fraction(row[Last(e.proposed)], Mass)]
            mu == [e \in D |-> row[Last(e.proposed)] * k]
            b == [x \in S |-> [c EXCEPT !.proposed = Append(@, x)]]
            r == Pending(c)
<1>0. S \in SUBSET Vocabulary /\ IsFiniteSet(S)
  BY FS_Subset, VocabularyFinite DEF Possible
<1>1. b \in [S -> D] /\ \A e \in D : \E x \in S : b[x] = e
  BY DEF ProposedFrom
<1>2. row \in RowTypes /\ Total(row) = Mass /\ c.out \in Texts /\ r \in Texts /\ Len(c.out) + Len(r) <= MaxEmitted
      /\ r = c.proposed
  <2>1. c.out \in Texts /\ c.proposed \in Texts /\ Len(c.out) \in Nat /\ Len(c.proposed) \in Nat /\ c.accepted = 0
        /\ r \in Texts
    BY LegalTypes DEF Legal
  <2>2. c.out \o c.proposed \in Texts /\ Len(c.out \o c.proposed) <= MaxEmitted
    <3>1. c.out \o c.proposed \in Texts /\ Len(c.out \o c.proposed) = Len(c.out) + Len(c.proposed)
      BY <2>1, ConcatProperties DEF Texts
    <3>2. \A i, j, n \in Nat : i + j < n => i + j <= n
      OBVIOUS
    <3>3. MaxEmitted \in Nat
      BY VocabularyFinite
    <3>. QED BY <2>1, <3>1, <3>2, <3>3
  <2>3. row \in Rows
    BY <2>2, RowsAre
  <2>4. r = c.proposed
    <3>1. 0 \in 0..Len(c.proposed)
      BY <2>1
    <3>. QED BY <2>1, <3>1, PendingIs DEF Pending
  <2>5. Len(c.out) + Len(r) <= MaxEmitted
    BY DEF Legal
  <2>. QED BY <2>1, <2>3, <2>4, <2>5 DEF Rows, RowTypes
<1>3. \A x \in S : row[x] \in Nat /\ row[x] # 0 /\ x \in Vocabulary
  BY <1>0, <1>2, RowSums DEF Possible
<1>4. ASSUME NEW x \in S
      PROVE  ProposedAs(c, x, b[x]) /\ b[x] \in D
  <2>1. x \in Vocabulary /\ row[x] # 0
    BY <1>3
  <2>2. ProposedAs(c, x, [c EXCEPT !.proposed = Append(@, x)])
    <3>. HIDE DEF D, S, k, m, mu, b, r
    <3>. QED BY <2>1, ProposedEach
  <2>3. b[x] = [c EXCEPT !.proposed = Append(@, x)] /\ b[x] \in D
    BY <1>1
  <2>. QED BY <2>2, <2>3
<1>5. Mass \in Nat \ {0} /\ Share[Mass] \in Nat /\ Mass * Share[Mass] = Whole /\ Whole \in Nat /\ k \in Nat
  <2>1. Mass \in 0..Mass /\ Mass \in 1..Mass
    BY VocabularyFinite
  <2>2. Mass \in Nat \ {0} /\ Share[Mass] \in Nat /\ Mass * Share[Mass] = Whole /\ Whole \in Nat
    BY <2>1, Shares, VocabularyFinite
  <2>. QED BY <2>2, Products
<1>6. Mass * k = Whole * Whole
  <2>1. Mass * k = Whole * (Mass * Share[Mass])
    BY <1>5, Products
  <2>. QED BY <1>5, <2>1
<1>7. \A x, y \in S : b[x] = b[y] => x = y
  <2>1. \A x \in S : Last(b[x].proposed) = x
    <3> TAKE x \in S
    <3>. HIDE DEF b
    <3>. QED BY <1>4 DEF ProposedAs
  <2>. HIDE DEF b
  <2>. QED BY <2>1
<1>8. ASSUME NEW e \in D
      PROVE  /\ Last(e.proposed) \in S /\ ProposedAs(c, Last(e.proposed), e)
             /\ mu[e] \in Nat /\ Stands(m[e], mu[e], Whole * Whole)
  <2>1. PICK x \in S : b[x] = e
    BY <1>1
  <2>2. ProposedAs(c, x, e) /\ Last(e.proposed) = x
    BY <1>4, <2>1 DEF ProposedAs
  <2>3. PICK a \in Nat : a = row[x]
    BY <1>3
  <2>4. mu[e] = a * k /\ m[e] = Fraction(a, Mass)
    BY <2>2, <2>3
  <2>5. a * k \in Nat /\ Whole * Whole \in Nat /\ a * (Whole * Whole) = (a * k) * Mass
    <3>. HIDE DEF k
    <3>1. a * (Mass * k) = (a * k) * Mass
      BY <1>5
    <3>2. a * k \in Nat /\ Whole * Whole \in Nat
      BY <1>5, Products
    <3>. QED BY <1>6, <3>1, <3>2
  <2>6. Stands(Fraction(a, Mass), a * k, Whole * Whole)
    <3>. HIDE DEF k
    <3>. QED BY <1>5, <2>5, FractionStands
  <2>. QED BY <2>2, <2>4, <2>5, <2>6
<1>9. ASSUME NEW u \in Outputs
      PROVE  /\ Sum([e \in D |-> mu[e] * Worth(P, Q, u, e)], D) = (Whole * Whole) * Worth(P, Q, u, c)
             /\ IsFiniteSet(D)
  <2>. DEFINE f == [e \in D |-> mu[e] * Worth(P, Q, u, e)]
              g == [x \in Vocabulary |-> row[x] * Gain(P, Q, u, c.out, Append(r, x))]
              h == [x \in Vocabulary |-> k * g[x]]
              G == Gain(P, Q, u, c.out, r)
  <2>0. u \in Texts /\ Len(u) <= MaxEmitted
    BY DEF Outputs
  <2>1. ASSUME NEW x \in Vocabulary
        PROVE  g[x] \in Nat /\ h[x] \in Nat
    <3>1. Append(r, x) \in Texts /\ row[x] \in Nat
      BY <1>2, AppendIs, RowSums DEF Texts
    <3>2. GainCases(P, Q, u, c.out, Append(r, x))
      BY <1>2, <2>0, <3>1, Gains
    <3>3. row[x] * Gain(P, Q, u, c.out, Append(r, x)) \in Nat
      BY <3>1, <3>2, Products DEF GainCases
    <3>4. k * g[x] \in Nat
      <4>. HIDE DEF k
      <4>. QED BY <1>5, <3>3, Products
    <3>. QED BY <3>3, <3>4
  <2>2. ASSUME NEW x \in S
        PROVE  h[x] = f[b[x]]
    <3>1. ProposedAs(c, x, b[x]) /\ b[x] \in D
      BY <1>4
    <3>2. f[b[x]] = mu[b[x]] * Worth(P, Q, u, b[x])
      BY <3>1
    <3>3. mu[b[x]] = row[x] * k /\ Worth(P, Q, u, b[x]) = Gain(P, Q, u, c.out, Append(r, x))
      BY <3>1 DEF ProposedAs, Worth
    <3>4. h[x] = k * (row[x] * Gain(P, Q, u, c.out, Append(r, x)))
      BY <1>3
    <3>5. Gain(P, Q, u, c.out, Append(r, x)) \in Nat
      <4>1. Append(r, x) \in Texts
        BY <1>2, <1>3, AppendIs DEF Texts
      <4>2. GainCases(P, Q, u, c.out, Append(r, x))
        BY <1>2, <2>0, <4>1, Gains
      <4>. QED BY <4>2 DEF GainCases
    <3>6. \A i, j, n \in Nat : (i * j) * n = j * (i * n)
      OBVIOUS
    <3>7. row[x] \in Nat
      BY <1>3
    <3>. HIDE DEF k, f, h, mu, b
    <3>. QED BY <1>5, <3>2, <3>3, <3>4, <3>5, <3>6, <3>7
  <2>3. ASSUME NEW e \in D
        PROVE  f[e] \in Nat
    <3>1. Legal(e) /\ mu[e] \in Nat
      BY <1>8 DEF ProposedAs
    <3>2. Worth(P, Q, u, e) \in Nat
      BY <3>1, WorthIs
    <3>. QED BY <3>1, <3>2, Products
  <2>4. Amounts(f, D) /\ Amounts(h, S) /\ Amounts(g, Vocabulary) /\ Amounts(h, Vocabulary) /\ Multiples(k, g, h, Vocabulary)
    <3>1. \A x \in Vocabulary : h[x] = k * g[x]
      OBVIOUS
    <3>. HIDE DEF f, g, h, k
    <3>. QED BY <1>0, <2>1, <2>3, <3>1 DEF Amounts, Multiples
  <2>5. \A x \in Vocabulary \ S : h[x] = 0
    <3> TAKE x \in Vocabulary \ S
    <3>1. row[x] = 0
      BY <1>2, RowSums DEF Possible
    <3>2. Gain(P, Q, u, c.out, Append(r, x)) \in Nat
      <4>1. Append(r, x) \in Texts
        BY <1>2, AppendIs DEF Texts
      <4>2. GainCases(P, Q, u, c.out, Append(r, x))
        BY <1>2, <2>0, <4>1, Gains
      <4>. QED BY <4>2 DEF GainCases
    <3>3. g[x] = 0
      BY <3>1, <3>2, Products
    <3>4. h[x] = k * g[x]
      OBVIOUS
    <3>. HIDE DEF k, h, g
    <3>. QED BY <1>5, <3>3, <3>4, Products
  <2>6. Sum(g, Vocabulary) = Mass * G
    <3>1. ProposedSum(P, Q, u, c.out, r)
      <4>1. Len(c.out) + Len(r) <= MaxEmitted /\ r \in Texts /\ c.out \in Texts
        BY <1>2
      <4>. HIDE DEF r
      <4>. QED BY <2>0, <4>1, GainProposed
    <3>2. Q[Seen(c.out \o r)] = row
      BY <1>2
    <3>. HIDE DEF r
    <3>. QED BY <3>1, <3>2 DEF ProposedSum
  <2>7. G \in Nat /\ Worth(P, Q, u, c) = G
    <3>1. Worth(P, Q, u, c) = G
      BY DEF Worth
    <3>. QED BY <3>1, WorthIs
  <2>. HIDE DEF f, g, h, D, S, b, G, k
  <2>8. Sum(h, S) = Sum(f, D) /\ IsFiniteSet(D)
    BY <1>0, <1>1, <1>7, <2>2, <2>4, SumRenamed
  <2>9. Sum(h, Vocabulary) = Sum(h, S)
    BY <1>0, <2>4, <2>5, SumOnly, VocabularyFinite
  <2>10. Sum(h, Vocabulary) = k * Sum(g, Vocabulary)
    BY <1>5, <2>4, SumScales, VocabularyFinite
  <2>11. k * (Mass * G) = (Mass * k) * G
    BY <1>5, <2>7
  <2>. QED BY <1>6, <2>6, <2>7, <2>8, <2>9, <2>10, <2>11 DEF f, D
<1>10. IsFiniteSet(D)
  BY <1>9, NoOutput
<1>11. Follows(c, m, mu)
  <2>1. DOMAIN m = D /\ \A e \in D : Legal(e)
    BY <1>8 DEF ProposedAs
  <2>. HIDE DEF m, mu, D
  <2>. QED BY <1>8, <1>9, <1>10, <2>1 DEF Follows
<1>. QED BY <1>11

\* A step of the draft: a proposal is added, or the verdicts begin.
LEMMA DraftFollows ==
  ASSUME P \in Targets, Q \in Drafts, NEW c, Legal(c), c.at = "draft"
  PROVE  \E mu : Follows(c, Draft(c), mu)
<1>. DEFINE row == Q[Seen(c.out \o c.proposed)]
            next == IF c.proposed = <<>> THEN "fallback" ELSE "verify"
            e == [c EXCEPT !.at = next]
            stop == \/ Len(c.proposed) = Smaller(c.window, MaxEmitted - Len(c.out))
                    \/ c.proposed # <<>> /\ Last(c.proposed) = eos
                    \/ row = Fails
<1>1. Draft(c) = IF stop THEN Certainly(e)
                 ELSE [d \in ProposedFrom(c, row) |-> Fraction(row[Last(d.proposed)], Mass)]
  BY DEF Draft, ProposedFrom
<1>2. /\ c \in Configurations /\ c.proposed \in Texts /\ c.accepted = 0 /\ c.window \in Nat /\ Len(c.out) \in Nat
      /\ Len(c.proposed) \in Nat /\ Len(c.proposed) <= c.window
      /\ Pending(c) \in Texts /\ Len(Pending(c)) = Len(c.proposed) - c.accepted
      /\ Len(c.out) + Len(Pending(c)) <= MaxEmitted
  BY LegalTypes DEF Legal
<1>3. CASE stop
  <2>1. /\ e \in Configurations /\ e.out = c.out /\ e.proposed = c.proposed /\ e.accepted = c.accepted
        /\ e.at = next /\ next \in Stages
    BY <1>2 DEF Configurations, Stages
  <2>2. Pending(e) = Pending(c)
    BY <2>1 DEF Pending
  <2>3. c.proposed # <<>> => 0 < Len(c.proposed)
    BY <1>2, EmptySeq DEF Texts
  <2>4. Legal(e)
    <3>1. e.at # "done" /\ e.at # "draft" /\ e.at # "bonus"
      BY <2>1
    <3>2. e.at = "verify" => e.accepted < Len(e.proposed)
      BY <1>2, <2>1, <2>3
    <3>3. e.at = "fallback" => e.accepted = Len(e.proposed)
      BY <1>2, <2>1
    <3>4. Open(e.out) /\ Backed(e.out, Pending(e)) /\ Len(e.out) + Len(Pending(e)) <= MaxEmitted /\ e.accepted <= Len(e.proposed)
      BY <2>1, <2>2 DEF Legal
    <3>. HIDE DEF e
    <3>. QED BY <2>1, <3>1, <3>2, <3>3, <3>4 DEF Legal
  <2>5. Draft(c) = Certainly(e)
    BY <1>1, <1>3
  <2>. HIDE DEF e, row, next, stop
  <2>. QED BY <2>1, <2>2, <2>4, <2>5, CertainFollows
<1>4. CASE ~stop
  <2>1. row # Fails /\ Len(c.proposed) # Smaller(c.window, MaxEmitted - Len(c.out))
    BY <1>4
  <2>2. Len(c.proposed) < c.window /\ Len(c.out) + Len(c.proposed) < MaxEmitted
    <3>1. \A n, w, o, m \in Nat : n <= w /\ o + n <= m /\ n # Smaller(w, m - o) => n < w /\ o + n < m
      BY DEF Smaller
    <3>2. Len(Pending(c)) = Len(c.proposed) /\ MaxEmitted \in Nat
      BY <1>2, VocabularyFinite
    <3>. QED BY <1>2, <2>1, <3>1, <3>2
  <2>3. Draft(c) = [d \in ProposedFrom(c, row) |-> Fraction(row[Last(d.proposed)], Mass)]
    BY <1>1, <1>4
  <2>4. \E mu : Follows(c, [d \in ProposedFrom(c, row) |-> Fraction(row[Last(d.proposed)], Mass)], mu)
    <3>. HIDE DEF row, stop, next, e
    <3>1. row = Q[Seen(c.out \o c.proposed)]
      BY DEF row
    <3>. QED BY <2>1, <2>2, <3>1, ProposalFollows
  <2>. QED BY <2>3, <2>4
<1>. QED BY <1>3, <1>4
-----------------------------------------------------------------------------
(* GenerationLaw: verdicts.                                                *)

\* A window is a number.
LEMMA ObservedType ==
  ASSUME NEW w \in Nat, NEW a \in Nat, NEW n \in Nat
  PROVE  Observed(w, a, n) \in Nat
<1>1. MaxDraft \in Nat /\ MinDraft \in Nat
  BY LawAssumption
<1>2. w \div 2 \in Nat
  OBVIOUS
<1>3. Smaller(MaxDraft, w + 1) \in Nat /\ Larger(MinDraft, w \div 2) \in Nat /\ Larger(MinDraft, w - 1) \in Nat
  BY <1>1, <1>2 DEF Smaller, Larger
<1>. QED BY <1>3 DEF Observed

\* What is backed begins with a token that the draft gives, and the rest is backed.
LEMMA BackedRest ==
  ASSUME NEW s \in Texts, NEW r \in Texts, r # <<>>, Backed(s, r)
  PROVE  /\ Q[Seen(s)] # Fails /\ Q[Seen(s)][Head(r)] # 0
         /\ Backed(Append(s, Head(r)), Tail(r))
<1>. DEFINE x == Head(r)
            a == Append(s, x)
            o == Tail(r)
<1>1. /\ x \in Vocabulary /\ o \in Texts /\ Len(r) \in Nat \ {0} /\ Len(o) = Len(r) - 1
      /\ \A i \in 1..Len(o) : o[i] = r[i + 1]
  BY HeadTailProperties, EmptySeq DEF Texts
<1>2. x = r[1] /\ <<x>> \in Texts /\ a = s \o <<x>>
  BY <1>1, AppendProperties DEF Texts
<1>3. Q[Seen(s)] # Fails /\ Q[Seen(s)][x] # 0
  <2>1. 1 \in 1..Len(r)
    BY <1>1
  <2>2. SubSeq(r, 1, 1 - 1) = <<>> /\ s \o <<>> = s
    BY SubSeqEmpty, ConcatEmptySeq DEF Texts
  <2>3. s \o SubSeq(r, 1, 1 - 1) = s
    BY <2>2
  <2>. QED BY <1>2, <2>1, <2>3 DEF Backed
<1>4. ASSUME NEW i \in 1..Len(o)
      PROVE  a \o SubSeq(o, 1, i - 1) = s \o SubSeq(r, 1, i)
  <2>1. i - 1 \in 0..Len(o) /\ i \in 0..Len(r)
    BY <1>1
  <2>2. /\ SubSeq(o, 1, i - 1) \in Texts /\ Len(SubSeq(o, 1, i - 1)) = i - 1
        /\ \A j \in 1..i - 1 : SubSeq(o, 1, i - 1)[j] = o[j]
    <3>. HIDE DEF o
    <3>. QED BY <1>1, <2>1, PrefixProperties DEF Texts
  <2>3. /\ SubSeq(r, 1, i) \in Texts /\ Len(SubSeq(r, 1, i)) = i
        /\ \A j \in 1..i : SubSeq(r, 1, i)[j] = r[j]
    BY <2>1, PrefixProperties DEF Texts
  <2>. DEFINE b == SubSeq(o, 1, i - 1)
  <2>. HIDE DEF o, b
  <2>4. /\ <<x>> \o b \in Texts /\ Len(<<x>> \o b) = i
        /\ \A j \in 1..i : (<<x>> \o b)[j] = IF j <= 1 THEN <<x>>[j] ELSE b[j - 1]
    <3>1. Len(<<x>>) = 1 /\ Len(<<x>>) + Len(b) = i
      BY <2>1, <2>2 DEF b
    <3>2. /\ <<x>> \o b \in Texts /\ Len(<<x>> \o b) = Len(<<x>>) + Len(b)
          /\ \A j \in 1..Len(<<x>>) + Len(b) : (<<x>> \o b)[j] = IF j <= Len(<<x>>) THEN <<x>>[j] ELSE b[j - Len(<<x>>)]
      BY <1>2, <2>2, ConcatProperties DEF Texts, b
    <3>. QED BY <3>1, <3>2
  <2>5. ASSUME NEW j \in 1..i
        PROVE  (<<x>> \o b)[j] = r[j]
    <3>1. CASE j = 1
      BY <1>2, <2>4, <3>1
    <3>2. CASE j # 1
      <4>1. j - 1 \in 1..i - 1 /\ j - 1 \in 1..Len(o) /\ (j - 1) + 1 = j /\ ~(j <= 1)
        BY <2>1, <3>2
      <4>2. b[j - 1] = o[j - 1] /\ o[j - 1] = r[(j - 1) + 1]
        BY <1>1, <2>2, <4>1 DEF b
      <4>. QED BY <2>4, <4>1, <4>2
    <3>. QED BY <3>1, <3>2
  <2>6. <<x>> \o b = SubSeq(r, 1, i)
    BY <2>3, <2>4, <2>5, SeqEqual DEF Texts
  <2>7. (s \o <<x>>) \o b = s \o (<<x>> \o b)
    <3>1. b \in Texts /\ <<x>> \in Texts
      BY <1>2, <2>2 DEF b
    <3>. QED BY <3>1, ConcatAssociative DEF Texts
  <2>. QED BY <1>2, <2>6, <2>7 DEF b
<1>5. ASSUME NEW i \in 1..Len(o)
      PROVE  /\ Q[Seen(a \o SubSeq(o, 1, i - 1))] # Fails
             /\ Q[Seen(a \o SubSeq(o, 1, i - 1))][o[i]] # 0
  <2>1. i + 1 \in 1..Len(r) /\ (i + 1) - 1 = i /\ o[i] = r[i + 1]
    BY <1>1
  <2>2. /\ Q[Seen(s \o SubSeq(r, 1, (i + 1) - 1))] # Fails
        /\ Q[Seen(s \o SubSeq(r, 1, (i + 1) - 1))][r[i + 1]] # 0
    BY <2>1 DEF Backed
  <2>. HIDE DEF a, o
  <2>. QED BY <1>4, <2>1, <2>2
<1>. HIDE DEF a, o
<1>6. Backed(a, o)
  BY <1>5 DEF Backed
<1>. QED BY <1>3, <1>6 DEF a, o

\* The verdict's subject, and where it stands.
LEMMA Verdict ==
  ASSUME NEW c, Legal(c), c.at = "verify"
  PROVE  /\ Open(c.out) /\ Pending(c) # <<>> /\ Backed(c.out, Pending(c))
         /\ Head(Pending(c)) = c.proposed[c.accepted + 1] /\ Head(Pending(c)) \in Vocabulary
         /\ Tail(Pending(c)) = SubSeq(c.proposed, c.accepted + 2, Len(c.proposed))
         /\ Tail(Pending(c)) \in Texts /\ Len(Tail(Pending(c))) = Len(Pending(c)) - 1
         /\ Len(c.out) + Len(Pending(c)) <= MaxEmitted
         /\ Len(Pending(c)) \in Nat \ {0}
<1>1. c.proposed \in Texts /\ c.accepted \in 0..Len(c.proposed) /\ Pending(c) \in Texts
  BY LegalTypes
<1>2. c.accepted < Len(c.proposed) /\ Open(c.out) /\ Backed(c.out, Pending(c)) /\ Len(c.out) + Len(Pending(c)) <= MaxEmitted
  BY DEF Legal
<1>3. /\ Pending(c) # <<>> /\ Head(Pending(c)) = c.proposed[c.accepted + 1]
      /\ Head(Pending(c)) \in Vocabulary
      /\ Tail(Pending(c)) = SubSeq(c.proposed, c.accepted + 2, Len(c.proposed))
  <2>. DEFINE s == c.proposed
              k == c.accepted
  <2>1. Pending(c) = SubSeq(s, k + 1, Len(s))
    BY DEF Pending
  <2>2. s \in Texts /\ k \in 0..Len(s) /\ k < Len(s)
    BY <1>1, <1>2
  <2>. HIDE DEF s, k
  <2>3. /\ SubSeq(s, k + 1, Len(s)) # <<>>
        /\ Head(SubSeq(s, k + 1, Len(s))) = s[k + 1]
        /\ s[k + 1] \in Vocabulary
        /\ Tail(SubSeq(s, k + 1, Len(s))) = SubSeq(s, k + 2, Len(s))
    BY <2>2, PendingIs
  <2>. QED BY <2>1, <2>3 DEF s, k
<1>4. Tail(Pending(c)) \in Texts /\ Len(Tail(Pending(c))) = Len(Pending(c)) - 1
  BY <1>1, <1>3, HeadTailProperties DEF Texts
<1>5. Len(Pending(c)) \in Nat \ {0}
  BY <1>1, <1>3, EmptySeq DEF Texts
<1>. QED BY <1>2, <1>3, <1>4, <1>5

\* What an accepted proposal makes of a configuration.
LEMMA AcceptedIs ==
  ASSUME P \in Targets, Q \in Drafts, NEW c, Legal(c), c.at = "verify"
  PROVE  /\ Legal(Accepted(c))
         /\ Accepted(c).out = Append(c.out, Head(Pending(c)))
         /\ \A u \in Outputs :
              Worth(P, Q, u, Accepted(c)) = Gain(P, Q, u, Append(c.out, Head(Pending(c))), Tail(Pending(c)))
<1>. DEFINE k == c.accepted + 1
            x == Head(Pending(c))
            r == Tail(Pending(c))
            b == [c EXCEPT !.accepted = k]
            e == Emit(b, c.proposed[k], "verify")
            n == Len(c.proposed)
<1>1. /\ c \in Configurations /\ c.out \in Texts /\ c.proposed \in Texts /\ n \in Nat
      /\ c.accepted \in Nat /\ c.accepted < n /\ k \in 1..n /\ k \in 0..n /\ c.window \in Nat /\ Len(c.out) \in Nat
  BY LegalTypes DEF Legal
<1>2. /\ Open(c.out) /\ x = c.proposed[k] /\ x \in Vocabulary /\ r \in Texts
      /\ r = SubSeq(c.proposed, k + 1, n) /\ Pending(c) # <<>> /\ Backed(c.out, Pending(c))
      /\ Len(r) = Len(Pending(c)) - 1 /\ Len(c.out) + Len(Pending(c)) <= MaxEmitted /\ Len(Pending(c)) \in Nat
  <2>1. c.accepted + 2 = k + 1
    BY <1>1
  <2>. QED BY <2>1, Verdict
<1>3. b \in Configurations /\ b.out = c.out /\ b.proposed = c.proposed /\ b.accepted = k /\ b.window = c.window /\ "verify" \in Stages
  BY <1>1 DEF Configurations, Stages
<1>. HIDE DEF b, x, r
<1>4. EmitsTo(b, x, "verify", e)
  <2>1. Open(b.out)
    BY <1>2, <1>3
  <2>. QED BY <1>2, <1>3, <2>1, Emits
<1>5. Accepted(c) = IF e.at = "done" \/ k < n THEN e
                    ELSE [e EXCEPT !.window = Observed(c.window, k, k), !.at = "bonus"]
  BY DEF Accepted, b
<1>. HIDE DEF e
<1>6. e \in Configurations /\ e.out = Append(c.out, x) /\ e.out \in Texts /\ e.out # <<>>
  BY <1>3, <1>4 DEF EmitsTo
<1>7. CASE Ends(e.out)
  <2>1. e.at = "done" /\ Ended(e.out) /\ e = Finished(e.out) /\ e.accepted = 0 /\ e.proposed = <<>>
    BY <1>4, <1>7 DEF EmitsTo
  <2>2. Pending(e) = <<>> /\ Backed(e.out, <<>>)
    BY <1>6, <2>1, NothingPending
  <2>3. Legal(e)
    <3>1. Len(e.out) <= MaxEmitted /\ Len(e.out) \in Nat
      BY <1>6, <2>1, LenProperties DEF Ended, Texts
    <3>2. e.accepted <= Len(e.proposed) /\ Len(e.out) + Len(Pending(e)) <= MaxEmitted
      BY <2>1, <2>2, <3>1
    <3>. QED BY <1>6, <2>1, <2>2, <3>2 DEF Legal
  <2>4. \A u \in Outputs : Worth(P, Q, u, e) = Gain(P, Q, u, e.out, r)
    <3> TAKE u \in Outputs
    <3>1. Gain(P, Q, u, e.out, r) = Gain(P, Q, u, e.out, <<>>)
      BY <1>2, <1>6, <2>1, EndedGain
    <3>. QED BY <2>2, <3>1 DEF Worth
  <2>. QED BY <1>5, <1>6, <2>1, <2>3, <2>4 DEF x, r
<1>8. CASE ~Ends(e.out)
  <2>1. /\ Open(e.out) /\ e.at = "verify" /\ e.proposed = c.proposed /\ e.accepted = k /\ e.window = c.window
    BY <1>3, <1>4, <1>8 DEF EmitsTo
  <2>2. Pending(e) = r
    BY <1>2, <2>1 DEF Pending
  <2>3. Backed(e.out, r)
    BY <1>1, <1>2, <1>6, LegalTypes, BackedRest DEF x, r
  <2>4. Len(e.out) + Len(r) <= MaxEmitted
    <3>1. Len(e.out) = Len(c.out) + 1
      BY <1>1, <1>2, <1>6, AppendIs DEF Texts
    <3>2. \A i, j, m \in Nat : i + j <= m => (i + 1) + (j - 1) <= m
      OBVIOUS
    <3>. QED BY <1>1, <1>2, <3>1, <3>2, VocabularyFinite
  <2>5. \A u \in Outputs : Gain(P, Q, u, e.out, Pending(e)) = Gain(P, Q, u, Append(c.out, x), r)
    BY <1>6, <2>2
  <2>6. CASE k < n
    <3>1. Accepted(c) = e
      BY <1>5, <2>6
    <3>2. Legal(e)
      <4>1. e.accepted <= Len(e.proposed) /\ e.accepted < Len(e.proposed)
        BY <1>1, <2>1, <2>6
      <4>. QED BY <1>6, <2>1, <2>2, <2>3, <2>4, <4>1 DEF Legal
    <3>. QED BY <1>6, <2>5, <3>1, <3>2 DEF x, r, Worth
  <2>7. CASE ~(k < n)
    <3>. DEFINE d == [e EXCEPT !.window = Observed(c.window, k, k), !.at = "bonus"]
    <3>1. Accepted(c) = d
      BY <1>5, <2>1, <2>7
    <3>2. Observed(c.window, k, k) \in Nat /\ "bonus" \in Stages
      <4>1. k \in Nat /\ c.window \in Nat
        BY <1>1
      <4>2. "bonus" \in Stages
        BY DEF Stages
      <4>. HIDE DEF k
      <4>. QED BY <4>1, <4>2, ObservedType
    <3>3. /\ d \in Configurations /\ d.out = e.out /\ d.proposed = e.proposed /\ d.accepted = e.accepted
          /\ d.at = "bonus"
      BY <1>6, <3>2 DEF Configurations
    <3>4. Pending(d) = r
      BY <2>2, <3>3 DEF Pending
    <3>5. Legal(d)
      <4>1. d.accepted <= Len(d.proposed) /\ d.accepted = Len(d.proposed)
        BY <1>1, <2>1, <2>7, <3>3
      <4>2. Open(d.out) /\ Backed(d.out, Pending(d)) /\ Len(d.out) + Len(Pending(d)) <= MaxEmitted
        BY <2>1, <2>3, <2>4, <3>3, <3>4
      <4>. HIDE DEF d
      <4>. QED BY <3>3, <4>1, <4>2 DEF Legal
    <3>. HIDE DEF d
    <3>. QED BY <1>6, <2>2, <2>5, <3>1, <3>3, <3>4, <3>5 DEF x, r, Worth
  <2>. QED BY <2>6, <2>7
<1>. QED BY <1>7, <1>8

\* The two parts of a proposal's probability.
LEMMA VerdictStands ==
  ASSUME NEW p \in Rows, NEW q \in RowTypes, NEW x \in Vocabulary, q[x] # 0
  PROVE  /\ Stands(Fraction(Smaller(p[x], q[x]), q[x]), KeepWeight(p, q, x), Whole)
         /\ Stands(Fraction(q[x] - Smaller(p[x], q[x]), q[x]), LoseWeight(p, q, x), Whole)
<1>. DEFINE k == Kept(p, q, x)
            l == Lost(p, q, x)
            d == q[x]
            v == KeepWeight(p, q, x)
            w == LoseWeight(p, q, x)
<1>1. p \in RowTypes /\ k \in Nat /\ l \in Nat /\ d \in 0..Mass
  BY KeptAndLost, ResidualTotal
<1>2. v \in Nat /\ w \in Nat /\ d * v = k * Whole /\ d * w = l * Whole
  BY Weights
<1>3. d \in Nat \ {0} /\ Whole \in Nat /\ Mass \in Nat
  BY <1>1, VocabularyFinite, WholeSquare
<1>4. k = Smaller(p[x], q[x]) /\ l = q[x] - Smaller(p[x], q[x])
  BY DEF Kept, Lost
<1>. HIDE DEF k, l, d, v, w
<1>5. k * Whole = v * d /\ l * Whole = w * d
  BY <1>1, <1>2, <1>3, Products
<1>6. Stands(Fraction(k, d), v, Whole) /\ Stands(Fraction(l, d), w, Whole)
  BY <1>1, <1>2, <1>3, <1>5, FractionStands
<1>. QED BY <1>4, <1>6 DEF d, v, w

\* The draws of a row, each with a part of the probability.
Parts(c, row, f, w, mu) ==
  \A e \in DrawnFrom(c, row) :
    /\ Legal(e)
    /\ mu[e] \in Nat
    /\ Stands(Times(f, Drawn(c, row)[e]), mu[e], Whole * Whole)

\* Such draws are legal, and worth their part.
LEMMA PartsOfDraw ==
  ASSUME P \in Targets, Q \in Drafts, NEW c \in Configurations, Open(c.out),
         NEW row \in RowTypes, Total(row) \in 0..Mass, NEW f, NEW w \in Nat, Stands(f, w, Whole),
         NEW mu, \A e \in DrawnFrom(c, row) : mu[e] = w * (row[Last(e.out)] * Share[Total(row)])
  PROVE  /\ Parts(c, row, f, w, mu)
         /\ IsFiniteSet(DrawnFrom(c, row)) /\ DOMAIN Drawn(c, row) = DrawnFrom(c, row)
         /\ \A u \in Outputs :
              /\ Amounts([e \in DrawnFrom(c, row) |-> mu[e] * Worth(P, Q, u, e)], DrawnFrom(c, row))
              /\ Sum([e \in DrawnFrom(c, row) |-> mu[e] * Worth(P, Q, u, e)], DrawnFrom(c, row))
                   = (w * Share[Total(row)])
                       * Sum([y \in Vocabulary |-> row[y] * Gain(P, Q, u, Append(c.out, y), <<>>)], Vocabulary)
<1>. DEFINE D == DrawnFrom(c, row)
            S == Share[Total(row)]
<1>1. S \in Nat /\ Whole \in Nat
  BY Shares
<1>2. IsFiniteSet(D) /\ \A e \in D : row[Last(e.out)] \in Nat
  BY NoOutput, DrawnSum
<1>3. DOMAIN Drawn(c, row) = D
  BY DEF Drawn, DrawnFrom
<1>4. ASSUME NEW e \in D
      PROVE  Legal(e) /\ mu[e] \in Nat /\ Stands(Times(f, Drawn(c, row)[e]), mu[e], Whole * Whole)
  <2>. DEFINE v == row[Last(e.out)] * S
  <2>1. Legal(e)
    BY DrawnEach DEF DrawnAs
  <2>2. v \in Nat
    BY <1>1, <1>2, Products
  <2>3. Stands(Drawn(c, row)[e], v, Whole)
    BY DrawnStands
  <2>4. mu[e] = w * v
    OBVIOUS
  <2>. HIDE DEF v, D
  <2>5. Stands(Times(f, Drawn(c, row)[e]), w * v, Whole * Whole)
    BY <1>1, <2>2, <2>3, TimesStands
  <2>6. w * v \in Nat
    BY <2>2, Products
  <2>. QED BY <2>1, <2>4, <2>5, <2>6
<1>5. ASSUME NEW u \in Outputs
      PROVE  /\ Amounts([e \in D |-> mu[e] * Worth(P, Q, u, e)], D)
             /\ Sum([e \in D |-> mu[e] * Worth(P, Q, u, e)], D)
                  = (w * S) * Sum([y \in Vocabulary |-> row[y] * Gain(P, Q, u, Append(c.out, y), <<>>)], Vocabulary)
  <2>. DEFINE a == [e \in D |-> row[Last(e.out)] * Worth(P, Q, u, e)]
              b == [e \in D |-> mu[e] * Worth(P, Q, u, e)]
              h == [y \in Vocabulary |-> row[y] * Gain(P, Q, u, Append(c.out, y), <<>>)]
  <2>1. /\ \A e \in D : row[Last(e.out)] \in Nat /\ Worth(P, Q, u, e) \in Nat
        /\ Sum(a, D) = Sum(h, Vocabulary)
    BY DrawnSum
  <2>2. w * S \in Nat
    BY <1>1, Products
  <2>3. ASSUME NEW e \in D
        PROVE  a[e] \in Nat /\ b[e] = (w * S) * a[e] /\ b[e] \in Nat
    <3>. DEFINE n == row[Last(e.out)]
                g == Worth(P, Q, u, e)
    <3>1. n \in Nat /\ g \in Nat /\ a[e] = n * g /\ b[e] = mu[e] * g /\ mu[e] = w * (n * S)
      BY <2>1
    <3>. HIDE DEF n, g, a, b, S, D
    <3>2. a[e] \in Nat
      BY <3>1, Products
    <3>3. (w * (n * S)) * g = (w * S) * (n * g)
      BY <1>1, <3>1
    <3>4. b[e] \in Nat
      BY <2>2, <3>1, <3>2, <3>3, Products
    <3>. QED BY <3>1, <3>2, <3>3, <3>4
  <2>4. Amounts(a, D) /\ Multiples(w * S, a, b, D) /\ Amounts(b, D)
    BY <2>3 DEF Amounts, Multiples
  <2>. HIDE DEF a, b, h, D
  <2>5. Sum(b, D) = (w * S) * Sum(a, D)
    BY <1>2, <2>2, <2>4, SumScales
  <2>. QED BY <2>1, <2>4, <2>5 DEF a, b, h, D
<1>. QED BY <1>2, <1>3, <1>4, <1>5 DEF Parts

\* What a round becomes that loses a proposal.
Base(c) == [c EXCEPT !.window = Observed(c.window, c.accepted, Len(c.proposed))]

\* A round that loses a proposal keeps its output.
LEMMA BaseIs ==
  ASSUME NEW c, Legal(c)
  PROVE  Base(c) \in Configurations /\ Base(c).out = c.out
<1>1. c \in Configurations /\ c.window \in Nat /\ c.accepted \in Nat /\ Len(c.proposed) \in Nat
  BY LegalTypes
<1>2. Observed(c.window, c.accepted, Len(c.proposed)) \in Nat
  BY <1>1, ObservedType
<1>. QED BY <1>1, <1>2 DEF Base, Configurations

\* A verdict, read off.
VerifyIs(c, p, q, x, D, m) ==
  /\ DOMAIN m = (IF Kept(p, q, x) = 0 THEN {} ELSE {Accepted(c)}) \cup (IF Kept(p, q, x) = q[x] THEN {} ELSE D)
  /\ \A e \in DOMAIN m :
       m[e] = IF Kept(p, q, x) # 0 /\ e = Accepted(c) THEN Fraction(Smaller(p[x], q[x]), q[x])
              ELSE Times(Fraction(q[x] - Smaller(p[x], q[x]), q[x]), Drawn(Base(c), Residual(p, q))[e])

\* The successors of a verdict are these.
LEMMA Verified ==
  ASSUME NEW c
  PROVE  VerifyIs(c, P[Seen(c.out)], Q[Seen(c.out)], c.proposed[c.accepted + 1],
                  DrawnFrom(Base(c), Residual(P[Seen(c.out)], Q[Seen(c.out)])), Verify(c))
<1>. DEFINE p == P[Seen(c.out)]
            q == Q[Seen(c.out)]
            x == c.proposed[c.accepted + 1]
            k == Smaller(p[x], q[x])
            r == Drawn(Base(c), Residual(p, q))
            A == IF k = 0 THEN {} ELSE {Accepted(c)}
            B == IF k = q[x] THEN {} ELSE DOMAIN r
            D == DrawnFrom(Base(c), Residual(p, q))
            m == Verify(c)
<1>1. m = [d \in A \cup B |-> IF d \in A THEN Fraction(k, q[x]) ELSE Times(Fraction(q[x] - k, q[x]), r[d])]
  BY DEF Verify, TargetRow, Base
<1>2. DOMAIN r = D
  BY DEF Drawn, DrawnFrom
<1>3. k = Kept(p, q, x)
  BY DEF Kept
<1>. HIDE DEF m, r, D, p, q, x
<1>4. DOMAIN m = (IF Kept(p, q, x) = 0 THEN {} ELSE {Accepted(c)}) \cup (IF Kept(p, q, x) = q[x] THEN {} ELSE D)
  BY <1>1, <1>2, <1>3
<1>5. ASSUME NEW e \in DOMAIN m
      PROVE  m[e] = IF Kept(p, q, x) # 0 /\ e = Accepted(c) THEN Fraction(Smaller(p[x], q[x]), q[x])
                    ELSE Times(Fraction(q[x] - Smaller(p[x], q[x]), q[x]), Drawn(Base(c), Residual(p, q))[e])
  <2>1. m[e] = IF e \in A THEN Fraction(k, q[x]) ELSE Times(Fraction(q[x] - k, q[x]), r[e])
    BY <1>1, <1>5
  <2>2. e \in A <=> Kept(p, q, x) # 0 /\ e = Accepted(c)
    BY <1>3
  <2>. QED BY <2>1, <2>2 DEF r
<1>6. VerifyIs(c, p, q, x, D, m)
  BY <1>4, <1>5 DEF VerifyIs
<1>. QED BY <1>6 DEF m, p, q, x, D

\* What a verdict needs: the rows, the proposal, and what the two ways are worth.
VerdictWorth(c, p, q, x, u) ==
  (KeepWeight(p, q, x) * Whole) * Worth(P, Q, u, Accepted(c))
    + (LoseWeight(p, q, x) * Share[Total(Residual(p, q))])
        * Sum([y \in Vocabulary |-> Residual(p, q)[y] * Gain(P, Q, u, Append(c.out, y), <<>>)], Vocabulary)
    = (Whole * Whole) * Worth(P, Q, u, c)

\* The rows of a verdict, and what its two ways are worth together.
LEMMA VerdictRows ==
  ASSUME P \in Targets, Q \in Drafts, NEW c, Legal(c), c.at = "verify",
         NEW p, p = P[Seen(c.out)], NEW q, q = Q[Seen(c.out)], NEW x, x = Head(Pending(c))
  PROVE  /\ p \in Rows /\ q \in Rows /\ p \in RowTypes /\ q \in RowTypes
         /\ x \in Vocabulary /\ q[x] # 0 /\ Open(c.out)
         /\ \A u \in Outputs : VerdictWorth(c, p, q, x, u)
<1>. DEFINE s == c.out
            r == Pending(c)
<1>1. s \in Texts /\ Len(s) \in Nat /\ Len(s) <= MaxEmitted /\ r \in Texts
  BY LegalTypes
<1>2. Open(s) /\ r # <<>> /\ Backed(s, r) /\ x \in Vocabulary /\ Len(s) + Len(r) <= MaxEmitted
  BY Verdict
<1>3. q # Fails /\ q[x] # 0
  BY <1>1, <1>2, BackedRest
<1>4. p \in Rows /\ q \in Rows
  BY <1>1, <1>3, RowsAre
<1>5. p \in RowTypes /\ q \in RowTypes
  BY <1>4 DEF Rows, RowTypes
<1>6. ASSUME NEW u \in Outputs
      PROVE  VerdictWorth(c, p, q, x, u)
  <2>. DEFINE h == [y \in Vocabulary |-> Residual(p, q)[y] * Gain(P, Q, u, Append(s, y), <<>>)]
  <2>1. u \in Texts /\ Len(u) <= MaxEmitted
    BY DEF Outputs
  <2>2. \A y \in Vocabulary : h[y] = Residual(p, q)[y] * Gain(P, Q, u, Append(s, y), <<>>)
    OBVIOUS
  <2>3. Worth(P, Q, u, Accepted(c)) = Gain(P, Q, u, Append(s, Head(r)), Tail(r))
    BY AcceptedIs
  <2>4. Worth(P, Q, u, c) = Gain(P, Q, u, s, r)
    BY DEF Worth
  <2>. HIDE DEF h, s, r
  <2>5. q[Head(r)] # 0 /\ p = P[Seen(s)] /\ q = Q[Seen(s)] /\ x = Head(r)
    BY <1>3 DEF r, s
  <2>6. (KeepWeight(p, q, Head(r)) * Whole) * Gain(P, Q, u, Append(s, Head(r)), Tail(r))
           + (LoseWeight(p, q, Head(r)) * Share[Total(Residual(p, q))]) * Sum(h, Vocabulary)
           = (Whole * Whole) * Gain(P, Q, u, s, r)
    BY <1>1, <1>2, <1>3, <2>1, <2>2, <2>5, GainVerified, SMTT(60)
  <2>7. h = [y \in Vocabulary |-> Residual(p, q)[y] * Gain(P, Q, u, Append(c.out, y), <<>>)]
    BY DEF h, s
  <2>. QED BY <2>3, <2>4, <2>5, <2>6, <2>7 DEF VerdictWorth
<1>. QED BY <1>2, <1>3, <1>4, <1>5, <1>6

\* A verdict: the proposal is kept, or a token of the residual takes its place.
LEMMA VerifyFollows ==
  ASSUME P \in Targets, Q \in Drafts, NEW c, Legal(c), c.at = "verify"
  PROVE  \E mu : Follows(c, Verify(c), mu)
<1>. DEFINE s == c.out
            p == P[Seen(s)]
            q == Q[Seen(s)]
            x == Head(Pending(c))
            res == Residual(p, q)
            b == Base(c)
            D == DrawnFrom(b, res)
            a == Accepted(c)
            K == KeepWeight(p, q, x)
            L == LoseWeight(p, q, x)
            S == Share[Total(res)]
            f == Fraction(q[x] - Smaller(p[x], q[x]), q[x])
            g == Fraction(Smaller(p[x], q[x]), q[x])
            lost == [e \in D |-> L * (res[Last(e.out)] * S)]
            mu == [e \in D \cup {a} |-> IF e = a THEN K * Whole ELSE lost[e]]
            m == Verify(c)
<1>1. /\ p \in Rows /\ q \in Rows /\ p \in RowTypes /\ q \in RowTypes
      /\ x \in Vocabulary /\ q[x] # 0 /\ Open(s)
      /\ \A u \in Outputs : VerdictWorth(c, p, q, x, u)
  BY VerdictRows
<1>2. b \in Configurations /\ b.out = s
  BY BaseIs
<1>3. Open(b.out)
  BY <1>1, <1>2
<1>4. res \in RowTypes /\ Total(res) \in 0..Mass
  BY <1>1, KeptAndLost, ResidualTotal
<1>5. K \in Nat /\ L \in Nat /\ Whole \in Nat /\ S \in Nat /\ K * Whole \in Nat
  <2>1. K \in Nat /\ L \in Nat
    BY <1>1, Weights
  <2>2. Whole \in Nat /\ S \in Nat
    BY <1>4, Shares
  <2>. QED BY <2>1, <2>2, Products
<1>6. Stands(g, K, Whole) /\ Stands(f, L, Whole)
  BY <1>1, VerdictStands
<1>7. Stands(g, K * Whole, Whole * Whole)
  BY <1>5, <1>6, StandsScaled
<1>8. Legal(a) /\ a.out = Append(s, x)
  BY AcceptedIs
<1>9. VerifyIs(c, p, q, x, D, m)
  <2>1. x = c.proposed[c.accepted + 1]
    BY Verdict
  <2>. QED BY <2>1, Verified
<1>10. /\ Parts(b, res, f, L, lost) /\ IsFiniteSet(D)
       /\ \A u \in Outputs :
            /\ Amounts([e \in D |-> lost[e] * Worth(P, Q, u, e)], D)
            /\ Sum([e \in D |-> lost[e] * Worth(P, Q, u, e)], D)
                 = (L * S) * Sum([y \in Vocabulary |-> res[y] * Gain(P, Q, u, Append(s, y), <<>>)], Vocabulary)
  <2>1. \A e \in DrawnFrom(b, res) : lost[e] = L * (res[Last(e.out)] * Share[Total(res)])
    OBVIOUS
  <2>. HIDE DEF lost, b, res, f, L
  <2>. QED BY <1>2, <1>3, <1>4, <1>5, <1>6, <2>1, PartsOfDraw
<1>11. \A e \in D : Legal(e) /\ lost[e] \in Nat /\ Stands(Times(f, Drawn(b, res)[e]), lost[e], Whole * Whole)
  BY <1>10 DEF Parts
<1>12. /\ Kept(p, q, x) = q[x] => L = 0
       /\ Kept(p, q, x) = 0 => K = 0
       /\ Kept(p, q, x) # q[x] => a \notin D
       /\ Kept(p, q, x) \in Nat
  <2>. DEFINE k == Kept(p, q, x)
              l == Lost(p, q, x)
  <2>1. k \in Nat /\ l \in Nat /\ q[x] = k + l /\ q[x] \in Nat /\ (l # 0 => res[x] = 0)
    <3>1. k \in Nat /\ l \in Nat /\ q[x] = k + l /\ (l # 0 => res[x] = 0)
      BY <1>1, KeptAndLost
    <3>2. k + l \in Nat
      BY <3>1
    <3>. QED BY <3>1, <3>2
  <2>2. Share[q[x]] \in Nat
    <3>1. q[x] \in 0..Mass
      BY <1>1, KeptAndLost
    <3>. QED BY <3>1, Shares
  <2>3. K = k * Share[q[x]] /\ L = l * Share[q[x]]
    BY DEF KeepWeight, LoseWeight
  <2>4. ASSUME k # q[x], a \in D
        PROVE  FALSE
    <3>1. l # 0
      BY <2>1, <2>4
    <3>2. Last(a.out) \in Possible(res)
      BY <1>2, <1>3, <1>4, <2>4, DrawnEach DEF DrawnAs
    <3>3. Last(a.out) = x
      <4>1. s \in Texts
        BY LegalTypes
      <4>. QED BY <1>1, <1>8, <4>1, AppendIs DEF Texts
    <3>4. res[x] > 0 /\ res[x] = 0
      BY <2>1, <3>1, <3>2, <3>3 DEF Possible
    <3>. QED BY <3>4
  <2>5. k = q[x] => l = 0
    BY <2>1
  <2>. HIDE DEF k, l
  <2>6. l = 0 => l * Share[q[x]] = 0
    BY <2>2, Products
  <2>7. k = 0 => k * Share[q[x]] = 0
    BY <2>2, Products
  <2>. QED BY <2>1, <2>3, <2>4, <2>5, <2>6, <2>7 DEF k, l
<1>. DEFINE A == IF Kept(p, q, x) = 0 THEN {} ELSE {a}
            B == IF Kept(p, q, x) = q[x] THEN {} ELSE D
<1>13. /\ DOMAIN m = A \cup B
       /\ \A e \in DOMAIN m : m[e] = IF Kept(p, q, x) # 0 /\ e = a THEN g ELSE Times(f, Drawn(b, res)[e])
  BY <1>9 DEF VerifyIs
<1>. HIDE DEF s, p, q, x, res, b, D, K, L, S, a, f, g, m, lost
<1>14. /\ IsFiniteSet(A \cup B) /\ IsFiniteSet(A) /\ IsFiniteSet(B)
       /\ A \in SUBSET {a} /\ B \in SUBSET D /\ A \cap B = {}
  <2>1. IsFiniteSet(A) /\ IsFiniteSet(B)
    BY <1>10, FS_Singleton, FS_EmptySet
  <2>2. A \cap B = {}
    BY <1>12
  <2>. QED BY <2>1, <2>2, FS_Union
<1>15. ASSUME NEW e \in DOMAIN m
       PROVE  Legal(e) /\ mu[e] \in Nat /\ Stands(m[e], mu[e], Whole * Whole)
  <2>1. CASE e \in A
    <3>1. e = a /\ Kept(p, q, x) # 0 /\ mu[e] = K * Whole
      BY <2>1
    <3>2. m[e] = g
      BY <1>13, <1>15, <3>1
    <3>. QED BY <1>5, <1>7, <1>8, <3>1, <3>2
  <2>2. CASE e \notin A
    <3>1. e \in B /\ e \in D
      BY <1>13, <1>14, <1>15, <2>2
    <3>2. e # a
      BY <1>12, <3>1
    <3>3. m[e] = Times(f, Drawn(b, res)[e]) /\ mu[e] = lost[e]
      BY <1>13, <1>15, <3>1, <3>2
    <3>. QED BY <1>11, <3>1, <3>3
  <2>. QED BY <2>1, <2>2
<1>16. ASSUME NEW u \in Outputs
       PROVE  Sum([e \in DOMAIN m |-> mu[e] * Worth(P, Q, u, e)], DOMAIN m) = (Whole * Whole) * Worth(P, Q, u, c)
  <2>. DEFINE h == [e \in DOMAIN m |-> mu[e] * Worth(P, Q, u, e)]
              z == [e \in D |-> lost[e] * Worth(P, Q, u, e)]
              ga == Worth(P, Q, u, a)
              H == Sum([y \in Vocabulary |-> res[y] * Gain(P, Q, u, Append(s, y), <<>>)], Vocabulary)
              G == Worth(P, Q, u, c)
  <2>1. (K * Whole) * ga + (L * S) * H = (Whole * Whole) * G
    BY <1>1 DEF VerdictWorth, s, p, q, x, res, a, K, L, S
  <2>2. Amounts(z, D) /\ Sum(z, D) = (L * S) * H
    BY <1>10
  <2>3. ga \in Nat /\ G \in Nat
    BY <1>8, WorthIs
  <2>4. \A e \in A : h[e] = (K * Whole) * ga
    BY <1>13, <1>14
  <2>5. \A e \in B : h[e] = z[e] /\ h[e] \in Nat
    <3> TAKE e \in B
    <3>1. e \in D /\ e # a /\ e \in DOMAIN m
      BY <1>12, <1>13, <1>14
    <3>2. mu[e] = lost[e]
      BY <3>1
    <3>3. h[e] = z[e]
      BY <3>1, <3>2
    <3>4. z[e] \in Nat
      BY <2>2, <3>1 DEF Amounts
    <3>. QED BY <3>3, <3>4
  <2>6. (K * Whole) * ga \in Nat
    BY <1>5, <2>3, Products
  <2>7. Sum(z, D) \in Nat
    BY <1>10, <2>2, SumType
  <2>. HIDE DEF z, ga, H, G, A, B, mu
  <2>8. Amounts(h, A) /\ Amounts(h, B) /\ Amounts(h, A \cup B)
    BY <2>4, <2>5, <2>6 DEF Amounts
  <2>. HIDE DEF h
  <2>9. Sum(h, A) = (K * Whole) * ga
    <3>1. CASE Kept(p, q, x) = 0
      <4>1. A = {} /\ K = 0
        BY <1>12, <3>1 DEF A
      <4>2. (K * Whole) * ga = 0
        BY <1>5, <2>3, <4>1, Products
      <4>. QED BY <1>14, <2>8, <4>1, <4>2, SumType
    <3>2. CASE Kept(p, q, x) # 0
      <4>1. A = {a} /\ a \in A
        BY <3>2 DEF A
      <4>2. h[a] \in Nat /\ h[a] = (K * Whole) * ga /\ \A y \in A : y # a => h[y] = 0
        BY <2>4, <2>6, <4>1
      <4>. QED BY <1>14, <4>1, <4>2, SumOne
    <3>. QED BY <3>1, <3>2
  <2>10. Sum(h, B) = Sum(z, D)
    <3>1. CASE Kept(p, q, x) = q[x]
      <4>1. B = {} /\ L = 0
        BY <1>12, <3>1 DEF B
      <4>2. IsFiniteSet(Vocabulary)
        BY VocabularyFinite
      <4>3. H \in Nat
        <5>. DEFINE w == [y \in Vocabulary |-> res[y] * Gain(P, Q, u, Append(s, y), <<>>)]
        <5>1. ASSUME NEW y \in Vocabulary
              PROVE  w[y] \in Nat
          <6>1. s \in Texts /\ <<>> \in Texts /\ u \in Texts /\ Len(u) <= MaxEmitted
            BY LegalTypes, EmptySeq DEF s, Outputs, Texts
          <6>2. Append(s, y) \in Texts
            BY <6>1, AppendIs DEF Texts
          <6>3. GainCases(P, Q, u, Append(s, y), <<>>)
            BY <6>1, <6>2, Gains
          <6>4. Gain(P, Q, u, Append(s, y), <<>>) \in Nat /\ res[y] \in Nat
            BY <1>4, <6>3, RowSums DEF GainCases
          <6>. QED BY <6>4, Products
        <5>2. Amounts(w, Vocabulary)
          BY <5>1 DEF Amounts
        <5>. HIDE DEF w
        <5>3. Sum(w, Vocabulary) \in Nat
          BY <4>2, <5>2, SumType
        <5>. QED BY <5>3 DEF H, w
      <4>4. (L * S) * H = 0
        BY <1>5, <4>1, <4>3, Products
      <4>. QED BY <1>14, <2>2, <2>8, <4>1, <4>4, SumType
    <3>2. CASE Kept(p, q, x) # q[x]
      <4>1. B = D
        BY <3>2 DEF B
      <4>2. Matches(h, z, D)
        BY <2>5, <4>1 DEF Matches
      <4>. QED BY <1>10, <2>8, <4>1, <4>2, SumAgree
    <3>. QED BY <3>1, <3>2
  <2>11. Sum(h, A \cup B) = Sum(h, A) + Sum(h, B)
    <3>1. (A \cup B) \ A = B
      BY <1>14
    <3>. QED BY <1>14, <2>8, <3>1, SumParts
  <2>12. Sum(h, DOMAIN m) = (Whole * Whole) * G
    BY <1>13, <2>1, <2>2, <2>9, <2>10, <2>11
  <2>. QED BY <2>12 DEF h, G
<1>. HIDE DEF mu, A, B
<1>17. Follows(c, m, mu)
  BY <1>13, <1>14, <1>15, <1>16 DEF Follows
<1>. QED BY <1>17 DEF m
-----------------------------------------------------------------------------
(* GenerationLaw: the law after a step.                                    *)

\* Each configuration has successors that are worth what it is.
LEMMA MovesFollow ==
  ASSUME P \in Targets, Q \in Drafts, NEW c, Legal(c)
  PROVE  \E mu : Follows(c, Moves(c), mu)
<1>1. c.at \in Stages
  BY LegalTypes DEF Configurations
<1>2. CASE c.at = "draft"
  BY <1>2, DraftFollows DEF Moves
<1>3. CASE c.at = "verify"
  BY <1>3, VerifyFollows DEF Moves
<1>4. CASE c.at \in {"bonus", "fallback"}
  <2>1. c.accepted = Len(c.proposed) /\ c.at # "done"
    BY <1>4 DEF Legal
  <2>2. Moves(c) = Drawn(c, P[Seen(c.out)])
    BY <1>4 DEF Moves
  <2>. QED BY <2>1, <2>2, TargetFollows
<1>5. CASE c.at = "done"
  <2>1. Moves(c) = Certainly(c)
    BY <1>5 DEF Moves
  <2>. QED BY <2>1, CertainFollows
<1>. QED BY <1>1, <1>2, <1>3, <1>4, <1>5 DEF Stages

\* A mixture of mixtures: what the successors are worth, with the probabilities
\* of what they come from.
Mixes(C, E, dom, w, mu, part, g, K, b) ==
  /\ IsFiniteSet(C) /\ IsFiniteSet(E)
  /\ \A c \in C : dom[c] \in SUBSET E
  /\ Amounts(w, C)
  /\ \A c \in C : \A d \in dom[c] : mu[c][d] \in Nat
  /\ part \in [C -> [E -> Nat]]
  /\ \A c \in C, d \in E : part[c][d] = IF d \in dom[c] THEN w[c] * mu[c][d] ELSE 0
  /\ Amounts(g, E)
  /\ K \in Nat
  /\ Amounts(b, C)
  /\ \A c \in C : Sum([d \in dom[c] |-> mu[c][d] * g[d]], dom[c]) = K * b[c]

\* They are worth together what the configurations are.
LEMMA Mixture ==
  ASSUME NEW C, NEW E, NEW dom, NEW w, NEW mu, NEW part, NEW g, NEW K, NEW b,
         Mixes(C, E, dom, w, mu, part, g, K, b)
  PROVE  Sum([d \in E |-> Sum([c \in C |-> part[c][d]], C) * g[d]], E) = K * Sum([c \in C |-> w[c] * b[c]], C)
<1>0. /\ IsFiniteSet(C) /\ IsFiniteSet(E)
      /\ \A c \in C : dom[c] \in SUBSET E
      /\ Amounts(w, C)
      /\ \A c \in C : \A d \in dom[c] : mu[c][d] \in Nat
      /\ part \in [C -> [E -> Nat]]
      /\ \A c \in C, d \in E : part[c][d] = IF d \in dom[c] THEN w[c] * mu[c][d] ELSE 0
      /\ Amounts(g, E)
      /\ K \in Nat
      /\ Amounts(b, C)
      /\ \A c \in C : Sum([d \in dom[c] |-> mu[c][d] * g[d]], dom[c]) = K * b[c]
  BY DEF Mixes
<1>. DEFINE f == [c \in C |-> [d \in E |-> part[c][d] * g[d]]]
            col(d) == [c \in C |-> f[c][d]]
            raw(d) == [c \in C |-> part[c][d]]
            left == [d \in E |-> Sum(raw(d), C) * g[d]]
            byCol == [d \in E |-> Sum(col(d), C)]
            byRow == [c \in C |-> Sum(f[c], E)]
            z == [c \in C |-> w[c] * b[c]]
<1>1. \A c \in C, d \in E : part[c][d] \in Nat /\ g[d] \in Nat /\ f[c][d] = part[c][d] * g[d]
  BY <1>0 DEF Amounts
<1>2. \A c \in C, d \in E : f[c][d] \in Nat
  BY <1>1, Products
<1>3. f \in [C -> [E -> Nat]]
  BY <1>2
<1>. HIDE DEF f
<1>4. ASSUME NEW d \in E
      PROVE  left[d] = byCol[d] /\ byCol[d] \in Nat
  <2>1. \A c \in C : raw(d)[c] \in Nat /\ col(d)[c] \in Nat /\ col(d)[c] = g[d] * raw(d)[c]
    BY <1>1, <1>2, Products
  <2>2. Amounts(raw(d), C) /\ Amounts(col(d), C) /\ Multiples(g[d], raw(d), col(d), C) /\ g[d] \in Nat
    <3>1. g[d] \in Nat
      BY <1>0 DEF Amounts
    <3>. QED BY <2>1, <3>1 DEF Amounts, Multiples
  <2>3. left[d] = Sum(raw(d), C) * g[d] /\ byCol[d] = Sum(col(d), C)
    OBVIOUS
  <2>. HIDE DEF raw, col, left, byCol
  <2>4. Sum(col(d), C) = g[d] * Sum(raw(d), C) /\ Sum(col(d), C) \in Nat /\ Sum(raw(d), C) \in Nat
    BY <1>0, <2>2, SumScales, SumType
  <2>. QED BY <2>2, <2>3, <2>4, Products
<1>5. Sum(left, E) = Sum(byCol, E)
  <2>1. Amounts(left, E) /\ Matches(left, byCol, E)
    BY <1>4 DEF Amounts, Matches
  <2>. HIDE DEF left, byCol
  <2>. QED BY <1>0, <2>1, SumAgree
<1>6. Sum(byRow, C) = Sum(byCol, E)
  BY <1>0, <1>3, SumTable
<1>7. ASSUME NEW c \in C
      PROVE  byRow[c] = K * z[c] /\ z[c] \in Nat
  <2>. DEFINE D == dom[c]
              h == [d \in D |-> mu[c][d] * g[d]]
              F == f[c]
  <2>1. D \in SUBSET E /\ w[c] \in Nat /\ b[c] \in Nat
    BY <1>0 DEF Amounts
  <2>2. IsFiniteSet(D)
    BY <1>0, <2>1, FS_Subset
  <2>3. \A d \in D : mu[c][d] \in Nat /\ g[d] \in Nat /\ h[d] = mu[c][d] * g[d] /\ F[d] = (w[c] * mu[c][d]) * g[d]
    <3> TAKE d \in D
    <3>1. d \in E /\ part[c][d] = w[c] * mu[c][d] /\ mu[c][d] \in Nat
      BY <1>0, <2>1
    <3>. QED BY <1>1, <3>1
  <2>4. \A d \in D : h[d] \in Nat /\ F[d] = w[c] * h[d] /\ F[d] \in Nat
    <3> TAKE d \in D
    <3>0. \A i, j, k \in Nat : (i * j) * k = i * (j * k) /\ j * k \in Nat
      BY Products
    <3>1. (w[c] * mu[c][d]) * g[d] = w[c] * (mu[c][d] * g[d]) /\ mu[c][d] * g[d] \in Nat
      <4>. DEFINE i == w[c]
                  j == mu[c][d]
                  k == g[d]
      <4>1. i \in Nat /\ j \in Nat /\ k \in Nat
        BY <2>1, <2>3
      <4>. HIDE DEF i, j, k
      <4>2. (i * j) * k = i * (j * k) /\ j * k \in Nat
        BY <3>0, <4>1
      <4>. QED BY <4>2 DEF i, j, k
    <3>2. w[c] * (mu[c][d] * g[d]) \in Nat
      BY <2>1, <3>1, Products
    <3>. QED BY <2>3, <3>1, <3>2
  <2>5. \A d \in E \ D : F[d] = 0
    <3> TAKE d \in E \ D
    <3>1. part[c][d] = 0 /\ g[d] \in Nat /\ F[d] = part[c][d] * g[d]
      BY <1>0, <1>1
    <3>. QED BY <3>1, Products
  <2>6. Amounts(h, D) /\ Amounts(F, D) /\ Multiples(w[c], h, F, D)
    BY <2>4 DEF Amounts, Multiples
  <2>7. Sum(h, D) = K * b[c] /\ byRow[c] = Sum(F, E) /\ z[c] = w[c] * b[c]
    BY <1>0
  <2>. HIDE DEF h, F, byRow, z, D
  <2>8. Sum(F, E) = Sum(F, D)
    BY <1>0, <2>1, <2>5, <2>6, SumOnly
  <2>9. Sum(F, D) = w[c] * Sum(h, D)
    BY <1>0, <2>1, <2>2, <2>6, SumScales
  <2>10. w[c] * (K * b[c]) = K * (w[c] * b[c]) /\ w[c] * b[c] \in Nat
    BY <1>0, <2>1, Products
  <2>. QED BY <2>7, <2>8, <2>9, <2>10
<1>8. Sum(byRow, C) = K * Sum(z, C)
  <2>1. Amounts(z, C) /\ Multiples(K, z, byRow, C)
    BY <1>7 DEF Amounts, Multiples
  <2>. HIDE DEF z, byRow
  <2>. QED BY <1>0, <2>1, SumScales
<1>. QED BY <1>5, <1>6, <1>8

\* The probabilities are parts of N, and together the configurations are worth
\* what the call was when it began.
Carries(l, N, w) ==
  /\ N \in Nat \ {0}
  /\ Amounts(w, DOMAIN l)
  /\ \A c \in DOMAIN l : Stands(l[c], w[c], N)
  /\ \A u \in Outputs :
       Sum([c \in DOMAIN l |-> w[c] * Worth(P, Q, u, c)], DOMAIN l) = N * Worth(P, Q, u, Start)

Measured(l) == /\ IsFiniteSet(DOMAIN l)
               /\ \A c \in DOMAIN l : Legal(c)
               /\ \E N, w : Carries(l, N, w)

\* A call begins with nothing.
LEMMA StartLegal ==
  Legal(Start)
<1>1. InitialDraft \in Nat /\ MaxEmitted \in Nat \ {0} /\ <<>> \in Texts
  BY LawAssumption, EmptySeq DEF Texts
<1>2. Start \in Configurations /\ Start.out = <<>> /\ Start.at = "draft" /\ Start.proposed = <<>>
      /\ Start.accepted = 0 /\ Start.window = InitialDraft
  BY <1>1 DEF Start, Configurations, Stages
<1>. HIDE DEF Start
<1>3. Len(<<>>) = 0
  OBVIOUS
<1>4. Open(<<>>)
  BY <1>1, <1>3 DEF Open
<1>5. Pending(Start) = <<>> /\ Backed(<<>>, <<>>)
  BY <1>2, <1>3, NothingPending
<1>6. Len(<<>>) <= InitialDraft /\ Len(<<>>) + Len(<<>>) <= MaxEmitted
  BY <1>1, <1>3
<1>. QED BY <1>2, <1>3, <1>4, <1>5, <1>6 DEF Legal

\* The law of a call that begins.
LEMMA MeasuredInit ==
  ASSUME P \in Targets, Q \in Drafts, law = [c \in {Start} |-> <<1, 1>>]
  PROVE  Measured(law)
<1>. DEFINE w == [c \in {Start} |-> 1]
<1>1. DOMAIN law = {Start} /\ IsFiniteSet({Start}) /\ \A c \in {Start} : Legal(c)
  BY StartLegal, FS_Singleton
<1>2. Amounts(w, {Start}) /\ \A c \in {Start} : Stands(law[c], w[c], 1)
  <2>1. Stands(<<1, 1>>, 1, 1)
    BY FractionTypes DEF Stands
  <2>. QED BY <2>1 DEF Amounts
<1>3. ASSUME NEW u \in Outputs
      PROVE  Sum([c \in {Start} |-> w[c] * Worth(P, Q, u, c)], {Start}) = 1 * Worth(P, Q, u, Start)
  <2>. DEFINE h == [c \in {Start} |-> w[c] * Worth(P, Q, u, c)]
  <2>1. Worth(P, Q, u, Start) \in Nat
    BY StartLegal, WorthIs
  <2>2. h[Start] = 1 * Worth(P, Q, u, Start) /\ h[Start] \in Nat
    BY <2>1, Products
  <2>3. Start \in {Start} /\ \A y \in {Start} : y # Start => h[y] = 0
    OBVIOUS
  <2>. HIDE DEF h
  <2>4. Sum(h, {Start}) = h[Start]
    BY <1>1, <2>2, <2>3, SumOne
  <2>. QED BY <2>2, <2>4 DEF h
<1>. HIDE DEF w
<1>4. Carries(law, 1, w)
  BY <1>1, <1>2, <1>3 DEF Carries
<1>. QED BY <1>1, <1>4 DEF Measured

\* The law after a step.
Stepped(l, moves, E, next) ==
  /\ E = UNION {DOMAIN moves[c] : c \in DOMAIN l}
  /\ next = [d \in E |-> SumOf([c \in {c \in DOMAIN l : d \in DOMAIN moves[c]} |-> Times(l[c], moves[c][d])])]

\* The law after a step is measured as it was before.
LEMMA MeasuredNext ==
  ASSUME P \in Targets, Q \in Drafts, NEW l, Measured(l),
         NEW moves, moves = [c \in DOMAIN l |-> Moves(c)], NEW E, NEW next, Stepped(l, moves, E, next)
  PROVE  Measured(next)
<1>. DEFINE C == DOMAIN l
            dom == [c \in C |-> DOMAIN moves[c]]
            mu == [c \in C |-> CHOOSE m : Follows(c, moves[c], m)]
            U == Whole * Whole
            before(d) == {c \in C : d \in DOMAIN moves[c]}
<1>1. IsFiniteSet(C) /\ \A c \in C : Legal(c)
  BY DEF Measured
<1>2. PICK N, w : Carries(l, N, w)
  BY DEF Measured
<1>3. ASSUME NEW c \in C
      PROVE  Follows(c, moves[c], mu[c])
  <2>1. moves[c] = Moves(c) /\ Legal(c)
    BY <1>1
  <2>2. \E m : Follows(c, moves[c], m)
    BY <2>1, MovesFollow
  <2>. QED BY <2>2
<1>4. /\ \A c \in C : dom[c] = DOMAIN moves[c] /\ IsFiniteSet(dom[c])
      /\ \A c \in C : \A d \in dom[c] : Legal(d) /\ mu[c][d] \in Nat /\ Stands(moves[c][d], mu[c][d], U)
      /\ \A c \in C, u \in Outputs : Sum([d \in dom[c] |-> mu[c][d] * Worth(P, Q, u, d)], dom[c]) = U * Worth(P, Q, u, c)
  <2>. HIDE DEF mu
  <2>. QED BY <1>3 DEF Follows
<1>5. /\ E = UNION {dom[c] : c \in C}
      /\ next = [d \in E |-> SumOf([c \in before(d) |-> Times(l[c], moves[c][d])])]
  BY DEF Stepped
<1>6. U \in Nat \ {0}
  BY WholeSquare
<1>7. N \in Nat \ {0} /\ Amounts(w, C) /\ \A c \in C : w[c] \in Nat /\ Stands(l[c], w[c], N)
  BY <1>2 DEF Carries, Amounts
<1>. HIDE DEF U, mu, C
<1>8. IsFiniteSet(E) /\ (\A c \in C : dom[c] \in SUBSET E) /\ \A d \in E : \E c \in C : d \in dom[c]
  <2>. DEFINE F == {dom[c] : c \in C}
  <2>1. IsFiniteSet(F)
    <3>1. dom \in Surjection(C, F)
      <4>1. dom \in [C -> F] /\ \A T \in F : \E c \in C : dom[c] = T
        OBVIOUS
      <4>. QED BY <4>1 DEF Surjection
    <3>. QED BY <1>1, <3>1, FS_Surjection
  <2>2. \A T \in F : IsFiniteSet(T)
    BY <1>4
  <2>. HIDE DEF dom
  <2>3. IsFiniteSet(UNION F)
    BY <2>1, <2>2, FS_UNION
  <2>. QED BY <1>5, <2>3
<1>9. \A d \in E : Legal(d)
  BY <1>4, <1>8
<1>. HIDE DEF dom
<1>. DEFINE part == [c \in C |-> [d \in E |-> IF d \in dom[c] THEN w[c] * mu[c][d] ELSE 0]]
            v == [d \in E |-> Sum([c \in C |-> part[c][d]], C)]
<1>10. /\ part \in [C -> [E -> Nat]]
       /\ \A c \in C, d \in E : part[c][d] = IF d \in dom[c] THEN w[c] * mu[c][d] ELSE 0
  <2>1. \A c \in C, d \in E : d \in dom[c] => w[c] * mu[c][d] \in Nat
    BY <1>4, <1>7, Products
  <2>. QED BY <2>1
<1>. HIDE DEF part
<1>11. ASSUME NEW d \in E
       PROVE  v[d] \in Nat /\ Stands(next[d], v[d], N * U)
  <2>. DEFINE B == before(d)
              f == [c \in B |-> Times(l[c], moves[c][d])]
              col == [c \in C |-> part[c][d]]
  <2>1. B \in SUBSET C /\ IsFiniteSet(B) /\ \A c \in C : c \in B <=> d \in dom[c]
    BY <1>1, <1>4, FS_Subset
  <2>2. next[d] = SumOf(f) /\ DOMAIN f = B /\ v[d] = Sum(col, C)
    BY <1>5
  <2>3. \A c \in B : col[c] = w[c] * mu[c][d] /\ col[c] \in Nat /\ Stands(f[c], col[c], N * U)
    <3> TAKE c \in B
    <3>1. c \in C /\ d \in dom[c]
      BY <2>1
    <3>2. col[c] = w[c] * mu[c][d]
      BY <1>10, <3>1
    <3>3. w[c] \in Nat /\ mu[c][d] \in Nat /\ Stands(l[c], w[c], N) /\ Stands(moves[c][d], mu[c][d], U)
      BY <1>4, <1>7, <3>1
    <3>4. w[c] * mu[c][d] \in Nat
      BY <3>3, Products
    <3>5. Stands(Times(l[c], moves[c][d]), w[c] * mu[c][d], N * U)
      BY <1>6, <1>7, <3>3, TimesStands
    <3>6. f[c] = Times(l[c], moves[c][d])
      OBVIOUS
    <3>. QED BY <3>2, <3>4, <3>5, <3>6
  <2>4. \A c \in C \ B : col[c] = 0
    BY <1>10, <2>1
  <2>5. Amounts(col, B) /\ Amounts(col, C)
    <3>1. \A c \in C : col[c] \in Nat
      <4> TAKE c \in C
      <4>1. c \in B => col[c] \in Nat
        BY <2>3
      <4>2. c \notin B => col[c] = 0
        BY <2>4
      <4>. QED BY <4>1, <4>2
    <3>. QED BY <2>1, <3>1 DEF Amounts
  <2>6. N * U \in Nat
    BY <1>6, <1>7, Products
  <2>. HIDE DEF f, col, B, v
  <2>7. Stands(SumOf(f), Sum(col, B), N * U)
    BY <2>1, <2>2, <2>3, <2>5, <2>6, SumStands
  <2>8. Sum(col, C) = Sum(col, B) /\ Sum(col, C) \in Nat
    BY <1>1, <2>1, <2>4, <2>5, SumOnly, SumType
  <2>. QED BY <2>2, <2>7, <2>8
<1>12. ASSUME NEW u \in Outputs
       PROVE  Sum([d \in E |-> v[d] * Worth(P, Q, u, d)], E) = (N * U) * Worth(P, Q, u, Start)
  <2>. DEFINE g == [d \in E |-> Worth(P, Q, u, d)]
              b == [c \in C |-> Worth(P, Q, u, c)]
              G == Worth(P, Q, u, Start)
  <2>1. Amounts(g, E) /\ Amounts(b, C) /\ G \in Nat
    BY <1>1, <1>9, StartLegal, WorthIs DEF Amounts
  <2>2. ASSUME NEW c \in C
        PROVE  Sum([d \in dom[c] |-> mu[c][d] * g[d]], dom[c]) = U * b[c]
    <3>1. \A d \in dom[c] : g[d] = Worth(P, Q, u, d)
      BY <1>8
    <3>2. [d \in dom[c] |-> mu[c][d] * g[d]] = [d \in dom[c] |-> mu[c][d] * Worth(P, Q, u, d)]
      BY <3>1
    <3>3. b[c] = Worth(P, Q, u, c)
      OBVIOUS
    <3>. QED BY <1>4, <3>2, <3>3
  <2>3. Sum([c \in C |-> w[c] * b[c]], C) = N * G
    <3>1. [c \in C |-> w[c] * b[c]] = [c \in C |-> w[c] * Worth(P, Q, u, c)]
      OBVIOUS
    <3>2. Sum([c \in C |-> w[c] * Worth(P, Q, u, c)], C) = N * G
      BY <1>2 DEF Carries, C
    <3>. QED BY <3>1, <3>2
  <2>4. [d \in E |-> v[d] * Worth(P, Q, u, d)] = [d \in E |-> Sum([c \in C |-> part[c][d]], C) * g[d]]
    OBVIOUS
  <2>. HIDE DEF g, b, G, v
  <2>5. Sum([d \in E |-> Sum([c \in C |-> part[c][d]], C) * g[d]], E) = U * Sum([c \in C |-> w[c] * b[c]], C)
    <3>1. U \in Nat /\ \A c \in C : \A d \in dom[c] : mu[c][d] \in Nat
      BY <1>4, <1>6
    <3>2. Mixes(C, E, dom, w, mu, part, g, U, b)
      BY <1>1, <1>7, <1>8, <1>10, <2>1, <2>2, <3>1 DEF Mixes
    <3>. QED BY <3>2, Mixture
  <2>6. U * (N * G) = (N * U) * G
    BY <1>6, <1>7, <2>1
  <2>. QED BY <2>3, <2>4, <2>5, <2>6 DEF G
<1>. HIDE DEF v
<1>13. Carries(next, N * U, v)
  <2>1. N * U \in Nat \ {0}
    BY <1>6, <1>7
  <2>2. DOMAIN next = E
    BY <1>5
  <2>3. Amounts(v, E) /\ \A d \in E : Stands(next[d], v[d], N * U)
    BY <1>11 DEF Amounts
  <2>. QED BY <1>12, <2>1, <2>2, <2>3 DEF Carries
<1>14. DOMAIN next = E
  BY <1>5
<1>. QED BY <1>8, <1>9, <1>13, <1>14 DEF Measured
-----------------------------------------------------------------------------
(* GenerationLaw: the invariant, and what follows.                         *)

\* The inductive invariant: every configuration is one that a call may be in, and
\* the law weighs them so that no output's probability has changed.
LawInv == P \in Targets /\ Q \in Drafts /\ Measured(law)

\* The invariant holds when a call begins.
LEMMA LawInvInit == LawInit => LawInv
<1>. SUFFICES ASSUME LawInit PROVE LawInv
  OBVIOUS
<1>1. P \in Targets /\ Q \in Drafts /\ law = [c \in {Start} |-> <<1, 1>>]
  BY DEF LawInit, Targets, Drafts
<1>. QED BY <1>1, MeasuredInit DEF LawInv

\* Every step keeps the invariant.
LEMMA LawInvNext == LawInv /\ [Step]_lawVars => LawInv'
<1>. SUFFICES ASSUME LawInv, [Step]_lawVars PROVE LawInv'
  OBVIOUS
<1>1. P' = P /\ Q' = Q /\ eos' = eos
  BY DEF Step, lawVars
<1>2. Targets' = Targets /\ Drafts' = Drafts
  BY DEF Targets, Drafts
<1>3. \A l : Measured(l) => Measured(l)'
  <2> TAKE l
  <2>1. \A c : Legal(c)' <=> Legal(c)
    BY <1>1 DEF Legal, Ended, Ends, Open, Backed, Finished, Pending
  <2>2. Outputs' = Outputs
    BY <1>1 DEF Outputs
  <2>3. \A N, w : Carries(l, N, w) => Carries(l, N, w)'
    BY <1>1, <2>2 DEF Carries
  <2>. QED BY <2>1, <2>3 DEF Measured
<1>4. Measured(law')
  <2>1. CASE Step
    <3>. DEFINE moves == [c \in DOMAIN law |-> Moves(c)]
                E == UNION {DOMAIN moves[c] : c \in DOMAIN law}
    <3>1. law' = [d \in E |-> SumOf([c \in {c \in DOMAIN law : d \in DOMAIN moves[c]} |-> Times(law[c], moves[c][d])])]
      BY <2>1 DEF Step
    <3>2. moves = [c \in DOMAIN law |-> Moves(c)]
      OBVIOUS
    <3>3. E = UNION {DOMAIN moves[c] : c \in DOMAIN law}
      OBVIOUS
    <3>. HIDE DEF moves, E
    <3>4. Stepped(law, moves, E, law')
      BY <3>1, <3>3 DEF Stepped
    <3>. QED BY <3>2, <3>4, MeasuredNext DEF LawInv
  <2>2. CASE UNCHANGED lawVars
    BY <2>2 DEF lawVars, LawInv
  <2>. QED BY <2>1, <2>2
<1>. QED BY <1>1, <1>2, <1>3, <1>4 DEF LawInv

\* Fractions of the same thing are the same.
LEMMA StandSame ==
  ASSUME NEW f, NEW g, NEW w \in Nat, NEW v \in Nat, NEW N \in Nat \ {0}, NEW M \in Nat \ {0},
         Stands(f, w, N), Stands(g, v, M)
  PROVE  /\ w * M = v * N => Same(f, g)
         /\ w * M <= v * N => AtMost(f, g)
<1>1. PICK a \in Nat, b \in Nat \ {0} : f[1] = a /\ f[2] = b /\ a * N = w * b
  BY DEF Stands, Fractions
<1>2. PICK c \in Nat, d \in Nat \ {0} : g[1] = c /\ g[2] = d /\ c * M = v * d
  BY DEF Stands, Fractions
<1>. DEFINE K == N * M
            B == b * d
<1>3. K \in Nat \ {0} /\ B \in Nat
  OBVIOUS
<1>4. (a * d) * K = (w * M) * B
  <2>1. (a * d) * (N * M) = (a * N) * (d * M)
    OBVIOUS
  <2>2. (w * b) * (d * M) = (w * M) * (b * d)
    OBVIOUS
  <2>. QED BY <1>1, <2>1, <2>2
<1>5. (c * b) * K = (v * N) * B
  <2>1. (c * b) * (N * M) = (c * M) * (b * N)
    OBVIOUS
  <2>2. (v * d) * (b * N) = (v * N) * (b * d)
    OBVIOUS
  <2>. QED BY <1>2, <2>1, <2>2
<1>6. a * d \in Nat /\ c * b \in Nat /\ w * M \in Nat /\ v * N \in Nat
  OBVIOUS
<1>. HIDE DEF K, B
<1>7. \A i, j, k \in Nat : i <= j => i * k <= j * k
  OBVIOUS
<1>8. \A i, j \in Nat : \A k \in Nat \ {0} : i * k <= j * k => i <= j
  OBVIOUS
<1>9. w * M = v * N => a * d = c * b
  BY <1>3, <1>4, <1>5, <1>6, Cancel
<1>10. w * M <= v * N => a * d <= c * b
  <2>1. w * M <= v * N => (w * M) * B <= (v * N) * B
    BY <1>3, <1>6, <1>7
  <2>. QED BY <1>3, <1>4, <1>5, <1>6, <1>8, <2>1
<1>. QED BY <1>1, <1>2, <1>9, <1>10 DEF Same, AtMost

\* What the target gives each token of an output.
Given(s, k) == Fraction(P[Seen(SubSeq(s, 1, k - 1))][s[k]], Mass)
IsAfter(s, after) ==
  after = [k \in 0..Len(s) |-> IF k = 0 THEN <<1, 1>> ELSE Times(after[k - 1], Given(s, k))]

\* What the target gives a token, over the square of the whole.
LEMMA GivenStands ==
  ASSUME P \in Targets, Q \in Drafts, NEW u \in Texts, Len(u) <= MaxEmitted, NEW k \in 1..Len(u)
  PROVE  /\ Stands(Given(u, k), Give(P, u)[k - 1], Whole * Whole)
         /\ Give(P, u)[k - 1] \in Nat
<1>1. Len(u) \in Nat
  BY LenProperties DEF Texts
<1>. DEFINE j == k - 1
<1>2. j \in 0..Len(u) - 1 /\ j \in 0..Len(u) /\ j + 1 = k /\ j < Len(u) /\ j <= MaxEmitted
  BY <1>1, VocabularyFinite
<1>. HIDE DEF j
<1>. DEFINE row == P[Seen(Before(u, j))]
            y == u[j + 1]
            S == Share[Mass]
<1>3. Before(u, j) \in Texts /\ Len(Before(u, j)) = j /\ y \in Vocabulary
  BY <1>2, BeforeNext DEF Texts
<1>4. row \in RowTypes
  BY <1>2, <1>3, RowsAre DEF Rows, RowTypes
<1>5. row[y] \in Nat
  BY <1>3, <1>4, RowSums
<1>6. Mass \in Nat \ {0} /\ S \in Nat /\ Mass * S = Whole /\ Whole \in Nat
  <2>1. Mass \in 0..Mass /\ Mass \in 1..Mass
    BY VocabularyFinite
  <2>. QED BY <2>1, Shares, VocabularyFinite
<1>7. Give(P, u)[j] = row[y] * (Whole * S) /\ Give(P, u)[j] \in Nat
  BY <1>2, TokenWeights
<1>8. Given(u, k) = Fraction(row[y], Mass)
  BY <1>2 DEF Given, Before, j
<1>. DEFINE a == row[y]
<1>. HIDE DEF row, y, S, a
<1>9. a * S \in Nat
  BY <1>5, <1>6, Products DEF a
<1>10. a * Whole = (a * S) * Mass
  <2>1. a * (Mass * S) = (a * S) * Mass
    BY <1>5, <1>6 DEF a
  <2>. QED BY <1>6, <2>1
<1>11. Stands(Fraction(a, Mass), a * S, Whole)
  BY <1>5, <1>6, <1>9, <1>10, FractionStands DEF a
<1>12. Stands(Fraction(a, Mass), (a * S) * Whole, Whole * Whole)
  BY <1>6, <1>9, <1>11, StandsScaled
<1>13. (a * S) * Whole = a * (Whole * S)
  BY <1>5, <1>6 DEF a
<1>. QED BY <1>7, <1>8, <1>12, <1>13 DEF a, j

\* What an output is worth when the call begins is what the target alone gives it.
LEMMA TargetLawStands ==
  ASSUME P \in Targets, Q \in Drafts, NEW u \in Texts, Len(u) <= MaxEmitted
  PROVE  /\ Stands(TargetLaw(u), Chance(P, Q, u)[<<0, <<>>>>], Scale[Len(u)])
         /\ Chance(P, Q, u)[<<0, <<>>>>] \in Nat
         /\ Scale[Len(u)] \in Nat \ {0}
<1>. DEFINE n == Len(u)
            v == Chance(P, Q, u)
            V == Fractions
            U == Whole * Whole
            step == [z \in (1..n) \X V |-> Times(z[2], Given(u, z[1]))]
            go == Give(P, u)
            mul == [z \in (1..n) \X Nat |-> z[2] * go[z[1] - 1]]
            after == CHOOSE f : IsAfter(u, f)
<1>1. n \in Nat /\ n \in 0..n /\ <<>> \in Texts /\ U \in Nat /\ n <= MaxEmitted /\ MaxEmitted \in Nat
  BY LenProperties, EmptySeq, WholeSquare, VocabularyFinite DEF Texts
<1>2. \A k \in 1..n : Stands(Given(u, k), go[k - 1], U) /\ go[k - 1] \in Nat
  BY GivenStands
<1>3. \E f : Recursion(n, <<1, 1>>, step, f, V)
  <2>1. \A z \in (1..n) \X V : Times(z[2], Given(u, z[1])) \in V
    <3> TAKE z \in (1..n) \X V
    <3>1. z[1] \in 1..n /\ z[2] \in V
      OBVIOUS
    <3>2. Given(u, z[1]) \in V
      BY <1>2, <3>1 DEF Stands
    <3>. QED BY <3>1, <3>2, FractionTypes
  <2>2. step \in [(1..n) \X V -> V] /\ <<1, 1>> \in V
    BY <2>1, FractionTypes
  <2>. HIDE DEF step, n, V
  <2>. QED BY <1>1, <2>2, RecursionExists
<1>4. \E a : Recursion(n, 1, mul, a, Nat)
  <2>1. \A z \in (1..n) \X Nat : z[2] * go[z[1] - 1] \in Nat
    <3> TAKE z \in (1..n) \X Nat
    <3>1. z[1] \in 1..n /\ z[2] \in Nat
      OBVIOUS
    <3>2. go[z[1] - 1] \in Nat
      BY <1>2, <3>1
    <3>. HIDE DEF go
    <3>. QED BY <3>1, <3>2, Products
  <2>2. mul \in [(1..n) \X Nat -> Nat] /\ 1 \in Nat
    BY <2>1
  <2>. HIDE DEF mul, n
  <2>. QED BY <1>1, <2>2, RecursionExists
<1>5. PICK a : Recursion(n, 1, mul, a, Nat)
  BY <1>4
<1>6. IsAfter(u, after)
  <2>1. PICK f : Recursion(n, <<1, 1>>, step, f, V)
    BY <1>3
  <2>2. f \in [0..n -> V] /\ f[0] = <<1, 1>> /\ \A k \in 1..n : f[k] = step[<<k, f[k - 1]>>]
    BY <2>1 DEF Recursion
  <2>3. \A k \in 0..n : f[k] = IF k = 0 THEN <<1, 1>> ELSE Times(f[k - 1], Given(u, k))
    <3> TAKE k \in 0..n
    <3>1. CASE k = 0
      BY <2>2, <3>1
    <3>2. CASE k # 0
      <4>1. k \in 1..n /\ k - 1 \in 0..n
        BY <1>1, <3>2
      <4>2. <<k, f[k - 1]>> \in (1..n) \X V
        BY <2>2, <4>1
      <4>3. step[<<k, f[k - 1]>>] = Times(f[k - 1], Given(u, k))
        BY <4>2
      <4>. QED BY <2>2, <3>2, <4>1, <4>3
    <3>. QED BY <3>1, <3>2
  <2>4. f = [k \in 0..n |-> f[k]]
    BY <2>2
  <2>5. f = [k \in 0..n |-> IF k = 0 THEN <<1, 1>> ELSE Times(f[k - 1], Given(u, k))]
    BY <2>3, <2>4
  <2>6. IsAfter(u, f)
    BY <2>5 DEF IsAfter
  <2>. QED BY <2>6
<1>7. TargetLaw(u) = after[n]
  BY DEF TargetLaw, IsAfter, Given
<1>8. \A k \in 0..n : after[k] = IF k = 0 THEN <<1, 1>> ELSE Times(after[k - 1], Given(u, k))
  <2>. HIDE DEF after
  <2>. QED BY <1>6 DEF IsAfter
<1>9. a \in [0..n -> Nat] /\ a[0] = 1 /\ \A k \in 1..n : a[k] = a[k - 1] * go[k - 1]
  <2>1. a \in [0..n -> Nat] /\ a[0] = 1 /\ \A k \in 1..n : a[k] = mul[<<k, a[k - 1]>>]
    BY <1>5 DEF Recursion
  <2>2. ASSUME NEW k \in 1..n
        PROVE  a[k] = a[k - 1] * go[k - 1]
    <3>1. k - 1 \in 0..n
      BY <1>1
    <3>2. <<k, a[k - 1]>> \in (1..n) \X Nat
      BY <2>1, <3>1
    <3>. QED BY <2>1, <3>2
  <2>. QED BY <2>1, <2>2
<1>10. /\ \A k \in 0..n : v[<<k, <<>>>>] \in Nat
       /\ v[<<n, <<>>>>] = 1
       /\ \A k \in 0..n - 1 : v[<<k, <<>>>>] = go[k] * v[<<k + 1, <<>>>>]
  BY <1>1, Chances
<1>11. /\ \A k \in 0..n : Scale[k] \in Nat \ {0}
       /\ Scale[0] = 1
       /\ \A k \in 1..n : Scale[k] = Scale[k - 1] * U
  <2>1. \A k \in 0..n : k \in 0..MaxEmitted
    BY <1>1
  <2>2. \A k \in 1..n : k \in 1..MaxEmitted
    BY <1>1
  <2>. QED BY <2>1, <2>2, Scales
<1>. HIDE DEF n, v, V, U, step, go, mul, after
<1>. DEFINE G == {k \in 0..n : Stands(after[k], a[k], Scale[k]) /\ v[<<0, <<>>>>] = a[k] * v[<<k, <<>>>>]}
<1>12. 0 \in G
  <2>1. Stands(<<1, 1>>, 1, 1)
    BY FractionTypes DEF Stands
  <2>2. 0 \in 0..n /\ v[<<0, <<>>>>] \in Nat
    BY <1>1, <1>10
  <2>3. v[<<0, <<>>>>] = 1 * v[<<0, <<>>>>]
    BY <2>2, Products
  <2>. QED BY <1>8, <1>9, <1>11, <2>1, <2>2, <2>3
<1>13. ASSUME NEW k \in 0..n, k \in G, k < n
       PROVE  k + 1 \in G
  <2>1. k + 1 \in 1..n /\ k + 1 \in 0..n /\ (k + 1) - 1 = k /\ k \in 0..n - 1 /\ k + 1 # 0
    BY <1>1, <1>13
  <2>2. Stands(after[k], a[k], Scale[k]) /\ v[<<0, <<>>>>] = a[k] * v[<<k, <<>>>>]
    BY <1>13
  <2>3. after[k + 1] = Times(after[k], Given(u, k + 1)) /\ a[k + 1] = a[k] * go[k] /\ Scale[k + 1] = Scale[k] * U
    BY <1>8, <1>9, <1>11, <2>1
  <2>4. Stands(Given(u, k + 1), go[k], U) /\ go[k] \in Nat /\ a[k] \in Nat /\ Scale[k] \in Nat
    BY <1>2, <1>9, <1>11, <2>1
  <2>5. Stands(after[k + 1], a[k + 1], Scale[k + 1])
    <3>. DEFINE f == after[k]
                g == Given(u, k + 1)
                i == a[k]
                j == go[k]
                N == Scale[k]
    <3>1. Stands(f, i, N) /\ Stands(g, j, U) /\ i \in Nat /\ j \in Nat /\ N \in Nat
      BY <2>2, <2>4
    <3>. HIDE DEF f, g, i, j, N
    <3>2. Stands(Times(f, g), i * j, N * U)
      BY <1>1, <3>1, TimesStands
    <3>. QED BY <2>3, <3>2 DEF f, g, i, j, N
  <2>6. v[<<k, <<>>>>] = go[k] * v[<<k + 1, <<>>>>] /\ v[<<k + 1, <<>>>>] \in Nat
    BY <1>10, <2>1
  <2>7. v[<<0, <<>>>>] = a[k + 1] * v[<<k + 1, <<>>>>]
    BY <2>2, <2>3, <2>4, <2>6, Products
  <2>. QED BY <2>1, <2>5, <2>7
<1>. HIDE DEF G
<1>14. n \in G
  BY <1>1, <1>12, <1>13, Climb
<1>15. Stands(after[n], a[n], Scale[n]) /\ v[<<0, <<>>>>] = a[n] * 1 /\ a[n] \in Nat
  BY <1>1, <1>9, <1>10, <1>14 DEF G
<1>16. v[<<0, <<>>>>] = a[n]
  BY <1>15, Products
<1>. QED BY <1>1, <1>7, <1>11, <1>15, <1>16 DEF n, v

\* What the call is worth when it begins.
First(u) == Chance(P, Q, u)[<<0, <<>>>>]

\* The empty sequence begins every sequence.
LEMMA EmptyPrefix ==
  ASSUME NEW s \in Texts
  PROVE  IsPrefix(<<>>, s)
<1>. DEFINE o == <<>>
<1>1. o \in Texts /\ Len(o) = 0 /\ Len(s) \in Nat
  BY EmptySeq, LenProperties DEF Texts
<1>. HIDE DEF o
<1>2. Len(o) <= Len(s) /\ \A i \in 1..Len(o) : o[i] = s[i]
  BY <1>1
<1>3. IsPrefix(o, s)
  BY <1>1, <1>2, PrefixIs DEF Texts
<1>. QED BY <1>3 DEF o

\* The call begins with what the target gives the output.
LEMMA StartWorth ==
  ASSUME P \in Targets, Q \in Drafts, NEW u \in Outputs
  PROVE  /\ Worth(P, Q, u, Start) = First(u)
         /\ First(u) \in Nat /\ Scale[Len(u)] \in Nat \ {0}
         /\ Stands(TargetLaw(u), First(u), Scale[Len(u)])
         /\ u = <<>> => First(u) = 1
<1>1. u \in Texts /\ Len(u) <= MaxEmitted /\ <<>> \in Texts /\ Len(<<>>) = 0
  BY EmptySeq DEF Outputs, Texts
<1>2. First(u) \in Nat /\ Scale[Len(u)] \in Nat \ {0} /\ Stands(TargetLaw(u), First(u), Scale[Len(u)])
  BY <1>1, TargetLawStands DEF First
<1>3. Start.out = <<>> /\ Pending(Start) = <<>>
  <2>1. Start \in Configurations /\ Start.accepted = 0 /\ Start.proposed = <<>> /\ Start.out = <<>>
    BY StartLegal DEF Start, Legal
  <2>. QED BY <1>1, <2>1, NothingPending
<1>4. IsPrefix(<<>>, u)
  BY <1>1, EmptyPrefix
<1>5. Worth(P, Q, u, Start) = Scale[0] * First(u)
  <2>1. Worth(P, Q, u, Start) = Gain(P, Q, u, <<>>, <<>>)
    BY <1>3 DEF Worth
  <2>2. Gain(P, Q, u, <<>>, <<>>) = Scale[Len(<<>>)] * Chance(P, Q, u)[<<Len(<<>>), <<>>>>]
    BY <1>4 DEF Gain
  <2>. QED BY <1>1, <2>1, <2>2 DEF First
<1>6. Scale[0] = 1
  BY Scales
<1>7. u = <<>> => First(u) = 1
  <2>1. u = <<>> => Len(u) = 0
    BY <1>1
  <2>. QED BY <1>1, <2>1, Chances DEF First
<1>. QED BY <1>2, <1>5, <1>6, <1>7, Products

\* Everything is worth as much of what has not begun.
LEMMA NothingAhead ==
  ASSUME P \in Targets, Q \in Drafts, NEW c, Legal(c), NEW u \in Outputs, IsPrefix(u, c.out)
  PROVE  Worth(P, Q, u, c) = Scale[Len(u)]
<1>1. u \in Texts /\ Len(u) <= MaxEmitted /\ c.out \in Texts /\ Pending(c) \in Texts
  BY LegalTypes DEF Outputs
<1>2. GainCases(P, Q, u, c.out, Pending(c))
  BY <1>1, Gains
<1>. QED BY <1>2 DEF GainCases, Worth

\* The law is one: take the empty output.
LEMMA IsLawHolds ==
  ASSUME LawInv
  PROVE  IsLaw
<1>. DEFINE C == DOMAIN law
            u == <<>>
<1>1. P \in Targets /\ Q \in Drafts /\ IsFiniteSet(C) /\ \A c \in C : Legal(c)
  BY DEF LawInv, Measured
<1>2. PICK N, w : Carries(law, N, w)
  BY DEF LawInv, Measured
<1>3. /\ N \in Nat \ {0} /\ Amounts(w, C) /\ \A c \in C : Stands(law[c], w[c], N)
      /\ Sum([c \in C |-> w[c] * Worth(P, Q, u, c)], C) = N * Worth(P, Q, u, Start)
  BY <1>2, NoOutput DEF Carries
<1>4. Worth(P, Q, u, Start) = 1
  <2>1. u \in Outputs
    BY NoOutput
  <2>. QED BY <1>1, <2>1, StartWorth
<1>5. \A c \in C : Worth(P, Q, u, c) = 1
  <2> TAKE c \in C
  <2>1. c.out \in Texts /\ u \in Texts /\ Len(u) = 0 /\ u \in Outputs
    BY <1>1, NoOutput, LegalTypes, EmptySeq DEF Texts
  <2>2. IsPrefix(u, c.out)
    BY <2>1, EmptyPrefix
  <2>3. Worth(P, Q, u, c) = Scale[Len(u)]
    BY <1>1, <2>1, <2>2, NothingAhead
  <2>. QED BY <2>1, <2>3, Scales
<1>. DEFINE f == [c \in C |-> w[c] * Worth(P, Q, u, c)]
<1>6. Matches(w, f, C)
  <2>1. \A c \in C : w[c] \in Nat
    BY <1>3 DEF Amounts
  <2>2. \A c \in C : f[c] = w[c]
    BY <1>5, <2>1, Products
  <2>. QED BY <2>2 DEF Matches
<1>7. Sum(w, C) = N
  <2>. HIDE DEF f, C
  <2>1. Sum(w, C) = Sum(f, C)
    BY <1>1, <1>3, <1>6, SumAgree
  <2>2. N * 1 = N
    BY <1>3
  <2>. QED BY <1>3, <1>4, <2>1, <2>2 DEF f
<1>8. Stands(SumOf(law), N, N)
  <2>1. Amounts(w, C) /\ N \in Nat
    BY <1>3
  <2>. QED BY <1>1, <1>3, <1>7, <2>1, SumStands
<1>9. Stands(<<1, 1>>, N, N)
  <2>1. 1 * N = N * 1 /\ <<1, 1>>[1] = 1 /\ <<1, 1>>[2] = 1
    BY <1>3
  <2>. QED BY <2>1, FractionTypes DEF Stands
<1>10. Same(SumOf(law), <<1, 1>>)
  BY <1>3, <1>8, <1>9, StandSame
<1>. QED BY <1>10 DEF IsLaw

\* Outputs that have ended do not begin one another.
LEMMA EndedApart ==
  ASSUME NEW s \in Texts, NEW u \in Texts, Ended(s), Ended(u), IsPrefix(s, u)
  PROVE  s = u
<1>1. Len(s) <= Len(u) /\ (\A i \in 1..Len(s) : s[i] = u[i]) /\ Len(s) \in Nat /\ Len(u) \in Nat
  BY PrefixIs, LenProperties DEF Texts
<1>2. Len(s) # 0 /\ Len(u) <= MaxEmitted /\ MaxEmitted \in Nat
  BY EmptySeq, VocabularyFinite DEF Ended, Texts
<1>3. Len(u) <= Len(s)
  <2>1. CASE Len(s) = MaxEmitted
    BY <1>1, <1>2, <2>1
  <2>2. CASE Last(s) = eos
    <3>1. Len(s) \in 1..Len(s) /\ u[Len(s)] = eos
      BY <1>1, <1>2, <2>2 DEF Last
    <3>2. ~(Len(s) \in 1..Len(u) - 1)
      BY <3>1 DEF Ended
    <3>. QED BY <1>1, <1>2, <3>2
  <2>. QED BY <2>1, <2>2 DEF Ended, Ends
<1>. QED BY <1>3, PrefixBoth DEF Texts

\* A call that has ended made one output, which has all of its worth.
LEMMA ExactGenerationHolds ==
  ASSUME LawInv
  PROVE  ExactGeneration
<1>. SUFFICES ASSUME Final, NEW c \in DOMAIN law
              PROVE  /\ Same(law[c], TargetLaw(c.out))
                     /\ Len(c.out) = MaxEmitted \/ Last(c.out) = eos
                     /\ \A i \in 1..Len(c.out) - 1 : c.out[i] # eos
  BY DEF ExactGeneration
<1>. DEFINE C == DOMAIN law
            u == c.out
            Z == Scale[Len(u)]
            F == First(u)
<1>1. P \in Targets /\ Q \in Drafts /\ IsFiniteSet(C) /\ \A d \in C : Legal(d)
  BY DEF LawInv, Measured
<1>2. \A d \in C : d = Finished(d.out) /\ Ended(d.out) /\ d.out \in Texts /\ Pending(d) \in Texts
  <2> TAKE d \in C
  <2>1. Legal(d) /\ d.at = "done"
    BY <1>1 DEF Final
  <2>. QED BY <2>1, LegalTypes DEF Legal
<1>3. u \in Outputs /\ u \in Texts /\ Len(u) <= MaxEmitted
  BY <1>2 DEF Outputs, Ended
<1>4. PICK N, w : Carries(law, N, w)
  BY DEF LawInv, Measured
<1>5. /\ N \in Nat \ {0} /\ (\A d \in C : w[d] \in Nat) /\ Stands(law[c], w[c], N)
      /\ Sum([d \in C |-> w[d] * Worth(P, Q, u, d)], C) = N * Worth(P, Q, u, Start)
  BY <1>3, <1>4 DEF Carries, Amounts
<1>6. Worth(P, Q, u, Start) = F /\ F \in Nat /\ Z \in Nat \ {0} /\ Stands(TargetLaw(u), F, Z)
  BY <1>1, <1>3, StartWorth
<1>7. Worth(P, Q, u, c) = Z
  <2>1. IsPrefix(u, u)
    BY <1>3, PrefixIs, LenProperties DEF Texts
  <2>. QED BY <1>1, <1>3, <2>1, NothingAhead
<1>8. ASSUME NEW d \in C, d # c
      PROVE  Worth(P, Q, u, d) = 0
  <2>1. d.out # u
    BY <1>2, <1>8
  <2>2. ~IsPrefix(u, d.out) /\ ~IsPrefix(d.out, u)
    BY <1>2, <2>1, EndedApart
  <2>3. GainCases(P, Q, u, d.out, Pending(d))
    BY <1>1, <1>2, <1>3, Gains
  <2>. QED BY <2>2, <2>3 DEF GainCases, Worth
<1>. DEFINE f == [d \in C |-> w[d] * Worth(P, Q, u, d)]
<1>9. Sum(f, C) = w[c] * Z
  <2>1. f[c] = w[c] * Z /\ f[c] \in Nat
    BY <1>5, <1>6, <1>7, Products
  <2>2. \A d \in C : d # c => f[d] = 0
    BY <1>5, <1>8, Products
  <2>. HIDE DEF f
  <2>3. Sum(f, C) = f[c]
    BY <1>1, <2>1, <2>2, SumOne
  <2>. QED BY <2>1, <2>3
<1>10. w[c] * Z = F * N
  <2>1. N * F = F * N
    BY <1>5, <1>6, Products
  <2>. QED BY <1>5, <1>6, <1>9, <2>1
<1>11. Same(law[c], TargetLaw(u))
  BY <1>5, <1>6, <1>10, StandSame
<1>. QED BY <1>2, <1>11 DEF Ended, Ends

\* What begins with an output is a part of what the call is worth to it.
LEMMA NeverOverdrawnHolds ==
  ASSUME LawInv
  PROVE  NeverOverdrawn
<1>. SUFFICES ASSUME NEW c \in DOMAIN law
              PROVE  AtMost(SumOf([d \in {d \in DOMAIN law : IsPrefix(c.out, d.out)} |-> law[d]]), TargetLaw(c.out))
  BY DEF NeverOverdrawn
<1>. DEFINE C == DOMAIN law
            u == c.out
            A == {d \in C : IsPrefix(u, d.out)}
            Z == Scale[Len(u)]
            F == First(u)
            some == [d \in A |-> law[d]]
<1>1. P \in Targets /\ Q \in Drafts /\ IsFiniteSet(C) /\ \A d \in C : Legal(d)
  BY DEF LawInv, Measured
<1>2. u \in Outputs
  <2>1. u \in Texts /\ Len(u) <= MaxEmitted /\ Len(u) \in Nat
    BY <1>1, LegalTypes
  <2>2. \A i \in 1..Len(u) - 1 : u[i] # eos
    <3>1. CASE c.at = "done"
      BY <1>1, <3>1 DEF Legal, Ended
    <3>2. CASE c.at # "done"
      <4>1. \A i \in 1..Len(u) - 1 : i \in 1..Len(u)
        BY <2>1
      <4>. QED BY <1>1, <3>2, <4>1 DEF Legal, Open
    <3>. QED BY <3>1, <3>2
  <2>. QED BY <2>1, <2>2 DEF Outputs
<1>3. PICK N, w : Carries(law, N, w)
  BY DEF LawInv, Measured
<1>4. /\ N \in Nat \ {0} /\ (\A d \in C : w[d] \in Nat /\ Stands(law[d], w[d], N))
      /\ Sum([d \in C |-> w[d] * Worth(P, Q, u, d)], C) = N * Worth(P, Q, u, Start)
  BY <1>2, <1>3 DEF Carries, Amounts
<1>5. Worth(P, Q, u, Start) = F /\ F \in Nat /\ Z \in Nat \ {0} /\ Stands(TargetLaw(u), F, Z)
  BY <1>1, <1>2, StartWorth
<1>6. \A d \in A : Worth(P, Q, u, d) = Z
  BY <1>1, <1>2, NothingAhead
<1>7. A \in SUBSET C /\ IsFiniteSet(A)
  BY <1>1, FS_Subset
<1>. DEFINE f == [d \in C |-> w[d] * Worth(P, Q, u, d)]
<1>8. \A d \in C : f[d] \in Nat
  BY <1>1, <1>2, <1>4, WorthIs, Products
<1>9. \A d \in A : f[d] = Z * w[d] /\ w[d] \in Nat
  <2> TAKE d \in A
  <2>1. f[d] = w[d] * Z /\ w[d] \in Nat
    BY <1>4, <1>6
  <2>. QED BY <1>5, <2>1, Products
<1>10. Amounts(f, C) /\ Amounts(f, A) /\ Amounts(w, A) /\ Multiples(Z, w, f, A) /\ Below(f, f, A)
  <2>1. \A d \in A : f[d] \in Nat /\ f[d] <= f[d]
    BY <1>8
  <2>. HIDE DEF f
  <2>. QED BY <1>8, <1>9, <2>1 DEF Amounts, Multiples, Below
<1>11. Sum(f, C) = N * F
  BY <1>4, <1>5
<1>12. DOMAIN some = A /\ \A d \in A : Stands(some[d], w[d], N)
  BY <1>4
<1>. HIDE DEF f, A, some, F, Z
<1>13. Sum(f, A) = Z * Sum(w, A) /\ Sum(f, A) <= Sum(f, C) /\ Sum(w, A) \in Nat
  BY <1>1, <1>5, <1>7, <1>10, SumScales, SumBelow, SumType
<1>14. Stands(SumOf(some), Sum(w, A), N)
  BY <1>4, <1>7, <1>10, <1>12, SumStands
<1>15. Sum(w, A) * Z <= F * N
  <2>1. Z * Sum(w, A) = Sum(w, A) * Z /\ N * F = F * N
    BY <1>4, <1>5, <1>13, Products
  <2>. QED BY <1>11, <1>13, <2>1
<1>16. AtMost(SumOf(some), TargetLaw(u))
  BY <1>4, <1>5, <1>13, <1>14, <1>15, StandSame
<1>. QED BY <1>16 DEF some, A

\* The law of the call is a law at every step, gives each output what the target
\* alone gives it, and never overdraws what has been emitted: the drafts, the
\* verdicts, the bonus, the fallback and the windows of generate change none of it.
THEOREM OutputsFollowTheTarget == LawSpec => []LawOfTheTarget
<1>1. LawSpec => []LawInv
  BY LawInvInit, LawInvNext, PTL DEF LawSpec
<1>2. LawInv => LawOfTheTarget
  BY IsLawHolds, ExactGenerationHolds, NeverOverdrawnHolds DEF LawOfTheTarget
<1>. QED BY <1>1, <1>2, PTL
=============================================================================
