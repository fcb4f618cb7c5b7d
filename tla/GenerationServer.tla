-------------------------- MODULE GenerationServer --------------------------
(***************************************************************************)
(* GenerationService and the HTTP handler of src/specdecode/server.py: a   *)
(* thread for each connection, and two model adapters, shared under one    *)
(* lock, whose caches hold what was computed last.  The adapters are       *)
(* reset, used and kept alike, so that one stands for both; CausalLMCache  *)
(* has its details.  As there, a row of probabilities is abstracted to the *)
(* tokens that were attended to for it.                                    *)
(***************************************************************************)
EXTENDS Prefixes

CONSTANTS Connections,
          NoOne,
          Tokens,
          Prompts,        \* encoded prompts
          MaxNewTokens,   \* the server's ceiling, DecodeConfig.max_new_tokens
          MaxRequests     \* bound: requests that are sent on a connection

ASSUME ServerAssumption == /\ NoOne \notin Connections
                           /\ Prompts \subseteq Seq(Tokens) \ {<<>>}
                           /\ MaxNewTokens \in Nat
                           /\ MaxRequests \in Nat

VARIABLES pc,       \* where the thread of a connection is
          conn,     \* the connection: the request being served, how many were
                    \* sent, whether an unread body precedes the next request,
                    \* whether the client left, and the last answer
          work,     \* the generation: prompt, tokens, the row of each, and the
                    \* cached positions that the current model call reuses
          lock,     \* _model_lock: the thread that holds it
          cached    \* the context in the adapters' caches

vars == <<pc, conn, work, lock, cached>>

\* "generate" has a valid body but for the range of its limit; "malformed" is no
\* JSON, no object, a value of a wrong type, or a prompt that is empty or refused
\* by the tokenizer.
Requests ==
  [kind : {"generate"}, prompt : Prompts, limit : 0..MaxNewTokens + 1]
    \cup [kind : {"malformed", "large"}]
    \cup [kind : {"health", "unknown", "lengthless"}, body : BOOLEAN]

Statuses == {"200", "400", "404", "411", "413", "500"}

Nothing == [prompt |-> <<>>, output |-> <<>>, rows |-> <<>>, reuse |-> 0]

Init == /\ pc = [c \in Connections |-> "idle"]
        /\ conn = [c \in Connections |->
                     [request |-> [kind |-> "health", body |-> FALSE], sent |-> 0, stray |-> FALSE,
                      gone |-> FALSE, answer |-> "none"]]
        /\ work = [c \in Connections |-> Nothing]
        /\ lock = NoOne
        /\ cached = <<>>

At(c, place) == pc[c] = place
Go(c, place) == pc' = [pc EXCEPT ![c] = place]

\* _write_json: it raises when the client has left, which ends the thread.
Answer(c, status, place) ==
  /\ Go(c, IF conn[c].gone THEN "closed" ELSE place)
  /\ conn' = [conn EXCEPT ![c].answer = IF conn[c].gone THEN @ ELSE status,
                          ![c].stray = FALSE]

\* An answer after which the body of the request is still to be read.
AnswerUnread(c, status) ==
  /\ Go(c, IF conn[c].gone THEN "closed" ELSE "idle")
  /\ conn' = [conn EXCEPT ![c].answer = IF conn[c].gone THEN @ ELSE status,
                          ![c].stray = conn[c].request.body]
-----------------------------------------------------------------------------
(* The clients, and whoever interrupts the server.                         *)

Send(c) == /\ At(c, "idle")
           /\ ~conn[c].gone
           /\ conn[c].sent < MaxRequests
           /\ \E r \in Requests :
                conn' = [conn EXCEPT ![c].request = r, ![c].sent = @ + 1,
                                     ![c].answer = "none"]
           /\ Go(c, "sent")
           /\ UNCHANGED <<work, lock, cached>>

\* The body may take any time; that of a client that leaves ends early.
BodyArrives(c) == /\ At(c, "reading")
                  /\ ~conn[c].gone
                  /\ Go(c, "parsing")
                  /\ UNCHANGED <<conn, work, lock, cached>>

Leave(c) == /\ ~At(c, "closed")
            /\ ~conn[c].gone
            /\ conn' = [conn EXCEPT ![c].gone = TRUE]
            /\ UNCHANGED <<pc, work, lock, cached>>

\* serve is interrupted: its threads are daemons and end with the process.
Stop == /\ pc' = [c \in Connections |-> "closed"]
        /\ pc # pc'
        /\ UNCHANGED <<conn, work, lock, cached>>
-----------------------------------------------------------------------------
(* The handler.                                                            *)

\* The base class cannot parse a request that begins inside an old body: it
\* answers with its own error page and closes the connection.  (A body that
\* happens to be a whole request would be served; that is not modelled.)
Misread(c) == /\ At(c, "sent")
              /\ conn[c].stray
              /\ Answer(c, "page", "closed")
              /\ UNCHANGED <<work, lock, cached>>

\* Mutant of DoGet: health waits for the models.
DoGetLocked(c) == /\ At(c, "sent") /\ ~conn[c].stray
                  /\ conn[c].request.kind = "health"
                  /\ lock = NoOne
                  /\ AnswerUnread(c, "200")
                  /\ UNCHANGED <<work, lock, cached>>

\* do_GET of the health path; it never reads a body.
DoGet(c) == /\ At(c, "sent") /\ ~conn[c].stray
            /\ conn[c].request.kind = "health"
            /\ AnswerUnread(c, "200")
            /\ UNCHANGED <<work, lock, cached>>

\* do_POST up to the body; do_GET answers another path as it does.
DoPost(c) ==
  LET kind == conn[c].request.kind
  IN  /\ At(c, "sent") /\ ~conn[c].stray
      /\ \/ kind = "unknown" /\ AnswerUnread(c, "404")
         \/ kind = "lengthless" /\ AnswerUnread(c, "411")
         \/ kind = "large" /\ Answer(c, "413", "closed")
         \/ kind \in {"generate", "malformed"} /\ Go(c, "reading") /\ UNCHANGED conn
      /\ UNCHANGED <<work, lock, cached>>

EndOfBody(c) == /\ At(c, "reading")
                /\ conn[c].gone
                /\ Answer(c, "400", "idle")
                /\ UNCHANGED <<work, lock, cached>>

Valid(r) == r.limit <= MaxNewTokens

\* The body is parsed, validated and encoded, which may also raise otherwise.
Parse(c) ==
  LET r == conn[c].request
  IN  /\ At(c, "parsing")
      /\ \/ /\ r.kind = "generate" /\ Valid(r)
            /\ Go(c, "waiting")
            /\ work' = [work EXCEPT ![c] = [Nothing EXCEPT !.prompt = r.prompt]]
            /\ UNCHANGED conn
         \/ /\ r.kind = "malformed" \/ (r.kind = "generate" /\ ~Valid(r))
            /\ Answer(c, "400", "idle") /\ UNCHANGED work
         \/ /\ r.kind = "generate"
            /\ Answer(c, "500", "idle") /\ UNCHANGED work
      /\ UNCHANGED <<lock, cached>>

\* Mutant of Free: generations are not serialized.
FreeAlways == TRUE

Free == lock = NoOne

\* The lock is taken, and generate resets the caches.
Acquire(c) == /\ At(c, "waiting")
              /\ Free
              /\ lock' = c
              /\ cached' = <<>>
              /\ Go(c, "decoding")
              /\ UNCHANGED <<conn, work>>

\* Mutant of Unlock: an exception leaves the lock taken.
UnlockNot == UNCHANGED lock

Unlock == lock' = NoOne

Context(c) == work[c].prompt \o work[c].output

\* Mutant of Complete: one token too many.
CompleteLate(c) == Len(work[c].output) > conn[c].request.limit

Complete(c) == Len(work[c].output) = conn[c].request.limit

\* generate returns, at the limit or after the end of the sequence.
Finish(c) == /\ At(c, "decoding")
             /\ Complete(c) \/ work[c].output # <<>>
             /\ Unlock
             /\ Go(c, "formatting")
             /\ UNCHANGED <<conn, work, cached>>

\* A model call up to its forward pass.
Prepare(c) == /\ At(c, "decoding")
              /\ ~Complete(c)
              /\ LET n == Smaller(CommonLength(cached, Context(c)), Len(Context(c)) - 1)
                 IN  /\ cached' = SubSeq(cached, 1, n)
                     /\ work' = [work EXCEPT ![c].reuse = n]
              /\ Go(c, "calling")
              /\ UNCHANGED <<conn, lock>>

\* Its forward pass, and the token that is drawn from the row.
Forward(c) ==
  LET row == cached \o SubSeq(Context(c), work[c].reuse + 1, Len(Context(c)))
  IN  /\ At(c, "calling")
      /\ cached' = row
      /\ \E token \in Tokens :
           work' = [work EXCEPT ![c].output = Append(@, token), ![c].rows = Append(@, row)]
      /\ Go(c, "decoding")
      /\ UNCHANGED <<conn, lock>>

\* A model raises, and the adapter forgets its cache.
Raise(c) == /\ At(c, "calling")
            /\ Unlock
            /\ cached' = <<>>
            /\ Answer(c, "500", "idle")
            /\ work' = [work EXCEPT ![c] = Nothing]

\* The text is decoded, which may raise.
Format(c) == /\ At(c, "formatting")
             /\ \E status \in {"200", "500"} : Answer(c, status, "idle")
             /\ work' = [work EXCEPT ![c] = Nothing]
             /\ UNCHANGED <<lock, cached>>

\* The client left while nothing was being served.
Close(c) == /\ At(c, "idle")
            /\ conn[c].gone
            /\ Go(c, "closed")
            /\ UNCHANGED <<conn, work, lock, cached>>

Handler(c) == \/ Misread(c) \/ DoGet(c) \/ DoPost(c) \/ EndOfBody(c) \/ Parse(c)
              \/ Acquire(c) \/ Finish(c) \/ Format(c) \/ Close(c)

ModelStep(c) == Prepare(c) \/ Forward(c) \/ Raise(c)

Next == \/ \E c \in Connections : \/ Send(c) \/ BodyArrives(c) \/ Leave(c)
                                  \/ Handler(c) \/ ModelStep(c)
        \/ Stop

\* A thread goes on as far as it depends on the server alone.
Spec == Init /\ [][Next]_vars /\ \A c \in Connections : WF_vars(Handler(c))
-----------------------------------------------------------------------------
(* Properties.                                                             *)

Places == {"idle", "sent", "reading", "parsing", "waiting", "decoding", "calling",
           "formatting", "closed"}

\* Every variable has its type; no generation exceeds the server's ceiling.
TypeOK ==
  /\ pc \in [Connections -> Places]
  /\ lock \in Connections \cup {NoOne}
  /\ \A c \in Connections :
       /\ conn[c].request \in Requests
       /\ conn[c].sent \in 0..MaxRequests
       /\ conn[c].answer \in Statuses \cup {"none", "page"}
       /\ Len(work[c].output) <= MaxNewTokens
       /\ Len(work[c].rows) = Len(work[c].output)

\* "Two generations cannot mutate those caches concurrently" (architecture.md):
\* each token is drawn from the row of its own request and of nothing else.
Isolated ==
  \A c \in Connections : \A k \in DOMAIN work[c].rows :
    work[c].rows[k] = work[c].prompt \o SubSeq(work[c].output, 1, k - 1)

\* The model lock is held by the thread that generates, and by no thread that is
\* done with it, however it ended; a process that was stopped does not matter.
LockIsHeld == (\E c \in Connections : pc[c] # "closed") =>
                \A c \in Connections : lock = c <=> pc[c] \in {"decoding", "calling"}

Served(c) == pc[c] \in {"idle", "closed"}

\* If model calls return or raise, each request is answered whose body has
\* arrived, or is too short: other clients may stall in their bodies for ever.
\* Requests are finitely many here; the lock need not be fair.
EveryRequestServed ==
  (\A c \in Connections : WF_vars(ModelStep(c))) =>
    \A c \in Connections : pc[c] = "parsing" ~> Served(c)

\* Health is answered even while a generation holds the lock and goes no further.
HealthServed == \A c \in Connections :
                  pc[c] = "sent" /\ conn[c].request.kind = "health" ~> Served(c)

\* "Transport errors are returned as JSON" (architecture.md, "Serving contract").
AnswersAreJson == \A c \in Connections : conn[c].answer # "page"
=============================================================================
