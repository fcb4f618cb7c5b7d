--------------------------- MODULE ForwardStreams ---------------------------
(***************************************************************************)
(* The CUDA path of HuggingFaceCausalLM._forward (huggingface.py): a draft *)
(* and a target model share one CudaExecutionRuntime (cuda.py).  A forward *)
(* pass copies its two inputs through pinned buffers that are reused by    *)
(* name, queues the model on the stream of its role, behind both copies,   *)
(* and waits.  Each of these may raise; what was queued by then stays      *)
(* queued, and nobody waits for it: an orphan.                             *)
(***************************************************************************)
EXTENDS Buffers

CONSTANTS Tokens,
          MaxInput,   \* bound: tokens of a forward pass, and of its mask
          MaxOrphans  \* bound: a call fails only if fewer copies and forward
                      \* passes than these are queued

StreamsAssumption == MaxInput \in Nat \ {0} /\ MaxOrphans \in Nat

Roles == {"draft", "target"}
Names == Roles \X {"input_ids", "attention_mask"}
One == "one"

VARIABLES waiting,    \* the roles whose forward pass the host waits for
          capacity,   \* size of the newest buffer of each name
          pinned,     \* _pinned_buffers: by name, then by size
          workspace,  \* _workspaces of the same names and sizes
          transfer,   \* copies that are queued on the transfer stream
          stream      \* by role, the forward passes that are queued

vars == <<waiting, capacity, pinned, workspace, transfer, stream>>

\* Token identifiers, and a mask of ones as long as the whole context.
Inputs == {[input_ids |-> ids, attention_mask |-> [i \in 1..n |-> One]] :
             ids \in UNION {[1..k -> Tokens] : k \in 1..MaxInput}, n \in 1..MaxInput}
Calls == {x \in Inputs : Len(x.input_ids) <= Len(x.attention_mask)}

Init == /\ waiting = {}
        /\ capacity = [n \in Names |-> 0]
        /\ pinned = [n \in Names |-> <<>>]
        /\ workspace = [n \in Names |-> <<>>]
        /\ transfer = <<>>
        /\ stream = [r \in Roles |-> <<>>]
-----------------------------------------------------------------------------
(* The host.                                                               *)

\* A buffer that is large enough is reused, else a new one replaces it.
Acquired(name, n) == IF n <= capacity[name] THEN capacity[name] ELSE Rounded(n)

\* A buffer that nothing queued will read is forgotten.
Pinned(buffers) ==
  [n \in Names |-> [c \in {b \in DOMAIN buffers[n] : \E i \in DOMAIN transfer' :
                             transfer'[i].name = n /\ transfer'[i].buffer = b} |-> buffers[n][c]]]
Working(buffers) ==
  [n \in Names |-> [c \in {b \in DOMAIN buffers[n] : \E i \in DOMAIN stream'[n[1]] :
                             stream'[n[1]][i].buffer[n[2]] = b} |-> buffers[n][c]]]

Kinds == <<"input_ids", "attention_mask">>

\* copy_to_device for each input, of which the first `filled` fill their pinned
\* buffer and the first `copied` are queued.  One capacity stands for the pinned
\* buffer and the workspace: they differ after a failure in between, but only in
\* size, and a copy always finds room in both.
Copy(role, call, filled, copied) ==
  LET fills == {<<role, Kinds[i]>> : i \in 1..filled}
      size(n) == Len(call[n[2]])
  IN  /\ capacity' = [n \in Names |-> IF n \in fills THEN Acquired(n, size(n)) ELSE capacity[n]]
      /\ transfer' = transfer \o [i \in 1..copied |->
                       [name |-> <<role, Kinds[i]>>, size |-> size(<<role, Kinds[i]>>),
                        buffer |-> capacity'[<<role, Kinds[i]>>]]]
      /\ pinned' = Pinned([n \in Names |->
                     IF n \in fills THEN Overlay(pinned[n], capacity'[n], call[n[2]])
                     ELSE pinned[n]])

\* Mutant of Submit: the model does not wait for its inputs.
SubmitAtOnce(role, call, own) ==
  stream' = [stream EXCEPT ![role] =
    Append(@, [awaits |-> 0, due |-> call, own |-> own,
               buffer |-> [k \in DOMAIN call |-> capacity'[<<role, k>>]]])]

\* The model is queued behind the newest copies.
Submit(role, call, own) ==
  stream' = [stream EXCEPT ![role] =
    Append(@, [awaits |-> Len(transfer'), due |-> call, own |-> own,
               buffer |-> [k \in DOMAIN call |-> capacity'[<<role, k>>]]])]

\* Mutant of MayCall: a forward pass is begun while another one is queued.
MayCallAgain == Len(stream["draft"]) + Len(stream["target"]) < 2

\* wait: models are called one at a time.
MayCall == waiting = {}

Call(role, call) == /\ MayCall
                    /\ Copy(role, call, 2, 2)
                    /\ Submit(role, call, TRUE)
                    /\ waiting' = waiting \cup {role}
                    /\ UNCHANGED workspace

FewOrphans == Len(transfer) + Len(stream["draft"]) + Len(stream["target"]) < MaxOrphans

\* One of the copies raises, before or after its pinned buffer is filled; or
\* the model does, with part of its work queued.
CallFails(role, call) ==
  /\ MayCall /\ FewOrphans
  /\ \E point \in {<<1, 0>>, <<1, 1>>, <<2, 1>>, <<2, 2>>} :
       Copy(role, call, point[1], point[2])
  /\ \/ UNCHANGED stream
     \/ Len(transfer') = Len(transfer) + 2 /\ Submit(role, call, FALSE)
  /\ UNCHANGED <<waiting, workspace>>
-----------------------------------------------------------------------------
(* The device.                                                             *)

\* Mutant of Completed: only the target's stream is told.
CompletedForTarget(role, awaits) ==
  IF awaits = 0 \/ role = "draft" THEN awaits ELSE awaits - 1

Completed(role, awaits) == IF awaits = 0 THEN 0 ELSE awaits - 1

\* The oldest copy: what the pinned buffer holds now.
Transfer ==
  /\ transfer # <<>>
  /\ transfer' = Tail(transfer)
  /\ stream' = [r \in Roles |-> [i \in DOMAIN stream[r] |->
                 [stream[r][i] EXCEPT !.awaits = Completed(r, @)]]]
  /\ LET c == Head(transfer)
     IN  workspace' = Working([workspace EXCEPT ![c.name] =
                        Overlay(@, c.buffer, SubSeq(pinned[c.name][c.buffer], 1, c.size))])
  /\ pinned' = Pinned(pinned)
  /\ UNCHANGED <<waiting, capacity>>

Ready(role) == stream[role] # <<>> /\ Head(stream[role]).awaits = 0

\* The model reads its inputs; the host goes on if it waits for this pass.
Forward(role) ==
  /\ Ready(role)
  /\ stream' = [stream EXCEPT ![role] = Tail(@)]
  /\ waiting' = IF Head(stream[role]).own THEN waiting \ {role} ELSE waiting
  /\ workspace' = Working(workspace)
  /\ UNCHANGED <<capacity, pinned, transfer>>

Next == \/ \E role \in Roles, call \in Calls : Call(role, call) \/ CallFails(role, call)
        \/ Transfer
        \/ \E role \in Roles : Forward(role)

\* The device does what is queued on each stream.
Fairness == WF_vars(Transfer) /\ \A role \in Roles : WF_vars(Forward(role))

Spec == Init /\ [][Next]_vars /\ Fairness
-----------------------------------------------------------------------------
(* Properties.                                                             *)

\* Every variable has its type, and a buffer is never too small for a copy.
TypeOK ==
  /\ waiting \subseteq Roles
  /\ capacity \in [Names -> Nat]
  /\ \A i \in DOMAIN transfer :
       LET c == transfer[i]
       IN  c.size <= c.buffer /\ c.buffer \in DOMAIN pinned[c.name]
  /\ \A r \in Roles : \A i \in DOMAIN stream[r] : stream[r][i].awaits \in 0..Len(transfer)

\* docs/cuda-benchmarking.md: "Input IDs and attention masks are copied through
\* pinned buffers"; the rule on reused names is kept "by waiting for each forward".
\* A pass that is waited for reads its own inputs, also when copies and passes of
\* failed calls, with other inputs under the same names, are still queued.
ReadsOwnInputs ==
  \A role \in Roles : Ready(role) /\ Head(stream[role]).own =>
    LET f == Head(stream[role])
    IN  \A k \in DOMAIN f.due :
          /\ f.buffer[k] \in DOMAIN workspace[<<role, k>>]
          /\ SubSeq(workspace[<<role, k>>][f.buffer[k]], 1, Len(f.due[k])) = f.due[k]

\* CudaTask.wait: the host is never left waiting, whatever failed before.
Returns == \A role \in Roles : role \in waiting ~> role \notin waiting
=============================================================================
