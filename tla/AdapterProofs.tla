--------------------------- MODULE AdapterProofs ---------------------------
(***************************************************************************)
(* Proofs about two parts of the Hugging Face adapter beside its cache.    *)
(*                                                                         *)
(* ForwardStreams, for every alphabet and length of inputs: a forward pass *)
(* that is waited for reads its own inputs, whatever failed calls left     *)
(* queued.  The invariant follows the two inputs of that pass: they are in *)
(* their pinned buffers while their copies are the last in the queue, and  *)
(* in their workspaces from then on.                                       *)
(*                                                                         *)
(* Quantizer, for every length of a vector and format of the scale: what   *)
(* is stored is a function of the vector, so this is arithmetic.  A scale  *)
(* is a multiple of a power of two (Float), which rounding finds and keeps *)
(* (FloatExists, FloatExact); the quotients are those of half steps.       *)
(***************************************************************************)
EXTENDS MCAdapter, SharedTheorems

Kind == {"input_ids", "attention_mask"}
Cell == Tokens \cup {Streams!One}

Copies == [name : Streams!Names, size : Nat, buffer : Nat]
Passes == [awaits : Nat, due : Streams!Calls, own : BOOLEAN, buffer : [Kind -> Nat]]

\* Buffers of every name, by size, each with cells, and room for them.
Filled(buffers) ==
  /\ buffers = [n \in Streams!Names |-> buffers[n]]
  /\ \A n \in Streams!Names : \A c \in DOMAIN buffers[n] :
       /\ buffers[n][c] \in Seq(Cell)
       /\ c \in Nat /\ Len(buffers[n][c]) <= c

\* Every variable has its type, in the detail that proofs need.
Typed ==
  /\ waiting \subseteq Streams!Roles
  /\ capacity \in [Streams!Names -> Nat]
  /\ Filled(pinned) /\ Filled(workspace)
  /\ transfer \in Seq(Copies)
  /\ stream \in [Streams!Roles -> Seq(Passes)]

\* A copy finds what it copies, and no pass awaits a copy that is not queued.
Queued ==
  /\ \A i \in 1..Len(transfer) : LET c == transfer[i] IN
       /\ c.buffer \in DOMAIN pinned[c.name]
       /\ c.size <= Len(pinned[c.name][c.buffer])
  /\ \A r \in Streams!Roles : \A i \in 1..Len(stream[r]) : stream[r][i].awaits <= Len(transfer)

\* The host waits for one pass at most, and that is the newest of its stream.
Alone ==
  /\ \A q, r \in waiting : q = r
  /\ \A r \in Streams!Roles :
       /\ r \in waiting => stream[r] # <<>>
       /\ \A i \in 1..Len(stream[r]) : stream[r][i].own <=> r \in waiting /\ i = Len(stream[r])

\* A buffer begins with an input.
Holds(buffers, n, c, input) ==
  /\ c \in DOMAIN buffers[n]
  /\ Len(input) <= Len(buffers[n][c])
  /\ SubSeq(buffers[n][c], 1, Len(input)) = input

\* An input of the newest pass of a role: on its way, or there.
Supply(r, j) ==
  LET f == stream[r][Len(stream[r])]
      k == Streams!Kinds[j]
      n == Len(transfer)
  IN  IF n + j >= 3
      THEN /\ transfer[n + j - 2] = [name |-> <<r, k>>, size |-> Len(f.due[k]),
                                     buffer |-> f.buffer[k]]
           /\ Holds(pinned, <<r, k>>, f.buffer[k], f.due[k])
      ELSE Holds(workspace, <<r, k>>, f.buffer[k], f.due[k])

Supplied ==
  \A r \in waiting : /\ stream[r][Len(stream[r])].awaits = Len(transfer)
                     /\ \A j \in 1..2 : Supply(r, j)

IInv == Typed /\ Queued /\ Alone /\ Supplied
-----------------------------------------------------------------------------
(* Inputs and buffers.                                                     *)

LEMMA CallType ==
  ASSUME Streams!StreamsAssumption, NEW given \in Streams!Calls
  PROVE  /\ DOMAIN given = Kind
         /\ \A k \in Kind : given[k] \in Seq(Cell) /\ Len(given[k]) \in Nat \ {0}
<1>1. PICK n \in 1..MaxInput, ids \in UNION {[1..k -> Tokens] : k \in 1..MaxInput} :
        given = [input_ids |-> ids, attention_mask |-> [i \in 1..n |-> Streams!One]]
  BY DEF Streams!Calls, Streams!Inputs
<1>. PICK m \in 1..MaxInput : ids \in [1..m -> Tokens]
  OBVIOUS
<1>2. ids \in Seq(Cell) /\ Len(ids) = m
  BY DEF Cell, Streams!StreamsAssumption
<1>3. [i \in 1..n |-> Streams!One] \in Seq(Cell) /\ Len([i \in 1..n |-> Streams!One]) = n
  BY DEF Cell, Streams!StreamsAssumption
<1>. QED BY <1>1, <1>2, <1>3 DEF Kind

LEMMA KindsOf == /\ Streams!Kinds[1] = "input_ids" /\ Streams!Kinds[2] = "attention_mask"
                 /\ \A j \in 1..2 : Streams!Kinds[j] \in Kind
                 /\ \A r \in Streams!Roles, k \in Kind : <<r, k>> \in Streams!Names
BY DEF Streams!Kinds, Kind, Streams!Names

\* What is kept is as it was, and so is all that a queued copy or pass will read.
LEMMA PinnedProperties ==
  ASSUME NEW buffers, Filled(buffers)
  PROVE  /\ Filled(Streams!Pinned(buffers))
         /\ \A i \in DOMAIN transfer' :
              /\ transfer'[i].name \in Streams!Names
              /\ transfer'[i].buffer \in DOMAIN buffers[transfer'[i].name]
              => /\ transfer'[i].buffer \in DOMAIN Streams!Pinned(buffers)[transfer'[i].name]
                 /\ Streams!Pinned(buffers)[transfer'[i].name][transfer'[i].buffer]
                      = buffers[transfer'[i].name][transfer'[i].buffer]
BY DEF Streams!Pinned, Filled

LEMMA WorkingProperties ==
  ASSUME NEW buffers, Filled(buffers)
  PROVE  /\ Filled(Streams!Working(buffers))
         /\ \A r \in Streams!Roles, k \in Kind : \A i \in DOMAIN stream'[r] :
              stream'[r][i].buffer[k] \in DOMAIN buffers[<<r, k>>] =>
                /\ stream'[r][i].buffer[k] \in DOMAIN Streams!Working(buffers)[<<r, k>>]
                /\ Streams!Working(buffers)[<<r, k>>][stream'[r][i].buffer[k]]
                     = buffers[<<r, k>>][stream'[r][i].buffer[k]]
<1>1. Filled(Streams!Working(buffers))
  BY DEF Streams!Working, Filled
<1>2. ASSUME NEW r \in Streams!Roles, NEW k \in Kind, NEW i \in DOMAIN stream'[r],
             stream'[r][i].buffer[k] \in DOMAIN buffers[<<r, k>>]
      PROVE  /\ stream'[r][i].buffer[k] \in DOMAIN Streams!Working(buffers)[<<r, k>>]
             /\ Streams!Working(buffers)[<<r, k>>][stream'[r][i].buffer[k]]
                  = buffers[<<r, k>>][stream'[r][i].buffer[k]]
  <2>1. <<r, k>> \in Streams!Names /\ <<r, k>>[1] = r /\ <<r, k>>[2] = k
    BY KindsOf
  <2>. QED BY <1>2, <2>1 DEF Streams!Working
<1>. QED BY <1>1, <1>2

\* Some names have a buffer that begins with an input, and no buffer is lost.
Refilled(buffers, S, size, source, after) ==
  /\ Filled(after)
  /\ \A n \in Streams!Names : \A c \in DOMAIN buffers[n] :
       c \in DOMAIN after[n] /\ Len(buffers[n][c]) <= Len(after[n][c])
  /\ \A n \in S : Holds(after, n, size[n], source[n])

\* The instance's copy of Buffers is the one that SharedTheorems is about.
LEMMA SameOverlay == \A b, c, x : Streams!Overlay(b, c, x) = Overlay(b, c, x)
BY DEF Streams!Overlay, Overlay

LEMMA SameRounded == \A n : Streams!Rounded(n) = Rounded(n)
BY Zenon DEF Streams!Rounded, Rounded, Streams!PowerOfTwo, PowerOfTwo

LEMMA FilledOverlays ==
  ASSUME NEW buffers, Filled(buffers), NEW S \in SUBSET Streams!Names,
         NEW size, NEW source,
         \A n \in S : /\ size[n] \in Nat /\ source[n] \in Seq(Cell)
                      /\ Len(source[n]) <= size[n],
         NEW after,
         after = [n \in Streams!Names |-> IF n \in S THEN Overlay(buffers[n], size[n], source[n])
                                             ELSE buffers[n]]
  PROVE  Refilled(buffers, S, size, source, after)
<1>1. ASSUME NEW n \in S
      PROVE  /\ \A c \in DOMAIN after[n] :
                  after[n][c] \in Seq(Cell) /\ c \in Nat /\ Len(after[n][c]) <= c
             /\ \A c \in DOMAIN buffers[n] :
                  c \in DOMAIN after[n] /\ Len(buffers[n][c]) <= Len(after[n][c])
             /\ Holds(after, n, size[n], source[n])
  <2>. DEFINE old == buffers[n]
              new == after[n]
              d == size[n]
              input == source[n]
  <2>1. /\ new = Overlay(old, d, input) /\ n \in Streams!Names
        /\ d \in Nat /\ input \in Seq(Cell) /\ Len(input) <= d
    OBVIOUS
  <2>2. \A c \in DOMAIN old : old[c] \in Seq(Cell) /\ c \in Nat /\ Len(old[c]) <= c
    BY DEF Filled
  <2>. HIDE DEF old, new, d, input
  <2>3. Overlaid(Cell, old, d, input, new)
    BY <2>1, <2>2, OverlayProperties
  <2>4. /\ \A c \in DOMAIN new : new[c] \in Seq(Cell) /\ c \in Nat
        /\ \A c \in DOMAIN new : c # d => c \in DOMAIN old /\ new[c] = old[c]
        /\ \A c \in DOMAIN old : c \in DOMAIN new /\ (c # d => new[c] = old[c])
    BY <2>1, <2>2, <2>3 DEF Overlaid
  <2>5. \A c \in DOMAIN old : Len(old[c]) <= Len(new[c])
    BY <2>3 DEF Overlaid
  <2>6. Len(new[d]) <= d
    BY <2>1, <2>2, <2>3 DEF Overlaid
  <2>7. /\ d \in DOMAIN new /\ Len(input) <= Len(new[d])
        /\ SubSeq(new[d], 1, Len(input)) = input
    BY <2>3 DEF Overlaid
  <2>8. \A c \in DOMAIN new : Len(new[c]) <= c
    BY <2>2, <2>4, <2>6
  <2>. QED BY <2>4, <2>5, <2>7, <2>8 DEF old, new, d, input, Holds
<1>2. \A n \in Streams!Names \ S : after[n] = buffers[n]
  OBVIOUS
<1>3. after = [n \in Streams!Names |-> after[n]]
  OBVIOUS
<1>5. Filled(after)
  BY <1>1, <1>2, <1>3 DEF Filled
<1>6. \A n \in Streams!Names : \A c \in DOMAIN buffers[n] : Len(buffers[n][c]) \in Nat
  BY LenProperties DEF Filled
<1>7. \A n \in Streams!Names : \A c \in DOMAIN buffers[n] :
        c \in DOMAIN after[n] /\ Len(buffers[n][c]) <= Len(after[n][c])
  <2>. SUFFICES ASSUME NEW n \in Streams!Names, NEW c \in DOMAIN buffers[n]
                PROVE  c \in DOMAIN after[n] /\ Len(buffers[n][c]) <= Len(after[n][c])
    OBVIOUS
  <2>1. CASE n \in S
    BY <1>1, <2>1
  <2>2. CASE n \notin S
    <3>1. after[n] = buffers[n]
      BY <1>2, <2>2
    <3>. QED BY <1>6, <3>1
  <2>. QED BY <2>1, <2>2
<1>8. \A n \in S : Holds(after, n, size[n], source[n])
  BY <1>1
<1>. QED BY <1>5, <1>7, <1>8 DEF Refilled
-----------------------------------------------------------------------------
(* The host.                                                               *)

Copied(role, given, i) == [name |-> <<role, Streams!Kinds[i]>>,
                           size |-> Len(given[Streams!Kinds[i]]),
                          buffer |-> capacity'[<<role, Streams!Kinds[i]>>]]

\* A call that may have failed fills buffers that are large enough, and queues its
\* copies behind those that are there.
LEMMA CopyProperties ==
  ASSUME Streams!StreamsAssumption, Typed, Queued,
         NEW role \in Streams!Roles, NEW given \in Streams!Calls,
         NEW filled \in 0..2, NEW copied \in 0..filled,
         Streams!Copy(role, given, filled, copied)
  PROVE  /\ capacity' \in [Streams!Names -> Nat] /\ Filled(pinned')
         /\ transfer' \in Seq(Copies) /\ Len(transfer') = Len(transfer) + copied
         /\ \A i \in 1..copied : /\ transfer'[Len(transfer) + i] = Copied(role, given, i)
                                 /\ Holds(pinned', <<role, Streams!Kinds[i]>>,
                                          capacity'[<<role, Streams!Kinds[i]>>],
                                          given[Streams!Kinds[i]])
         /\ \A i \in 1..Len(transfer') : LET c == transfer'[i] IN
              /\ c.buffer \in DOMAIN pinned'[c.name]
              /\ c.size <= Len(pinned'[c.name][c.buffer])
<1>. DEFINE fills == {<<role, Streams!Kinds[i]>> : i \in 1..filled}
            source == [n \in Streams!Names |-> given[n[2]]]
            new == [i \in 1..copied |-> Copied(role, given, i)]
            after == [n \in Streams!Names |->
                        IF n \in fills THEN Streams!Overlay(pinned[n], capacity'[n], source[n])
                        ELSE pinned[n]]
            m == Len(transfer)
<1>0. copied \in Nat /\ filled \in Nat /\ copied <= filled /\ filled <= 2
  OBVIOUS
<1>1. /\ \A n \in Streams!Names : source[n] \in Seq(Cell) /\ Len(source[n]) \in Nat \ {0}
      /\ \A i \in 1..2 : /\ <<role, Streams!Kinds[i]>> \in Streams!Names
                         /\ source[<<role, Streams!Kinds[i]>>] = given[Streams!Kinds[i]]
  <2>1. \A n \in Streams!Names : n[2] \in Kind
    BY DEF Streams!Names, Kind
  <2>. QED BY <2>1, CallType, KindsOf
<1>2. fills \subseteq Streams!Names /\ \A i \in 1..filled : <<role, Streams!Kinds[i]>> \in fills
  <2>1. \A i \in 1..filled : i \in 1..2
    BY <1>0
  <2>2. \A i \in 1..filled : <<role, Streams!Kinds[i]>> \in Streams!Names
    BY <1>1, <2>1
  <2>. QED BY <2>2
<1>3. capacity' = [n \in Streams!Names |->
                      IF n \in fills THEN Streams!Acquired(n, Len(source[n])) ELSE capacity[n]]
  BY DEF Streams!Copy
<1>4. capacity \in [Streams!Names -> Nat]
  BY DEF Typed
<1>. HIDE DEF fills, source
<1>5. \A n \in Streams!Names : /\ Streams!Acquired(n, Len(source[n])) \in Nat
                       /\ Len(source[n]) <= Streams!Acquired(n, Len(source[n]))
  BY <1>1, <1>4, SameRounded, RoundedProperties DEF Streams!Acquired
<1>6. /\ capacity' \in [Streams!Names -> Nat]
      /\ \A n \in fills : Len(source[n]) <= capacity'[n]
  BY <1>2, <1>3, <1>4, <1>5
<1>7. pinned' = Streams!Pinned(after) /\ transfer' = transfer \o new
  BY <1>1 DEF Streams!Copy, Copied, fills, source
<1>8. Refilled(pinned, fills, capacity', source, after)
  <2>1. Filled(pinned)
    BY DEF Typed
  <2>2. \A n \in fills : /\ capacity'[n] \in Nat /\ source[n] \in Seq(Cell)
                         /\ Len(source[n]) <= capacity'[n]
    BY <1>1, <1>2, <1>6
  <2>3. after = [n \in Streams!Names |->
                   IF n \in fills THEN Overlay(pinned[n], capacity'[n], source[n])
                   ELSE pinned[n]]
    BY SameOverlay
  <2>. HIDE DEF after
  <2>. QED BY <1>2, <2>1, <2>2, <2>3, FilledOverlays
<1>. HIDE DEF after
<1>9. \A i \in 1..copied : Copied(role, given, i) \in Copies
  BY <1>1, <1>6, CallType, KindsOf DEF Copied, Copies
<1>10. new \in Seq(Copies) /\ Len(new) = copied
  BY <1>9
<1>11. transfer \in Seq(Copies) /\ m \in Nat
  BY LenProperties DEF Typed
<1>. HIDE DEF new, m
<1>12. /\ transfer' \in Seq(Copies) /\ Len(transfer') = m + copied
       /\ \A i \in 1..m + copied : transfer'[i] = IF i <= m THEN transfer[i] ELSE new[i - m]
  BY <1>7, <1>10, <1>11, ConcatProperties DEF m
<1>13. \A i \in 1..copied : transfer'[m + i] = Copied(role, given, i)
  <2>. TAKE i \in 1..copied
  <2>1. m + i \in 1..m + copied /\ ~(m + i <= m) /\ (m + i) - m = i
    BY <1>11
  <2>. QED BY <1>12, <2>1 DEF new
<1>14. ASSUME NEW i \in 1..Len(transfer')
       PROVE  /\ transfer'[i].name \in Streams!Names
              /\ transfer'[i].buffer \in DOMAIN after[transfer'[i].name]
              /\ transfer'[i].size <= Len(after[transfer'[i].name][transfer'[i].buffer])
  <2>. DEFINE c == transfer'[i]
  <2>1. c \in Copies
    BY <1>12, ElementOfSeq
  <2>2. CASE i <= m
    <3>1. c = transfer[i] /\ i \in 1..Len(transfer)
      BY <1>11, <1>12, <2>2 DEF m
    <3>2. /\ c.buffer \in DOMAIN pinned[c.name] /\ c.size <= Len(pinned[c.name][c.buffer])
      BY <3>1 DEF Queued
    <3>3. c.name \in Streams!Names /\ c.size \in Nat
      BY <2>1 DEF Copies
    <3>. HIDE DEF c
    <3>4. /\ Len(pinned[c.name][c.buffer]) \in Nat /\ Len(after[c.name][c.buffer]) \in Nat
          /\ c.buffer \in DOMAIN after[c.name]
          /\ Len(pinned[c.name][c.buffer]) <= Len(after[c.name][c.buffer])
      BY <1>8, <3>2, <3>3, LenProperties DEF Typed, Filled, Refilled
    <3>. DEFINE u == Len(pinned[c.name][c.buffer])
                v == Len(after[c.name][c.buffer])
    <3>5. c.size <= v
      <4>1. u \in Nat /\ v \in Nat /\ u <= v /\ c.size <= u /\ c.size \in Nat
        BY <3>2, <3>3, <3>4
      <4>. HIDE DEF u, v
      <4>. QED BY <4>1
    <3>. QED BY <3>3, <3>4, <3>5 DEF c
  <2>3. CASE ~(i <= m)
    <3>. DEFINE j == i - m
    <3>0. i \in 1..m + copied /\ i \in Nat
      BY <1>0, <1>11, <1>12
    <3>1. j \in 1..copied /\ j \in 1..filled /\ j \in 1..2 /\ c = new[j]
      BY <1>0, <1>11, <1>12, <2>3, <3>0
    <3>3. c = Copied(role, given, j)
      BY <3>1 DEF new
    <3>2. <<role, Streams!Kinds[j]>> \in fills /\ <<role, Streams!Kinds[j]>> \in Streams!Names
          /\ source[<<role, Streams!Kinds[j]>>] = given[Streams!Kinds[j]]
      BY <1>1, <1>2, <3>1
    <3>. HIDE DEF j, c
    <3>. QED BY <1>8, <3>2, <3>3 DEF Copied, Holds, c, Refilled
  <2>. QED BY <2>2, <2>3
<1>15. /\ Filled(pinned')
       /\ \A i \in 1..Len(transfer') :
            /\ transfer'[i].buffer \in DOMAIN pinned'[transfer'[i].name]
            /\ pinned'[transfer'[i].name][transfer'[i].buffer]
                 = after[transfer'[i].name][transfer'[i].buffer]
  <2>1. DOMAIN transfer' = 1..Len(transfer') /\ Filled(after) /\ pinned' = Streams!Pinned(after)
    BY <1>7, <1>8, <1>12, LenProperties DEF Refilled
  <2>2. \A i \in DOMAIN transfer' :
          /\ transfer'[i].name \in Streams!Names
          /\ transfer'[i].buffer \in DOMAIN after[transfer'[i].name]
          => /\ transfer'[i].buffer \in DOMAIN Streams!Pinned(after)[transfer'[i].name]
             /\ Streams!Pinned(after)[transfer'[i].name][transfer'[i].buffer]
                  = after[transfer'[i].name][transfer'[i].buffer]
    BY <2>1, PinnedProperties
  <2>3. Filled(Streams!Pinned(after))
    BY <2>1, PinnedProperties
  <2>. QED BY <1>14, <2>1, <2>2, <2>3
<1>16. ASSUME NEW i \in 1..copied
       PROVE  Holds(pinned', <<role, Streams!Kinds[i]>>, capacity'[<<role, Streams!Kinds[i]>>],
                    given[Streams!Kinds[i]])
  <2>. DEFINE n == <<role, Streams!Kinds[i]>>
  <2>. i \in 1..filled /\ i \in 1..2 /\ i \in Nat
    BY <1>0
  <2>1. n \in fills /\ source[n] = given[Streams!Kinds[i]]
    BY <1>1, <1>2
  <2>2. Holds(after, n, capacity'[n], given[Streams!Kinds[i]])
    BY <1>8, <2>1 DEF Refilled
  <2>3. m + i \in 1..m + copied
    BY <1>0, <1>11
  <2>4. m + i \in 1..Len(transfer')
    BY <1>12, <2>3
  <2>5. transfer'[m + i] = Copied(role, given, i)
    BY <1>13
  <2>6. transfer'[m + i].name = n /\ transfer'[m + i].buffer = capacity'[n]
    BY <2>5 DEF Copied
  <2>. HIDE DEF n
  <2>7. /\ capacity'[n] \in DOMAIN pinned'[n]
        /\ pinned'[n][capacity'[n]] = after[n][capacity'[n]]
    BY <1>15, <2>4, <2>6
  <2>8. Holds(pinned', n, capacity'[n], given[Streams!Kinds[i]])
    BY <2>2, <2>7 DEF Holds
  <2>. QED BY <2>8 DEF n
<1>. QED BY <1>6, <1>12, <1>13, <1>14, <1>15, <1>16 DEF m

Submitted(role, given, own) ==
  [awaits |-> Len(transfer'), due |-> given, own |-> own,
   buffer |-> [k \in DOMAIN given |-> capacity'[<<role, k>>]]]

LEMMA SubmitProperties ==
  ASSUME Streams!StreamsAssumption, Typed,
         NEW role \in Streams!Roles, NEW given \in Streams!Calls, NEW own \in BOOLEAN,
         capacity' \in [Streams!Names -> Nat], Len(transfer') \in Nat,
         Streams!Submit(role, given, own)
  PROVE  /\ stream' \in [Streams!Roles -> Seq(Passes)]
         /\ \A r \in Streams!Roles : r # role => stream'[r] = stream[r]
         /\ Len(stream'[role]) = Len(stream[role]) + 1
         /\ \A i \in 1..Len(stream[role]) : stream'[role][i] = stream[role][i]
         /\ stream'[role][Len(stream[role]) + 1] = Submitted(role, given, own)
<1>. DEFINE pass == Submitted(role, given, own)
            old == stream[role]
<1>1. stream' = [stream EXCEPT ![role] = Append(old, pass)]
  BY DEF Streams!Submit, Submitted
<1>2. pass \in Passes
  <2>. DOMAIN given = Kind /\ \A k \in Kind : <<role, k>> \in Streams!Names
    BY CallType, KindsOf
  <2>. QED BY DEF Passes, Submitted
<1>3. stream \in [Streams!Roles -> Seq(Passes)] /\ old \in Seq(Passes) /\ Len(old) \in Nat
  BY LenProperties DEF Typed
<1>. HIDE DEF pass, old
<1>4. /\ Append(old, pass) \in Seq(Passes) /\ Len(Append(old, pass)) = Len(old) + 1
      /\ \A i \in 1..Len(old) : Append(old, pass)[i] = old[i]
      /\ Append(old, pass)[Len(old) + 1] = pass
  BY <1>2, <1>3, AppendProperties
<1>. QED BY <1>1, <1>3, <1>4 DEF old, pass

\* A call that returns leaves both inputs in their pinned buffers, and their copies
\* last in the queue.
LEMMA CallStep ==
  ASSUME Streams!StreamsAssumption, IInv,
         NEW role \in Streams!Roles, NEW given \in Streams!Calls, Streams!Call(role, given)
  PROVE  IInv'
<1>. DEFINE m == Len(transfer)
            l == Len(stream[role])
<1>1. Typed /\ Queued /\ Alone /\ waiting = {} /\ waiting' = {role} /\ workspace' = workspace
  BY DEF IInv, Streams!Call, Streams!MayCall
<1>2. /\ Streams!Copy(role, given, 2, 2) /\ Streams!Submit(role, given, TRUE)
      /\ m \in Nat /\ l \in Nat
      /\ 2 \in 0..2 /\ TRUE \in BOOLEAN
  <2>1. transfer \in Seq(Copies) /\ stream[role] \in Seq(Passes)
    BY <1>1 DEF Typed
  <2>2. m \in Nat /\ l \in Nat
    BY <2>1, LenProperties
  <2>3. Streams!Copy(role, given, 2, 2) /\ Streams!Submit(role, given, TRUE)
    BY DEF Streams!Call
  <2>4. 2 \in 0..2 /\ TRUE \in BOOLEAN
    OBVIOUS
  <2>. HIDE DEF m, l
  <2>. QED BY <2>2, <2>3, <2>4
<1>3. /\ capacity' \in [Streams!Names -> Nat] /\ Filled(pinned')
      /\ transfer' \in Seq(Copies) /\ Len(transfer') = m + 2
      /\ \A j \in 1..2 : /\ transfer'[m + j] = Copied(role, given, j)
                         /\ Holds(pinned', <<role, Streams!Kinds[j]>>,
                                  capacity'[<<role, Streams!Kinds[j]>>], given[Streams!Kinds[j]])
      /\ \A i \in 1..Len(transfer') : LET c == transfer'[i] IN
           /\ c.buffer \in DOMAIN pinned'[c.name]
           /\ c.size <= Len(pinned'[c.name][c.buffer])
  BY <1>1, <1>2, CopyProperties
<1>4. Len(transfer') \in Nat /\ m <= Len(transfer')
  BY <1>2, <1>3
<1>5. /\ stream' \in [Streams!Roles -> Seq(Passes)]
      /\ \A r \in Streams!Roles : r # role => stream'[r] = stream[r]
      /\ Len(stream'[role]) = l + 1
      /\ \A i \in 1..l : stream'[role][i] = stream[role][i]
      /\ stream'[role][l + 1] = Submitted(role, given, TRUE)
  BY <1>1, <1>2, <1>3, <1>4, SubmitProperties
<1>. HIDE DEF m, l
<1>6. Typed'
  BY <1>1, <1>3, <1>5 DEF Typed
<1>7. Queued'
  <2>1. ASSUME NEW r \in Streams!Roles, NEW i \in 1..Len(stream'[r])
        PROVE  stream'[r][i].awaits <= Len(transfer')
    <3>1. \A q \in Streams!Roles : \A h \in 1..Len(stream[q]) :
            stream[q][h].awaits \in Nat /\ stream[q][h].awaits <= m
      <4>. TAKE q \in Streams!Roles
      <4>. TAKE h \in 1..Len(stream[q])
      <4>1. stream[q][h] \in Passes
        BY <1>1, ElementOfSeq DEF Typed
      <4>. QED BY <1>1, <4>1 DEF Queued, Passes, m
    <3>2. CASE r # role
      <4>1. i \in 1..Len(stream[r]) /\ stream'[r][i] = stream[r][i]
        BY <1>5, <3>2
      <4>2. stream'[r][i].awaits \in Nat /\ stream'[r][i].awaits <= m
        BY <3>1, <4>1
      <4>. QED BY <1>2, <1>4, <4>2
    <3>3. CASE r = role /\ i <= l
      <4>1. i \in 1..Len(stream[role]) /\ stream'[role][i] = stream[role][i]
        BY <1>2, <1>5, <3>3 DEF l
      <4>2. stream'[r][i].awaits \in Nat /\ stream'[r][i].awaits <= m
        BY <3>1, <3>3, <4>1
      <4>. QED BY <1>2, <1>4, <4>2
    <3>4. CASE r = role /\ ~(i <= l)
      <4>1. i = l + 1
        BY <1>2, <1>5, <3>4
      <4>. QED BY <1>4, <1>5, <3>4, <4>1 DEF Submitted
    <3>. QED BY <3>2, <3>3, <3>4
  <2>. QED BY <1>3, <2>1 DEF Queued
<1>8. Alone'
  <2>1. ASSUME NEW r \in Streams!Roles, NEW i \in 1..Len(stream'[r])
        PROVE  stream'[r][i].own <=> r \in waiting' /\ i = Len(stream'[r])
    <3>1. \A q \in Streams!Roles : \A h \in 1..Len(stream[q]) : ~stream[q][h].own
      BY <1>1 DEF Alone
    <3>2. CASE r # role
      BY <1>1, <1>5, <3>1, <3>2
    <3>3. CASE r = role /\ i <= l
      BY <1>1, <1>2, <1>5, <3>1, <3>3 DEF l
    <3>4. CASE r = role /\ ~(i <= l)
      <4>1. i = l + 1
        BY <1>2, <1>5, <3>4
      <4>. QED BY <1>1, <1>5, <3>4, <4>1 DEF Submitted
    <3>. QED BY <3>2, <3>3, <3>4
  <2>2. stream'[role] # <<>>
    BY <1>2, <1>5, EmptySeq
  <2>. QED BY <1>1, <2>1, <2>2 DEF Alone
<1>9. Supplied'
  <2>. DEFINE f == stream'[role][Len(stream'[role])]
  <2>1. f = Submitted(role, given, TRUE)
    BY <1>5
  <2>2. f.awaits = Len(transfer') /\ f.due = given
        /\ \A j \in 1..2 : f.buffer[Streams!Kinds[j]] = capacity'[<<role, Streams!Kinds[j]>>]
    BY <2>1, CallType, KindsOf DEF Submitted
  <2>. HIDE DEF f
  <2>3. ASSUME NEW j \in 1..2
        PROVE  Supply(role, j)'
    <3>1. Len(transfer') + j >= 3 /\ Len(transfer') + j - 2 = m + j
      BY <1>2, <1>3
    <3>2. /\ transfer'[m + j] = [name |-> <<role, Streams!Kinds[j]>>,
                                size |-> Len(f.due[Streams!Kinds[j]]),
                                 buffer |-> f.buffer[Streams!Kinds[j]]]
          /\ Holds(pinned', <<role, Streams!Kinds[j]>>, f.buffer[Streams!Kinds[j]],
                   f.due[Streams!Kinds[j]])
      BY <1>3, <2>2 DEF Copied
    <3>. QED BY <3>1, <3>2 DEF Supply, f, Holds
  <2>. QED BY <1>1, <2>2, <2>3 DEF Supplied, f
<1>. QED BY <1>6, <1>7, <1>8, <1>9 DEF IInv

\* A call that raises leaves copies, and a pass that nobody waits for.
LEMMA CallFailsStep ==
  ASSUME Streams!StreamsAssumption, IInv,
         NEW role \in Streams!Roles, NEW given \in Streams!Calls, Streams!CallFails(role, given)
  PROVE  IInv'
<1>. DEFINE m == Len(transfer)
            l == Len(stream[role])
<1>1. /\ Typed /\ Queued /\ Alone /\ waiting = {} /\ waiting' = {} /\ workspace' = workspace
      /\ stream' = stream \/ Streams!Submit(role, given, FALSE)
  BY DEF IInv, Streams!CallFails, Streams!MayCall
<1>2. PICK filled \in 0..2, copied \in 0..2 :
        /\ copied <= filled
        /\ Streams!Copy(role, given, filled, copied)
  <2>1. PICK point \in {<<1, 0>>, <<1, 1>>, <<2, 1>>, <<2, 2>>} :
                 Streams!Copy(role, given, point[1], point[2])
    BY DEF Streams!CallFails
  <2>2. /\ point[1] \in 0..2 /\ point[2] \in 0..2 /\ point[2] <= point[1]
    BY <2>1
  <2>. QED BY <2>1, <2>2
<1>3. /\ capacity' \in [Streams!Names -> Nat] /\ Filled(pinned')
      /\ transfer' \in Seq(Copies) /\ Len(transfer') = m + copied
      /\ \A i \in 1..Len(transfer') : LET c == transfer'[i] IN
           /\ c.buffer \in DOMAIN pinned'[c.name]
           /\ c.size <= Len(pinned'[c.name][c.buffer])
  <2>. copied \in 0..filled
    BY <1>2
  <2>. QED BY <1>1, <1>2, CopyProperties
<1>4. m \in Nat /\ l \in Nat /\ Len(transfer') \in Nat /\ m <= Len(transfer')
  <2>1. transfer \in Seq(Copies) /\ stream[role] \in Seq(Passes)
    BY <1>1 DEF Typed
  <2>2. m \in Nat /\ l \in Nat
    BY <2>1, LenProperties
  <2>. QED BY <1>3, <2>2
<1>5. /\ stream' \in [Streams!Roles -> Seq(Passes)]
      /\ \A r \in Streams!Roles : \A i \in 1..Len(stream'[r]) :
           \/ i \in 1..Len(stream[r]) /\ stream'[r][i] = stream[r][i]
           \/ stream'[r][i].own = FALSE /\ stream'[r][i].awaits = Len(transfer')
  <2>1. CASE stream' = stream
    BY <1>1, <2>1 DEF Typed
  <2>2. CASE Streams!Submit(role, given, FALSE)
    <3>1. /\ stream' \in [Streams!Roles -> Seq(Passes)]
          /\ \A r \in Streams!Roles : r # role => stream'[r] = stream[r]
          /\ Len(stream'[role]) = l + 1
          /\ \A i \in 1..l : stream'[role][i] = stream[role][i]
          /\ stream'[role][l + 1] = Submitted(role, given, FALSE)
      BY <1>1, <1>3, <1>4, <2>2, SubmitProperties
    <3>. HIDE DEF l
    <3>2. ASSUME NEW i \in 1..Len(stream'[role])
          PROVE  \/ i \in 1..l /\ stream'[role][i] = stream[role][i]
                 \/ stream'[role][i].own = FALSE /\ stream'[role][i].awaits = Len(transfer')
      <4>1. i \in 1..l \/ i = l + 1
        BY <1>4, <3>1
      <4>. QED BY <3>1, <4>1 DEF Submitted
    <3>3. ASSUME NEW r \in Streams!Roles, r # role, NEW i \in 1..Len(stream'[r])
          PROVE  i \in 1..Len(stream[r]) /\ stream'[r][i] = stream[r][i]
      BY <3>1, <3>3
    <3>. QED BY <3>1, <3>2, <3>3 DEF l
  <2>. QED BY <1>1, <2>1, <2>2
<1>. HIDE DEF m, l
<1>6. Typed'
  BY <1>1, <1>3, <1>5 DEF Typed
<1>7. Queued'
  <2>1. ASSUME NEW r \in Streams!Roles, NEW i \in 1..Len(stream[r])
        PROVE  stream[r][i].awaits \in Nat /\ stream[r][i].awaits <= m
    <3>1. stream[r][i] \in Passes
      BY <1>1, ElementOfSeq DEF Typed
    <3>. QED BY <1>1, <3>1 DEF Queued, Passes, m
  <2>2. ASSUME NEW r \in Streams!Roles, NEW i \in 1..Len(stream'[r])
        PROVE  stream'[r][i].awaits <= Len(transfer')
    <3>1. CASE i \in 1..Len(stream[r]) /\ stream'[r][i] = stream[r][i]
      BY <1>4, <2>1, <3>1
    <3>2. CASE stream'[r][i].awaits = Len(transfer')
      BY <1>4, <3>2
    <3>. QED BY <1>5, <3>1, <3>2
  <2>. QED BY <1>3, <2>2 DEF Queued
<1>8. Alone'
  <2>1. ASSUME NEW r \in Streams!Roles, NEW i \in 1..Len(stream'[r])
        PROVE  ~stream'[r][i].own
    BY <1>1, <1>5 DEF Alone
  <2>. QED BY <1>1, <2>1 DEF Alone
<1>9. Supplied'
  BY <1>1 DEF Supplied
<1>. QED BY <1>6, <1>7, <1>8, <1>9 DEF IInv
-----------------------------------------------------------------------------
(* The device.                                                             *)

\* The newest pass of a role that the host waits for.
LEMMA NewestPass ==
  ASSUME Typed, Alone, NEW r \in waiting
  PROVE  /\ r \in Streams!Roles /\ Len(stream[r]) \in Nat \ {0}
         /\ stream[r][Len(stream[r])] \in Passes
<1>1. r \in Streams!Roles /\ stream[r] \in Seq(Passes) /\ stream[r] # <<>>
  BY DEF Typed, Alone
<1>2. Len(stream[r]) \in Nat \ {0}
  BY <1>1, LenProperties, EmptySeq
<1>. QED BY <1>1, <1>2, ElementOfSeq

\* What transfers next leaves the pinned buffer for the workspace of its name.
LEMMA TransferStep ==
  ASSUME IInv, Streams!Transfer
  PROVE  IInv'
<1>. DEFINE m == Len(transfer)
            c == transfer[1]
            source == SubSeq(pinned[c.name][c.buffer], 1, c.size)
            after == [workspace EXCEPT ![c.name] = Streams!Overlay(@, c.buffer, source)]
            pass(r, i) == [stream[r][i] EXCEPT !.awaits = Streams!Completed(r, @)]
<1>1. /\ Typed /\ Queued /\ Alone /\ Supplied /\ waiting' = waiting /\ capacity' = capacity
      /\ pinned' = Streams!Pinned(pinned)
  BY DEF IInv, Streams!Transfer
<1>2. /\ m \in Nat \ {0} /\ c \in Copies /\ Head(transfer) = c
      /\ transfer' \in Seq(Copies) /\ Len(transfer') = m - 1
      /\ \A i \in 1..m - 1 : transfer'[i] = transfer[i + 1]
  <2>1. transfer \in Seq(Copies) /\ transfer # <<>> /\ transfer' = Tail(transfer)
    BY <1>1 DEF Typed, Streams!Transfer
  <2>2. m \in Nat \ {0}
    BY <2>1, LenProperties, EmptySeq
  <2>3. Head(transfer) = c /\ c \in Copies
    BY <2>1, <2>2, ElementOfSeq
  <2>4. /\ Tail(transfer) \in Seq(Copies) /\ Len(Tail(transfer)) = m - 1
        /\ \A i \in 1..m - 1 : Tail(transfer)[i] = transfer[i + 1]
    BY <2>1, HeadTailProperties
  <2>. QED BY <2>1, <2>2, <2>3, <2>4
<1>3. workspace' = Streams!Working(after)
  BY <1>2 DEF Streams!Transfer
<1>4. /\ c.name \in Streams!Names /\ c.buffer \in Nat /\ c.size \in Nat
      /\ c.buffer \in DOMAIN pinned[c.name]
      /\ c.size <= Len(pinned[c.name][c.buffer])
  BY <1>1, <1>2 DEF Copies, Queued
<1>. HIDE DEF m, c
<1>5. /\ pinned[c.name][c.buffer] \in Seq(Cell) /\ Len(pinned[c.name][c.buffer]) \in Nat
      /\ Len(pinned[c.name][c.buffer]) <= c.buffer
  BY <1>1, <1>4, LenProperties DEF Typed, Filled
<1>6. source \in Seq(Cell) /\ Len(source) = c.size /\ c.size <= c.buffer
  <2>1. c.size \in 0..Len(pinned[c.name][c.buffer])
    BY <1>4, <1>5
  <2>. QED BY <1>4, <1>5, <2>1, PrefixProperties
<1>7. Refilled(workspace, {c.name}, [n \in Streams!Names |-> c.buffer],
               [n \in Streams!Names |-> source], after)
  <2>. DEFINE sizes == [n \in Streams!Names |-> c.buffer]
              sources == [n \in Streams!Names |-> source]
  <2>1. after = [n \in Streams!Names |->
                   IF n \in {c.name} THEN Overlay(workspace[n], sizes[n], sources[n])
                   ELSE workspace[n]]
    BY <1>1, <1>4, SameOverlay DEF Typed, Filled
  <2>2. \A n \in {c.name} : /\ sizes[n] \in Nat /\ sources[n] \in Seq(Cell)
                            /\ Len(sources[n]) <= sizes[n]
    BY <1>4, <1>6
  <2>3. {c.name} \in SUBSET Streams!Names /\ Filled(workspace)
    BY <1>1, <1>4 DEF Typed
  <2>. HIDE DEF after, sizes, sources
  <2>4. Refilled(workspace, {c.name}, sizes, sources, after)
    BY <2>1, <2>2, <2>3, FilledOverlays
  <2>. QED BY <2>4 DEF sizes, sources
<1>8. /\ Filled(after) /\ Holds(after, c.name, c.buffer, source)
      /\ \A n \in Streams!Names : n # c.name => after[n] = workspace[n]
  <2>1. Filled(after) /\ Holds(after, c.name, c.buffer, source)
    BY <1>4, <1>7 DEF Refilled
  <2>2. \A n \in Streams!Names : n # c.name => after[n] = workspace[n]
    OBVIOUS
  <2>. QED BY <2>1, <2>2
<1>. HIDE DEF after, source
<1>9. /\ Filled(pinned')
      /\ \A i \in 1..m - 1 :
           /\ transfer'[i].buffer \in DOMAIN pinned'[transfer'[i].name]
           /\ pinned'[transfer'[i].name][transfer'[i].buffer]
                = pinned[transfer'[i].name][transfer'[i].buffer]
           /\ transfer'[i].size <= Len(pinned[transfer'[i].name][transfer'[i].buffer])
  <2>1. Filled(pinned) /\ DOMAIN transfer' = 1..m - 1
    BY <1>1, <1>2, LenProperties DEF Typed
  <2>2. ASSUME NEW i \in 1..m - 1
        PROVE  /\ transfer'[i].name \in Streams!Names
               /\ transfer'[i].buffer \in DOMAIN pinned[transfer'[i].name]
               /\ transfer'[i].size <= Len(pinned[transfer'[i].name][transfer'[i].buffer])
    <3>1. transfer'[i] = transfer[i + 1] /\ i + 1 \in 1..Len(transfer)
      BY <1>2 DEF m
    <3>2. transfer'[i] \in Copies
      BY <1>2, ElementOfSeq
    <3>. QED BY <1>1, <3>1, <3>2 DEF Queued, Copies
  <2>3. Filled(Streams!Pinned(pinned))
    BY <2>1, PinnedProperties
  <2>4. \A i \in DOMAIN transfer' :
          /\ transfer'[i].name \in Streams!Names
          /\ transfer'[i].buffer \in DOMAIN pinned[transfer'[i].name]
          => /\ transfer'[i].buffer \in DOMAIN Streams!Pinned(pinned)[transfer'[i].name]
             /\ Streams!Pinned(pinned)[transfer'[i].name][transfer'[i].buffer]
                  = pinned[transfer'[i].name][transfer'[i].buffer]
    BY <2>1, PinnedProperties
  <2>. QED BY <1>1, <2>1, <2>2, <2>3, <2>4
<1>10. /\ stream' \in [Streams!Roles -> Seq(Passes)]
       /\ \A r \in Streams!Roles :
            /\ Len(stream'[r]) = Len(stream[r])
            /\ \A i \in 1..Len(stream[r]) :
                 /\ stream[r][i] \in Passes
                 /\ stream'[r][i].own = stream[r][i].own
                 /\ stream'[r][i].due = stream[r][i].due
                 /\ stream'[r][i].buffer = stream[r][i].buffer
                 /\ stream'[r][i].awaits = IF stream[r][i].awaits = 0 THEN 0
                                           ELSE stream[r][i].awaits - 1
  <2>1. stream' = [r \in Streams!Roles |-> [i \in DOMAIN stream[r] |-> pass(r, i)]]
    BY DEF Streams!Transfer
  <2>2. ASSUME NEW r \in Streams!Roles
        PROVE  /\ stream[r] \in Seq(Passes) /\ Len(stream[r]) \in Nat
               /\ DOMAIN stream[r] = 1..Len(stream[r])
               /\ \A i \in 1..Len(stream[r]) : stream[r][i] \in Passes
    BY <1>1, LenProperties, ElementOfSeq DEF Typed
  <2>3. ASSUME NEW r \in Streams!Roles, NEW i \in 1..Len(stream[r])
        PROVE  /\ pass(r, i) \in Passes
               /\ pass(r, i).own = stream[r][i].own /\ pass(r, i).due = stream[r][i].due
               /\ pass(r, i).buffer = stream[r][i].buffer
               /\ pass(r, i).awaits = IF stream[r][i].awaits = 0 THEN 0
                                      ELSE stream[r][i].awaits - 1
    <3>. DEFINE p == stream[r][i]
    <3>1. p \in Passes
      BY <2>2
    <3>2. pass(r, i) = [p EXCEPT !.awaits = IF p.awaits = 0 THEN 0 ELSE p.awaits - 1]
      BY DEF Streams!Completed
    <3>. HIDE DEF p, pass
    <3>3. p.awaits \in Nat /\ (IF p.awaits = 0 THEN 0 ELSE p.awaits - 1) \in Nat
      BY <3>1 DEF Passes
    <3>. QED BY <3>1, <3>2, <3>3 DEF Passes, p
  <2>. HIDE DEF pass
  <2>4. ASSUME NEW r \in Streams!Roles
        PROVE  /\ stream'[r] \in Seq(Passes) /\ Len(stream'[r]) = Len(stream[r])
               /\ \A i \in 1..Len(stream[r]) : stream'[r][i] = pass(r, i)
    <3>1. stream'[r] = [i \in 1..Len(stream[r]) |-> pass(r, i)]
      BY <2>1, <2>2
    <3>. QED BY <2>2, <2>3, <3>1
  <2>5. stream' \in [Streams!Roles -> Seq(Passes)]
    BY <2>1, <2>4
  <2>. QED BY <2>2, <2>3, <2>4, <2>5
<1>11. Typed'
  <2>1. Filled(workspace')
    BY <1>3, <1>8, WorkingProperties
  <2>. QED BY <1>1, <1>2, <1>9, <1>10, <2>1 DEF Typed
<1>12. Queued'
  <2>1. ASSUME NEW r \in Streams!Roles, NEW i \in 1..Len(stream'[r])
        PROVE  stream'[r][i].awaits <= Len(transfer')
    <3>1. /\ stream[r][i].awaits \in Nat /\ stream[r][i].awaits <= m
          /\ stream'[r][i].awaits = IF stream[r][i].awaits = 0 THEN 0 ELSE stream[r][i].awaits - 1
      BY <1>1, <1>10 DEF Queued, Passes, m
    <3>. QED BY <1>2, <3>1
  <2>. QED BY <1>2, <1>9, <2>1 DEF Queued
<1>13. Alone'
  <2>1. ASSUME NEW r \in waiting
        PROVE  stream'[r] # <<>>
    BY <1>1, <1>10, NewestPass, EmptySeq
  <2>. QED BY <1>1, <1>10, <2>1 DEF Alone
<1>14. ASSUME NEW r \in waiting
       PROVE  /\ stream'[r][Len(stream'[r])].awaits = Len(transfer')
              /\ \A j \in 1..2 : Supply(r, j)'
  <2>. DEFINE l == Len(stream[r])
              f == stream[r][l]
              g == stream'[r][l]
  <2>1. r \in Streams!Roles /\ l \in Nat \ {0} /\ l \in 1..l /\ f \in Passes /\ Len(stream'[r]) = l
    BY <1>1, <1>10, NewestPass
  <2>2. /\ g.due = f.due /\ g.buffer = f.buffer
        /\ g.awaits = IF f.awaits = 0 THEN 0 ELSE f.awaits - 1
    BY <1>10, <2>1
  <2>3. f.awaits = m /\ \A j \in 1..2 : Supply(r, j)
    BY <1>1 DEF Supplied, m
  <2>4. g.awaits = Len(transfer')
    BY <1>2, <2>2, <2>3
  <2>. HIDE DEF l
  <2>5. ASSUME NEW j \in 1..2, Holds(after, <<r, Streams!Kinds[j]>>, f.buffer[Streams!Kinds[j]],
                    f.due[Streams!Kinds[j]])
        PROVE  Holds(workspace', <<r, Streams!Kinds[j]>>, g.buffer[Streams!Kinds[j]],
                    g.due[Streams!Kinds[j]])
    <3>. DEFINE k == Streams!Kinds[j]
    <3>1. k \in Kind
      BY KindsOf
    <3>2. l \in DOMAIN stream'[r]
      BY <1>10, <2>1, LenProperties
    <3>. HIDE DEF k
    <3>3. g.buffer[k] \in DOMAIN after[<<r, k>>]
      BY <2>2, <2>5 DEF Holds, k
    <3>4. /\ g.buffer[k] \in DOMAIN workspace'[<<r, k>>]
          /\ workspace'[<<r, k>>][g.buffer[k]] = after[<<r, k>>][g.buffer[k]]
      BY <1>3, <1>8, <2>1, <3>1, <3>2, <3>3, WorkingProperties
    <3>. QED BY <2>2, <2>5, <3>4 DEF Holds, k
  <2>6. ASSUME NEW j \in 1..2
        PROVE  Supply(r, j)'
    <3>. DEFINE k == Streams!Kinds[j]
    <3>1. k \in Kind /\ <<r, k>> \in Streams!Names
      BY <2>1, KindsOf
    <3>2. CASE m - 1 + j >= 3
      <4>0. m + j >= 3
        BY <1>2, <3>2
      <4>1. /\ transfer[m + j - 2] = [name |-> <<r, k>>, size |-> Len(f.due[k]),
                                        buffer |-> f.buffer[k]]
            /\ Holds(pinned, <<r, k>>, f.buffer[k], f.due[k])
        BY <2>3, <4>0 DEF Supply, m, l
      <4>2. m - 1 + j - 2 \in 1..m - 1 /\ (m - 1 + j - 2) + 1 = m + j - 2
        BY <1>2, <3>2
      <4>3. transfer'[m - 1 + j - 2] = [name |-> <<r, k>>, size |-> Len(f.due[k]),
                                        buffer |-> f.buffer[k]]
        BY <1>2, <4>1, <4>2
      <4>. HIDE DEF f, k
      <4>4. /\ f.buffer[k] \in DOMAIN pinned'[<<r, k>>]
            /\ pinned'[<<r, k>>][f.buffer[k]] = pinned[<<r, k>>][f.buffer[k]]
        BY <1>9, <4>2, <4>3
      <4>5. Holds(pinned', <<r, k>>, f.buffer[k], f.due[k])
        BY <4>1, <4>4 DEF Holds
      <4>6. /\ transfer'[Len(transfer') + j - 2] = [name |-> <<r, k>>, size |-> Len(g.due[k]),
                                                    buffer |-> g.buffer[k]]
            /\ Holds(pinned', <<r, k>>, g.buffer[k], g.due[k])
            /\ Len(transfer') + j >= 3
        BY <1>2, <2>2, <3>2, <4>3, <4>5
      <4>. QED BY <2>1, <4>6 DEF Supply, Holds, k
    <3>3. CASE ~(m - 1 + j >= 3)
      <4>1. Holds(after, <<r, k>>, f.buffer[k], f.due[k])
        <5>1. CASE m + j >= 3
          <6>1. m + j - 2 = 1
            BY <1>2, <3>3, <5>1
          <6>2. /\ c = [name |-> <<r, k>>, size |-> Len(f.due[k]),
                                        buffer |-> f.buffer[k]]
                /\ Holds(pinned, <<r, k>>, f.buffer[k], f.due[k])
            BY <2>3, <5>1, <6>1 DEF Supply, m, l, c
          <6>. HIDE DEF f, k
          <6>3. source = f.due[k]
            BY <6>2 DEF Holds, source
          <6>. QED BY <1>8, <6>2, <6>3
        <5>2. CASE ~(m + j >= 3)
          <6>1. m = 1 /\ j = 1
            BY <1>2, <5>2
          <6>2. c.name = <<r, Streams!Kinds[2]>>
            BY <2>3, <6>1 DEF Supply, m, c
          <6>3. c.name # <<r, k>>
            BY <6>1, <6>2, KindsOf
          <6>4. Holds(workspace, <<r, k>>, f.buffer[k], f.due[k])
            BY <2>3, <5>2 DEF Supply, m, l
          <6>. QED BY <1>8, <3>1, <6>3, <6>4 DEF Holds
        <5>. QED BY <5>1, <5>2
      <4>2. Holds(workspace', <<r, k>>, g.buffer[k], g.due[k])
        BY <2>5, <4>1
      <4>3. ~(Len(transfer') + j >= 3)
        BY <1>2, <3>3
      <4>. QED BY <2>1, <4>2, <4>3 DEF Supply, Holds
    <3>. QED BY <3>2, <3>3
  <2>. QED BY <2>1, <2>4, <2>6
<1>15. Supplied'
  BY <1>1, <1>14 DEF Supplied
<1>. QED BY <1>11, <1>12, <1>13, <1>15 DEF IInv

\* A pass that is done was the only one its host waited for, or nobody's.
LEMMA ForwardStep ==
  ASSUME IInv, NEW role \in Streams!Roles, Streams!Forward(role)
  PROVE  IInv'
<1>. DEFINE l == Len(stream[role])
            f == stream[role][1]
<1>1. /\ Typed /\ Queued /\ Alone /\ Supplied /\ capacity' = capacity
      /\ pinned' = pinned /\ transfer' = transfer /\ workspace' = Streams!Working(workspace)
      /\ stream[role] \in Seq(Passes) /\ stream[role] # <<>>
      /\ stream' = [stream EXCEPT ![role] = Tail(@)]
  BY DEF IInv, Streams!Forward, Streams!Ready, Typed
<1>2. l \in Nat \ {0} /\ Head(stream[role]) = f /\ f \in Passes
  <2>1. l \in Nat \ {0}
    BY <1>1, LenProperties, EmptySeq
  <2>. QED BY <1>1, <2>1, ElementOfSeq
<1>3. /\ Tail(stream[role]) \in Seq(Passes) /\ Len(Tail(stream[role])) = l - 1
      /\ \A i \in 1..l - 1 : Tail(stream[role])[i] = stream[role][i + 1]
  BY <1>1, HeadTailProperties
<1>4. /\ stream \in [Streams!Roles -> Seq(Passes)] /\ stream' \in [Streams!Roles -> Seq(Passes)]
      /\ stream'[role] = Tail(stream[role])
      /\ \A r \in Streams!Roles : r # role => stream'[r] = stream[r]
  BY <1>1, <1>3 DEF Typed
<1>5. waiting' = IF f.own THEN waiting \ {role} ELSE waiting
  BY <1>2 DEF Streams!Forward
<1>. HIDE DEF l, f
<1>6. f.own <=> role \in waiting /\ l = 1
  <2>. 1 \in 1..Len(stream[role])
    BY <1>2 DEF l
  <2>. QED BY <1>1 DEF Alone, f, l
<1>7. \A r \in Streams!Roles : \A i \in 1..Len(stream'[r]) :
        /\ \E h \in 1..Len(stream[r]) :
             stream'[r][i] = stream[r][h] /\ (h = Len(stream[r]) <=> i = Len(stream'[r]))
        /\ r = role => l > 1
  <2>1. ASSUME NEW r \in Streams!Roles, r # role, NEW i \in 1..Len(stream'[r])
        PROVE  \E h \in 1..Len(stream[r]) :
                 stream'[r][i] = stream[r][h] /\ (h = Len(stream[r]) <=> i = Len(stream'[r]))
    BY <1>4, <2>1
  <2>2. ASSUME NEW i \in 1..Len(stream'[role])
        PROVE  /\ l > 1
               /\ \E h \in 1..Len(stream[role]) :
                    /\ stream'[role][i] = stream[role][h]
                    /\ h = Len(stream[role]) <=> i = Len(stream'[role])
    <3>1. i \in 1..l - 1 /\ i + 1 \in 1..l /\ l > 1 /\ Len(stream'[role]) = l - 1
      BY <1>2, <1>3, <1>4
    <3>2. stream'[role][i] = stream[role][i + 1] /\ (i + 1 = l <=> i = l - 1)
      BY <1>2, <1>3, <1>4, <3>1
    <3>. QED BY <3>1, <3>2 DEF l
  <2>. QED BY <2>1, <2>2
<1>8. Typed'
  <2>. Filled(workspace')
    BY <1>1, WorkingProperties DEF Typed
  <2>. QED BY <1>1, <1>4, <1>5 DEF Typed
<1>9. Queued'
  BY <1>1, <1>7 DEF Queued
<1>10. ASSUME NEW r \in waiting'
       PROVE  /\ r \in waiting /\ r \in Streams!Roles
              /\ stream'[r] # <<>> /\ Len(stream'[r]) \in Nat \ {0}
              /\ stream'[r][Len(stream'[r])] = stream[r][Len(stream[r])]
  <2>1. r \in waiting /\ r \in Streams!Roles
    BY <1>1, <1>5 DEF Typed
  <2>2. Len(stream[r]) \in Nat \ {0}
    BY <1>1, <2>1, NewestPass
  <2>3. CASE r # role
    BY <1>4, <2>1, <2>2, <2>3, EmptySeq
  <2>4. CASE r = role
    <3>1. l # 1
      BY <1>5, <1>6, <2>1, <2>4
    <3>2. l - 1 \in 1..l - 1 /\ (l - 1) + 1 = l /\ l - 1 \in Nat \ {0}
      BY <1>2, <3>1
    <3>3. Len(stream'[role]) = l - 1 /\ stream'[role][l - 1] = stream[role][l]
      BY <1>3, <1>4, <3>2
    <3>. QED BY <2>1, <2>4, <3>2, <3>3, EmptySeq DEF l
  <2>. QED BY <2>3, <2>4
<1>11. Alone'
  <2>1. ASSUME NEW r \in Streams!Roles, NEW i \in 1..Len(stream'[r])
        PROVE  stream'[r][i].own <=> r \in waiting' /\ i = Len(stream'[r])
    <3>1. PICK h \in 1..Len(stream[r]) :
            stream'[r][i] = stream[r][h] /\ (h = Len(stream[r]) <=> i = Len(stream'[r]))
      BY <1>7
    <3>2. stream[r][h].own <=> r \in waiting /\ h = Len(stream[r])
      BY <1>1 DEF Alone
    <3>3. r \in waiting' <=> r \in waiting
      BY <1>5, <1>6, <1>7
    <3>. QED BY <3>1, <3>2, <3>3
  <2>2. \A q, r \in waiting' : q = r
    BY <1>1, <1>10 DEF Alone
  <2>. QED BY <1>10, <2>1, <2>2 DEF Alone
<1>12. Supplied'
  <2>1. ASSUME NEW r \in waiting', NEW j \in 1..2
        PROVE  Supply(r, j)'
    <3>. DEFINE n == Len(stream[r])
                g == stream[r][n]
                k == Streams!Kinds[j]
    <3>1. r \in waiting /\ r \in Streams!Roles /\ stream'[r][Len(stream'[r])] = g /\ Supply(r, j)
      BY <1>1, <1>10 DEF Supplied
    <3>2. Len(stream'[r]) \in DOMAIN stream'[r] /\ k \in Kind
      BY <1>4, <1>10, KindsOf, LenProperties
    <3>3. CASE Len(transfer) + j >= 3
      BY <1>1, <3>1, <3>3 DEF Supply, Holds
    <3>4. CASE ~(Len(transfer) + j >= 3)
      <4>. HIDE DEF k
      <4>1. Holds(workspace, <<r, k>>, g.buffer[k], g.due[k])
        BY <3>1, <3>4 DEF Supply, k
      <4>. HIDE DEF g
      <4>2. /\ g.buffer[k] \in DOMAIN workspace'[<<r, k>>]
            /\ workspace'[<<r, k>>][g.buffer[k]] = workspace[<<r, k>>][g.buffer[k]]
        <5>1. g.buffer[k] \in DOMAIN workspace[<<r, k>>] /\ Filled(workspace)
          BY <1>1, <4>1 DEF Holds, Typed
        <5>2. \A i \in DOMAIN stream'[r] :
                stream'[r][i].buffer[k] \in DOMAIN workspace[<<r, k>>] =>
                  /\ stream'[r][i].buffer[k] \in DOMAIN Streams!Working(workspace)[<<r, k>>]
                  /\ Streams!Working(workspace)[<<r, k>>][stream'[r][i].buffer[k]]
                       = workspace[<<r, k>>][stream'[r][i].buffer[k]]
          BY <3>1, <3>2, <5>1, WorkingProperties
        <5>. QED BY <1>1, <3>1, <3>2, <5>1, <5>2
      <4>3. Holds(workspace', <<r, k>>, g.buffer[k], g.due[k])
        BY <4>1, <4>2 DEF Holds
      <4>4. ~(Len(transfer') + j >= 3)
        BY <1>1, <3>4
      <4>. QED BY <3>1, <4>3, <4>4 DEF Supply, Holds, k
    <3>. QED BY <3>3, <3>4
  <2>. QED BY <1>1, <1>10, <2>1 DEF Supplied
<1>. QED BY <1>8, <1>9, <1>11, <1>12 DEF IInv
-----------------------------------------------------------------------------
(* The theorems.                                                           *)

\* Both inputs of the pass that is waited for are on their way or there, in every
\* state.
THEOREM Invariance == Streams!Spec => []IInv
<1>1. Streams!Init => IInv
  <2>. SUFFICES ASSUME Streams!Init PROVE IInv
    OBVIOUS
  <2>1. /\ waiting = {} /\ capacity = [n \in Streams!Names |-> 0] /\ transfer = <<>>
        /\ pinned = [n \in Streams!Names |-> <<>>] /\ workspace = [n \in Streams!Names |-> <<>>]
        /\ stream = [r \in Streams!Roles |-> <<>>]
    BY DEF Streams!Init
  <2>. QED BY <2>1 DEF IInv, Typed, Filled, Queued, Alone, Supplied
<1>2. IInv /\ [Streams!Next]_(Streams!vars) => IInv'
  <2>. SUFFICES ASSUME IInv, [Streams!Next]_(Streams!vars) PROVE IInv'
    OBVIOUS
  <2>1. ASSUME NEW role \in Streams!Roles, NEW given \in Streams!Calls, Streams!Call(role, given)
        PROVE  IInv'
    BY <2>1, CallStep, PartsAssumption
  <2>2. ASSUME NEW role \in Streams!Roles, NEW given \in Streams!Calls,
               Streams!CallFails(role, given)
        PROVE  IInv'
    BY <2>2, CallFailsStep, PartsAssumption
  <2>3. CASE Streams!Transfer
    BY <2>3, TransferStep
  <2>4. ASSUME NEW role \in Streams!Roles, Streams!Forward(role)
        PROVE  IInv'
    BY <2>4, ForwardStep
  <2>5. CASE UNCHANGED Streams!vars
    <3>1. Typed' /\ Queued' /\ Alone'
      BY <2>5 DEF Streams!vars, IInv, Typed, Queued, Alone, Filled
    <3>2. ASSUME NEW r \in waiting, NEW j \in 1..2
          PROVE  Supply(r, j)'
      <4>1. Supply(r, j)
        BY DEF IInv, Supplied
      <4>. QED BY <2>5, <4>1 DEF Streams!vars, Supply, Holds
    <3>3. Supplied'
      BY <2>5, <3>2 DEF Streams!vars, IInv, Supplied
    <3>. QED BY <3>1, <3>3 DEF IInv
  <2>. QED BY <2>1, <2>2, <2>3, <2>4, <2>5 DEF Streams!Next
<1>. QED BY <1>1, <1>2, PTL DEF Streams!Spec

\* _forward, for both models of a pair: what is copied has room in its buffers, and
\* the pass that the host waits for reads the token identifiers and the mask of its
\* own call, whatever calls that raised have left on the streams.
THEOREM ReadsOwnInputsAlways == Streams!Spec => []ReadsOwnInputs
<1>1. ASSUME IInv PROVE Streams!TypeOK
  <2>1. ASSUME NEW i \in DOMAIN transfer
        PROVE  LET c == transfer[i] IN c.size <= c.buffer /\ c.buffer \in DOMAIN pinned[c.name]
    <3>. DEFINE c == transfer[i]
    <3>1. i \in 1..Len(transfer) /\ c \in Copies
      BY <1>1, LenProperties, ElementOfSeq DEF IInv, Typed
    <3>2. c.buffer \in DOMAIN pinned[c.name] /\ c.size <= Len(pinned[c.name][c.buffer])
      BY <1>1, <3>1 DEF IInv, Queued
    <3>. HIDE DEF c
    <3>3. /\ Len(pinned[c.name][c.buffer]) \in Nat /\ Len(pinned[c.name][c.buffer]) <= c.buffer
          /\ c.size \in Nat /\ c.buffer \in Nat
      BY <1>1, <3>1, <3>2, LenProperties DEF IInv, Typed, Filled, Copies
    <3>. QED BY <3>2, <3>3 DEF c
  <2>2. ASSUME NEW r \in Streams!Roles, NEW i \in DOMAIN stream[r]
        PROVE  stream[r][i].awaits \in 0..Len(transfer)
    <3>1. i \in 1..Len(stream[r]) /\ stream[r][i] \in Passes /\ Len(transfer) \in Nat
      BY <1>1, LenProperties, ElementOfSeq DEF IInv, Typed
    <3>. QED BY <1>1, <3>1 DEF IInv, Queued, Passes
  <2>. QED BY <1>1, <2>1, <2>2 DEF IInv, Typed, Streams!TypeOK
<1>2. ASSUME IInv PROVE Streams!ReadsOwnInputs
  <2>. SUFFICES ASSUME NEW role \in Streams!Roles, Streams!Ready(role), Head(stream[role]).own
                PROVE  LET f == Head(stream[role])
                       IN  \A k \in DOMAIN f.due :
                             /\ f.buffer[k] \in DOMAIN workspace[<<role, k>>]
                             /\ SubSeq(workspace[<<role, k>>][f.buffer[k]], 1, Len(f.due[k]))
                                  = f.due[k]
    BY DEF Streams!ReadsOwnInputs
  <2>. DEFINE f == stream[role][1]
  <2>1. /\ stream[role] \in Seq(Passes) /\ Len(stream[role]) \in Nat \ {0}
        /\ Head(stream[role]) = f /\ f.own /\ f.awaits = 0 /\ f \in Passes
    <3>1. stream[role] \in Seq(Passes) /\ stream[role] # <<>>
      BY <1>2 DEF IInv, Typed, Streams!Ready
    <3>2. Len(stream[role]) \in Nat \ {0} /\ Head(stream[role]) = f
      BY <3>1, LenProperties, EmptySeq
    <3>. QED BY <3>1, <3>2, ElementOfSeq DEF Streams!Ready
  <2>2. role \in waiting /\ Len(stream[role]) = 1
    <3>. 1 \in 1..Len(stream[role])
      BY <2>1
    <3>. QED BY <1>2, <2>1 DEF IInv, Alone
  <2>3. Len(transfer) = 0 /\ \A j \in 1..2 : Supply(role, j)
    BY <1>2, <2>1, <2>2 DEF IInv, Supplied
  <2>4. \A j \in 1..2 : Holds(workspace, <<role, Streams!Kinds[j]>>, f.buffer[Streams!Kinds[j]],
                              f.due[Streams!Kinds[j]])
    BY <2>2, <2>3 DEF Supply
  <2>5. DOMAIN f.due = {Streams!Kinds[1], Streams!Kinds[2]}
    <3>1. f.due \in Streams!Calls
      BY <2>1 DEF Passes
    <3>. QED BY <3>1, KindsOf DEF Streams!Calls, Streams!Inputs
  <2>. HIDE DEF f
  <2>6. ASSUME NEW k \in DOMAIN f.due
        PROVE  Holds(workspace, <<role, k>>, f.buffer[k], f.due[k])
    <3>1. PICK j \in 1..2 : k = Streams!Kinds[j]
      BY <2>5
    <3>. QED BY <2>4, <3>1
  <2>. QED BY <2>1, <2>6 DEF Holds
<1>3. IInv => ReadsOwnInputs
  BY <1>1, <1>2 DEF ReadsOwnInputs
<1>. QED BY <1>3, Invariance, PTL

-----------------------------------------------------------------------------
(* Quantized entries: rounding.                                            *)

\* What is stored for a, in steps of s, is within half a step.
LEMMA RoundNear ==
  ASSUME NEW a \in Nat, NEW s \in Nat \ {0}
  PROVE  /\ Quant!RoundHalfAway(a, s) \in Nat
         /\ 2 * (s * Quant!RoundHalfAway(a, s)) <= 2 * a + s
         /\ 2 * a + s < 2 * (s * Quant!RoundHalfAway(a, s)) + 2 * s
<1>. DEFINE B == 2 * s
            n == 2 * a + s
            r == n \div B
<1>1. B \in Nat \ {0} /\ n \in Nat
  OBVIOUS
<1>2. Quant!RoundHalfAway(a, s) = r
  BY DEF Quant!RoundHalfAway
<1>. HIDE DEF n, B
<1>3. r \in Nat /\ n % B \in 0..B - 1 /\ n = B * r + (n % B)
  BY <1>1, DivMod
<1>. HIDE DEF r
<1>4. B * r = 2 * (s * r) /\ s * r \in Nat
  BY <1>3 DEF B
<1>5. 2 * (s * r) <= n /\ n < 2 * (s * r) + B
  BY <1>1, <1>3, <1>4
<1>. QED BY <1>2, <1>3, <1>5 DEF n, B

\* And nothing else is.
LEMMA RoundIs ==
  ASSUME NEW a \in Nat, NEW s \in Nat \ {0}, NEW r \in Nat,
         2 * (s * r) <= 2 * a + s, 2 * a + s < 2 * (s * r) + 2 * s
  PROVE  Quant!RoundHalfAway(a, s) = r
<1>. DEFINE B == 2 * s
            n == 2 * a + s
            rest == n - B * r
<1>1. B \in Nat \ {0} /\ n \in Nat /\ B * r = 2 * (s * r) /\ s * r \in Nat
  OBVIOUS
<1>2. Quant!RoundHalfAway(a, s) = n \div B
  BY DEF Quant!RoundHalfAway
<1>3. 2 * (s * r) <= n /\ n < 2 * (s * r) + B
  OBVIOUS
<1>. HIDE DEF n, B
<1>4. rest \in 0..B - 1 /\ n = B * r + rest
  BY <1>1, <1>3
<1>5. n \div B \in Nat /\ n % B \in 0..B - 1 /\ n = B * (n \div B) + (n % B)
  BY <1>1, DivMod
<1>. HIDE DEF rest
<1>6. B * (n \div B) + (n % B) = B * r + rest
  BY <1>4, <1>5
<1>. DEFINE d == n \div B
            m == n % B
<1>7. d \in Nat /\ m \in 0..B - 1 /\ B * d + m = B * r + rest
  BY <1>5, <1>6
<1>. HIDE DEF d, m
<1>8. d = r
  BY <1>1, <1>4, <1>7, DivUnique
<1>. QED BY <1>2, <1>8 DEF d

LEMMA RoundType ==
  ASSUME NEW a \in Int, NEW s \in Nat \ {0}
  PROVE  /\ Quant!RoundHalfAway(a, s) \in Int
         /\ a >= 0 => Quant!RoundHalfAway(a, s) >= 0
         /\ a < 0 => /\ -a \in Nat /\ Quant!RoundHalfAway(-a, s) \in Nat
                     /\ Quant!RoundHalfAway(a, s) = -Quant!RoundHalfAway(-a, s)
<1>1. CASE a >= 0
  <2>1. a \in Nat
    BY <1>1
  <2>. QED BY <1>1, <2>1, RoundNear
<1>2. CASE a < 0
  <2>1. -a \in Nat /\ -a >= 0
    BY <1>2
  <2>2. Quant!RoundHalfAway(-a, s) \in Nat
    BY <2>1, RoundNear
  <2>3. Quant!RoundHalfAway(a, s) = -Quant!RoundHalfAway(-a, s)
    BY <1>2, <2>1 DEF Quant!RoundHalfAway
  <2>. QED BY <1>2, <2>1, <2>2, <2>3
<1>. QED BY <1>1, <1>2

\* The sign does not matter.
LEMMA RoundNegated ==
  ASSUME NEW a \in Int, NEW s \in Nat \ {0}
  PROVE  Quant!RoundHalfAway(-a, s) = -Quant!RoundHalfAway(a, s)
<1>1. CASE a < 0
  <2>1. Quant!RoundHalfAway(a, s) = -Quant!RoundHalfAway(-a, s) /\ Quant!RoundHalfAway(-a, s) \in Nat
    BY <1>1, RoundType
  <2>. QED BY <2>1
<1>2. CASE a = 0
  <2>1. Quant!RoundHalfAway(0, s) = 0
    BY RoundIs
  <2>. QED BY <1>2, <2>1
<1>3. CASE a > 0
  <2>. DEFINE b == -a
  <2>1. b \in Int /\ b < 0 /\ -b = a
    BY <1>3
  <2>. HIDE DEF b
  <2>2. Quant!RoundHalfAway(b, s) = -Quant!RoundHalfAway(-b, s)
    BY <2>1, RoundType
  <2>. QED BY <2>1, <2>2 DEF b
<1>. QED BY <1>1, <1>2, <1>3

\* The order is kept.
LEMMA RoundMonotoneAbove ==
  ASSUME NEW a \in Nat, NEW b \in Nat, NEW s \in Nat \ {0}, a <= b
  PROVE  Quant!RoundHalfAway(a, s) <= Quant!RoundHalfAway(b, s)
<1>. DEFINE x == Quant!RoundHalfAway(a, s)
            y == Quant!RoundHalfAway(b, s)
<1>1. x \in Nat /\ 2 * (s * x) <= 2 * a + s
  BY RoundNear
<1>2. y \in Nat /\ 2 * b + s < 2 * (s * y) + 2 * s
  BY RoundNear
<1>. HIDE DEF x, y
<1>3. ~(y < x)
  <2>. SUFFICES ASSUME y < x PROVE FALSE
    OBVIOUS
  <2>1. y * s + s <= x * s
    <3>. DEFINE k == x - (y + 1)
    <3>1. k \in Nat /\ x = (y + 1) + k
      BY <1>1, <1>2
    <3>. HIDE DEF k
    <3>2. k * s \in Nat /\ ((y + 1) + k) * s = y * s + s + k * s /\ y * s \in Nat
      BY <1>2, <3>1
    <3>. QED BY <3>1, <3>2
  <2>2. s * x = x * s /\ s * y = y * s /\ x * s \in Nat /\ y * s \in Nat
    BY <1>1, <1>2
  <2>. QED BY <1>1, <1>2, <2>1, <2>2
<1>. QED BY <1>1, <1>2, <1>3 DEF x, y

LEMMA RoundMonotone ==
  ASSUME NEW a \in Int, NEW b \in Int, NEW s \in Nat \ {0}, a <= b
  PROVE  Quant!RoundHalfAway(a, s) <= Quant!RoundHalfAway(b, s)
<1>1. CASE a >= 0
  <2>1. a \in Nat /\ b \in Nat
    BY <1>1
  <2>. QED BY <2>1, RoundMonotoneAbove
<1>2. CASE a < 0 /\ b >= 0
  <2>1. /\ Quant!RoundHalfAway(a, s) = -Quant!RoundHalfAway(-a, s)
        /\ Quant!RoundHalfAway(-a, s) \in Nat
    BY <1>2, RoundType
  <2>2. Quant!RoundHalfAway(b, s) \in Int /\ Quant!RoundHalfAway(b, s) >= 0
    BY <1>2, RoundType
  <2>. QED BY <2>1, <2>2
<1>3. CASE b < 0
  <2>1. -a \in Nat /\ -b \in Nat /\ -b <= -a /\ a < 0
    BY <1>3
  <2>2. Quant!RoundHalfAway(-b, s) <= Quant!RoundHalfAway(-a, s)
    BY <2>1, RoundMonotoneAbove
  <2>3. /\ Quant!RoundHalfAway(a, s) = -Quant!RoundHalfAway(-a, s)
        /\ Quant!RoundHalfAway(-a, s) \in Nat
    BY <2>1, RoundType
  <2>4. /\ Quant!RoundHalfAway(b, s) = -Quant!RoundHalfAway(-b, s)
        /\ Quant!RoundHalfAway(-b, s) \in Nat
    BY <1>3, RoundType
  <2>. QED BY <2>2, <2>3, <2>4
<1>. QED BY <1>1, <1>2, <1>3

\* What is a whole number of steps is stored as that number.
LEMMA RoundExact ==
  ASSUME NEW x \in Int, NEW s \in Nat \ {0}
  PROVE  Quant!RoundHalfAway(x * s, s) = x
<1>1. ASSUME NEW y \in Nat PROVE Quant!RoundHalfAway(y * s, s) = y
  <2>1. y * s \in Nat /\ s * y = y * s
    BY <1>1
  <2>2. 2 * (s * y) <= 2 * (y * s) + s /\ 2 * (y * s) + s < 2 * (s * y) + 2 * s
    BY <2>1
  <2>. QED BY <2>1, <2>2, RoundIs
<1>2. CASE x >= 0
  BY <1>1, <1>2
<1>3. CASE x < 0
  <2>1. -x \in Nat /\ x * s = -((-x) * s) /\ (-x) * s \in Int
    BY <1>3
  <2>2. Quant!RoundHalfAway((-x) * s, s) = -x
    BY <1>1, <2>1
  <2>3. Quant!RoundHalfAway(-((-x) * s), s) = -Quant!RoundHalfAway((-x) * s, s)
    BY <2>1, RoundNegated
  <2>4. Quant!RoundHalfAway(x * s, s) = -(-x)
    BY <2>1, <2>2, <2>3
  <2>. QED BY <2>4
<1>. QED BY <1>2, <1>3

LEMMA ClampProperties ==
  ASSUME Limit \in Nat, NEW a \in Int
  PROVE  /\ Quant!Clamp(a) \in -Limit..Limit
         /\ a \in -Limit..Limit => Quant!Clamp(a) = a
         /\ Quant!Clamp(-a) = -Quant!Clamp(a)
         /\ \A b \in Int : a <= b => Quant!Clamp(a) <= Quant!Clamp(b)
BY DEF Quant!Clamp

-----------------------------------------------------------------------------
(* Quantized entries: the scale as a float32.                              *)

\* A multiple of a larger number.
LEMMA TimesMonotone ==
  ASSUME NEW d \in Nat, NEW x \in Nat, NEW y \in Nat, x <= y
  PROVE  d * x \in Nat /\ d * y \in Nat /\ d * x <= d * y
<1>. DEFINE k == y - x
<1>1. k \in Nat /\ y = x + k
  OBVIOUS
<1>. HIDE DEF k
<1>2. d * (x + k) = d * x + d * k /\ d * k \in Nat /\ d * x \in Nat
  BY <1>1
<1>. QED BY <1>1, <1>2

\* Of the multiples of d the nearest one is within half of d.
LEMMA NearestNear ==
  ASSUME NEW a \in Nat, NEW d \in Nat \ {0}
  PROVE  /\ Quant!Nearest(a, d) \in Nat
         /\ 2 * a - 2 * (d * Quant!Nearest(a, d)) \in -d..d
         /\ \A k \in Nat : d * k <= a => k <= Quant!Nearest(a, d)
         /\ \A k \in Nat : a < d * k => Quant!Nearest(a, d) <= k
<1>. DEFINE q == a \div d
            r == a % d
            n == Quant!Nearest(a, d)
<1>1. q \in Nat /\ r \in 0..d - 1 /\ a = d * q + r
  BY DivMod
<1>2. n = q + (IF 2 * r > d \/ (2 * r = d /\ q % 2 = 1) THEN 1 ELSE 0)
  BY DEF Quant!Nearest
<1>. HIDE DEF q, r, n
<1>3. n \in Nat /\ ((n = q /\ 2 * r <= d) \/ (n = q + 1 /\ 2 * r >= d))
  BY <1>1, <1>2
<1>4. d * q \in Nat /\ d * (q + 1) = d * q + d
  BY <1>1
<1>5. 2 * a - 2 * (d * n) \in -d..d
  <2>1. CASE n = q /\ 2 * r <= d
    <3>1. 2 * a - 2 * (d * n) = 2 * r
      BY <1>1, <1>4, <2>1
    <3>. QED BY <1>1, <2>1, <3>1
  <2>2. CASE n = q + 1 /\ 2 * r >= d
    <3>1. d * n = d * q + d
      BY <1>4, <2>2
    <3>2. 2 * a - 2 * (d * n) = 2 * r - 2 * d
      BY <1>1, <1>4, <3>1
    <3>. QED BY <1>1, <2>2, <3>2
  <2>. QED BY <1>3, <2>1, <2>2
<1>6. ASSUME NEW k \in Nat, d * k <= a PROVE k <= n
  <2>1. ~(q + 1 <= k)
    <3>. SUFFICES ASSUME q + 1 <= k PROVE FALSE
      OBVIOUS
    <3>1. d * (q + 1) <= d * k
      BY <1>1, TimesMonotone
    <3>. QED BY <1>1, <1>4, <1>6, <3>1
  <2>. QED BY <1>1, <1>3, <2>1
<1>7. ASSUME NEW k \in Nat, a < d * k PROVE n <= k
  <2>1. ~(k <= q)
    <3>. SUFFICES ASSUME k <= q PROVE FALSE
      OBVIOUS
    <3>1. d * k <= d * q /\ d * k \in Nat
      BY <1>1, TimesMonotone
    <3>. QED BY <1>1, <1>4, <1>7, <3>1
  <2>. QED BY <1>1, <1>3, <2>1
<1>. QED BY <1>3, <1>5, <1>6, <1>7 DEF n

\* A multiple is its own nearest one.
LEMMA NearestExact ==
  ASSUME NEW n \in Nat, NEW d \in Nat \ {0}
  PROVE  Quant!Nearest(d * n, d) = n
<1>. DEFINE a == d * n
            m == Quant!Nearest(a, d)
<1>1. a \in Nat
  OBVIOUS
<1>2. /\ m \in Nat /\ (\A k \in Nat : d * k <= a => k <= m)
      /\ (\A k \in Nat : a < d * k => m <= k) /\ 2 * a - 2 * (d * m) \in -d..d
  BY <1>1, NearestNear
<1>3. n <= m
  BY <1>1, <1>2
<1>4. m <= n + 1
  <2>1. a < d * (n + 1)
    OBVIOUS
  <2>. QED BY <1>2, <2>1
<1>. HIDE DEF m
<1>5. m # n + 1
  <2>. SUFFICES ASSUME m = n + 1 PROVE FALSE
    OBVIOUS
  <2>1. d * m = a + d
    BY <1>1
  <2>2. 2 * a - 2 * (d * m) = -2 * d
    BY <1>1, <2>1
  <2>. QED BY <1>2, <2>2
<1>6. m = n
  BY <1>2, <1>3, <1>4, <1>5
<1>. QED BY <1>6 DEF m

\* The numbers of the format: multiples of a spacing, below the next one's.
Float(s, c, n) == /\ c \in Nat \ {0} /\ PowerOfTwo(c) /\ n \in Nat
                  /\ s = (Least * c) * n
                  /\ n <= Significand /\ (c = 1 \/ 2 * n >= Significand)

LEMMA FormatTypes ==
  ASSUME Quant!QuantizerAssumption
  PROVE  /\ Limit \in Nat \ {0} /\ Least \in Nat \ {0} /\ Significand \in Nat \ {0}
         /\ MaxValue \in Nat \ {0} /\ Size \in Nat \ {0} /\ Greatest \in Nat
         /\ Significand \div 2 \in Nat /\ Significand = 2 * (Significand \div 2)
         /\ Limit < Significand \div 2
<1>1. /\ Limit \in Nat \ {0} /\ Least \in Nat \ {0} /\ Significand \in Nat \ {0}
      /\ MaxValue \in Nat \ {0} /\ Size \in Nat \ {0} /\ Greatest \in Nat
      /\ Significand % 2 = 0 /\ 2 * Limit < Significand
  BY DEF Quant!QuantizerAssumption
<1>2. Significand \div 2 \in Nat /\ Significand = 2 * (Significand \div 2)
  BY <1>1
<1>. QED BY <1>1, <1>2

LEMMA SameSpacing == \A n : Quant!Rounded(n) = Rounded(n)
BY DEF Quant!Rounded, Rounded, Quant!PowerOfTwo, PowerOfTwo

\* Rounding yields a number of the format, within half a spacing.
LEMMA FloatExists ==
  ASSUME Quant!QuantizerAssumption, NEW a \in Nat, NEW b \in Nat \ {0}
  PROVE  \E c, n : /\ Float(Quant!Float32(a, b), c, n)
                   /\ 2 * a - 2 * ((b * (Least * c)) * n) \in -(b * (Least * c))..(b * (Least * c))
                   /\ \A k \in Nat : (b * (Least * c)) * k <= a => k <= n
<1>. DEFINE D == b * Least * Significand
            t == a \div D
            c == Rounded(t + 1)
            d == b * (Least * c)
            n == Quant!Nearest(a, d)
            h == Significand \div 2
<1>1. /\ Least \in Nat \ {0} /\ Significand \in Nat \ {0} /\ h \in Nat /\ Significand = 2 * h
  BY FormatTypes
<1>2. D \in Nat \ {0} /\ b * Least \in Nat \ {0}
  <2>1. b * Least \in Nat \ {0}
    BY <1>1
  <2>2. \A x, y \in Nat \ {0} : x * y \in Nat \ {0}
    OBVIOUS
  <2>. QED BY <1>1, <2>1, <2>2
<1>3. Quant!Float32(a, b) = (Least * c) * n
  BY SameSpacing DEF Quant!Float32, Quant!Spacing
<1>. HIDE DEF D
<1>4. t \in Nat /\ D * t <= a /\ a < D * (t + 1)
  <2>. DEFINE rest == a % D
  <2>1. t \in Nat /\ rest \in 0..D - 1 /\ a = D * t + rest
    BY <1>2, DivMod
  <2>. HIDE DEF t, rest
  <2>2. D * t \in Nat /\ D * (t + 1) = D * t + D
    BY <1>2, <2>1
  <2>. QED BY <1>2, <2>1, <2>2
<1>. HIDE DEF t
<1>5. c \in t + 1..2 * (t + 1) - 1 /\ PowerOfTwo(c)
  BY <1>4, RoundedRange
<1>. HIDE DEF c
<1>6. c \in Nat \ {0} /\ t + 1 <= c /\ c <= 2 * t + 1
  BY <1>4, <1>5
<1>7. d \in Nat \ {0} /\ d * Significand = D * c
  <2>1. Least * c \in Nat \ {0}
    BY <1>1, <1>6
  <2>2. d \in Nat \ {0}
    <3>. DEFINE x == Least * c
    <3>. HIDE DEF x
    <3>1. x \in Nat \ {0}
      BY <2>1 DEF x
    <3>2. b * x \in Nat \ {0}
      BY <3>1
    <3>. QED BY <3>2 DEF x
  <2>3. d * Significand = D * c
    BY <1>1, <1>6 DEF D
  <2>. QED BY <2>2, <2>3
<1>8. a < d * Significand
  <2>1. D * (t + 1) <= D * c
    BY <1>2, <1>4, <1>6, TimesMonotone
  <2>. QED BY <1>2, <1>4, <1>6, <1>7, <2>1
<1>9. c = 1 \/ d * h <= a
  <2>. SUFFICES ASSUME c # 1 PROVE d * h <= a
    OBVIOUS
  <2>. DEFINE k == c \div 2
  <2>1. k \in Nat \ {0} /\ c = 2 * k
    BY <1>5, <1>6, PowerEven
  <2>. HIDE DEF k
  <2>2. k <= t
    BY <1>4, <1>6, <2>1
  <2>3. D * k <= D * t /\ D * k \in Nat
    BY <1>2, <1>4, <2>1, <2>2, TimesMonotone
  <2>4. d * h = D * k
    <3>1. d = b * (Least * (2 * k)) /\ D = b * Least * (2 * h)
      BY <1>1, <2>1 DEF D
    <3>. HIDE DEF d, h
    <3>2. (b * (Least * (2 * k))) * h = (b * Least * (2 * h)) * k
      BY <1>1, <2>1
    <3>. QED BY <3>1, <3>2
  <2>. QED BY <1>2, <1>4, <2>3, <2>4
<1>. HIDE DEF d, h
<1>10. /\ n \in Nat /\ 2 * a - 2 * (d * n) \in -d..d
       /\ \A k \in Nat : d * k <= a => k <= n
       /\ n <= Significand /\ (c = 1 \/ h <= n)
  BY <1>1, <1>7, <1>8, <1>9, NearestNear
<1>. HIDE DEF n
<1>11. Float(Quant!Float32(a, b), c, n)
  <2>1. c = 1 \/ 2 * n >= Significand
    BY <1>1, <1>10
  <2>. QED BY <1>3, <1>5, <1>6, <1>10, <2>1 DEF Float
<1>. QED BY <1>10, <1>11 DEF d

\* Storing a number of the format again does not change it.
LEMMA FloatExact ==
  ASSUME Quant!QuantizerAssumption, NEW s, NEW c, NEW n, Float(s, c, n), NEW b \in Nat \ {0}
  PROVE  Quant!Float32(b * s, b) = s
<1>. DEFINE e == b * Least
            D == b * Least * Significand
            h == Significand \div 2
            a == b * s
            t == a \div D
<1>1. /\ Least \in Nat \ {0} /\ Significand \in Nat \ {0} /\ h \in Nat \ {0} /\ Significand = 2 * h
  BY FormatTypes
<1>2. /\ c \in Nat \ {0} /\ PowerOfTwo(c) /\ n \in Nat /\ s = (Least * c) * n
      /\ n <= Significand /\ (c = 1 \/ 2 * n >= Significand)
  BY DEF Float
<1>. HIDE DEF h
<1>3. e \in Nat \ {0}
  BY <1>1
<1>4. D = e * Significand
  OBVIOUS
<1>5. a = e * (c * n)
  <2>1. b * ((Least * c) * n) = (b * Least) * (c * n)
    BY <1>1, <1>2
  <2>. QED BY <1>2, <2>1
<1>6. Quant!Float32(a, b) = (Least * Rounded(t + 1)) * Quant!Nearest(a, b * (Least * Rounded(t + 1)))
  BY SameSpacing DEF Quant!Float32, Quant!Spacing
<1>7. \A x \in Nat : b * (Least * x) = e * x
  BY <1>1
<1>. HIDE DEF e, D, a
<1>8. D \in Nat \ {0}
  BY <1>1, <1>3, <1>4
<1>9. c * n \in Nat /\ a \in Nat
  BY <1>2, <1>3, <1>5
<1>10. t \in Nat /\ D * t <= a /\ a < D * (t + 1)
  <2>. DEFINE rest == a % D
  <2>1. t \in Nat /\ rest \in 0..D - 1 /\ a = D * t + rest
    BY <1>8, <1>9, DivMod
  <2>. HIDE DEF t, rest
  <2>2. D * t \in Nat /\ D * (t + 1) = D * t + D
    BY <1>8, <2>1
  <2>. QED BY <1>8, <2>1, <2>2
<1>. HIDE DEF t
<1>11. CASE n < Significand
  <2>1. t < c
    <3>. SUFFICES ASSUME c <= t PROVE FALSE
      BY <1>2, <1>10
    <3>1. D * c <= D * t /\ D * c \in Nat /\ D * t \in Nat
      BY <1>2, <1>8, <1>10, TimesMonotone
    <3>2. c * n < c * Significand
      BY <1>1, <1>2, <1>11
    <3>3. e * (c * n) < e * (c * Significand)
      <4>. DEFINE x == c * n
                  y == c * Significand
      <4>1. x \in Nat /\ y \in Nat /\ x < y
        BY <1>1, <1>2, <3>2
      <4>. HIDE DEF x, y
      <4>2. e * x < e * y
        BY <1>3, <4>1
      <4>. QED BY <4>2 DEF x, y
    <3>4. e * (c * Significand) = D * c
      BY <1>1, <1>2, <1>3, <1>4
    <3>. QED BY <1>5, <1>9, <1>10, <3>1, <3>3, <3>4
  <2>2. c <= 2 * t + 1
    <3>. SUFFICES ASSUME c # 1 PROVE c <= 2 * t + 1
      BY <1>10
    <3>. DEFINE k == c \div 2
    <3>1. k \in Nat \ {0} /\ c = 2 * k
      BY <1>2, PowerEven
    <3>. HIDE DEF k
    <3>2. D * k <= a /\ D * k \in Nat
      <4>1. h <= n
        BY <1>1, <1>2
      <4>2. (e * c) * h \in Nat /\ (e * c) * n \in Nat /\ (e * c) * h <= (e * c) * n
        <5>1. e * c \in Nat
          BY <1>2, <1>3
        <5>. QED BY <1>1, <1>2, <4>1, <5>1, TimesMonotone
      <4>3. (e * c) * n = a
        BY <1>2, <1>3, <1>5
      <4>4. (e * c) * h = D * k
        <5>1. (e * (2 * k)) * h = (e * (2 * h)) * k
          BY <1>1, <1>3, <3>1
        <5>. QED BY <1>1, <1>4, <3>1, <5>1
      <4>. QED BY <4>2, <4>3, <4>4
    <3>3. k <= t
      <4>. SUFFICES ASSUME t + 1 <= k PROVE FALSE
        BY <1>10, <3>1
      <4>1. D * (t + 1) <= D * k /\ D * (t + 1) \in Nat
        BY <1>8, <1>10, <3>1, TimesMonotone
      <4>. QED BY <1>9, <1>10, <3>2, <4>1
    <3>. QED BY <1>10, <3>1, <3>3
  <2>3. Rounded(t + 1) = c
    <3>1. t + 1 \in Nat \ {0} /\ c \in t + 1..2 * (t + 1) - 1
      BY <1>2, <1>10, <2>1, <2>2
    <3>. QED BY <1>2, <3>1, RoundedIs
  <2>4. e * c \in Nat \ {0} /\ a = (e * c) * n
    BY <1>2, <1>3, <1>5
  <2>5. Quant!Nearest(a, e * c) = n
    BY <1>2, <2>4, NearestExact
  <2>. QED BY <1>2, <1>6, <1>7, <2>3, <2>5 DEF a
<1>12. CASE n = Significand
  <2>1. a = D * c
    BY <1>1, <1>2, <1>3, <1>4, <1>5, <1>12
  <2>2. t = c
    <3>1. ~(t + 1 <= c)
      <4>. SUFFICES ASSUME t + 1 <= c PROVE FALSE
        OBVIOUS
      <4>1. D * (t + 1) <= D * c /\ D * (t + 1) \in Nat
        BY <1>2, <1>8, <1>10, TimesMonotone
      <4>. QED BY <1>9, <1>10, <2>1, <4>1
    <3>2. ~(c + 1 <= t)
      <4>. SUFFICES ASSUME c + 1 <= t PROVE FALSE
        OBVIOUS
      <4>1. D * (c + 1) <= D * t /\ D * t \in Nat
        BY <1>2, <1>8, <1>10, TimesMonotone
      <4>2. D * (c + 1) = D * c + D
        BY <1>2, <1>8
      <4>. QED BY <1>8, <1>9, <1>10, <2>1, <4>1, <4>2
    <3>. QED BY <1>2, <1>10, <3>1, <3>2
  <2>3. Rounded(t + 1) = 2 * c
    <3>1. PowerOfTwo(2 * c)
      BY <1>2, PowerDoubled
    <3>2. t + 1 \in Nat \ {0} /\ 2 * c \in t + 1..2 * (t + 1) - 1
      BY <1>2, <2>2
    <3>. QED BY <3>1, <3>2, RoundedIs
  <2>4. e * (2 * c) \in Nat \ {0} /\ a = (e * (2 * c)) * h
    BY <1>1, <1>2, <1>3, <1>4, <2>1
  <2>5. Quant!Nearest(a, e * (2 * c)) = h
    BY <1>1, <2>4, NearestExact
  <2>6. Quant!Nearest(a, b * (Least * (2 * c))) = h
    BY <1>2, <1>7, <2>5
  <2>7. (Least * (2 * c)) * h = s
    BY <1>1, <1>2, <1>12
  <2>. QED BY <1>6, <2>3, <2>6, <2>7 DEF a
<1>. QED BY <1>1, <1>2, <1>11, <1>12

\* The greatest absolute value of a vector.
LEMMA MagnitudeProperties ==
  ASSUME Quant!QuantizerAssumption, NEW v \in [1..Size -> Int]
  PROVE  /\ Quant!Magnitude(v) \in Nat
         /\ \A i \in 1..Size : v[i] \in -Quant!Magnitude(v)..Quant!Magnitude(v)
         /\ \E i \in 1..Size : v[i] = Quant!Magnitude(v) \/ v[i] = -Quant!Magnitude(v)
<1>. DEFINE abs(i) == IF v[i] < 0 THEN -v[i] ELSE v[i]
            S == {abs(i) : i \in 1..Size}
            M == Quant!Magnitude(v)
<1>1. Size \in Nat /\ 1 \in 1..Size
  BY FormatTypes
<1>2. \A i \in 1..Size : abs(i) \in Nat
  OBVIOUS
<1>3. S \in SUBSET Nat /\ S # {}
  BY <1>1, <1>2
<1>4. IsFiniteSet(S)
  <2>. DEFINE f == [i \in 1..Size |-> abs(i)]
  <2>1. f \in Surjection(1..Size, S)
    BY DEF Surjection
  <2>2. IsFiniteSet(1..Size)
    BY <1>1, FS_Interval
  <2>. QED BY <2>1, <2>2, FS_Surjection
<1>5. \E x \in S : \A y \in S : x >= y
  BY <1>3, <1>4, GreatestExists
<1>6. M = CHOOSE x \in S : \A y \in S : x >= y
  BY DEF Quant!Magnitude, Quant!Max
<1>7. M \in S /\ \A y \in S : M >= y
  BY <1>5, <1>6
<1>. HIDE DEF M
<1>8. M \in Nat
  BY <1>3, <1>7
<1>9. ASSUME NEW i \in 1..Size PROVE v[i] \in -M..M
  <2>1. abs(i) \in S /\ v[i] \in Int
    OBVIOUS
  <2>2. M >= abs(i)
    BY <1>7, <2>1
  <2>. QED BY <1>8, <2>1, <2>2
<1>10. \E i \in 1..Size : v[i] = M \/ v[i] = -M
  <2>1. PICK i \in 1..Size : M = abs(i)
    BY <1>7
  <2>2. v[i] \in Int
    OBVIOUS
  <2>3. v[i] = M \/ v[i] = -M
    BY <2>1, <2>2
  <2>. QED BY <2>3
<1>. QED BY <1>8, <1>9, <1>10 DEF M

LEMMA MagnitudeIs ==
  ASSUME Quant!QuantizerAssumption, NEW v \in [1..Size -> Int], NEW m \in Nat,
         \A i \in 1..Size : v[i] \in -m..m, \E i \in 1..Size : v[i] = m \/ v[i] = -m
  PROVE  Quant!Magnitude(v) = m
<1>. DEFINE M == Quant!Magnitude(v)
<1>1. /\ M \in Nat /\ (\A i \in 1..Size : v[i] \in -M..M)
      /\ \E i \in 1..Size : v[i] = M \/ v[i] = -M
  BY MagnitudeProperties
<1>. HIDE DEF M
<1>2. M <= m
  BY <1>1
<1>3. m <= M
  BY <1>1
<1>4. M = m
  BY <1>1, <1>2, <1>3
<1>. QED BY <1>4 DEF M

-----------------------------------------------------------------------------
(* Quantized entries: what is stored and read.                             *)

\* The scale of a vector, and the integers that stand for its values.
Scale(v) == Quant!Float32(Quant!Magnitude(v), Limit)
Integer(v, i) == Quant!Clamp(Quant!RoundHalfAway(v[i], Scale(v)))

\* A vector with its signs turned.
Turned(v) == [i \in 1..Size |-> -v[i]]

LEMMA ScaleType ==
  ASSUME Quant!QuantizerAssumption, NEW a \in Nat, NEW b \in Nat \ {0}
  PROVE  /\ Quant!Float32(a, b) \in Nat
         /\ Quant!Float32(Quant!Float32(a, b), 1) = Quant!Float32(a, b)
<1>. DEFINE s == Quant!Float32(a, b)
<1>1. PICK c, n : Float(s, c, n)
  BY FloatExists
<1>. HIDE DEF s
<1>2. s \in Nat
  BY <1>1, FormatTypes DEF Float
<1>3. Quant!Float32(1 * s, 1) = s
  BY <1>1, FloatExact
<1>4. 1 * s = s
  BY <1>2
<1>5. Quant!Float32(s, 1) = s
  BY <1>3, <1>4
<1>. QED BY <1>2, <1>5 DEF s

\* What is stored of a vector that is not refused.
LEMMA Entry ==
  ASSUME Quant!QuantizerAssumption, NEW v \in [1..Size -> Int],
         Quant!Quantize(v) # Quant!Refused
  PROVE  /\ Quant!Magnitude(v) = 0 =>
              Quant!Quantize(v) = [values |-> v, scale |-> 0] /\ \A i \in 1..Size : v[i] = 0
         /\ Quant!Magnitude(v) # 0 =>
              /\ Scale(v) \in 1..Greatest /\ Quant!Float32(Scale(v), 1) = Scale(v)
              /\ Quant!Quantize(v) = [values |-> [i \in 1..Size |-> Integer(v, i)], scale |-> Scale(v)]
<1>1. /\ Quant!Magnitude(v) \in Nat
      /\ \A i \in 1..Size : v[i] \in -Quant!Magnitude(v)..Quant!Magnitude(v)
  BY MagnitudeProperties
<1>2. DOMAIN v = 1..Size /\ Limit \in Nat \ {0} /\ Greatest \in Nat
  BY FormatTypes
<1>3. Scale(v) \in Nat /\ Quant!Float32(Scale(v), 1) = Scale(v)
  BY <1>1, <1>2, ScaleType DEF Scale
<1>4. CASE Quant!Magnitude(v) = 0
  <2>1. Quant!Quantize(v) = [values |-> v, scale |-> 0]
    BY <1>4 DEF Quant!Quantize
  <2>. QED BY <1>1, <1>4, <2>1
<1>5. CASE Quant!Magnitude(v) # 0
  <2>1. Quant!Quantize(v) =
          IF Scale(v) = 0 \/ Scale(v) > Greatest THEN Quant!Refused
          ELSE [values |-> [i \in 1..Size |-> Integer(v, i)], scale |-> Scale(v)]
    BY <1>2, <1>5 DEF Quant!Quantize, Scale, Integer
  <2>2. ~(Scale(v) = 0 \/ Scale(v) > Greatest)
    BY <2>1
  <2>3. Scale(v) \in 1..Greatest
    BY <1>2, <1>3, <2>2
  <2>4. Quant!Quantize(v) = [values |-> [i \in 1..Size |-> Integer(v, i)], scale |-> Scale(v)]
    BY <2>1, <2>2
  <2>. QED BY <1>3, <1>5, <2>3, <2>4
<1>. QED BY <1>4, <1>5

LEMMA IntegerType ==
  ASSUME Quant!QuantizerAssumption, NEW v \in [1..Size -> Int], NEW i \in 1..Size,
         Scale(v) \in Nat \ {0}
  PROVE  Integer(v, i) \in -Limit..Limit
<1>1. v[i] \in Int /\ Limit \in Nat
  BY FormatTypes
<1>. QED BY <1>1, RoundType, ClampProperties DEF Integer

\* Turning the signs turns those of the integers.
LEMMA TurnedEntry ==
  ASSUME Quant!QuantizerAssumption, NEW v \in [1..Size -> Int],
         Quant!Quantize(v) # Quant!Refused
  PROVE  Quant!Quantize(Turned(v)) =
           [values |-> [i \in 1..Size |-> -Quant!Quantize(v).values[i]],
            scale |-> Quant!Quantize(v).scale]
<1>. DEFINE w == Turned(v)
<1>1. w \in [1..Size -> Int] /\ \A i \in 1..Size : w[i] = -v[i]
  BY DEF Turned
<1>2. Quant!Magnitude(w) = Quant!Magnitude(v)
  <2>. DEFINE M == Quant!Magnitude(v)
  <2>1. /\ M \in Nat /\ (\A i \in 1..Size : v[i] \in -M..M)
        /\ \E i \in 1..Size : v[i] = M \/ v[i] = -M
    BY MagnitudeProperties
  <2>. HIDE DEF M, w
  <2>2. \A i \in 1..Size : w[i] \in -M..M
    BY <1>1, <2>1
  <2>3. \E i \in 1..Size : w[i] = M \/ w[i] = -M
    BY <1>1, <2>1
  <2>4. Quant!Magnitude(w) = M
    BY <1>1, <2>1, <2>2, <2>3, MagnitudeIs
  <2>. QED BY <2>4 DEF M
<1>. HIDE DEF w
<1>3. DOMAIN w = 1..Size /\ DOMAIN v = 1..Size
  BY <1>1
<1>4. CASE Quant!Magnitude(v) = 0
  <2>1. Quant!Quantize(v) = [values |-> v, scale |-> 0]
    BY <1>4, Entry
  <2>2. Quant!Quantize(w) = [values |-> w, scale |-> 0]
    BY <1>2, <1>4 DEF Quant!Quantize
  <2>3. w = [i \in 1..Size |-> -v[i]]
    BY DEF w, Turned
  <2>. QED BY <2>1, <2>2, <2>3 DEF w
<1>5. CASE Quant!Magnitude(v) # 0
  <2>1. /\ Scale(v) \in 1..Greatest
        /\ Quant!Quantize(v) = [values |-> [i \in 1..Size |-> Integer(v, i)], scale |-> Scale(v)]
    BY <1>5, Entry
  <2>2. Scale(w) = Scale(v)
    BY <1>2 DEF Scale
  <2>3. \A i \in 1..Size : Integer(w, i) = -Integer(v, i)
    <3>. TAKE i \in 1..Size
    <3>1. v[i] \in Int /\ w[i] = -v[i] /\ Limit \in Nat /\ Scale(v) \in Nat \ {0}
      <4>1. v[i] \in Int /\ w[i] = -v[i]
        BY <1>1
      <4>2. Limit \in Nat
        BY FormatTypes
      <4>3. Scale(v) \in Nat \ {0}
        BY <2>1, FormatTypes
      <4>. QED BY <4>1, <4>2, <4>3
    <3>2. Quant!RoundHalfAway(-v[i], Scale(v)) = -Quant!RoundHalfAway(v[i], Scale(v))
      BY <3>1, RoundNegated
    <3>3. Quant!RoundHalfAway(v[i], Scale(v)) \in Int
      BY <3>1, RoundType
    <3>. QED BY <2>2, <3>1, <3>2, <3>3, ClampProperties DEF Integer
  <2>4. ~(Scale(v) = 0 \/ Scale(v) > Greatest)
    BY <2>1, FormatTypes
  <2>5. Quant!Quantize(w) = [values |-> [i \in 1..Size |-> Integer(w, i)], scale |-> Scale(w)]
    BY <1>2, <1>3, <1>5, <2>2, <2>4 DEF Quant!Quantize, Scale, Integer
  <2>6. [i \in 1..Size |-> Integer(w, i)] = [i \in 1..Size |-> -Quant!Quantize(v).values[i]]
    BY <2>1, <2>3
  <2>7. Quant!Quantize(v).scale = Scale(v)
    BY <2>1
  <2>8. Quant!Quantize(w) = [values |-> [i \in 1..Size |-> -Quant!Quantize(v).values[i]],
                            scale |-> Quant!Quantize(v).scale]
    BY <2>2, <2>5, <2>6, <2>7, Zenon
  <2>. QED BY <2>8 DEF w
<1>. QED BY <1>4, <1>5

\* A normal scale is close to what it was rounded from: no integer is cut off.
LEMMA NormalScale ==
  ASSUME Quant!QuantizerAssumption, NEW M \in Nat, 2 * M >= Limit * Least * Significand
  PROVE  /\ M # 0
         /\ Quant!Float32(M, Limit) \in Nat \ {0}
         /\ Quant!RoundHalfAway(M, Quant!Float32(M, Limit)) = Limit
<1>. DEFINE s == Quant!Float32(M, Limit)
            h == Significand \div 2
<1>1. /\ Least \in Nat \ {0} /\ Limit \in Nat \ {0} /\ h \in Nat /\ Significand = 2 * h /\ Limit < h
  BY FormatTypes
<1>2. PICK c, n : /\ Float(s, c, n)
                  /\ 2 * M - 2 * ((Limit * (Least * c)) * n) \in -(Limit * (Least * c))..(Limit * (Least * c))
                  /\ \A k \in Nat : (Limit * (Least * c)) * k <= M => k <= n
  BY <1>1, FloatExists
<1>. HIDE DEF s, h
<1>3. /\ c \in Nat \ {0} /\ n \in Nat /\ s = (Least * c) * n
      /\ (c = 1 \/ 2 * n >= Significand)
  BY <1>2 DEF Float
<1>. DEFINE e == Least * c
            d == Limit * e
<1>4. e \in Nat \ {0}
  BY <1>1, <1>3
<1>5. /\ s = e * n /\ 2 * M - 2 * (d * n) \in -d..d
      /\ \A k \in Nat : d * k <= M => k <= n
  BY <1>2, <1>3
<1>6. h <= n
  <2>1. CASE c = 1
    <3>1. e = Least
      BY <1>1, <2>1
    <3>2. d * h \in Nat /\ 2 * (d * h) = Limit * Least * (2 * h)
      BY <1>1, <3>1
    <3>. HIDE DEF d
    <3>3. d * h <= M
      BY <1>1, <3>2
    <3>. QED BY <1>1, <1>5, <3>3
  <2>2. CASE c # 1
    BY <1>1, <1>3, <2>2
  <2>. QED BY <2>1, <2>2
<1>. HIDE DEF e
<1>7. d \in Nat \ {0} /\ d * n = s * Limit /\ d * n \in Nat
  BY <1>1, <1>3, <1>4, <1>5
<1>8. d < s /\ s \in Nat \ {0}
  <2>1. Limit + 1 <= n
    BY <1>1, <1>3, <1>6
  <2>2. e * (Limit + 1) <= e * n /\ e * n \in Nat
    BY <1>1, <1>3, <1>4, <2>1, TimesMonotone
  <2>3. e * (Limit + 1) = d + e
    BY <1>1, <1>4
  <2>. QED BY <1>4, <1>5, <1>7, <2>2, <2>3
<1>. HIDE DEF d
<1>9. 2 * (s * Limit) <= 2 * M + s /\ 2 * M + s < 2 * (s * Limit) + 2 * s
  BY <1>1, <1>5, <1>7, <1>8
<1>10. Quant!RoundHalfAway(M, s) = Limit
  BY <1>1, <1>8, <1>9, RoundIs
<1>11. M # 0
  <2>1. d * n >= d
    BY <1>1, <1>3, <1>6, <1>7
  <2>. QED BY <1>5, <1>7, <2>1
<1>. QED BY <1>8, <1>10, <1>11 DEF s

\* Every value is stored within half a step.
LEMMA NormalEntry ==
  ASSUME Quant!QuantizerAssumption, NEW v \in [1..Size -> Int],
         2 * Quant!Magnitude(v) >= Limit * Least * Significand, NEW i \in 1..Size
  PROVE  /\ Scale(v) \in Nat \ {0}
         /\ 2 * (v[i] - Integer(v, i) * Scale(v)) \in -Scale(v)..Scale(v)
         /\ v[i] = Quant!Magnitude(v) => Integer(v, i) = Limit
         /\ v[i] = -Quant!Magnitude(v) => Integer(v, i) = -Limit
<1>. DEFINE M == Quant!Magnitude(v)
            s == Scale(v)
            x == v[i]
            r(a) == Quant!RoundHalfAway(a, s)
<1>1. M \in Nat /\ x \in -M..M /\ x \in Int /\ Limit \in Nat \ {0}
  BY MagnitudeProperties, FormatTypes
<1>2. s \in Nat \ {0} /\ r(M) = Limit
  BY <1>1, NormalScale DEF Scale
<1>3. Integer(v, i) = Quant!Clamp(r(x))
  BY DEF Integer
<1>. HIDE DEF M, s, x
<1>4. r(-M) = -Limit
  BY <1>1, <1>2, RoundNegated
<1>5. r(x) \in -Limit..Limit
  <2>1. r(-M) <= r(x) /\ r(x) <= r(M)
    BY <1>1, <1>2, RoundMonotone
  <2>2. r(x) \in Int
    BY <1>1, <1>2, RoundType
  <2>. QED BY <1>1, <1>2, <1>4, <2>1, <2>2
<1>6. Integer(v, i) = r(x)
  BY <1>1, <1>3, <1>5, ClampProperties
<1>7. 2 * (x - r(x) * s) \in -s..s
  <2>1. CASE x >= 0
    <3>1. /\ r(x) \in Nat /\ 2 * (s * r(x)) <= 2 * x + s
          /\ 2 * x + s < 2 * (s * r(x)) + 2 * s
      <4>1. x \in Nat
        BY <1>1, <2>1
      <4>. QED BY <1>2, <4>1, RoundNear
    <3>. DEFINE y == r(x)
    <3>. HIDE DEF y
    <3>2. y \in Nat /\ 2 * (s * y) <= 2 * x + s /\ 2 * x + s < 2 * (s * y) + 2 * s
      BY <3>1 DEF y
    <3>3. 2 * (x - y * s) = 2 * x - 2 * (s * y) /\ s * y \in Nat
      BY <1>1, <1>2, <3>2
    <3>4. 2 * (x - y * s) \in -s..s
      BY <1>1, <1>2, <3>2, <3>3
    <3>. QED BY <3>4 DEF y
  <2>2. CASE x < 0
    <3>. DEFINE z == -x
                y == r(z)
    <3>1. z \in Nat /\ r(x) = -y
      BY <1>1, <1>2, <2>2, RoundType
    <3>2. /\ y \in Nat /\ 2 * (s * y) <= 2 * z + s
          /\ 2 * z + s < 2 * (s * y) + 2 * s
      BY <1>2, <3>1, RoundNear
    <3>. HIDE DEF y
    <3>3. 2 * (x - (-y) * s) = 2 * (s * y) - 2 * z /\ s * y \in Nat
      BY <1>1, <1>2, <3>2
    <3>4. 2 * (x - (-y) * s) \in -s..s
      BY <1>1, <1>2, <3>1, <3>2, <3>3
    <3>. QED BY <3>1, <3>4
  <2>. QED BY <1>1, <2>1, <2>2
<1>8. 2 * (x - Integer(v, i) * s) \in -s..s
  BY <1>6, <1>7
<1>9. x = M => Integer(v, i) = Limit
  BY <1>2, <1>6
<1>10. x = -M => Integer(v, i) = -Limit
  BY <1>4, <1>6
<1>. QED BY <1>2, <1>8, <1>9, <1>10 DEF M, s, x

\* What is read is stored as it was.
LEMMA NormalRepeats ==
  ASSUME Quant!QuantizerAssumption, NEW v \in [1..Size -> Int],
         2 * Quant!Magnitude(v) >= Limit * Least * Significand,
         Quant!Quantize(v) # Quant!Refused
  PROVE  Quant!Quantize([i \in 1..Size |-> Integer(v, i) * Scale(v)]) = Quant!Quantize(v)
<1>. DEFINE M == Quant!Magnitude(v)
            s == Scale(v)
            w == [i \in 1..Size |-> Integer(v, i) * s]
<1>1. Limit \in Nat \ {0} /\ Greatest \in Nat
  BY FormatTypes
<1>2. M \in Nat /\ M # 0 /\ \E i \in 1..Size : v[i] = M \/ v[i] = -M
  BY <1>1, MagnitudeProperties, NormalScale
<1>3. /\ s \in 1..Greatest
      /\ Quant!Quantize(v) = [values |-> [i \in 1..Size |-> Integer(v, i)], scale |-> s]
  BY <1>2, Entry
<1>. HIDE DEF M
<1>4. s \in Nat \ {0}
  BY <1>1, <1>3
<1>5. \A i \in 1..Size : Integer(v, i) \in -Limit..Limit
  BY <1>4, IntegerType
<1>6. \E i \in 1..Size : Integer(v, i) = Limit \/ Integer(v, i) = -Limit
  BY <1>2, NormalEntry DEF M
<1>7. PICK c, n : Float(s, c, n)
  BY <1>1, <1>2, FloatExists DEF Scale, M
<1>8. Quant!Float32(Limit * s, Limit) = s
  BY <1>1, <1>7, FloatExact
<1>. HIDE DEF s
<1>9. w \in [1..Size -> Int] /\ \A i \in 1..Size : w[i] = Integer(v, i) * s
  <2>1. \A x \in -Limit..Limit : x * s \in Int
    BY <1>1, <1>4
  <2>. QED BY <1>5, <2>1
<1>. HIDE DEF w
<1>10. Limit * s \in Nat \ {0} /\ \A x \in -Limit..Limit : x * s \in -(Limit * s)..Limit * s
  <2>1. Limit * s \in Nat \ {0}
    BY <1>1, <1>4
  <2>2. ASSUME NEW x \in -Limit..Limit PROVE x * s \in -(Limit * s)..Limit * s
    <3>1. CASE x >= 0
      <4>1. s * x <= s * Limit /\ s * x \in Nat
        BY <1>1, <1>4, <3>1, TimesMonotone
      <4>2. s * x = x * s /\ s * Limit = Limit * s
        BY <1>1, <1>4
      <4>. QED BY <2>1, <4>1, <4>2
    <3>2. CASE x < 0
      <4>. DEFINE y == -x
      <4>1. y \in Nat /\ y <= Limit /\ x = -y
        BY <1>1, <3>2
      <4>. HIDE DEF y
      <4>2. s * y <= s * Limit /\ s * y \in Nat
        BY <1>1, <1>4, <4>1, TimesMonotone
      <4>3. x * s = -(s * y) /\ s * Limit = Limit * s
        BY <1>1, <1>4, <4>1
      <4>. QED BY <2>1, <4>2, <4>3
    <3>. QED BY <1>1, <3>1, <3>2
  <2>. QED BY <2>1, <2>2
<1>11. Quant!Magnitude(w) = Limit * s
  <2>1. \A i \in 1..Size : w[i] \in -(Limit * s)..Limit * s
    BY <1>5, <1>9, <1>10
  <2>2. \E i \in 1..Size : w[i] = Limit * s \/ w[i] = -(Limit * s)
    <3>1. (-Limit) * s = -(Limit * s)
      BY <1>1, <1>4
    <3>. QED BY <1>6, <1>9, <3>1
  <2>. QED BY <1>9, <1>10, <2>1, <2>2, MagnitudeIs
<1>12. Scale(w) = s
  BY <1>8, <1>11 DEF Scale
<1>13. \A i \in 1..Size : Integer(w, i) = Integer(v, i)
  <2>. TAKE i \in 1..Size
  <2>1. Integer(w, i) = Quant!Clamp(Quant!RoundHalfAway(Integer(v, i) * s, s))
    BY <1>9, <1>12 DEF Integer
  <2>. DEFINE x == Integer(v, i)
  <2>2. x \in -Limit..Limit /\ x \in Int
    BY <1>1, <1>5
  <2>. HIDE DEF x
  <2>3. Quant!RoundHalfAway(x * s, s) = x
    BY <1>4, <2>2, RoundExact
  <2>4. Quant!Clamp(x) = x
    BY <1>1, <2>2, ClampProperties
  <2>5. Quant!Clamp(Quant!RoundHalfAway(x * s, s)) = x
    BY <2>3, <2>4
  <2>. QED BY <2>1, <2>5 DEF x
<1>14. Quant!Quantize(w) = [values |-> [i \in 1..Size |-> Integer(w, i)], scale |-> Scale(w)]
  <2>1. DOMAIN w = 1..Size
    BY <1>9
  <2>2. ~(Scale(w) = 0 \/ Scale(w) > Greatest) /\ Quant!Magnitude(w) # 0
    BY <1>1, <1>3, <1>10, <1>11, <1>12
  <2>. QED BY <2>1, <2>2 DEF Quant!Quantize, Scale, Integer
<1>15. Quant!Quantize(w) = Quant!Quantize(v)
  BY <1>3, <1>12, <1>13, <1>14
<1>. QED BY <1>15 DEF w, s

\* What is stored is the vector's entry, and what is read, that entry's numbers.
QuantInv ==
  /\ vector \in [1..Size -> Int]
  /\ stored \in {Quant!Refused, Quant!Quantize(vector)}
  /\ read \in {<<>>, Quant!Dequantize(stored)}
  /\ read # <<>> => stored # Quant!Refused

LEMMA QuantInvHolds ==
  ASSUME Quant!QuantizerAssumption
  PROVE  Quant!Spec => []QuantInv
<1>1. Quant!Init => QuantInv
  <2>1. Quant!Vectors \subseteq [1..Size -> Int]
    BY FormatTypes DEF Quant!Vectors
  <2>. QED BY <2>1 DEF Quant!Init, QuantInv
<1>2. QuantInv /\ [Quant!Next]_Quant!vars => QuantInv'
  <2>. SUFFICES ASSUME QuantInv, [Quant!Next]_Quant!vars PROVE QuantInv'
    OBVIOUS
  <2>1. CASE Quant!Store
    BY <2>1 DEF QuantInv, Quant!Store
  <2>2. CASE Quant!Read
    BY <2>2 DEF QuantInv, Quant!Read
  <2>3. CASE UNCHANGED Quant!vars
    BY <2>3 DEF QuantInv, Quant!vars
  <2>. QED BY <2>1, <2>2, <2>3 DEF Quant!Next
<1>. QED BY <1>1, <1>2, PTL DEF Quant!Spec

\* An entry is one that the cache accepts and stands for what was stored (quantize
\* and dequantize of kv_cache.py): its integers are in range and its scale is a
\* float32, the order and the signs of the values are kept, and under a normal
\* scale every value is within half a step and is stored again unchanged.
THEOREM SoundEntryAlways == Quant!Spec => []SoundEntry
<1>0. Quant!QuantizerAssumption
  BY PartsAssumption
<1>1. QuantInv => SoundEntry
  <2>. SUFFICES ASSUME QuantInv PROVE Quant!SoundEntry
    BY DEF SoundEntry
  <2>. DEFINE M == Quant!Magnitude(vector)
              s == Scale(vector)
  <2>1. /\ vector \in [1..Size -> Int] /\ stored \in {Quant!Refused, Quant!Quantize(vector)}
        /\ read \in {<<>>, Quant!Dequantize(stored)} /\ (read # <<>> => stored # Quant!Refused)
        /\ Limit \in Nat \ {0} /\ Greatest \in Nat
    BY <1>0, FormatTypes DEF QuantInv
  <2>2. CASE stored = Quant!Refused
    <3>1. read = <<>>
      BY <2>1, <2>2
    <3>. QED BY <2>2, <3>1 DEF Quant!SoundEntry, Quant!ValidEntry, Quant!Symmetric,
                   Quant!NormalWithinHalfStep, Quant!WithinHalfStep, Quant!Repeatable
  <2>3. CASE stored # Quant!Refused
    <3>1. stored = Quant!Quantize(vector)
      BY <2>1, <2>3
    <3>2. M # 0 => /\ s \in 1..Greatest /\ s \in Nat \ {0} /\ Quant!Float32(s, 1) = s
                   /\ stored.scale = s
                   /\ stored.values = [i \in 1..Size |-> Integer(vector, i)]
      <4>1. M # 0 =>
              /\ s \in 1..Greatest /\ Quant!Float32(s, 1) = s
              /\ Quant!Quantize(vector) = [values |-> [i \in 1..Size |-> Integer(vector, i)], scale |-> s]
        BY <2>1, <2>3, <3>1, <1>0, Entry
      <4>. HIDE DEF M, s
      <4>2. M # 0 => s \in Nat \ {0}
        BY <2>1, <4>1
      <4>3. M # 0 => /\ stored.scale = s
                     /\ stored.values = [i \in 1..Size |-> Integer(vector, i)]
        BY <3>1, <4>1
      <4>. QED BY <4>1, <4>2, <4>3
    <3>3. M = 0 => /\ stored.scale = 0 /\ stored.values = vector
                   /\ \A i \in 1..Size : vector[i] = 0
      <4>1. M = 0 => /\ Quant!Quantize(vector) = [values |-> vector, scale |-> 0]
                     /\ \A i \in 1..Size : vector[i] = 0
        BY <2>1, <2>3, <3>1, <1>0, Entry
      <4>. HIDE DEF M
      <4>. QED BY <3>1, <4>1
    <3>. HIDE DEF M, s
    <3>4. M # 0 => \A i \in 1..Size : Integer(vector, i) \in -Limit..Limit
      BY <2>1, <3>2, <1>0, IntegerType DEF s
    <3>5. Quant!ValidEntry
      <4>1. CASE M = 0
        <5>1. \A i \in 1..Size : stored.values[i] = 0 /\ stored.values[i] \in -Limit..Limit
          <6>1. 0 \in -Limit..Limit
            BY <2>1
          <6>2. \A i \in 1..Size : stored.values[i] = 0
            BY <3>3, <4>1
          <6>. QED BY <6>1, <6>2
        <5>2. stored.scale \in 0..Greatest /\ ~(stored.scale > 0)
          BY <2>1, <3>3, <4>1
        <5>. QED BY <5>1, <5>2 DEF Quant!ValidEntry
      <4>2. CASE M # 0
        <5>1. \A i \in 1..Size : stored.values[i] \in -Limit..Limit
          BY <3>2, <3>4, <4>2
        <5>2. stored.scale \in 0..Greatest /\ stored.scale # 0
          BY <3>2, <4>2
        <5>3. stored.scale = Quant!Float32(stored.scale, 1)
          BY <3>2, <4>2
        <5>. QED BY <5>1, <5>2, <5>3 DEF Quant!ValidEntry
      <4>. QED BY <4>1, <4>2
    <3>6. Quant!Symmetric
      <4>1. ASSUME NEW i \in 1..Size, NEW j \in 1..Size, vector[i] <= vector[j]
            PROVE  stored.values[i] <= stored.values[j]
        <5>1. CASE M = 0
          BY <3>3, <4>1, <5>1
        <5>2. CASE M # 0
          <6>1. vector[i] \in Int /\ vector[j] \in Int
            BY <2>1
          <6>2. s \in Nat \ {0}
            BY <3>2, <5>2
          <6>3. Quant!RoundHalfAway(vector[i], s) <= Quant!RoundHalfAway(vector[j], s)
            BY <4>1, <6>1, <6>2, RoundMonotone
          <6>4. Quant!RoundHalfAway(vector[i], s) \in Int /\ Quant!RoundHalfAway(vector[j], s) \in Int
            BY <6>1, <6>2, RoundType
          <6>5. Quant!Clamp(Quant!RoundHalfAway(vector[i], s)) <= Quant!Clamp(Quant!RoundHalfAway(vector[j], s))
            BY <2>1, <6>3, <6>4, ClampProperties
          <6>. QED BY <3>2, <5>2, <6>5 DEF Integer, s
        <5>. QED BY <5>1, <5>2
      <4>2. Quant!Quantize([i \in 1..Size |-> -vector[i]]) =
              [values |-> [i \in 1..Size |-> -stored.values[i]], scale |-> stored.scale]
        BY <2>1, <2>3, <3>1, <1>0, TurnedEntry DEF Turned
      <4>. QED BY <4>1, <4>2 DEF Quant!Symmetric
    <3>7. ASSUME Quant!Normal, read # <<>>
          PROVE  Quant!WithinHalfStep /\ Quant!Quantize(read) = stored
      <4>1. 2 * M >= Limit * Least * Significand /\ M \in Nat
        BY <2>1, <3>7, <1>0, MagnitudeProperties DEF Quant!Normal, M
      <4>2. M # 0
        BY <4>1, <1>0, NormalScale
      <4>3. read = [i \in 1..Size |-> Integer(vector, i) * s]
        <5>1. read = [i \in DOMAIN stored.values |-> stored.values[i] * stored.scale]
          BY <2>1, <3>7 DEF Quant!Dequantize
        <5>. QED BY <3>2, <4>2, <5>1
      <4>4. Quant!Quantize(read) = stored
        BY <2>1, <2>3, <3>1, <4>1, <4>3, <1>0, NormalRepeats DEF M, s
      <4>5. ASSUME NEW i \in 1..Size
            PROVE  2 * (vector[i] - read[i]) \in -stored.scale..stored.scale
        <5>1. 2 * (vector[i] - Integer(vector, i) * s) \in -s..s
          BY <2>1, <4>1, <1>0, NormalEntry DEF M, s
        <5>2. read[i] = Integer(vector, i) * s /\ stored.scale = s
          BY <3>2, <4>2, <4>3
        <5>. QED BY <5>1, <5>2
      <4>. QED BY <4>4, <4>5 DEF Quant!WithinHalfStep
    <3>8. Quant!NormalWithinHalfStep
      BY <3>7 DEF Quant!NormalWithinHalfStep, Quant!WithinHalfStep
    <3>9. Quant!Repeatable
      BY <3>7 DEF Quant!Repeatable
    <3>. QED BY <3>5, <3>6, <3>8, <3>9 DEF Quant!SoundEntry
  <2>. QED BY <2>2, <2>3
<1>. QED BY <1>0, <1>1, QuantInvHolds, PTL
=============================================================================
