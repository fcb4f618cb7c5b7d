----------------------------- MODULE MCAdapter -----------------------------
(***************************************************************************)
(* Small instances, for TLC, of three views of the Hugging Face adapter:   *)
(* CausalLMCache, its cache; ForwardStreams, its passes on a device; and   *)
(* Quantizer, the entries of its mirror.  Each behaviour is one of the     *)
(* three; the other two stay as they begin.                                *)
(***************************************************************************)
EXTENDS CausalLMCache

CONSTANTS MaxInput, MaxOrphans,
          Limit, Least, Significand, Greatest, MaxValue, Size

VARIABLES subject,
          waiting, capacity, pinned, workspace, transfer, stream,  \* ForwardStreams'
          vector, stored, read                                     \* Quantizer's

Streams == INSTANCE ForwardStreams
Quant == INSTANCE Quantizer

ASSUME PartsAssumption == Streams!StreamsAssumption /\ Quant!QuantizerAssumption

streamVars == <<waiting, capacity, pinned, workspace, transfer, stream>>
quantVars == <<vector, stored, read>>
adapterVars == <<subject, vars, streamVars, quantVars>>

\* A vector that nobody stores.
QuantRests == /\ vector = [i \in 1..Size |-> 0]
              /\ stored = Quant!Refused /\ read = <<>>

AdapterInit == /\ subject \in {"cache", "streams", "quantizer"}
               /\ Init /\ Streams!Init
               /\ IF subject = "quantizer" THEN Quant!Init ELSE QuantRests

AdapterNext ==
  /\ \/ subject = "cache" /\ Next /\ UNCHANGED <<streamVars, quantVars>>
     \/ subject = "streams" /\ Streams!Next /\ UNCHANGED <<vars, quantVars>>
     \/ subject = "quantizer" /\ Quant!Next /\ UNCHANGED <<vars, streamVars>>
  /\ UNCHANGED subject

AdapterSpec == AdapterInit /\ [][AdapterNext]_adapterVars /\ Streams!Fairness
-----------------------------------------------------------------------------
(* Properties of the parts; their modules say what they mean and why.      *)

\* Every buffer has room, and a forward pass that is waited for reads its own
\* inputs.
ReadsOwnInputs == Streams!TypeOK /\ Streams!ReadsOwnInputs

\* A quantized entry is valid and stands for what was stored.
SoundEntry == Quant!SoundEntry

\* The host is never left waiting for a forward pass.
Returns == Streams!Returns
=============================================================================
