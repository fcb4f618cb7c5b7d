--------------------------- MODULE MCPagedStorage ---------------------------
(***************************************************************************)
(* Small instances, for TLC, of the two places that hold a sequence in     *)
(* pages: PagedKVCache, and DeviceCache for a caller that waits and a      *)
(* device that does not fail.  Each behaviour is one of the two; the other *)
(* one stays as it begins.                                                 *)
(***************************************************************************)
EXTENDS PagedKVCache, TLC

CONSTANTS Blank, Unset, MaxTokens, MaxAttentions

VARIABLES subject, host, view, capacity, pinned, device, memory, transfer, target

Device == INSTANCE DeviceCache
            WITH Entries <- Tokens, Waits <- TRUE, Faults <- {}, MaxTransfers <- 1, MaxFailed <- 1

ASSUME DeviceStorageAssumption == Device!DeviceAssumption

deviceVars == <<host, view, capacity, pinned, device, memory, transfer, target>>
storageVars == <<subject, vars, deviceVars>>

StorageInit == subject \in {"host", "device"} /\ Init /\ Device!Init

StorageNext ==
  /\ \/ subject = "host" /\ Next /\ UNCHANGED deviceVars
     \/ subject = "device" /\ Device!Next /\ UNCHANGED vars
  /\ UNCHANGED subject

StorageSpec == StorageInit /\ [][StorageNext]_storageVars

\* Sequence names and entries are only ever compared for equality.
Interchangeable == Permutations(Seqs) \cup Permutations(Tokens)
-----------------------------------------------------------------------------
(* Properties of DeviceCache; its module says what they mean and why.      *)

\* What is staged fits its buffer; and the device has the sequence that the host
\* counts as uploaded, and no more.
DeviceUploaded == Device!DeviceUploaded

\* An attention that may run reads what it is meant to read.
DeviceAttentionReads == Device!AttentionReads
=============================================================================
