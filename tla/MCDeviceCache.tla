--------------------------- MODULE MCDeviceCache ---------------------------
(***************************************************************************)
(* Small instances of DeviceCache for TLC.  Entries are interchangeable.   *)
(***************************************************************************)
EXTENDS DeviceCache, TLC

Interchangeable == Permutations(Entries)
=============================================================================
