----------------------------- MODULE MCDTLSData -----------------------------
(* Counters of 8 values (a half range of 4), a window of 2 or 3, and enough *)
(* packets for the counter to wrap; the store is only driven by verify.     *)
EXTENDS DTLSData

MCSeqNumbers == -1 .. 9
=============================================================================
