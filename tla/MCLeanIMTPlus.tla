--------------------------- MODULE MCLeanIMTPlus ---------------------------
(* Small instances of LeanIMTPlus: serial numbers 0..MaxValue and all       *)
(* batches of at most MaxBatch of them.                                     *)
EXTENDS SnapshotCodec, ProofWire

CONSTANTS MaxValue, MaxBatch

MCValues  == 0..MaxValue
MCBatches == UNION {[1..n -> 0..MaxValue] : n \in 0..MaxBatch}
=============================================================================
