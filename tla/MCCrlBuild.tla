----------------------------- MODULE MCCrlBuild ----------------------------
(* CrlBuild with every list of at most MaxLength serials out of a nil one   *)
(* and the numbers -1 .. MaxSerial.                                         *)
EXTENDS CrlBuild

CONSTANTS MaxSerial, MaxLength

MCValues  == 0..MaxSerial
MCBatches == {}
MCCRLs    == UNION {[1..n -> (-1)..MaxSerial \cup {NilSerial}] : n \in 0..MaxLength}
=============================================================================
