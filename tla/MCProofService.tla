--------------------------- MODULE MCProofService --------------------------
(* ProofService with one issuer, or the two that main knows.                *)
EXTENDS ProofService, MCRevocationServer

MCNumberedTwo == {1, 2}
MCUnnumbered  == {NoNumber}
MCNoneRevoked == {<<g2, 1>>}
=============================================================================
