------------------------- MODULE MCRevocationServer ------------------------
(* RevocationServer with one issuer, or the two that main knows.            *)
EXTENDS RevocationServer

CONSTANTS g2, g3

MCOneIssuer  == <<g2>>
MCTwoIssuers == <<g2, g3>>
MCNumbers    == {1, 2, 3, NoNumber}
=============================================================================
