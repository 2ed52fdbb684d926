--------------------------- MODULE MCRootPipeline --------------------------
(* RootPipeline with one issuer and overlapping runs, or with two issuers   *)
(* and one run at a time.                                                   *)
EXTENDS RootPipeline

CONSTANTS g2, g3

MCOneIssuer  == <<g2>>
MCTwoIssuers == <<g2, g3>>
=============================================================================
