---------------------------- MODULE RootStorage ----------------------------
(***************************************************************************)
(* The contract LeanIMTPlusRootStorage: one record per issuer, which only  *)
(* the relayer can replace, and only by one with a greater CRL number.     *)
(* A record is abstracted to [root, number]: depth, leafCount and the      *)
(* block time are stored along with the root by the same assignment.       *)
(***************************************************************************)
EXTENDS Naturals

CONSTANTS Issuers, Relayer, NoRoot

VARIABLE roots   \* the mapping roots; number 0 where nothing was stored

Init == roots = [i \in Issuers |-> [root |-> NoRoot, number |-> 0]]

\* Mutant: the CRL number is not compared.
AcceptsAny(sender, i, info) == sender = Relayer

\* What require() lets through.
Accepts(sender, i, info) == sender = Relayer /\ info.number > roots[i].number

\* A mined setRoot: stored, or reverted with the state as it was.
SetRoot(sender, i, info) ==
  roots' = IF Accepts(sender, i, info) THEN [roots EXCEPT ![i] = info] ELSE roots
=============================================================================
