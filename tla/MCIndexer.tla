------------------------------ MODULE MCIndexer ------------------------------
(***************************************************************************)
(* One cross-chain rescue from chain 2 to chain 1: the destination is      *)
(* indexed first, as Base Sepolia (84532) is before Ethereum Sepolia       *)
(* (11155111).                                                             *)
(***************************************************************************)
EXTENDS Indexer

CONSTANTS e1, p1, p2, r1

MCSource == [e \in Execs |-> 2]
MCDestination == [e \in Execs |-> 1]
=============================================================================
