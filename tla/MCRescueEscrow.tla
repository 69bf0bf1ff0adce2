--------------------------- MODULE MCRescueEscrow ---------------------------
(***************************************************************************)
(* The escrow on its own: every depositor, claim, retry and sweep order of *)
(* a few records.                                                          *)
(***************************************************************************)
EXTENDS RescueEscrow, TLC

Symmetry == Permutations(EscrowIds) \cup Permutations(Users)
=============================================================================
