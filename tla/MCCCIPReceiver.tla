--------------------------- MODULE MCCCIPReceiver ---------------------------
(***************************************************************************)
(* Two messages: one stored by a local router and deliverable by anyone,   *)
(* one relayed from another network; two routers, so that the owner may    *)
(* switch between a delivery and its duplicate.                            *)
(***************************************************************************)
EXTENDS CCIPReceiver, TLC

CONSTANTS local, remote, r1, r2, alice, bob

MCMessages == {local, remote}
MCEscrowIds == MCMessages \X (0..MaxTime)
MCUserOf == local :> alice @@ remote :> bob
MCAmountIn == local :> 1 @@ remote :> 1
MCDeadlineOf == local :> 0 @@ remote :> 1
MCSentBy == local :> r1 @@ remote :> NoRouter
MCSourceOf == [m \in MCMessages |-> "base"]
MCSenderOf == [m \in MCMessages |-> "executor"]
=============================================================================
