---------------------------- MODULE MCRelayWorker ----------------------------
(***************************************************************************)
(* One message for the races between two workers; two for the scan's       *)
(* window and a message of an unsupported chain.                           *)
(***************************************************************************)
EXTENDS RelayWorker

CONSTANTS w1, w2

OneMessage == {1}
TwoMessages == {1, 2}
OneWorker == {w1}
TwoWorkers == {w1, w2}
=============================================================================
