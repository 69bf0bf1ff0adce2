-------------------------- MODULE MessageLifecycle --------------------------
(***************************************************************************)
(* What the destination chain promises for each rescue message, however    *)
(* often and through however many routers it is delivered: it is acted on  *)
(* once, and a failed message is recovered at most once.                   *)
(***************************************************************************)
CONSTANT Messages

VARIABLE outcome

LifecycleInit == outcome = [m \in Messages |-> "InFlight"]

\* The message's outcome moves from one state to the next.
Move(m, from, to) ==
    /\ outcome[m] = from
    /\ outcome' = [outcome EXCEPT ![m] = to]

Complete(m) == Move(m, "InFlight", "Completed")
Fail(m) == Move(m, "InFlight", "Failed")
Recover(m) == Move(m, "Failed", "Recovered")

LifecycleNext == \E m \in Messages : Complete(m) \/ Fail(m) \/ Recover(m)

LifecycleSpec == LifecycleInit /\ [][LifecycleNext]_outcome
=============================================================================
