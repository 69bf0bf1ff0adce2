--------------------------- MODULE RescueProjection ---------------------------
(***************************************************************************)
(* The fold of an execution's indexed events into one row of               *)
(* rescue_executions                                                       *)
(* (backend/src/modules/rescue-history/rescue-projection.service.ts).      *)
(*                                                                         *)
(* A log is known by its chain, execution and event: a transaction of one  *)
(* execution emits each event at most once, and the transaction's hash and *)
(* index are the same wherever the transaction is mined.  Of a projection  *)
(* only the status is kept; sortEvents, which orders the events by the     *)
(* time they were indexed, decides columns that are left out, such as the  *)
(* source chain, and no status.                                            *)
(***************************************************************************)
EXTENDS Integers, FiniteSets

CONSTANTS
    Chains,       \* chain ids
    Execs,        \* execution ids
    CrossChain,   \* executions that send a message to another chain
    Source,       \* the chain on which an execution runs
    Destination   \* the chain its message is for

ASSUME ExecsAssumption ==
    /\ Chains \subseteq Nat \ {0} /\ IsFiniteSet(Chains)
    /\ IsFiniteSet(Execs) /\ CrossChain \subseteq Execs
    /\ Source \in [Execs -> Chains] /\ Destination \in [Execs -> Chains]

-----------------------------------------------------------------------------
\* The events the status depends on, in the order a transaction emits them.
\* MessageFailed, which has the effect of CrossChainDestinationFailed and is
\* emitted with it, is not a member of its own.
SourceEvents == {"RescueInitiated", "CrossChainInitiated", "RescueCompleted", "RescueFailed"}
DestinationEvents == {"CrossChainCompleted", "CrossChainDestinationFailed"}

LogOf(e, event) ==
    [chain |-> IF event \in SourceEvents THEN Source[e] ELSE Destination[e],
     exec |-> e, event |-> event]

Log == {LogOf(e, event) : e \in Execs, event \in SourceEvents \cup DestinationEvents}

\* Of the logs of a transaction, RescueInitiated is the first and
\* CrossChainInitiated comes before the event that ends the execution.
Emitted(event) ==
    IF event = "RescueInitiated" THEN 1 ELSE IF event = "CrossChainInitiated" THEN 2 ELSE 3

Precedes(k, l) == k.exec = l.exec /\ Emitted(k.event) < Emitted(l.event)

-----------------------------------------------------------------------------
Statuses == {"none", "in_progress", "completed", "failed"}

NoExecution == "absent"

\* computeStatus, from the events that occurred.
ComputeStatus(events) ==
    IF events \cap {"RescueFailed", "CrossChainDestinationFailed"} # {} THEN "failed"
    ELSE IF "CrossChainInitiated" \in events /\ "CrossChainCompleted" \notin events
         THEN "in_progress"
    ELSE IF events \cap {"CrossChainCompleted", "RescueCompleted"} # {} THEN "completed"
    ELSE IF "RescueInitiated" \in events THEN "in_progress"
    ELSE "none"

\* The indexed rows of an execution; rows is the set of logs in rescue_events.
RowsOf(rows, e) == {l \in rows : l.exec = e}

\* reduceProjection and computeStatus over the rows projectExec found.
ReduceProjection(rows, e) == ComputeStatus({l.event : l \in RowsOf(rows, e)})
=============================================================================
