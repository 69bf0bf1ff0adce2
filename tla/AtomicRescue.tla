---------------------------- MODULE AtomicRescue ----------------------------
(***************************************************************************)
(* What the source chain promises about rescues to everybody who is not    *)
(* inside one: a rescue happens as a whole or not at all, ends once, is    *)
(* completed exactly if it did something for its target, and a message     *)
(* that was sent stays sent and belongs to an execution that has ended.    *)
(***************************************************************************)
EXTENDS Integers, Sequences

CONSTANT ExecIds

VARIABLES
    status,    \* execution => how it ended, "None" before
    messages,  \* the messages the router has accepted
    last,      \* execution => position of its last message, 0 for none
    done,      \* tokens that reached positions on this chain
    used       \* executions whose report may not be repeated

atomicVars == <<status, messages, last, done, used>>

AtomicInit ==
    /\ status = [e \in ExecIds |-> "None"]
    /\ messages = <<>>
    /\ last = [e \in ExecIds |-> 0]
    /\ done = 0
    /\ used = {}

Sends == Len(messages') > Len(messages)

\* What was sent stays; what is added is the execution's, and is linked to it.
SendFor(e) ==
    /\ Len(messages') >= Len(messages)
    /\ \A i \in 1..Len(messages) : messages'[i] = messages[i]
    /\ \A i \in (Len(messages) + 1)..Len(messages') : messages'[i].execId = e
    /\ last' = IF Sends THEN [last EXCEPT ![e] = Len(messages')] ELSE last

Rescue(e) ==
    /\ status[e] = "None"
    /\ SendFor(e)
    /\ done' >= done
    /\ status' = [status EXCEPT ![e] = IF Sends \/ done' > done THEN "Completed" ELSE "Failed"]
    /\ used' = used \/ (status'[e] = "Completed" /\ used' = used \cup {e})

\* Direct legs: one sends for an execution that has ended, one supplies here.
SendLeg(e) ==
    /\ status[e] # "None"
    /\ SendFor(e)
    /\ Len(messages') = Len(messages) + 1
    /\ UNCHANGED <<status, done, used>>

SupplyLeg ==
    /\ done' > done
    /\ UNCHANGED <<status, messages, last, used>>

AtomicNext == SupplyLeg \/ \E e \in ExecIds : Rescue(e) \/ SendLeg(e)

AtomicSpec == AtomicInit /\ [][AtomicNext]_atomicVars
=============================================================================
