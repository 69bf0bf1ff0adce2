----------------------------- MODULE RelayWorker -----------------------------
(***************************************************************************)
(* The relay worker (backend/src/modules/relay/relay.service.ts): jobs in  *)
(* the table relay_jobs, one for each cross-chain message the indexer has  *)
(* seen start and not end; workers that claim a job, submit                *)
(* deliverExternalMessage to the destination's MockCCIPRouter and mark the *)
(* job; the API's manual retry.                                            *)
(*                                                                         *)
(* Each database statement or transaction is an action, and so is what a   *)
(* process does between two awaits.  A relay that lost the race against    *)
(* its timeout goes on in the background, and a transaction that was sent  *)
(* outlives the process that sent it.  A process that dies is restarted    *)
(* (restart: unless-stopped in backend/docker-compose.yml).                *)
(*                                                                         *)
(* Time is abstract: a backoff elapses and a claim grows stale at some     *)
(* moment.  With the default settings the command's timeout (240 s) comes  *)
(* before RELAY_RUNNING_STALE_MS (300 s), so a claim does not grow stale   *)
(* while its holder is still waiting for the relay.                        *)
(***************************************************************************)
EXTENDS Integers, FiniteSets

CONSTANTS
    Messages,     \* message ids, ordered as the database orders them
    Workers,      \* relay processes: the loop, and relay:once beside it
    Mapped,       \* messages whose destination chain can be resolved
    Supported,    \* messages between two chains of the registry
    MaxAttempts,  \* RELAY_MAX_ATTEMPTS
    BatchSize,    \* RELAY_BATCH_SIZE
    ScanLimit,    \* RELAY_SCAN_LIMIT
    NoMessage, NoWorker,
    \* Bounds of the model.
    MaxClaims,    \* attempts of one job
    MaxCrashes,   \* processes that die
    MaxManual     \* calls of the retry endpoint

ASSUME MessagesAreNumbers == Messages \subseteq Nat /\ NoMessage \notin Messages
ASSUME MappingAssumption == Mapped \subseteq Messages /\ Supported \subseteq Messages
ASSUME LimitsAssumption ==
    /\ MaxAttempts \in Nat \ {0}
    /\ BatchSize \in Nat \ {0}
    /\ ScanLimit \in Nat
    /\ MaxClaims \in Nat /\ MaxCrashes \in Nat /\ MaxManual \in Nat

VARIABLES
    jobs,          \* relay_jobs, by message id (unique)
    workers,       \* where each process is in its tick
    relays,        \* executeRelayViaEvm, for each claim of a job
    routerStatus,  \* MockCCIPRouter.messageStatus on the destination chain
    deliveries,    \* how often the router delivered each message
    initiated,     \* messages with an indexed CrossChainInitiated
    terminal,      \* messages with an indexed terminal event
    retrying,      \* retry requests that have read their job
    crashes, manual

dbVars == <<jobs, initiated, terminal>>
chainVars == <<routerStatus, deliveries>>
boundVars == <<crashes, manual>>
relayVars == <<jobs, workers, relays, routerStatus, deliveries, initiated, terminal,
               retrying, crashes, manual>>

-----------------------------------------------------------------------------
JobStatus == {"absent", "pending", "running", "success", "dead"}
RelayStage == {"none", "started", "sent", "ok", "error"}
Phase == {"idle", "scan", "seed", "insert", "claim", "relay", "mark"}

Claims == Messages \X (1..MaxClaims)

\* due: nextAttemptAt is null or past.  stale: updated_at is older than
\* RELAY_RUNNING_STALE_MS.
Job == [status : JobStatus, attempts : 0..MaxClaims, due : BOOLEAN, stale : BOOLEAN]

NoJob == [status |-> "absent", attempts |-> 0, due |-> FALSE, stale |-> FALSE]

PendingJob(attempts, due) ==
    [status |-> "pending", attempts |-> attempts, due |-> due, stale |-> FALSE]

EndedJob(status, attempts) ==
    [status |-> status, attempts |-> attempts, due |-> FALSE, stale |-> FALSE]

Worker == [pc : Phase, todo : SUBSET Messages, left : 0..BatchSize,
           message : Messages \cup {NoMessage}, attempt : 0..MaxClaims,
           result : {"none", "ok", "failed", "unsupported"}]

\* A worker between claims.
AtPhase(pc, todo, left) ==
    [pc |-> pc, todo |-> todo, left |-> left, message |-> NoMessage,
     attempt |-> 0, result |-> "none"]

IdleWorker == AtPhase("idle", {}, 0)

\* A relay keeps the process it runs in.
Relay == [stage : RelayStage, by : Workers \cup {NoWorker}]

SetJob(m, job) == jobs' = [jobs EXCEPT ![m] = job]
SetWorker(w, worker) == workers' = [workers EXCEPT ![w] = worker]
SetStage(c, stage) ==
    relays' = [relays EXCEPT ![c] = [stage |-> stage, by |-> relays[c].by]]

RelayInit ==
    /\ jobs = [m \in Messages |-> NoJob]
    /\ workers = [w \in Workers |-> IdleWorker]
    /\ relays = [c \in Claims |-> [stage |-> "none", by |-> NoWorker]]
    /\ routerStatus = [m \in Messages |-> "None"]
    /\ deliveries = [m \in Messages |-> 0]
    /\ initiated = {}
    /\ terminal = {}
    /\ retrying = {}
    /\ crashes = 0
    /\ manual = 0

-----------------------------------------------------------------------------
(* The indexer and the destination chain. *)

IndexInitiated(m) ==
    /\ m \notin initiated
    /\ initiated' = initiated \cup {m}
    /\ UNCHANGED <<jobs, workers, relays, chainVars, terminal, retrying, boundVars>>

\* The receiver emits CrossChainCompleted or MessageFailed in a delivery.  When
\* it reverts its events are gone, and the router's are not indexed.
IndexTerminal(m) ==
    /\ m \notin terminal
    /\ routerStatus[m] = "Delivered"
    /\ terminal' = terminal \cup {m}
    /\ UNCHANGED <<jobs, workers, relays, chainVars, initiated, retrying, boundVars>>

\* Fault: the router delivers a message again.
DeliverableAgain(m) == TRUE

\* "message already active" otherwise; Pending is never seen from outside.
Deliverable(m) == routerStatus[m] # "Delivered"

\* deliverExternalMessage: the receiver accepts, or it reverts and the router
\* records that and returns.
Deliver(m) ==
    /\ Deliverable(m)
    /\ \/ /\ routerStatus' = [routerStatus EXCEPT ![m] = "Delivered"]
          /\ deliveries' = [deliveries EXCEPT ![m] = deliveries[m] + 1]
       \/ /\ routerStatus' = [routerStatus EXCEPT ![m] = "Failed"]
          /\ UNCHANGED deliveries

\* scripts/ops.sh relays it, or anybody calls the router's retryFailedMessage.
DeliveredByHand(m) ==
    /\ Deliver(m)
    /\ UNCHANGED <<dbVars, workers, relays, retrying, boundVars>>

-----------------------------------------------------------------------------
(* A tick of a worker: recover, scan, seed, then up to BatchSize claims. *)

\* Fault: recovery leaves the job running.
RecoveredRunning(job) == [job EXCEPT !.stale = FALSE]

\* Fault: recovery gives the attempt back.
RecoveredRefunded(job) == PendingJob(job.attempts - 1, TRUE)

Recovered(job) == PendingJob(job.attempts, TRUE)

RecoverStaleRunningJobs(w) ==
    /\ workers[w].pc = "idle"
    /\ jobs' = [m \in Messages |->
                  IF jobs[m].status = "running" /\ jobs[m].stale THEN Recovered(jobs[m])
                                                                 ELSE jobs[m]]
    /\ SetWorker(w, AtPhase("scan", {}, 0))
    /\ UNCHANGED <<initiated, terminal, relays, chainVars, retrying, boundVars>>

Unresolved == initiated \ terminal

\* SELECT ... ORDER BY message_id LIMIT scanLimit.
ScanWindow == {m \in Unresolved : Cardinality({n \in Unresolved : n < m}) < ScanLimit}

Scan(w) ==
    /\ workers[w].pc = "scan"
    /\ SetWorker(w, AtPhase("seed", ScanWindow, 0))
    /\ UNCHANGED <<dbVars, relays, chainVars, retrying, boundVars>>

IsNext(w, m) == m \in workers[w].todo /\ \A n \in workers[w].todo : m <= n

\* Fault: an existing job ends the seeding.
RestAfterNone(w, m) == {}

RestAfter(w, m) == workers[w].todo \ {m}

\* A row whose destination is unknown, or whose job exists, is passed over.  A
\* message's chains and execution never change, so there is no metadata to update.
SkipRow(w, m) ==
    /\ workers[w].pc = "seed"
    /\ IsNext(w, m)
    /\ m \notin Mapped \/ jobs[m].status # "absent"
    /\ SetWorker(w, AtPhase("seed", RestAfter(w, m), 0))
    /\ UNCHANGED <<dbVars, relays, chainVars, retrying, boundVars>>

FindNoJob(w, m) ==
    /\ workers[w].pc = "seed"
    /\ IsNext(w, m)
    /\ m \in Mapped
    /\ jobs[m].status = "absent"
    /\ SetWorker(w, AtPhase("insert", workers[w].todo, 0))
    /\ UNCHANGED <<dbVars, relays, chainVars, retrying, boundVars>>

InsertJob(w, m) ==
    /\ workers[w].pc = "insert"
    /\ IsNext(w, m)
    /\ jobs[m].status = "absent"
    /\ SetJob(m, PendingJob(0, TRUE))
    /\ SetWorker(w, AtPhase("seed", workers[w].todo \ {m}, 0))
    /\ UNCHANGED <<initiated, terminal, relays, chainVars, retrying, boundVars>>

\* The process and the relays it has not sent yet are gone.
Die(w) ==
    /\ SetWorker(w, IdleWorker)
    /\ relays' = [c \in Claims |->
                    IF relays[c].by = w /\ relays[c].stage = "started"
                    THEN [stage |-> "error", by |-> w] ELSE relays[c]]

\* The unique index rejects the row; nothing catches it and the process ends.
InsertConflict(w, m) ==
    /\ workers[w].pc = "insert"
    /\ IsNext(w, m)
    /\ jobs[m].status # "absent"
    /\ Die(w)
    /\ UNCHANGED <<dbVars, chainVars, retrying, boundVars>>

EndSeeding(w) ==
    /\ workers[w].pc = "seed"
    /\ workers[w].todo = {}
    /\ SetWorker(w, AtPhase("claim", {}, BatchSize))
    /\ UNCHANGED <<dbVars, relays, chainVars, retrying, boundVars>>

\* Fault: a job whose attempts are used up is passed over, also when a recovery
\* or an outdated mark has put it back.
RunnableUnexhausted(m) ==
    jobs[m].status = "pending" /\ jobs[m].due /\ jobs[m].attempts < MaxAttempts

\* SKIP LOCKED may pass over a row, so any runnable one may be taken.
Runnable(m) == jobs[m].status = "pending" /\ jobs[m].due

\* Fault: the batch has no end.
RoomAlways(w) == TRUE

Room(w) == workers[w].left > 0

\* claimNextRunnableJob is one transaction under a row lock.
Claim(w, m) ==
    LET attempt == jobs[m].attempts + 1
        next == IF m \in Supported THEN "relay" ELSE "mark"
        result == IF m \in Supported THEN "none" ELSE "unsupported"
    IN  /\ workers[w].pc = "claim"
        /\ Room(w)
        /\ Runnable(m)
        /\ attempt <= MaxClaims
        /\ SetJob(m, [status |-> "running", attempts |-> attempt,
                      due |-> TRUE, stale |-> FALSE])
        /\ SetWorker(w, [pc |-> next, todo |-> {}, left |-> workers[w].left - 1,
                         message |-> m, attempt |-> attempt, result |-> result])
        /\ relays' = [relays EXCEPT ![<<m, attempt>>] =
                        [stage |-> IF m \in Supported THEN "started" ELSE "none", by |-> w]]
        /\ UNCHANGED <<initiated, terminal, chainVars, retrying, boundVars>>

EndTick(w) ==
    /\ workers[w].pc = "claim"
    /\ workers[w].left = 0 \/ \A m \in Messages : ~Runnable(m)
    /\ SetWorker(w, IdleWorker)
    /\ UNCHANGED <<dbVars, relays, chainVars, retrying, boundVars>>

-----------------------------------------------------------------------------
(* executeRelayViaEvm, whether somebody still waits for it or not. *)

\* An RPC or configuration error, or the gas estimate of a call that reverts.
RelayThrows(c) ==
    /\ relays[c].stage = "started"
    /\ SetStage(c, "error")
    /\ UNCHANGED <<dbVars, workers, chainVars, retrying, boundVars>>

SendTransaction(c) ==
    /\ relays[c].stage = "started"
    /\ Deliverable(c[1])
    /\ SetStage(c, "sent")
    /\ UNCHANGED <<dbVars, workers, chainVars, retrying, boundVars>>

MineSuccessfully(c) ==
    /\ relays[c].stage = "sent"
    /\ Deliver(c[1])
    /\ SetStage(c, "ok")
    /\ UNCHANGED <<dbVars, workers, retrying, boundVars>>

MineReverted(c) ==
    /\ relays[c].stage = "sent"
    /\ ~Deliverable(c[1])
    /\ SetStage(c, "error")
    /\ UNCHANGED <<dbVars, workers, chainVars, retrying, boundVars>>

\* The relay a worker waits for.
Awaited(w) == <<workers[w].message, workers[w].attempt>>

ToMark(w, result) ==
    SetWorker(w, [pc |-> "mark", todo |-> {}, left |-> workers[w].left,
                  message |-> workers[w].message, attempt |-> workers[w].attempt,
                  result |-> result])

\* Fault: a relay that threw counts as done.
ResultOfAny(c) == "ok"

\* exitCode 0 is a receipt of status 1, whatever the router recorded.
ResultOf(c) == IF relays[c].stage = "ok" THEN "ok" ELSE "failed"

RelayReturns(w) ==
    /\ workers[w].pc = "relay"
    /\ relays[Awaited(w)].stage \in {"ok", "error"}
    /\ ToMark(w, ResultOf(Awaited(w)))
    /\ UNCHANGED <<dbVars, relays, chainVars, retrying, boundVars>>

\* The timer wins the race, or tx.wait() throws: the transaction may still be
\* mined, and a relay that has not sent it may still send it.
RelayTimesOut(w) ==
    /\ workers[w].pc = "relay"
    /\ ToMark(w, "failed")
    /\ UNCHANGED <<dbVars, relays, chainVars, retrying, boundVars>>

-----------------------------------------------------------------------------
(* Marking: an update by id that reads nothing, from what the claim read. *)

\* Fault: gives up one attempt too early.
ExhaustedEarly(attempt) == attempt + 1 >= MaxAttempts

Exhausted(attempt) == attempt >= MaxAttempts

GivesUp(w) ==
    \/ workers[w].result = "unsupported"
    \/ workers[w].result = "failed" /\ Exhausted(workers[w].attempt)

Mark(w) ==
    LET m == workers[w].message IN
    /\ workers[w].pc = "mark"
    /\ \/ workers[w].result = "ok" /\ SetJob(m, EndedJob("success", jobs[m].attempts))
       \/ GivesUp(w) /\ SetJob(m, EndedJob("dead", jobs[m].attempts))
       \/ /\ workers[w].result = "failed" /\ ~GivesUp(w)
          /\ SetJob(m, PendingJob(jobs[m].attempts, FALSE))
    /\ SetWorker(w, AtPhase("claim", {}, workers[w].left))
    /\ UNCHANGED <<initiated, terminal, relays, chainVars, retrying, boundVars>>

-----------------------------------------------------------------------------
(* Time, crashes and the API. *)

BackoffElapses(m) ==
    /\ jobs[m].status = "pending"
    /\ ~jobs[m].due
    /\ SetJob(m, PendingJob(jobs[m].attempts, TRUE))
    /\ UNCHANGED <<initiated, terminal, workers, relays, chainVars, retrying, boundVars>>

\* The claim's holder has crashed, or its timeout has passed.
ClaimGrowsStale(m) ==
    /\ jobs[m].status = "running"
    /\ ~jobs[m].stale
    /\ \A w \in Workers : workers[w].pc = "relay" => Awaited(w) # <<m, jobs[m].attempts>>
    /\ SetJob(m, [status |-> "running", attempts |-> jobs[m].attempts,
                  due |-> jobs[m].due, stale |-> TRUE])
    /\ UNCHANGED <<initiated, terminal, workers, relays, chainVars, retrying, boundVars>>

Crash(w) ==
    /\ crashes < MaxCrashes
    /\ crashes' = crashes + 1
    /\ workers[w].pc # "idle"
    /\ Die(w)
    /\ UNCHANGED <<dbVars, chainVars, retrying, manual>>

\* retryRelayJob reads the job and refuses a running one ...
ReadForRetry(m) ==
    /\ manual < MaxManual
    /\ manual' = manual + 1
    /\ m \notin retrying
    /\ jobs[m].status \notin {"absent", "running"}
    /\ retrying' = retrying \cup {m}
    /\ UNCHANGED <<dbVars, workers, relays, chainVars, crashes>>

\* ... and later updates it, whatever it has become; attemptCount stays.
WriteRetry(m) ==
    /\ m \in retrying
    /\ SetJob(m, PendingJob(jobs[m].attempts, TRUE))
    /\ retrying' = retrying \ {m}
    /\ UNCHANGED <<initiated, terminal, workers, relays, chainVars, boundVars>>

-----------------------------------------------------------------------------
SeedStep(w) ==
    \E m \in Messages :
        SkipRow(w, m) \/ FindNoJob(w, m) \/ InsertJob(w, m) \/ InsertConflict(w, m)

WorkerStep(w) ==
    \/ RecoverStaleRunningJobs(w)
    \/ Scan(w)
    \/ SeedStep(w)
    \/ EndSeeding(w)
    \/ \E m \in Messages : Claim(w, m)
    \/ EndTick(w)
    \/ RelayReturns(w)
    \/ RelayTimesOut(w)
    \/ Mark(w)

RelayStep(c) ==
    RelayThrows(c) \/ SendTransaction(c) \/ MineSuccessfully(c) \/ MineReverted(c)

TimeStep(m) == BackoffElapses(m) \/ ClaimGrowsStale(m)

OutsideStep(m) ==
    \/ IndexInitiated(m)
    \/ IndexTerminal(m)
    \/ DeliveredByHand(m)
    \/ ReadForRetry(m)
    \/ WriteRetry(m)

RelayNext ==
    \/ \E w \in Workers : WorkerStep(w) \/ Crash(w)
    \/ \E c \in Claims : RelayStep(c)
    \/ \E m \in Messages : TimeStep(m) \/ OutsideStep(m)

RelaySpec == RelayInit /\ [][RelayNext]_relayVars

\* The loop of runRelayWorkerLoop never ends, time passes, and the container is
\* restarted; no transaction need ever be mined and no event indexed.
RelayFairSpec ==
    /\ RelaySpec
    /\ \A w \in Workers : WF_relayVars(WorkerStep(w))
    /\ \A m \in Messages : WF_relayVars(TimeStep(m))

-----------------------------------------------------------------------------
(* Properties. *)

\* The variables have their types; in particular a tick claims no more jobs than
\* its batch (runRelayWorkerOnce).
RelayTypeOK ==
    /\ jobs \in [Messages -> Job]
    /\ workers \in [Workers -> Worker]
    /\ relays \in [Claims -> Relay]
    /\ routerStatus \in [Messages -> {"None", "Delivered", "Failed"}]
    /\ deliveries \in [Messages -> Nat]
    /\ initiated \subseteq Messages
    /\ terminal \subseteq Messages
    /\ retrying \subseteq Messages
    /\ crashes \in 0..MaxCrashes /\ manual \in 0..MaxManual

\* However many relays of a message are retried, run beside each other, time out
\* or outlive their process, the router delivers it once
\* (deliverExternalMessage's status check).
NoDuplicateDelivery == \A m \in Messages : deliveries[m] <= 1

\* A job is marked success only if some transaction reached the router and it
\* recorded an outcome, also after late marks and retries (runRelayWorkerOnce).
SuccessOnChain ==
    \A m \in Messages : jobs[m].status = "success" => routerStatus[m] # "None"

\* A job is dead-lettered only when its attempts are used up or its chains are
\* not supported, whichever worker's outdated copy decided it (markJobFailure).
DeadNeedsAttempts ==
    \A m \in Messages :
        jobs[m].status = "dead" => jobs[m].attempts >= MaxAttempts \/ m \notin Supported

\* Two workers never hold the same claim of a job, so each relay has one owner
\* even after a recovery took a claim away (claimNextRunnableJob).
ClaimsExclusive ==
    \A v, w \in Workers :
        v # w /\ workers[v].pc \in {"relay", "mark"} /\ workers[w].pc \in {"relay", "mark"}
        => Awaited(v) # Awaited(w)

\* Every job ends as success or dead, through timeouts, backoffs, crashes and
\* recoveries (runRelayWorkerLoop).
JobsSettle ==
    \A m \in Messages :
        jobs[m].status # "absent" ~> jobs[m].status \in {"success", "dead"}

\* Each message whose start was indexed gets a job, unless its end is indexed
\* first (seedPendingJobsFromDb).
SeedsAll ==
    \A m \in Mapped :
        m \in initiated ~> (jobs[m].status # "absent" \/ m \in terminal)
=============================================================================
