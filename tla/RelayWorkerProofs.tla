-------------------------- MODULE RelayWorkerProofs --------------------------
(***************************************************************************)
(* Proofs about the relay worker, for any messages, workers, limits and    *)
(* bounds.  Each part of the inductive invariant is preserved on its own,  *)
(* from the types and the parts it rests on:                               *)
(*   - a worker's claim is at most the job's attempt count, so a new claim *)
(*     has a number nobody holds;                                          *)
(*   - a result travels from the router's status through the relay and the *)
(*     worker's memory to the job, and the router never forgets one.       *)
(***************************************************************************)
EXTENDS RelayWorker, TLAPS

Busy(w) == workers[w].pc \in {"relay", "mark"}

\* A job that does not exist has no attempts.
AbsentUnclaimed ==
    \A m \in Messages : jobs[m].status = "absent" => jobs[m].attempts = 0

\* A worker relays and marks a claim its job has counted.
ClaimsCounted ==
    \A w \in Workers : Busy(w) =>
        /\ workers[w].message \in Messages
        /\ workers[w].attempt \in 1..MaxClaims
        /\ workers[w].attempt <= jobs[workers[w].message].attempts

\* A relay and a worker that report success have seen the router's outcome.
RelaysOnChain ==
    \A c \in Claims : relays[c].stage = "ok" => routerStatus[c[1]] # "None"

ResultsOnChain ==
    \A w \in Workers :
        workers[w].result = "ok" =>
            workers[w].message \in Messages /\ routerStatus[workers[w].message] # "None"

\* Only a claim of an unsupported message is marked so.
VerdictsRight ==
    \A w \in Workers : workers[w].result = "unsupported" => workers[w].message \notin Supported

\* A delivered message's router status says so.
DeliveriesRecorded ==
    \A m \in Messages :
        deliveries[m] = 0 \/ (deliveries[m] = 1 /\ routerStatus[m] = "Delivered")

RelayInv ==
    /\ RelayTypeOK
    /\ AbsentUnclaimed /\ ClaimsCounted /\ ClaimsExclusive
    /\ RelaysOnChain /\ ResultsOnChain /\ SuccessOnChain
    /\ VerdictsRight /\ DeadNeedsAttempts
    /\ DeliveriesRecorded

-----------------------------------------------------------------------------
\* Types: a step keeps every variable in its type.
LEMMA RelayTypeStep ==
  ASSUME RelayTypeOK, ClaimsCounted, [RelayNext]_relayVars
  PROVE  RelayTypeOK'
  <1>0. RelayTypeOK /\ ClaimsCounted /\ [RelayNext]_relayVars
    OBVIOUS
  <1>1. ASSUME NEW w \in Workers, RecoverStaleRunningJobs(w) PROVE RelayTypeOK'
    BY <1>0, LimitsAssumption, <1>1 DEF RecoverStaleRunningJobs, Recovered,
       PendingJob, SetWorker, AtPhase, dbVars, chainVars, boundVars, RelayTypeOK,
       Job, JobStatus, Worker, Phase, Relay, RelayStage
  <1>2. ASSUME NEW w \in Workers, Scan(w) PROVE RelayTypeOK'
    BY <1>0, LimitsAssumption, <1>2 DEF Scan, SetWorker, AtPhase, ScanWindow,
       Unresolved, dbVars, chainVars, boundVars, RelayTypeOK, Job, JobStatus,
       Worker, Phase, Relay, RelayStage
  <1>3. ASSUME NEW w \in Workers, EndSeeding(w) PROVE RelayTypeOK'
    BY <1>0, LimitsAssumption, <1>3 DEF EndSeeding, SetWorker, AtPhase, dbVars,
       chainVars, boundVars, RelayTypeOK, Job, JobStatus, Worker, Phase, Relay,
       RelayStage
  <1>4. ASSUME NEW w \in Workers, EndTick(w) PROVE RelayTypeOK'
    BY <1>0, LimitsAssumption, <1>4 DEF EndTick, SetWorker, IdleWorker, AtPhase,
       dbVars, chainVars, boundVars, RelayTypeOK, Job, JobStatus, Worker, Phase,
       Relay, RelayStage
  <1>5. ASSUME NEW w \in Workers, RelayReturns(w) PROVE RelayTypeOK'
    BY <1>0, LimitsAssumption, <1>5 DEF RelayReturns, ToMark, ResultOf, SetWorker,
       dbVars, chainVars, boundVars, RelayTypeOK, Job, JobStatus, Worker, Phase,
       Relay, RelayStage
  <1>6. ASSUME NEW w \in Workers, RelayTimesOut(w) PROVE RelayTypeOK'
    BY <1>0, LimitsAssumption, <1>6 DEF RelayTimesOut, ToMark, SetWorker, dbVars,
       chainVars, boundVars, RelayTypeOK, Job, JobStatus, Worker, Phase, Relay,
       RelayStage
  <1>7. ASSUME NEW w \in Workers, Mark(w) PROVE RelayTypeOK'
    <2> DEFINE m == workers[w].message
    <2>1. m \in Messages /\ jobs[m] \in Job
      BY <1>0, <1>7 DEF Mark, ClaimsCounted, Busy, RelayTypeOK
    <2>2. PICK job \in Job : jobs' = [jobs EXCEPT ![m] = job]
      BY <2>1, <1>7 DEF Mark, SetJob, EndedJob, PendingJob, Job, JobStatus
    <2>3. jobs' \in [Messages -> Job]
      BY <1>0, <2>1, <2>2 DEF RelayTypeOK
    <2>4. workers' \in [Workers -> Worker]
      <3>1. workers[w].left \in 0..BatchSize
        BY <1>0 DEF RelayTypeOK, Worker
      <3>2. AtPhase("claim", {}, workers[w].left) \in Worker
        BY <3>1, LimitsAssumption DEF AtPhase, Worker, Phase
      <3>3. QED
        BY <1>0, <1>7, <3>2 DEF Mark, SetWorker, RelayTypeOK
    <2>5. QED
      BY <1>0, <1>7, <2>3, <2>4 DEF Mark, RelayTypeOK, chainVars, boundVars
  <1>8. ASSUME NEW w \in Workers, Crash(w) PROVE RelayTypeOK'
    BY <1>0, LimitsAssumption, <1>8 DEF Crash, Die, SetWorker, IdleWorker,
       AtPhase, dbVars, chainVars, boundVars, RelayTypeOK, Job, JobStatus, Worker,
       Phase, Relay, RelayStage
  <1>9. ASSUME NEW w \in Workers, NEW m \in Messages, InsertJob(w, m) PROVE
     RelayTypeOK'
    BY <1>0, LimitsAssumption, <1>9 DEF InsertJob, SetWorker, SetJob, AtPhase,
       PendingJob, dbVars, chainVars, boundVars, RelayTypeOK, Job, JobStatus,
       Worker, Phase, Relay, RelayStage
  <1>10. ASSUME NEW w \in Workers, NEW m \in Messages, InsertConflict(w, m) PROVE
     RelayTypeOK'
    BY <1>0, LimitsAssumption, <1>10 DEF InsertConflict, Die, SetWorker,
       IdleWorker, AtPhase, dbVars, chainVars, boundVars, RelayTypeOK, Job,
       JobStatus, Worker, Phase, Relay, RelayStage
  <1>11. ASSUME NEW w \in Workers, NEW m \in Messages, Claim(w, m) PROVE
     RelayTypeOK'
    BY <1>0, LimitsAssumption, <1>11 DEF Claim, Room, Runnable, SetJob, SetWorker,
       Claims, dbVars, chainVars, boundVars, RelayTypeOK, Job, JobStatus, Worker,
       Phase, Relay, RelayStage
  <1>12. ASSUME NEW c \in Claims, RelayThrows(c) PROVE RelayTypeOK'
    BY <1>0, LimitsAssumption, <1>12 DEF RelayThrows, SetStage, dbVars, chainVars,
       boundVars, RelayTypeOK, Job, JobStatus, Worker, Phase, Relay, RelayStage
  <1>13. ASSUME NEW c \in Claims, SendTransaction(c) PROVE RelayTypeOK'
    BY <1>0, LimitsAssumption, <1>13 DEF SendTransaction, SetStage, dbVars,
       chainVars, boundVars, RelayTypeOK, Job, JobStatus, Worker, Phase, Relay,
       RelayStage
  <1>14. ASSUME NEW c \in Claims, MineSuccessfully(c) PROVE RelayTypeOK'
    BY <1>0, LimitsAssumption, <1>14 DEF MineSuccessfully, SetStage, Deliver,
       Deliverable, dbVars, chainVars, boundVars, RelayTypeOK, Job, JobStatus,
       Worker, Phase, Relay, RelayStage
  <1>15. ASSUME NEW c \in Claims, MineReverted(c) PROVE RelayTypeOK'
    BY <1>0, LimitsAssumption, <1>15 DEF MineReverted, SetStage, dbVars,
       chainVars, boundVars, RelayTypeOK, Job, JobStatus, Worker, Phase, Relay,
       RelayStage
  <1>16. ASSUME NEW m \in Messages, BackoffElapses(m) PROVE RelayTypeOK'
    BY <1>0, LimitsAssumption, <1>16 DEF BackoffElapses, SetJob, PendingJob,
       dbVars, chainVars, boundVars, RelayTypeOK, Job, JobStatus, Worker, Phase,
       Relay, RelayStage
  <1>17. ASSUME NEW m \in Messages, ClaimGrowsStale(m) PROVE RelayTypeOK'
    BY <1>0, LimitsAssumption, <1>17 DEF ClaimGrowsStale, SetJob, dbVars,
       chainVars, boundVars, RelayTypeOK, Job, JobStatus, Worker, Phase, Relay,
       RelayStage
  <1>18. ASSUME NEW m \in Messages, DeliveredByHand(m) PROVE RelayTypeOK'
    BY <1>0, LimitsAssumption, <1>18 DEF DeliveredByHand, Deliver, Deliverable,
       dbVars, chainVars, boundVars, RelayTypeOK, Job, JobStatus, Worker, Phase,
       Relay, RelayStage
  <1>19. ASSUME NEW m \in Messages, WriteRetry(m) PROVE RelayTypeOK'
    BY <1>0, LimitsAssumption, <1>19 DEF WriteRetry, SetJob, PendingJob, dbVars,
       chainVars, boundVars, RelayTypeOK, Job, JobStatus, Worker, Phase, Relay,
       RelayStage
  <1>20. ASSUME NEW w \in Workers, NEW m \in Messages, SkipRow(w, m) \/
     FindNoJob(w, m) PROVE RelayTypeOK'
    BY <1>0, LimitsAssumption, <1>20 DEF SkipRow, FindNoJob, SetWorker, AtPhase,
       RestAfter, dbVars, chainVars, boundVars, RelayTypeOK, Job, JobStatus,
       Worker, Phase, Relay, RelayStage
  <1>21. ASSUME NEW m \in Messages, IndexInitiated(m) \/ IndexTerminal(m) \/
     ReadForRetry(m) PROVE RelayTypeOK'
    BY <1>0, LimitsAssumption, <1>21 DEF IndexInitiated, IndexTerminal,
       ReadForRetry, dbVars, chainVars, boundVars, RelayTypeOK, Job, JobStatus,
       Worker, Phase, Relay, RelayStage
  <1>22. CASE UNCHANGED relayVars
    BY <1>0, LimitsAssumption, <1>22 DEF relayVars, RelayTypeOK, Job, JobStatus,
       Worker, Phase, Relay, RelayStage
  <1>23. QED
    BY <1>0, <1>1, <1>2, <1>3, <1>4, <1>5, <1>6, <1>7, <1>8, <1>9, <1>10, <1>11,
       <1>12, <1>13, <1>14, <1>15, <1>16, <1>17, <1>18, <1>19, <1>20, <1>21, <1>22
       DEF RelayNext, WorkerStep, SeedStep, RelayStep, TimeStep, OutsideStep

\* An insertion is the only step that changes an absent job.
LEMMA AbsentUnclaimedStep ==
  ASSUME RelayTypeOK, AbsentUnclaimed, [RelayNext]_relayVars
  PROVE  AbsentUnclaimed'
  <1>0. RelayTypeOK /\ AbsentUnclaimed /\ [RelayNext]_relayVars
    OBVIOUS
  <1>1. ASSUME NEW w \in Workers, RecoverStaleRunningJobs(w) PROVE
     AbsentUnclaimed'
    BY <1>0, <1>1 DEF RecoverStaleRunningJobs, Recovered, PendingJob, SetWorker,
       AtPhase, dbVars, chainVars, boundVars, RelayTypeOK, Job, JobStatus, Worker,
       Phase, Relay, RelayStage, AbsentUnclaimed
  <1>2. ASSUME NEW w \in Workers, Mark(w) PROVE AbsentUnclaimed'
    BY <1>0, <1>2 DEF Mark, SetWorker, SetJob, AtPhase, PendingJob, EndedJob,
       GivesUp, Exhausted, dbVars, chainVars, boundVars, RelayTypeOK, Job,
       JobStatus, Worker, Phase, Relay, RelayStage, AbsentUnclaimed
  <1>3. ASSUME NEW w \in Workers, NEW m \in Messages, InsertJob(w, m) PROVE
     AbsentUnclaimed'
    BY <1>0, <1>3 DEF InsertJob, SetWorker, SetJob, AtPhase, PendingJob, dbVars,
       chainVars, boundVars, RelayTypeOK, Job, JobStatus, Worker, Phase, Relay,
       RelayStage, AbsentUnclaimed
  <1>4. ASSUME NEW w \in Workers, NEW m \in Messages, Claim(w, m) PROVE
     AbsentUnclaimed'
    BY <1>0, <1>4 DEF Claim, Room, Runnable, SetJob, SetWorker, Claims, dbVars,
       chainVars, boundVars, RelayTypeOK, Job, JobStatus, Worker, Phase, Relay,
       RelayStage, AbsentUnclaimed
  <1>5. ASSUME NEW m \in Messages, BackoffElapses(m) PROVE AbsentUnclaimed'
    BY <1>0, <1>5 DEF BackoffElapses, SetJob, PendingJob, dbVars, chainVars,
       boundVars, RelayTypeOK, Job, JobStatus, Worker, Phase, Relay, RelayStage,
       AbsentUnclaimed
  <1>6. ASSUME NEW m \in Messages, ClaimGrowsStale(m) PROVE AbsentUnclaimed'
    BY <1>0, <1>6 DEF ClaimGrowsStale, SetJob, dbVars, chainVars, boundVars,
       RelayTypeOK, Job, JobStatus, Worker, Phase, Relay, RelayStage,
       AbsentUnclaimed
  <1>7. ASSUME NEW m \in Messages, WriteRetry(m) PROVE AbsentUnclaimed'
    BY <1>0, <1>7 DEF WriteRetry, SetJob, PendingJob, dbVars, chainVars,
       boundVars, RelayTypeOK, Job, JobStatus, Worker, Phase, Relay, RelayStage,
       AbsentUnclaimed
  <1>8. ASSUME NEW w \in Workers, Scan(w) \/ EndSeeding(w) \/ EndTick(w) \/
     RelayReturns(w) \/ RelayTimesOut(w) \/ Crash(w) PROVE AbsentUnclaimed'
    BY <1>0, <1>8 DEF Scan, EndSeeding, EndTick, RelayReturns, RelayTimesOut,
       Crash, SetWorker, AtPhase, ScanWindow, Unresolved, IdleWorker, ToMark,
       ResultOf, Die, dbVars, chainVars, boundVars, RelayTypeOK, Job, JobStatus,
       Worker, Phase, Relay, RelayStage, AbsentUnclaimed
  <1>9. ASSUME NEW w \in Workers, NEW m \in Messages, SkipRow(w, m) \/
     FindNoJob(w, m) \/ InsertConflict(w, m) PROVE AbsentUnclaimed'
    BY <1>0, <1>9 DEF SkipRow, FindNoJob, InsertConflict, SetWorker, AtPhase,
       RestAfter, Die, IdleWorker, dbVars, chainVars, boundVars, RelayTypeOK, Job,
       JobStatus, Worker, Phase, Relay, RelayStage, AbsentUnclaimed
  <1>10. ASSUME NEW c \in Claims, RelayThrows(c) \/ SendTransaction(c) \/
     MineSuccessfully(c) \/ MineReverted(c) PROVE AbsentUnclaimed'
    BY <1>0, <1>10 DEF RelayThrows, SendTransaction, MineSuccessfully,
       MineReverted, SetStage, Deliver, Deliverable, dbVars, chainVars, boundVars,
       RelayTypeOK, Job, JobStatus, Worker, Phase, Relay, RelayStage,
       AbsentUnclaimed
  <1>11. ASSUME NEW m \in Messages, IndexInitiated(m) \/ IndexTerminal(m) \/
     DeliveredByHand(m) \/ ReadForRetry(m) PROVE AbsentUnclaimed'
    BY <1>0, <1>11 DEF IndexInitiated, IndexTerminal, DeliveredByHand,
       ReadForRetry, Deliver, Deliverable, dbVars, chainVars, boundVars,
       RelayTypeOK, Job, JobStatus, Worker, Phase, Relay, RelayStage,
       AbsentUnclaimed
  <1>12. CASE UNCHANGED relayVars
    BY <1>0, <1>12 DEF relayVars, RelayTypeOK, Job, JobStatus, Worker, Phase,
       Relay, RelayStage, AbsentUnclaimed
  <1>13. QED
    BY <1>0, <1>1, <1>2, <1>3, <1>4, <1>5, <1>6, <1>7, <1>8, <1>9, <1>10, <1>11,
       <1>12 DEF RelayNext, WorkerStep, SeedStep, RelayStep, TimeStep, OutsideStep

\* A claim counts itself, and no step lowers a count.
LEMMA ClaimsCountedStep ==
  ASSUME RelayTypeOK, AbsentUnclaimed, ClaimsCounted, [RelayNext]_relayVars
  PROVE  ClaimsCounted'
  <1>0. RelayTypeOK /\ AbsentUnclaimed /\ ClaimsCounted /\ [RelayNext]_relayVars
    OBVIOUS
  <1>1. ASSUME NEW w \in Workers, RecoverStaleRunningJobs(w) PROVE ClaimsCounted'
    BY <1>0, LimitsAssumption, <1>1 DEF RecoverStaleRunningJobs, Recovered,
       PendingJob, SetWorker, AtPhase, dbVars, chainVars, boundVars, RelayTypeOK,
       Job, JobStatus, Worker, Phase, Relay, RelayStage, AbsentUnclaimed,
       ClaimsCounted, Busy
  <1>2. ASSUME NEW w \in Workers, RelayReturns(w) PROVE ClaimsCounted'
    BY <1>0, LimitsAssumption, <1>2 DEF RelayReturns, ToMark, ResultOf, SetWorker,
       dbVars, chainVars, boundVars, RelayTypeOK, Job, JobStatus, Worker, Phase,
       Relay, RelayStage, AbsentUnclaimed, ClaimsCounted, Busy
  <1>3. ASSUME NEW w \in Workers, RelayTimesOut(w) PROVE ClaimsCounted'
    BY <1>0, LimitsAssumption, <1>3 DEF RelayTimesOut, ToMark, SetWorker, dbVars,
       chainVars, boundVars, RelayTypeOK, Job, JobStatus, Worker, Phase, Relay,
       RelayStage, AbsentUnclaimed, ClaimsCounted, Busy
  <1>4. ASSUME NEW w \in Workers, Mark(w) PROVE ClaimsCounted'
    <2> DEFINE m == workers[w].message
    <2>1. m \in Messages /\ jobs[m] \in Job
      BY <1>0, <1>4 DEF Mark, ClaimsCounted, Busy, RelayTypeOK
    <2>2. jobs'[m].attempts = jobs[m].attempts /\ \A n \in Messages \ {m} : jobs'[n] = jobs[n]
      BY <1>0, <2>1, <1>4 DEF Mark, SetJob, EndedJob, PendingJob, RelayTypeOK
    <2>3. \A n \in Messages : jobs'[n].attempts = jobs[n].attempts
      BY <2>2
    <2>4. workers'[w].pc = "claim" /\ \A v \in Workers \ {w} : workers'[v] = workers[v]
      BY <1>0, <1>4 DEF Mark, SetWorker, AtPhase, RelayTypeOK
    <2>5. QED
      BY <1>0, <2>3, <2>4 DEF ClaimsCounted, Busy
  <1>5. ASSUME NEW w \in Workers, Crash(w) PROVE ClaimsCounted'
    BY <1>0, LimitsAssumption, <1>5 DEF Crash, Die, SetWorker, IdleWorker,
       AtPhase, dbVars, chainVars, boundVars, RelayTypeOK, Job, JobStatus, Worker,
       Phase, Relay, RelayStage, AbsentUnclaimed, ClaimsCounted, Busy
  <1>6. ASSUME NEW w \in Workers, NEW m \in Messages, InsertJob(w, m) PROVE
     ClaimsCounted'
    BY <1>0, LimitsAssumption, <1>6 DEF InsertJob, SetWorker, SetJob, AtPhase,
       PendingJob, dbVars, chainVars, boundVars, RelayTypeOK, Job, JobStatus,
       Worker, Phase, Relay, RelayStage, AbsentUnclaimed, ClaimsCounted, Busy
  <1>7. ASSUME NEW w \in Workers, NEW m \in Messages, InsertConflict(w, m) PROVE
     ClaimsCounted'
    BY <1>0, LimitsAssumption, <1>7 DEF InsertConflict, Die, SetWorker,
       IdleWorker, AtPhase, dbVars, chainVars, boundVars, RelayTypeOK, Job,
       JobStatus, Worker, Phase, Relay, RelayStage, AbsentUnclaimed,
       ClaimsCounted, Busy
  <1>8. ASSUME NEW w \in Workers, NEW m \in Messages, Claim(w, m) PROVE
     ClaimsCounted'
    BY <1>0, LimitsAssumption, <1>8 DEF Claim, Room, Runnable, SetJob, SetWorker,
       Claims, dbVars, chainVars, boundVars, RelayTypeOK, Job, JobStatus, Worker,
       Phase, Relay, RelayStage, AbsentUnclaimed, ClaimsCounted, Busy
  <1>9. ASSUME NEW m \in Messages, BackoffElapses(m) PROVE ClaimsCounted'
    BY <1>0, LimitsAssumption, <1>9 DEF BackoffElapses, SetJob, PendingJob,
       dbVars, chainVars, boundVars, RelayTypeOK, Job, JobStatus, Worker, Phase,
       Relay, RelayStage, AbsentUnclaimed, ClaimsCounted, Busy
  <1>10. ASSUME NEW m \in Messages, ClaimGrowsStale(m) PROVE ClaimsCounted'
    BY <1>0, LimitsAssumption, <1>10 DEF ClaimGrowsStale, SetJob, dbVars,
       chainVars, boundVars, RelayTypeOK, Job, JobStatus, Worker, Phase, Relay,
       RelayStage, AbsentUnclaimed, ClaimsCounted, Busy
  <1>11. ASSUME NEW m \in Messages, WriteRetry(m) PROVE ClaimsCounted'
    BY <1>0, LimitsAssumption, <1>11 DEF WriteRetry, SetJob, PendingJob, dbVars,
       chainVars, boundVars, RelayTypeOK, Job, JobStatus, Worker, Phase, Relay,
       RelayStage, AbsentUnclaimed, ClaimsCounted, Busy
  <1>12. ASSUME NEW w \in Workers, Scan(w) \/ EndSeeding(w) \/ EndTick(w) PROVE
     ClaimsCounted'
    BY <1>0, LimitsAssumption, <1>12, SMTT(30) DEF Scan, EndSeeding, EndTick, SetWorker,
       AtPhase, ScanWindow, Unresolved, IdleWorker, dbVars, chainVars, boundVars,
       RelayTypeOK, Job, JobStatus, Worker, Phase, Relay, RelayStage,
       AbsentUnclaimed, ClaimsCounted, Busy
  <1>13. ASSUME NEW w \in Workers, NEW m \in Messages, SkipRow(w, m) \/
     FindNoJob(w, m) PROVE ClaimsCounted'
    BY <1>0, LimitsAssumption, <1>13 DEF SkipRow, FindNoJob, SetWorker, AtPhase,
       RestAfter, dbVars, chainVars, boundVars, RelayTypeOK, Job, JobStatus,
       Worker, Phase, Relay, RelayStage, AbsentUnclaimed, ClaimsCounted, Busy
  <1>14. ASSUME NEW c \in Claims, RelayThrows(c) \/ SendTransaction(c) \/
     MineSuccessfully(c) \/ MineReverted(c) PROVE ClaimsCounted'
    BY <1>0, LimitsAssumption, <1>14 DEF RelayThrows, SendTransaction,
       MineSuccessfully, MineReverted, SetStage, Deliver, Deliverable, dbVars,
       chainVars, boundVars, RelayTypeOK, Job, JobStatus, Worker, Phase, Relay,
       RelayStage, AbsentUnclaimed, ClaimsCounted, Busy
  <1>15. ASSUME NEW m \in Messages, IndexInitiated(m) \/ IndexTerminal(m) \/
     DeliveredByHand(m) \/ ReadForRetry(m) PROVE ClaimsCounted'
    BY <1>0, LimitsAssumption, <1>15 DEF IndexInitiated, IndexTerminal,
       DeliveredByHand, ReadForRetry, Deliver, Deliverable, dbVars, chainVars,
       boundVars, RelayTypeOK, Job, JobStatus, Worker, Phase, Relay, RelayStage,
       AbsentUnclaimed, ClaimsCounted, Busy
  <1>16. CASE UNCHANGED relayVars
    BY <1>0, LimitsAssumption, <1>16 DEF relayVars, RelayTypeOK, Job, JobStatus,
       Worker, Phase, Relay, RelayStage, AbsentUnclaimed, ClaimsCounted, Busy
  <1>17. QED
    BY <1>0, <1>1, <1>2, <1>3, <1>4, <1>5, <1>6, <1>7, <1>8, <1>9, <1>10, <1>11,
       <1>12, <1>13, <1>14, <1>15, <1>16 DEF RelayNext, WorkerStep, SeedStep,
       RelayStep, TimeStep, OutsideStep

\* A new claim's number is above every claim held.
LEMMA ClaimsExclusiveStep ==
  ASSUME RelayTypeOK, ClaimsCounted, ClaimsExclusive, [RelayNext]_relayVars
  PROVE  ClaimsExclusive'
  <1>0. RelayTypeOK /\ ClaimsCounted /\ ClaimsExclusive /\ [RelayNext]_relayVars
    OBVIOUS
  <1>1. ASSUME NEW w \in Workers, RecoverStaleRunningJobs(w) PROVE
     ClaimsExclusive'
    BY <1>0, <1>1 DEF RecoverStaleRunningJobs, Recovered, PendingJob, SetWorker,
       AtPhase, dbVars, chainVars, boundVars, RelayTypeOK, Job, JobStatus, Worker,
       Phase, Relay, RelayStage, ClaimsCounted, Busy, ClaimsExclusive, Awaited
  <1>2. ASSUME NEW w \in Workers, RelayReturns(w) PROVE ClaimsExclusive'
    BY <1>0, <1>2 DEF RelayReturns, ToMark, ResultOf, SetWorker, dbVars,
       chainVars, boundVars, RelayTypeOK, Job, JobStatus, Worker, Phase, Relay,
       RelayStage, ClaimsCounted, Busy, ClaimsExclusive, Awaited
  <1>3. ASSUME NEW w \in Workers, RelayTimesOut(w) PROVE ClaimsExclusive'
    BY <1>0, <1>3 DEF RelayTimesOut, ToMark, SetWorker, dbVars, chainVars,
       boundVars, RelayTypeOK, Job, JobStatus, Worker, Phase, Relay, RelayStage,
       ClaimsCounted, Busy, ClaimsExclusive, Awaited
  <1>4. ASSUME NEW w \in Workers, Mark(w) PROVE ClaimsExclusive'
    BY <1>0, <1>4 DEF Mark, SetWorker, SetJob, AtPhase, PendingJob, EndedJob,
       GivesUp, Exhausted, dbVars, chainVars, boundVars, RelayTypeOK, Job,
       JobStatus, Worker, Phase, Relay, RelayStage, ClaimsCounted, Busy,
       ClaimsExclusive, Awaited
  <1>5. ASSUME NEW w \in Workers, Crash(w) PROVE ClaimsExclusive'
    BY <1>0, <1>5 DEF Crash, Die, SetWorker, IdleWorker, AtPhase, dbVars,
       chainVars, boundVars, RelayTypeOK, Job, JobStatus, Worker, Phase, Relay,
       RelayStage, ClaimsCounted, Busy, ClaimsExclusive, Awaited
  <1>6. ASSUME NEW w \in Workers, NEW m \in Messages, InsertJob(w, m) PROVE
     ClaimsExclusive'
    BY <1>0, <1>6 DEF InsertJob, SetWorker, SetJob, AtPhase, PendingJob, dbVars,
       chainVars, boundVars, RelayTypeOK, Job, JobStatus, Worker, Phase, Relay,
       RelayStage, ClaimsCounted, Busy, ClaimsExclusive, Awaited
  <1>7. ASSUME NEW w \in Workers, NEW m \in Messages, InsertConflict(w, m) PROVE
     ClaimsExclusive'
    BY <1>0, <1>7 DEF InsertConflict, Die, SetWorker, IdleWorker, AtPhase, dbVars,
       chainVars, boundVars, RelayTypeOK, Job, JobStatus, Worker, Phase, Relay,
       RelayStage, ClaimsCounted, Busy, ClaimsExclusive, Awaited
  <1>8. ASSUME NEW w \in Workers, NEW m \in Messages, Claim(w, m) PROVE
     ClaimsExclusive'
    BY <1>0, <1>8 DEF Claim, Room, Runnable, SetJob, SetWorker, Claims, dbVars,
       chainVars, boundVars, RelayTypeOK, Job, JobStatus, Worker, Phase, Relay,
       RelayStage, ClaimsCounted, Busy, ClaimsExclusive, Awaited
  <1>9. ASSUME NEW w \in Workers, Scan(w) \/ EndSeeding(w) \/ EndTick(w) PROVE
     ClaimsExclusive'
    BY <1>0, <1>9 DEF Scan, EndSeeding, EndTick, SetWorker, AtPhase, ScanWindow,
       Unresolved, IdleWorker, dbVars, chainVars, boundVars, RelayTypeOK, Job,
       JobStatus, Worker, Phase, Relay, RelayStage, ClaimsCounted, Busy,
       ClaimsExclusive, Awaited
  <1>10. ASSUME NEW w \in Workers, NEW m \in Messages, SkipRow(w, m) \/
     FindNoJob(w, m) PROVE ClaimsExclusive'
    BY <1>0, <1>10 DEF SkipRow, FindNoJob, SetWorker, AtPhase, RestAfter, dbVars,
       chainVars, boundVars, RelayTypeOK, Job, JobStatus, Worker, Phase, Relay,
       RelayStage, ClaimsCounted, Busy, ClaimsExclusive, Awaited
  <1>11. ASSUME NEW c \in Claims, RelayThrows(c) \/ SendTransaction(c) \/
     MineSuccessfully(c) \/ MineReverted(c) PROVE ClaimsExclusive'
    BY <1>0, <1>11 DEF RelayThrows, SendTransaction, MineSuccessfully,
       MineReverted, SetStage, Deliver, Deliverable, dbVars, chainVars, boundVars,
       RelayTypeOK, Job, JobStatus, Worker, Phase, Relay, RelayStage,
       ClaimsCounted, Busy, ClaimsExclusive, Awaited
  <1>12. ASSUME NEW m \in Messages, BackoffElapses(m) \/ ClaimGrowsStale(m) \/
     IndexInitiated(m) \/ IndexTerminal(m) \/ DeliveredByHand(m) \/
     ReadForRetry(m) \/ WriteRetry(m) PROVE ClaimsExclusive'
    BY <1>0, <1>12 DEF BackoffElapses, ClaimGrowsStale, IndexInitiated,
       IndexTerminal, DeliveredByHand, ReadForRetry, WriteRetry, SetJob,
       PendingJob, Deliver, Deliverable, dbVars, chainVars, boundVars,
       RelayTypeOK, Job, JobStatus, Worker, Phase, Relay, RelayStage,
       ClaimsCounted, Busy, ClaimsExclusive, Awaited
  <1>13. CASE UNCHANGED relayVars
    BY <1>0, <1>13 DEF relayVars, RelayTypeOK, Job, JobStatus, Worker, Phase,
       Relay, RelayStage, ClaimsCounted, Busy, ClaimsExclusive, Awaited
  <1>14. QED
    BY <1>0, <1>1, <1>2, <1>3, <1>4, <1>5, <1>6, <1>7, <1>8, <1>9, <1>10, <1>11,
       <1>12, <1>13 DEF RelayNext, WorkerStep, SeedStep, RelayStep, TimeStep,
       OutsideStep

\* The router never forgets an outcome a relay has seen.
LEMMA RelaysOnChainStep ==
  ASSUME RelayTypeOK, RelaysOnChain, [RelayNext]_relayVars
  PROVE  RelaysOnChain'
  <1>0. RelayTypeOK /\ RelaysOnChain /\ [RelayNext]_relayVars
    OBVIOUS
  <1>1. ASSUME NEW w \in Workers, Crash(w) PROVE RelaysOnChain'
    BY <1>0, <1>1 DEF Crash, Die, SetWorker, IdleWorker, AtPhase, dbVars,
       chainVars, boundVars, RelayTypeOK, Job, JobStatus, Worker, Phase, Relay,
       RelayStage, RelaysOnChain, Claims
  <1>2. ASSUME NEW w \in Workers, NEW m \in Messages, InsertConflict(w, m) PROVE
     RelaysOnChain'
    BY <1>0, <1>2 DEF InsertConflict, Die, SetWorker, IdleWorker, AtPhase, dbVars,
       chainVars, boundVars, RelayTypeOK, Job, JobStatus, Worker, Phase, Relay,
       RelayStage, RelaysOnChain, Claims
  <1>3. ASSUME NEW w \in Workers, NEW m \in Messages, Claim(w, m) PROVE
     RelaysOnChain'
    BY <1>0, <1>3 DEF Claim, Room, Runnable, SetJob, SetWorker, Claims, dbVars,
       chainVars, boundVars, RelayTypeOK, Job, JobStatus, Worker, Phase, Relay,
       RelayStage, RelaysOnChain
  <1>4. ASSUME NEW c \in Claims, RelayThrows(c) PROVE RelaysOnChain'
    BY <1>0, <1>4 DEF RelayThrows, SetStage, dbVars, chainVars, boundVars,
       RelayTypeOK, Job, JobStatus, Worker, Phase, Relay, RelayStage,
       RelaysOnChain, Claims
  <1>5. ASSUME NEW c \in Claims, SendTransaction(c) PROVE RelaysOnChain'
    BY <1>0, <1>5 DEF SendTransaction, SetStage, dbVars, chainVars, boundVars,
       RelayTypeOK, Job, JobStatus, Worker, Phase, Relay, RelayStage,
       RelaysOnChain, Claims
  <1>6. ASSUME NEW c \in Claims, MineSuccessfully(c) PROVE RelaysOnChain'
    BY <1>0, <1>6 DEF MineSuccessfully, SetStage, Deliver, Deliverable, dbVars,
       chainVars, boundVars, RelayTypeOK, Job, JobStatus, Worker, Phase, Relay,
       RelayStage, RelaysOnChain, Claims
  <1>7. ASSUME NEW c \in Claims, MineReverted(c) PROVE RelaysOnChain'
    BY <1>0, <1>7 DEF MineReverted, SetStage, dbVars, chainVars, boundVars,
       RelayTypeOK, Job, JobStatus, Worker, Phase, Relay, RelayStage,
       RelaysOnChain, Claims
  <1>8. ASSUME NEW m \in Messages, DeliveredByHand(m) PROVE RelaysOnChain'
    BY <1>0, <1>8 DEF DeliveredByHand, Deliver, Deliverable, dbVars, chainVars,
       boundVars, RelayTypeOK, Job, JobStatus, Worker, Phase, Relay, RelayStage,
       RelaysOnChain, Claims
  <1>9. ASSUME NEW w \in Workers, RecoverStaleRunningJobs(w) \/ Scan(w) \/
     EndSeeding(w) \/ EndTick(w) \/ RelayReturns(w) \/ RelayTimesOut(w) \/ Mark(w)
     PROVE RelaysOnChain'
    BY <1>0, <1>9 DEF RecoverStaleRunningJobs, Scan, EndSeeding, EndTick,
       RelayReturns, RelayTimesOut, Mark, Recovered, PendingJob, SetWorker,
       AtPhase, ScanWindow, Unresolved, IdleWorker, ToMark, ResultOf, SetJob,
       EndedJob, GivesUp, Exhausted, dbVars, chainVars, boundVars, RelayTypeOK,
       Job, JobStatus, Worker, Phase, Relay, RelayStage, RelaysOnChain, Claims
  <1>10. ASSUME NEW w \in Workers, NEW m \in Messages, SkipRow(w, m) \/
     FindNoJob(w, m) \/ InsertJob(w, m) PROVE RelaysOnChain'
    BY <1>0, <1>10 DEF SkipRow, FindNoJob, InsertJob, SetWorker, AtPhase,
       RestAfter, SetJob, PendingJob, dbVars, chainVars, boundVars, RelayTypeOK,
       Job, JobStatus, Worker, Phase, Relay, RelayStage, RelaysOnChain, Claims
  <1>11. ASSUME NEW m \in Messages, IndexInitiated(m) \/ IndexTerminal(m) \/
     ReadForRetry(m) \/ BackoffElapses(m) \/ ClaimGrowsStale(m) \/ WriteRetry(m)
     PROVE RelaysOnChain'
    BY <1>0, <1>11 DEF IndexInitiated, IndexTerminal, ReadForRetry,
       BackoffElapses, ClaimGrowsStale, WriteRetry, SetJob, PendingJob, dbVars,
       chainVars, boundVars, RelayTypeOK, Job, JobStatus, Worker, Phase, Relay,
       RelayStage, RelaysOnChain, Claims
  <1>12. CASE UNCHANGED relayVars
    BY <1>0, <1>12 DEF relayVars, RelayTypeOK, Job, JobStatus, Worker, Phase,
       Relay, RelayStage, RelaysOnChain, Claims
  <1>13. QED
    BY <1>0, <1>1, <1>2, <1>3, <1>4, <1>5, <1>6, <1>7, <1>8, <1>9, <1>10, <1>11,
       <1>12 DEF RelayNext, WorkerStep, SeedStep, RelayStep, TimeStep, OutsideStep

\* A worker's result is that of the relay it waited for.
LEMMA ResultsOnChainStep ==
  ASSUME RelayTypeOK, ClaimsCounted, RelaysOnChain, ResultsOnChain,
     [RelayNext]_relayVars
  PROVE  ResultsOnChain'
  <1>0. RelayTypeOK /\ ClaimsCounted /\ RelaysOnChain /\ ResultsOnChain /\
     [RelayNext]_relayVars
    OBVIOUS
  <1>1. ASSUME NEW w \in Workers, RelayReturns(w) PROVE ResultsOnChain'
    BY <1>0, <1>1 DEF RelayReturns, ToMark, ResultOf, SetWorker, dbVars,
       chainVars, boundVars, RelayTypeOK, Job, JobStatus, Worker, Phase, Relay,
       RelayStage, ResultsOnChain, RelaysOnChain, ClaimsCounted, Busy, Awaited,
       Claims
  <1>2. ASSUME NEW w \in Workers, RelayTimesOut(w) PROVE ResultsOnChain'
    BY <1>0, <1>2 DEF RelayTimesOut, ToMark, SetWorker, dbVars, chainVars,
       boundVars, RelayTypeOK, Job, JobStatus, Worker, Phase, Relay, RelayStage,
       ResultsOnChain, RelaysOnChain, ClaimsCounted, Busy, Awaited, Claims
  <1>3. ASSUME NEW w \in Workers, Mark(w) PROVE ResultsOnChain'
    BY <1>0, <1>3 DEF Mark, SetWorker, SetJob, AtPhase, PendingJob, EndedJob,
       GivesUp, Exhausted, dbVars, chainVars, boundVars, RelayTypeOK, Job,
       JobStatus, Worker, Phase, Relay, RelayStage, ResultsOnChain, RelaysOnChain,
       ClaimsCounted, Busy, Awaited, Claims
  <1>4. ASSUME NEW w \in Workers, Crash(w) PROVE ResultsOnChain'
    BY <1>0, <1>4 DEF Crash, Die, SetWorker, IdleWorker, AtPhase, dbVars,
       chainVars, boundVars, RelayTypeOK, Job, JobStatus, Worker, Phase, Relay,
       RelayStage, ResultsOnChain, RelaysOnChain, ClaimsCounted, Busy, Awaited,
       Claims
  <1>5. ASSUME NEW w \in Workers, NEW m \in Messages, InsertConflict(w, m) PROVE
     ResultsOnChain'
    BY <1>0, <1>5 DEF InsertConflict, Die, SetWorker, IdleWorker, AtPhase, dbVars,
       chainVars, boundVars, RelayTypeOK, Job, JobStatus, Worker, Phase, Relay,
       RelayStage, ResultsOnChain, RelaysOnChain, ClaimsCounted, Busy, Awaited,
       Claims
  <1>6. ASSUME NEW w \in Workers, NEW m \in Messages, Claim(w, m) PROVE
     ResultsOnChain'
    BY <1>0, <1>6 DEF Claim, Room, Runnable, SetJob, SetWorker, Claims, dbVars,
       chainVars, boundVars, RelayTypeOK, Job, JobStatus, Worker, Phase, Relay,
       RelayStage, ResultsOnChain, RelaysOnChain, ClaimsCounted, Busy, Awaited
  <1>7. ASSUME NEW c \in Claims, MineSuccessfully(c) PROVE ResultsOnChain'
    BY <1>0, <1>7 DEF MineSuccessfully, SetStage, Deliver, Deliverable, dbVars,
       chainVars, boundVars, RelayTypeOK, Job, JobStatus, Worker, Phase, Relay,
       RelayStage, ResultsOnChain, RelaysOnChain, ClaimsCounted, Busy, Awaited,
       Claims
  <1>8. ASSUME NEW m \in Messages, DeliveredByHand(m) PROVE ResultsOnChain'
    BY <1>0, <1>8 DEF DeliveredByHand, Deliver, Deliverable, dbVars, chainVars,
       boundVars, RelayTypeOK, Job, JobStatus, Worker, Phase, Relay, RelayStage,
       ResultsOnChain, RelaysOnChain, ClaimsCounted, Busy, Awaited, Claims
  <1>9. ASSUME NEW w \in Workers, Scan(w) \/ EndSeeding(w) \/ EndTick(w) \/
     RecoverStaleRunningJobs(w) PROVE ResultsOnChain'
    BY <1>0, <1>9 DEF Scan, EndSeeding, EndTick, RecoverStaleRunningJobs,
       SetWorker, AtPhase, ScanWindow, Unresolved, IdleWorker, Recovered,
       PendingJob, dbVars, chainVars, boundVars, RelayTypeOK, Job, JobStatus,
       Worker, Phase, Relay, RelayStage, ResultsOnChain, RelaysOnChain,
       ClaimsCounted, Busy, Awaited, Claims
  <1>10. ASSUME NEW w \in Workers, NEW m \in Messages, SkipRow(w, m) \/
     FindNoJob(w, m) \/ InsertJob(w, m) PROVE ResultsOnChain'
    BY <1>0, <1>10, SMTT(30) DEF SkipRow, FindNoJob, InsertJob, SetWorker, AtPhase,
       RestAfter, SetJob, PendingJob, dbVars, chainVars, boundVars, RelayTypeOK,
       Job, JobStatus, Worker, Phase, Relay, RelayStage, ResultsOnChain,
       RelaysOnChain, ClaimsCounted, Busy, Awaited, Claims
  <1>11. ASSUME NEW c \in Claims, RelayThrows(c) \/ SendTransaction(c) \/
     MineReverted(c) PROVE ResultsOnChain'
    BY <1>0, <1>11 DEF RelayThrows, SendTransaction, MineReverted, SetStage,
       dbVars, chainVars, boundVars, RelayTypeOK, Job, JobStatus, Worker, Phase,
       Relay, RelayStage, ResultsOnChain, RelaysOnChain, ClaimsCounted, Busy,
       Awaited, Claims
  <1>12. ASSUME NEW m \in Messages, IndexInitiated(m) \/ IndexTerminal(m) \/
     ReadForRetry(m) \/ BackoffElapses(m) \/ ClaimGrowsStale(m) \/ WriteRetry(m)
     PROVE ResultsOnChain'
    BY <1>0, <1>12 DEF IndexInitiated, IndexTerminal, ReadForRetry,
       BackoffElapses, ClaimGrowsStale, WriteRetry, SetJob, PendingJob, dbVars,
       chainVars, boundVars, RelayTypeOK, Job, JobStatus, Worker, Phase, Relay,
       RelayStage, ResultsOnChain, RelaysOnChain, ClaimsCounted, Busy, Awaited,
       Claims
  <1>13. CASE UNCHANGED relayVars
    BY <1>0, <1>13 DEF relayVars, RelayTypeOK, Job, JobStatus, Worker, Phase,
       Relay, RelayStage, ResultsOnChain, RelaysOnChain, ClaimsCounted, Busy,
       Awaited, Claims
  <1>14. QED
    BY <1>0, <1>1, <1>2, <1>3, <1>4, <1>5, <1>6, <1>7, <1>8, <1>9, <1>10, <1>11,
       <1>12, <1>13 DEF RelayNext, WorkerStep, SeedStep, RelayStep, TimeStep,
       OutsideStep

\* Only the mark of a good result makes a job successful.
LEMMA SuccessOnChainStep ==
  ASSUME RelayTypeOK, ResultsOnChain, SuccessOnChain, [RelayNext]_relayVars
  PROVE  SuccessOnChain'
  <1>0. RelayTypeOK /\ ResultsOnChain /\ SuccessOnChain /\ [RelayNext]_relayVars
    OBVIOUS
  <1>1. ASSUME NEW w \in Workers, RecoverStaleRunningJobs(w) PROVE SuccessOnChain'
    BY <1>0, <1>1 DEF RecoverStaleRunningJobs, Recovered, PendingJob, SetWorker,
       AtPhase, dbVars, chainVars, boundVars, RelayTypeOK, Job, JobStatus, Worker,
       Phase, Relay, RelayStage, ResultsOnChain, SuccessOnChain
  <1>2. ASSUME NEW w \in Workers, Mark(w) PROVE SuccessOnChain'
    BY <1>0, <1>2 DEF Mark, SetWorker, SetJob, AtPhase, PendingJob, EndedJob,
       GivesUp, Exhausted, dbVars, chainVars, boundVars, RelayTypeOK, Job,
       JobStatus, Worker, Phase, Relay, RelayStage, ResultsOnChain, SuccessOnChain
  <1>3. ASSUME NEW w \in Workers, NEW m \in Messages, InsertJob(w, m) PROVE
     SuccessOnChain'
    BY <1>0, <1>3 DEF InsertJob, SetWorker, SetJob, AtPhase, PendingJob, dbVars,
       chainVars, boundVars, RelayTypeOK, Job, JobStatus, Worker, Phase, Relay,
       RelayStage, ResultsOnChain, SuccessOnChain
  <1>4. ASSUME NEW w \in Workers, NEW m \in Messages, Claim(w, m) PROVE
     SuccessOnChain'
    BY <1>0, <1>4 DEF Claim, Room, Runnable, SetJob, SetWorker, Claims, dbVars,
       chainVars, boundVars, RelayTypeOK, Job, JobStatus, Worker, Phase, Relay,
       RelayStage, ResultsOnChain, SuccessOnChain
  <1>5. ASSUME NEW c \in Claims, MineSuccessfully(c) PROVE SuccessOnChain'
    BY <1>0, <1>5 DEF MineSuccessfully, SetStage, Deliver, Deliverable, dbVars,
       chainVars, boundVars, RelayTypeOK, Job, JobStatus, Worker, Phase, Relay,
       RelayStage, ResultsOnChain, SuccessOnChain
  <1>6. ASSUME NEW m \in Messages, BackoffElapses(m) PROVE SuccessOnChain'
    BY <1>0, <1>6 DEF BackoffElapses, SetJob, PendingJob, dbVars, chainVars,
       boundVars, RelayTypeOK, Job, JobStatus, Worker, Phase, Relay, RelayStage,
       ResultsOnChain, SuccessOnChain
  <1>7. ASSUME NEW m \in Messages, ClaimGrowsStale(m) PROVE SuccessOnChain'
    BY <1>0, <1>7 DEF ClaimGrowsStale, SetJob, dbVars, chainVars, boundVars,
       RelayTypeOK, Job, JobStatus, Worker, Phase, Relay, RelayStage,
       ResultsOnChain, SuccessOnChain
  <1>8. ASSUME NEW m \in Messages, DeliveredByHand(m) PROVE SuccessOnChain'
    BY <1>0, <1>8 DEF DeliveredByHand, Deliver, Deliverable, dbVars, chainVars,
       boundVars, RelayTypeOK, Job, JobStatus, Worker, Phase, Relay, RelayStage,
       ResultsOnChain, SuccessOnChain
  <1>9. ASSUME NEW m \in Messages, WriteRetry(m) PROVE SuccessOnChain'
    BY <1>0, <1>9 DEF WriteRetry, SetJob, PendingJob, dbVars, chainVars,
       boundVars, RelayTypeOK, Job, JobStatus, Worker, Phase, Relay, RelayStage,
       ResultsOnChain, SuccessOnChain
  <1>10. ASSUME NEW w \in Workers, Scan(w) \/ EndSeeding(w) \/ EndTick(w) \/
     RelayReturns(w) \/ RelayTimesOut(w) \/ Crash(w) PROVE SuccessOnChain'
    BY <1>0, <1>10 DEF Scan, EndSeeding, EndTick, RelayReturns, RelayTimesOut,
       Crash, SetWorker, AtPhase, ScanWindow, Unresolved, IdleWorker, ToMark,
       ResultOf, Die, dbVars, chainVars, boundVars, RelayTypeOK, Job, JobStatus,
       Worker, Phase, Relay, RelayStage, ResultsOnChain, SuccessOnChain
  <1>11. ASSUME NEW w \in Workers, NEW m \in Messages, SkipRow(w, m) \/
     FindNoJob(w, m) \/ InsertConflict(w, m) PROVE SuccessOnChain'
    BY <1>0, <1>11 DEF SkipRow, FindNoJob, InsertConflict, SetWorker, AtPhase,
       RestAfter, Die, IdleWorker, dbVars, chainVars, boundVars, RelayTypeOK, Job,
       JobStatus, Worker, Phase, Relay, RelayStage, ResultsOnChain, SuccessOnChain
  <1>12. ASSUME NEW c \in Claims, RelayThrows(c) \/ SendTransaction(c) \/
     MineReverted(c) PROVE SuccessOnChain'
    BY <1>0, <1>12 DEF RelayThrows, SendTransaction, MineReverted, SetStage,
       dbVars, chainVars, boundVars, RelayTypeOK, Job, JobStatus, Worker, Phase,
       Relay, RelayStage, ResultsOnChain, SuccessOnChain
  <1>13. ASSUME NEW m \in Messages, IndexInitiated(m) \/ IndexTerminal(m) \/
     ReadForRetry(m) PROVE SuccessOnChain'
    BY <1>0, <1>13 DEF IndexInitiated, IndexTerminal, ReadForRetry, dbVars,
       chainVars, boundVars, RelayTypeOK, Job, JobStatus, Worker, Phase, Relay,
       RelayStage, ResultsOnChain, SuccessOnChain
  <1>14. CASE UNCHANGED relayVars
    BY <1>0, <1>14 DEF relayVars, RelayTypeOK, Job, JobStatus, Worker, Phase,
       Relay, RelayStage, ResultsOnChain, SuccessOnChain
  <1>15. QED
    BY <1>0, <1>1, <1>2, <1>3, <1>4, <1>5, <1>6, <1>7, <1>8, <1>9, <1>10, <1>11,
       <1>12, <1>13, <1>14 DEF RelayNext, WorkerStep, SeedStep, RelayStep,
       TimeStep, OutsideStep

\* A claim decides whether its message is supported.
LEMMA VerdictsRightStep ==
  ASSUME RelayTypeOK, VerdictsRight, [RelayNext]_relayVars
  PROVE  VerdictsRight'
  <1>0. RelayTypeOK /\ VerdictsRight /\ [RelayNext]_relayVars
    OBVIOUS
  <1>1. ASSUME NEW w \in Workers, RecoverStaleRunningJobs(w) PROVE VerdictsRight'
    BY <1>0, <1>1 DEF RecoverStaleRunningJobs, Recovered, PendingJob, SetWorker,
       AtPhase, dbVars, chainVars, boundVars, RelayTypeOK, Job, JobStatus, Worker,
       Phase, Relay, RelayStage, VerdictsRight
  <1>2. ASSUME NEW w \in Workers, Scan(w) PROVE VerdictsRight'
    BY <1>0, <1>2 DEF Scan, SetWorker, AtPhase, ScanWindow, Unresolved, dbVars,
       chainVars, boundVars, RelayTypeOK, Job, JobStatus, Worker, Phase, Relay,
       RelayStage, VerdictsRight
  <1>3. ASSUME NEW w \in Workers, EndSeeding(w) PROVE VerdictsRight'
    BY <1>0, <1>3 DEF EndSeeding, SetWorker, AtPhase, dbVars, chainVars,
       boundVars, RelayTypeOK, Job, JobStatus, Worker, Phase, Relay, RelayStage,
       VerdictsRight
  <1>4. ASSUME NEW w \in Workers, EndTick(w) PROVE VerdictsRight'
    BY <1>0, <1>4 DEF EndTick, SetWorker, IdleWorker, AtPhase, dbVars, chainVars,
       boundVars, RelayTypeOK, Job, JobStatus, Worker, Phase, Relay, RelayStage,
       VerdictsRight
  <1>5. ASSUME NEW w \in Workers, RelayReturns(w) PROVE VerdictsRight'
    BY <1>0, <1>5 DEF RelayReturns, ToMark, ResultOf, SetWorker, dbVars,
       chainVars, boundVars, RelayTypeOK, Job, JobStatus, Worker, Phase, Relay,
       RelayStage, VerdictsRight
  <1>6. ASSUME NEW w \in Workers, RelayTimesOut(w) PROVE VerdictsRight'
    BY <1>0, <1>6 DEF RelayTimesOut, ToMark, SetWorker, dbVars, chainVars,
       boundVars, RelayTypeOK, Job, JobStatus, Worker, Phase, Relay, RelayStage,
       VerdictsRight
  <1>7. ASSUME NEW w \in Workers, Mark(w) PROVE VerdictsRight'
    BY <1>0, <1>7 DEF Mark, SetWorker, SetJob, AtPhase, PendingJob, EndedJob,
       GivesUp, Exhausted, dbVars, chainVars, boundVars, RelayTypeOK, Job,
       JobStatus, Worker, Phase, Relay, RelayStage, VerdictsRight
  <1>8. ASSUME NEW w \in Workers, Crash(w) PROVE VerdictsRight'
    BY <1>0, <1>8 DEF Crash, Die, SetWorker, IdleWorker, AtPhase, dbVars,
       chainVars, boundVars, RelayTypeOK, Job, JobStatus, Worker, Phase, Relay,
       RelayStage, VerdictsRight
  <1>9. ASSUME NEW w \in Workers, NEW m \in Messages, SkipRow(w, m) PROVE
     VerdictsRight'
    BY <1>0, <1>9 DEF SkipRow, SetWorker, AtPhase, RestAfter, dbVars, chainVars,
       boundVars, RelayTypeOK, Job, JobStatus, Worker, Phase, Relay, RelayStage,
       VerdictsRight
  <1>10. ASSUME NEW w \in Workers, NEW m \in Messages, FindNoJob(w, m) PROVE
     VerdictsRight'
    BY <1>0, <1>10 DEF FindNoJob, SetWorker, AtPhase, dbVars, chainVars,
       boundVars, RelayTypeOK, Job, JobStatus, Worker, Phase, Relay, RelayStage,
       VerdictsRight
  <1>11. ASSUME NEW w \in Workers, NEW m \in Messages, InsertJob(w, m) PROVE
     VerdictsRight'
    BY <1>0, <1>11 DEF InsertJob, SetWorker, SetJob, AtPhase, PendingJob, dbVars,
       chainVars, boundVars, RelayTypeOK, Job, JobStatus, Worker, Phase, Relay,
       RelayStage, VerdictsRight
  <1>12. ASSUME NEW w \in Workers, NEW m \in Messages, InsertConflict(w, m) PROVE
     VerdictsRight'
    BY <1>0, <1>12 DEF InsertConflict, Die, SetWorker, IdleWorker, AtPhase,
       dbVars, chainVars, boundVars, RelayTypeOK, Job, JobStatus, Worker, Phase,
       Relay, RelayStage, VerdictsRight
  <1>13. ASSUME NEW w \in Workers, NEW m \in Messages, Claim(w, m) PROVE
     VerdictsRight'
    BY <1>0, <1>13 DEF Claim, Room, Runnable, SetJob, SetWorker, Claims, dbVars,
       chainVars, boundVars, RelayTypeOK, Job, JobStatus, Worker, Phase, Relay,
       RelayStage, VerdictsRight
  <1>14. ASSUME NEW c \in Claims, RelayThrows(c) \/ SendTransaction(c) \/
     MineSuccessfully(c) \/ MineReverted(c) PROVE VerdictsRight'
    BY <1>0, <1>14 DEF RelayThrows, SendTransaction, MineSuccessfully,
       MineReverted, SetStage, Deliver, Deliverable, dbVars, chainVars, boundVars,
       RelayTypeOK, Job, JobStatus, Worker, Phase, Relay, RelayStage,
       VerdictsRight
  <1>15. ASSUME NEW m \in Messages, BackoffElapses(m) \/ ClaimGrowsStale(m) \/
     IndexInitiated(m) \/ IndexTerminal(m) \/ DeliveredByHand(m) \/
     ReadForRetry(m) \/ WriteRetry(m) PROVE VerdictsRight'
    BY <1>0, <1>15 DEF BackoffElapses, ClaimGrowsStale, IndexInitiated,
       IndexTerminal, DeliveredByHand, ReadForRetry, WriteRetry, SetJob,
       PendingJob, Deliver, Deliverable, dbVars, chainVars, boundVars,
       RelayTypeOK, Job, JobStatus, Worker, Phase, Relay, RelayStage,
       VerdictsRight
  <1>16. CASE UNCHANGED relayVars
    BY <1>0, <1>16 DEF relayVars, RelayTypeOK, Job, JobStatus, Worker, Phase,
       Relay, RelayStage, VerdictsRight
  <1>17. QED
    BY <1>0, <1>1, <1>2, <1>3, <1>4, <1>5, <1>6, <1>7, <1>8, <1>9, <1>10, <1>11,
       <1>12, <1>13, <1>14, <1>15, <1>16 DEF RelayNext, WorkerStep, SeedStep,
       RelayStep, TimeStep, OutsideStep

\* A worker gives up on the number of its own claim, which the job has counted.
LEMMA DeadNeedsAttemptsStep ==
  ASSUME RelayTypeOK, ClaimsCounted, VerdictsRight, DeadNeedsAttempts,
     [RelayNext]_relayVars
  PROVE  DeadNeedsAttempts'
  <1>0. RelayTypeOK /\ ClaimsCounted /\ VerdictsRight /\ DeadNeedsAttempts /\
     [RelayNext]_relayVars
    OBVIOUS
  <1>1. ASSUME NEW w \in Workers, RecoverStaleRunningJobs(w) PROVE
     DeadNeedsAttempts'
    BY <1>0, LimitsAssumption, <1>1 DEF RecoverStaleRunningJobs, Recovered,
       PendingJob, SetWorker, AtPhase, dbVars, chainVars, boundVars, RelayTypeOK,
       Job, JobStatus, Worker, Phase, Relay, RelayStage, ClaimsCounted, Busy,
       VerdictsRight, DeadNeedsAttempts
  <1>2. ASSUME NEW w \in Workers, Mark(w) PROVE DeadNeedsAttempts'
    BY <1>0, LimitsAssumption, <1>2, SMTT(30) DEF Mark, SetWorker, SetJob, AtPhase,
       PendingJob, EndedJob, GivesUp, Exhausted, dbVars, chainVars, boundVars,
       RelayTypeOK, Job, JobStatus, Worker, Phase, Relay, RelayStage,
       ClaimsCounted, Busy, VerdictsRight, DeadNeedsAttempts
  <1>3. ASSUME NEW w \in Workers, NEW m \in Messages, InsertJob(w, m) PROVE
     DeadNeedsAttempts'
    BY <1>0, LimitsAssumption, <1>3 DEF InsertJob, SetWorker, SetJob, AtPhase,
       PendingJob, dbVars, chainVars, boundVars, RelayTypeOK, Job, JobStatus,
       Worker, Phase, Relay, RelayStage, ClaimsCounted, Busy, VerdictsRight,
       DeadNeedsAttempts
  <1>4. ASSUME NEW w \in Workers, NEW m \in Messages, Claim(w, m) PROVE
     DeadNeedsAttempts'
    BY <1>0, LimitsAssumption, <1>4 DEF Claim, Room, Runnable, SetJob, SetWorker,
       Claims, dbVars, chainVars, boundVars, RelayTypeOK, Job, JobStatus, Worker,
       Phase, Relay, RelayStage, ClaimsCounted, Busy, VerdictsRight,
       DeadNeedsAttempts
  <1>5. ASSUME NEW m \in Messages, BackoffElapses(m) PROVE DeadNeedsAttempts'
    BY <1>0, LimitsAssumption, <1>5 DEF BackoffElapses, SetJob, PendingJob,
       dbVars, chainVars, boundVars, RelayTypeOK, Job, JobStatus, Worker, Phase,
       Relay, RelayStage, ClaimsCounted, Busy, VerdictsRight, DeadNeedsAttempts
  <1>6. ASSUME NEW m \in Messages, ClaimGrowsStale(m) PROVE DeadNeedsAttempts'
    BY <1>0, LimitsAssumption, <1>6 DEF ClaimGrowsStale, SetJob, dbVars,
       chainVars, boundVars, RelayTypeOK, Job, JobStatus, Worker, Phase, Relay,
       RelayStage, ClaimsCounted, Busy, VerdictsRight, DeadNeedsAttempts
  <1>7. ASSUME NEW m \in Messages, WriteRetry(m) PROVE DeadNeedsAttempts'
    BY <1>0, LimitsAssumption, <1>7 DEF WriteRetry, SetJob, PendingJob, dbVars,
       chainVars, boundVars, RelayTypeOK, Job, JobStatus, Worker, Phase, Relay,
       RelayStage, ClaimsCounted, Busy, VerdictsRight, DeadNeedsAttempts
  <1>8. ASSUME NEW w \in Workers, Scan(w) \/ EndSeeding(w) \/ EndTick(w) \/
     RelayReturns(w) \/ RelayTimesOut(w) \/ Crash(w) PROVE DeadNeedsAttempts'
    BY <1>0, LimitsAssumption, <1>8 DEF Scan, EndSeeding, EndTick, RelayReturns,
       RelayTimesOut, Crash, SetWorker, AtPhase, ScanWindow, Unresolved,
       IdleWorker, ToMark, ResultOf, Die, dbVars, chainVars, boundVars,
       RelayTypeOK, Job, JobStatus, Worker, Phase, Relay, RelayStage,
       ClaimsCounted, Busy, VerdictsRight, DeadNeedsAttempts
  <1>9. ASSUME NEW w \in Workers, NEW m \in Messages, SkipRow(w, m) \/
     FindNoJob(w, m) \/ InsertConflict(w, m) PROVE DeadNeedsAttempts'
    BY <1>0, LimitsAssumption, <1>9 DEF SkipRow, FindNoJob, InsertConflict,
       SetWorker, AtPhase, RestAfter, Die, IdleWorker, dbVars, chainVars,
       boundVars, RelayTypeOK, Job, JobStatus, Worker, Phase, Relay, RelayStage,
       ClaimsCounted, Busy, VerdictsRight, DeadNeedsAttempts
  <1>10. ASSUME NEW c \in Claims, RelayThrows(c) \/ SendTransaction(c) \/
     MineSuccessfully(c) \/ MineReverted(c) PROVE DeadNeedsAttempts'
    BY <1>0, LimitsAssumption, <1>10 DEF RelayThrows, SendTransaction,
       MineSuccessfully, MineReverted, SetStage, Deliver, Deliverable, dbVars,
       chainVars, boundVars, RelayTypeOK, Job, JobStatus, Worker, Phase, Relay,
       RelayStage, ClaimsCounted, Busy, VerdictsRight, DeadNeedsAttempts
  <1>11. ASSUME NEW m \in Messages, IndexInitiated(m) \/ IndexTerminal(m) \/
     DeliveredByHand(m) \/ ReadForRetry(m) PROVE DeadNeedsAttempts'
    BY <1>0, LimitsAssumption, <1>11 DEF IndexInitiated, IndexTerminal,
       DeliveredByHand, ReadForRetry, Deliver, Deliverable, dbVars, chainVars,
       boundVars, RelayTypeOK, Job, JobStatus, Worker, Phase, Relay, RelayStage,
       ClaimsCounted, Busy, VerdictsRight, DeadNeedsAttempts
  <1>12. CASE UNCHANGED relayVars
    BY <1>0, LimitsAssumption, <1>12 DEF relayVars, RelayTypeOK, Job, JobStatus,
       Worker, Phase, Relay, RelayStage, ClaimsCounted, Busy, VerdictsRight,
       DeadNeedsAttempts
  <1>13. QED
    BY <1>0, <1>1, <1>2, <1>3, <1>4, <1>5, <1>6, <1>7, <1>8, <1>9, <1>10, <1>11,
       <1>12 DEF RelayNext, WorkerStep, SeedStep, RelayStep, TimeStep, OutsideStep

\* The router refuses a message it has delivered.
LEMMA DeliveriesRecordedStep ==
  ASSUME RelayTypeOK, DeliveriesRecorded, [RelayNext]_relayVars
  PROVE  DeliveriesRecorded'
  <1>0. RelayTypeOK /\ DeliveriesRecorded /\ [RelayNext]_relayVars
    OBVIOUS
  <1>1. ASSUME NEW c \in Claims, MineSuccessfully(c) PROVE DeliveriesRecorded'
    BY <1>0, <1>1 DEF MineSuccessfully, SetStage, Deliver, Deliverable, dbVars,
       chainVars, boundVars, RelayTypeOK, Job, JobStatus, Worker, Phase, Relay,
       RelayStage, DeliveriesRecorded, Claims
  <1>2. ASSUME NEW m \in Messages, DeliveredByHand(m) PROVE DeliveriesRecorded'
    BY <1>0, <1>2 DEF DeliveredByHand, Deliver, Deliverable, dbVars, chainVars,
       boundVars, RelayTypeOK, Job, JobStatus, Worker, Phase, Relay, RelayStage,
       DeliveriesRecorded, Claims
  <1>3. ASSUME NEW w \in Workers, RecoverStaleRunningJobs(w) \/ Scan(w) \/
     EndSeeding(w) \/ EndTick(w) \/ RelayReturns(w) \/ RelayTimesOut(w) \/ Mark(w)
     \/ Crash(w) PROVE DeliveriesRecorded'
    BY <1>0, <1>3 DEF RecoverStaleRunningJobs, Scan, EndSeeding, EndTick,
       RelayReturns, RelayTimesOut, Mark, Crash, Recovered, PendingJob, SetWorker,
       AtPhase, ScanWindow, Unresolved, IdleWorker, ToMark, ResultOf, SetJob,
       EndedJob, GivesUp, Exhausted, Die, dbVars, chainVars, boundVars,
       RelayTypeOK, Job, JobStatus, Worker, Phase, Relay, RelayStage,
       DeliveriesRecorded, Claims
  <1>4. ASSUME NEW w \in Workers, NEW m \in Messages, SkipRow(w, m) \/
     FindNoJob(w, m) \/ InsertJob(w, m) \/ InsertConflict(w, m) \/ Claim(w, m)
     PROVE DeliveriesRecorded'
    BY <1>0, <1>4 DEF SkipRow, FindNoJob, InsertJob, InsertConflict, Claim,
       SetWorker, AtPhase, RestAfter, SetJob, PendingJob, Die, IdleWorker, Room,
       Runnable, Claims, dbVars, chainVars, boundVars, RelayTypeOK, Job,
       JobStatus, Worker, Phase, Relay, RelayStage, DeliveriesRecorded
  <1>5. ASSUME NEW c \in Claims, RelayThrows(c) \/ SendTransaction(c) \/
     MineReverted(c) PROVE DeliveriesRecorded'
    BY <1>0, <1>5 DEF RelayThrows, SendTransaction, MineReverted, SetStage,
       dbVars, chainVars, boundVars, RelayTypeOK, Job, JobStatus, Worker, Phase,
       Relay, RelayStage, DeliveriesRecorded, Claims
  <1>6. ASSUME NEW m \in Messages, BackoffElapses(m) \/ ClaimGrowsStale(m) \/
     IndexInitiated(m) \/ IndexTerminal(m) \/ ReadForRetry(m) \/ WriteRetry(m)
     PROVE DeliveriesRecorded'
    BY <1>0, <1>6 DEF BackoffElapses, ClaimGrowsStale, IndexInitiated,
       IndexTerminal, ReadForRetry, WriteRetry, SetJob, PendingJob, dbVars,
       chainVars, boundVars, RelayTypeOK, Job, JobStatus, Worker, Phase, Relay,
       RelayStage, DeliveriesRecorded, Claims
  <1>7. CASE UNCHANGED relayVars
    BY <1>0, <1>7 DEF relayVars, RelayTypeOK, Job, JobStatus, Worker, Phase,
       Relay, RelayStage, DeliveriesRecorded, Claims
  <1>8. QED
    BY <1>0, <1>1, <1>2, <1>3, <1>4, <1>5, <1>6, <1>7 DEF RelayNext, WorkerStep,
       SeedStep, RelayStep, TimeStep, OutsideStep

-----------------------------------------------------------------------------
LEMMA RelayInvInit == RelayInit => RelayInv
  BY LimitsAssumption
  DEF RelayInit, RelayInv, RelayTypeOK, Job, JobStatus, Worker, Phase, Relay, RelayStage,
      NoJob, IdleWorker, AtPhase, AbsentUnclaimed, ClaimsCounted, ClaimsExclusive, Busy,
      RelaysOnChain, ResultsOnChain, SuccessOnChain, VerdictsRight, DeadNeedsAttempts,
      DeliveriesRecorded

LEMMA RelayInvStep == RelayInv /\ [RelayNext]_relayVars => RelayInv'
  BY RelayTypeStep, AbsentUnclaimedStep, ClaimsCountedStep, ClaimsExclusiveStep,
     RelaysOnChainStep, ResultsOnChainStep, SuccessOnChainStep, VerdictsRightStep,
     DeadNeedsAttemptsStep, DeliveriesRecordedStep
  DEF RelayInv

LEMMA RelayInvariant == RelaySpec => []RelayInv
  BY RelayInvInit, RelayInvStep, PTL DEF RelaySpec

\* Every variable of the relay stays in its type (relay.service.ts).
THEOREM RelayTypeCorrect == RelaySpec => []RelayTypeOK
  <1>1. RelayInv => RelayTypeOK  BY DEF RelayInv
  <1>2. QED  BY <1>1, RelayInvariant, PTL

\* The router delivers a message at most once, however often it is relayed
\* (deliverExternalMessage).
THEOREM RelayDeliversOnce == RelaySpec => []NoDuplicateDelivery
  <1>1. RelayInv => NoDuplicateDelivery
    BY DEF RelayInv, DeliveriesRecorded, NoDuplicateDelivery
  <1>2. QED  BY <1>1, RelayInvariant, PTL

\* A successful job has an outcome on the destination's router (markJobSuccess).
THEOREM RelaySuccessIsOnChain == RelaySpec => []SuccessOnChain
  <1>1. RelayInv => SuccessOnChain  BY DEF RelayInv
  <1>2. QED  BY <1>1, RelayInvariant, PTL

\* A job is dead only after MaxAttempts attempts, or unsupported (markJobFailure).
THEOREM RelayDeadIsExhausted == RelaySpec => []DeadNeedsAttempts
  <1>1. RelayInv => DeadNeedsAttempts  BY DEF RelayInv
  <1>2. QED  BY <1>1, RelayInvariant, PTL

\* No two workers hold the same claim (claimNextRunnableJob).
THEOREM RelayClaimsExclusive == RelaySpec => []ClaimsExclusive
  <1>1. RelayInv => ClaimsExclusive  BY DEF RelayInv
  <1>2. QED  BY <1>1, RelayInvariant, PTL
=============================================================================
