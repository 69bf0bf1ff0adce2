---------------------------- MODULE GuardWorkflow ----------------------------
(***************************************************************************)
(* The workflows that guard a user's positions                             *)
(* (cre/reprieve-chainlink-api-guard-v1/lib/full-flow-v1.ts and risk-v1.ts, *)
(* which the two quant workflows share) with the chain they act on.  A run *)
(* reads the positions and the prices, decides, plans one step, submits it *)
(* as a report and reads back how it went; meanwhile prices move, the user *)
(* acts, and other runs of the same or of another workflow do the same.    *)
(*                                                                         *)
(* A report is one transaction: the receiver refuses an execution id that  *)
(* succeeded before and undoes a rescue whose step failed, so the lock     *)
(* rescueInProgress is never seen set.  A message to the other chain is    *)
(* delivered, or fails there and is put in escrow, in a later transaction. *)
(*                                                                         *)
(* Only runs that execute are modelled: those of the monitor-only schedule *)
(* change nothing.  Assets are named across chains as the configuration's  *)
(* crossChainAssetMap names them.  Interest is left out: it is a move of   *)
(* the user's debt like another.                                           *)
(***************************************************************************)
EXTENDS LendingMath, FiniteSets, FiniteSetsExt, Totals

CONSTANTS
    Adapters,       \* 1..n in the order of the configuration
    Home,           \* adapters of the chain the workflow executes on
    Collateral, Debt,  \* the assets of each adapter's market
    Margin,         \* the health factor below which availableCollateral is 0
    Workflows,      \* runs that may overlap, of any of the three workflows
    TargetHf,       \* rescue.targetHfBps
    ReserveCap,     \* rescue.reserveCapBps
    MinAction,      \* rescue.minActionUsd
    MaxNotional,    \* budget.maxRescueNotionalUsd
    Requests,       \* what runs are triggered with: the HTTP body, and as early
                    \* the earlyWarningHfBps with the quant signal's boost
    Penalties,      \* health factor penalties for shock and staleness
    PriceVectors,   \* prices the assets may have
    UserPositions,  \* positions the user may bring an adapter to
    NoId, NoAdapter, NoAmount,
    \* Bounds of the model.
    MaxMinute,
    MaxMoves  \* of prices, of the user and of the clock, together

ASSUME GuardAssumption ==
    /\ IsFiniteSet(Adapters) /\ Adapters \subseteq Nat /\ Home \subseteq Adapters
    /\ IsFiniteSet(Requests)
    /\ \A r \in Requests : /\ r.early \in Nat \ {0}
                            /\ r.target \in Adapters \cup {NoAdapter}
                            /\ r.amount \in Nat \cup {NoAmount}
    /\ TargetHf \in Nat /\ TargetHf >= Bps
    /\ ReserveCap \in 0..Bps
    /\ MinAction \in Nat /\ MaxNotional \in Nat
    /\ Penalties \subseteq 0..Bps
    /\ MaxMinute \in Nat /\ MaxMoves \in Nat

VARIABLES
    positions,  \* collateral and debt of the user in each market
    prices,
    minute,     \* the minute that toExecutionId hashes
    runs,       \* how often each execution id was executed with success
    message,    \* the cross-chain message of each execution id
    kept,       \* tokens of the user left in each market's contracts
    workflows,
    reported,   \* settlements reported of each execution id; DISPATCHED, which
                \* promises nothing, is not recorded
    moves

guardVars == <<positions, prices, minute, runs, message, kept, workflows, reported, moves>>

-----------------------------------------------------------------------------
Modes == {"TOP_UP", "REPAY"}
Position == [collateral : Nat, debt : Nat]
Assets == {Collateral[a] : a \in Adapters} \cup {Debt[a] : a \in Adapters}

\* A caller's execution id, or the hash of mode and minute: all workflows hash
\* the same strategy id.
ExecId(request, mode) == IF request.id # NoId THEN <<request.id>> ELSE <<mode, minute>>
ExecIds == {<<r.id>> : r \in Requests} \cup (Modes \X (0..MaxMinute))

Plan == [exec : ExecIds, mode : Modes, source : Adapters, target : Adapters,
         amount : Nat \ {0}, cross : BOOLEAN, floor : Nat]

NoPlan == [exec |-> <<NoId>>, mode |-> "none", source |-> NoAdapter, target |-> NoAdapter,
           amount |-> 0, cross |-> FALSE, floor |-> 0]

Message == [state : {"none", "in flight", "delivered", "failed"}, mode : Modes \cup {"none"},
            target : Adapters \cup {NoAdapter}, asset : Assets \cup {"none"}, amount : Nat]

NoMessage == [state |-> "none", mode |-> "none", target |-> NoAdapter,
              asset |-> "none", amount |-> 0]

IdleWorkflow == [pc |-> "idle", plan |-> NoPlan]

Init ==
    /\ positions \in [Adapters -> UNION {UserPositions[a] : a \in Adapters}]
    /\ \A a \in Adapters : positions[a] \in UserPositions[a]
    /\ prices \in PriceVectors
    /\ minute = 0
    /\ runs = [e \in ExecIds |-> 0]
    /\ message = [e \in ExecIds |-> NoMessage]
    /\ kept = [a \in Adapters |-> 0]
    /\ workflows = [w \in Workflows |-> IdleWorkflow]
    /\ reported = [e \in ExecIds |-> {}]
    /\ moves = 0

-----------------------------------------------------------------------------
\* The unit in which values are kept: one dollar is so many of them.
Usd == 100

\* The engines' risk parameters, and their health factor without debt.
MaxLtv == 7500
LiquidationThreshold == 8000
NoDebtHf == 2000000000

\* A token is worth something, and an adapter without debt has all available.
ASSUME MarketAssumption ==
    /\ \A v \in PriceVectors : \A asset \in Assets : v[asset] \in Nat \ {0}
    /\ \A a \in Adapters : UserPositions[a] \subseteq Position /\ Margin[a] \in 0..NoDebtHf

\* The markets, as their engines see them: a debt token is worth one dollar.
Value(a, amount) == CollateralValue(amount, prices[Collateral[a]], 1)

HealthFactor(a, collateral, debt) ==
    IF debt = 0 THEN NoDebtHf
    ELSE CalculateHealthFactor(Value(a, collateral), debt * Usd, LiquidationThreshold)

EngineHf(a) == HealthFactor(a, positions[a].collateral, positions[a].debt)

\* withdrawOnBehalfOf's check.
WithdrawKeepsLtv(a, amount) ==
    positions[a].debt > 0 =>
        CalculateLTV(positions[a].debt * Usd, Value(a, positions[a].collateral - amount)) <= MaxLtv

\* availableCollateral of the adapter.
Available(a) ==
    LET p == positions[a] hf == EngineHf(a)
    IN  IF p.debt = 0 THEN p.collateral
        ELSE IF hf <= Margin[a] THEN 0 ELSE (p.collateral * (hf - Margin[a])) \div hf

-----------------------------------------------------------------------------
\* The workflow's own measures, from the prices it loaded.
Effective(value) == (value * LiquidationThreshold) \div Bps

EffectiveUsd(a) == Effective(Value(a, positions[a].collateral))
DebtUsd(a) == positions[a].debt * prices[Debt[a]]
PositionHf(a) == (EffectiveUsd(a) * Bps) \div DebtUsd(a)

\* The positions discovered at the adapters that could be read.
Snapshot(readable) == {a \in readable : positions[a] # [collateral |-> 0, debt |-> 0]}

\* decideRoute on the weakest position: a rescue, or no action.
AtRisk(request, seen, penalty) ==
    \E a \in seen : /\ DebtUsd(a) > 0
                    /\ (PositionHf(a) * (Bps - penalty)) \div Bps <= request.early

\* The position with the lowest health factor at its engine, the first of the
\* configuration among equals, or the one at the adapter the request names.
ChooseTarget(request, seen) ==
    LET debtBearing == {a \in seen : positions[a].debt > 0}
        named == debtBearing \cap {request.target}
        Riskier(a, b) == EngineHf(a) < EngineHf(b) \/ (EngineHf(a) = EngineHf(b) /\ a <= b)
    IN  CHOOSE a \in IF named # {} THEN named ELSE debtBearing :
            \A b \in IF named # {} THEN named ELSE debtBearing : Riskier(a, b)

\* inferRescueModeFromPositions: no mode when no asset of the source fits.
InferRescueMode(source, target) ==
    IF Collateral[source] = Collateral[target] /\ Debt[source] = Debt[target] THEN "TOP_UP"
    ELSE IF Collateral[source] = Debt[target] THEN "REPAY"
    ELSE IF Collateral[source] = Collateral[target] THEN "TOP_UP"
    ELSE "none"

SourcePool(request, seen, target) ==
    {s \in (seen \cap Home) \ {target} :
        /\ positions[s].collateral > 0
        /\ InferRescueMode(s, target) # "none"
        /\ request.source \in {NoAdapter, s}}

\* chooseHighestCollateral compares amounts of whatever tokens.
HighestCollateral(pool) ==
    CHOOSE s \in pool : \A r \in pool :
        \/ positions[s].collateral > positions[r].collateral
        \/ positions[s].collateral = positions[r].collateral /\ s <= r

\* Fault: the collateral that closes the gap is taken for its effective value.
EstimateNeededUnweighted(mode, t) ==
    LET wanted == (TargetHf * DebtUsd(t)) \div Bps
        bearable == (EffectiveUsd(t) * Bps) \div TargetHf
    IN  IF mode = "TOP_UP"
        THEN IF wanted <= EffectiveUsd(t) THEN 0
             ELSE (wanted - EffectiveUsd(t)) \div prices[Collateral[t]]
        ELSE IF DebtUsd(t) <= bearable THEN 0
             ELSE (DebtUsd(t) - bearable) \div prices[Debt[t]]

\* estimateNeededAction: what brings the target to the health factor planned.
EstimateNeeded(mode, t) ==
    LET wanted == (TargetHf * DebtUsd(t)) \div Bps
        bearable == (EffectiveUsd(t) * Bps) \div TargetHf
    IN  IF mode = "TOP_UP"
        THEN IF wanted <= EffectiveUsd(t) THEN 0
             ELSE (((wanted - EffectiveUsd(t)) * Bps) \div LiquidationThreshold)
                  \div prices[Collateral[t]]
        ELSE IF DebtUsd(t) <= bearable THEN 0
             ELSE (DebtUsd(t) - bearable) \div prices[Debt[t]]

\* Fault: the headroom is taken on the collateral's full value.
SourceHfSafeCapFull(request, s) ==
    LET floor == (request.early * DebtUsd(s)) \div Bps
    IN  IF positions[s].debt = 0 THEN positions[s].collateral
        ELSE IF EffectiveUsd(s) <= floor THEN 0
        ELSE (Value(s, positions[s].collateral) - floor) \div prices[Collateral[s]]

\* What the source can give and stay at the floor, which is the early warning.
SourceHfSafeCap(request, s) ==
    LET floor == (request.early * DebtUsd(s)) \div Bps
    IN  IF positions[s].debt = 0 THEN positions[s].collateral
        ELSE IF EffectiveUsd(s) <= floor THEN 0
        ELSE (((EffectiveUsd(s) - floor) * Bps) \div LiquidationThreshold)
             \div prices[Collateral[s]]

Desired(request, mode, t) ==
    IF request.amount # NoAmount THEN request.amount ELSE EstimateNeeded(mode, t)

ActionAmount(request, mode, s, t) ==
    Min({Desired(request, mode, t),
         (positions[s].collateral * (Bps - ReserveCap)) \div Bps,
         SourceHfSafeCap(request, s),
         (MaxNotional * Usd) \div prices[Collateral[s]]})

-----------------------------------------------------------------------------
SetWorkflow(w, pc, plan) == workflows' = [workflows EXCEPT ![w] = [pc |-> pc, plan |-> plan]]

\* runChainlinkApiGuardFlow up to the submission: the guard's decision, the
\* pending check, which passes when its reads fail, the status check and the
\* plan.  Runs that end before, and those that abort for want of a read or a
\* price, have no effect.
MakePlan(w, request, readable, penalty, readsPending) ==
    LET seen == Snapshot(readable)
        target == ChooseTarget(request, seen)
        pool == SourcePool(request, seen, target)
        source == HighestCollateral(pool)
        mode == InferRescueMode(source, target)
        exec == ExecId(request, mode)
        amount == ActionAmount(request, mode, source, target)
    IN  /\ workflows[w].pc = "idle"
        /\ AtRisk(request, seen, penalty)
        /\ request.pending # NoId /\ readsPending =>
               ~(runs[<<request.pending>>] > 0 /\ message[<<request.pending>>] # NoMessage)
        /\ pool # {}
        /\ runs[exec] = 0
        /\ amount > 0
        /\ amount * prices[Collateral[source]] >= MinAction * Usd
        /\ SetWorkflow(w, "planned",
               [exec |-> exec, mode |-> mode, source |-> source,
                target |-> IF request.target # NoAdapter THEN request.target ELSE target,
                amount |-> amount, cross |-> target \notin Home, floor |-> request.early])
        /\ UNCHANGED <<positions, prices, minute, runs, message, kept, reported, moves>>

-----------------------------------------------------------------------------
\* Fault: the plan's amount is not cut to what the source has available.
GrantedAsPlanned(plan) ==
    IF Available(plan.source) = 0 THEN 0 ELSE plan.amount

\* The amount a step withdraws: the plan's, or what the source can give less
\* a reserve of a fifth.
Granted(plan) == Min({plan.amount, (Available(plan.source) * (Bps - 2000)) \div Bps})

\* supplyForRescue and repayForRescue succeed.
TargetAccepts(mode, asset, t) ==
    \/ mode = "TOP_UP" /\ Collateral[t] = asset
    \/ mode = "REPAY" /\ Debt[t] = asset /\ positions[t].debt > 0

\* Fault: a repayment is not cut to the debt.
AppliedUncapped(p, mode, amount) ==
    IF mode = "TOP_UP" THEN [collateral |-> p.collateral + amount, debt |-> p.debt]
    ELSE [collateral |-> p.collateral, debt |-> p.debt - amount]

Withdrawn(p, amount) == [collateral |-> p.collateral - amount, debt |-> p.debt]

\* The position after the target's action: the engine takes no more than the
\* debt, and the rest stays in the pool or market, which pulled it all.
Applied(p, mode, amount) ==
    IF mode = "TOP_UP" THEN [collateral |-> p.collateral + amount, debt |-> p.debt]
    ELSE [collateral |-> p.collateral, debt |-> p.debt - Min({amount, p.debt})]

\* Fault: what a debt does not need is lost.
ExcessLost(p, mode, amount) == 0

Excess(p, mode, amount) == IF mode = "TOP_UP" THEN 0 ELSE amount - Min({amount, p.debt})

\* _executeSameChainStep after the report was accepted.
SameChainStep(plan, amount) ==
    LET s == plan.source t == plan.target
        withdrawn == [positions EXCEPT ![s] = Withdrawn(@, amount)]
    IN  /\ ~plan.cross
        /\ t \in Home
        /\ TargetAccepts(plan.mode, Collateral[s], t)
        /\ positions' = [withdrawn EXCEPT ![t] = Applied(withdrawn[t], plan.mode, amount)]
        /\ kept' = [kept EXCEPT ![t] = @ + Excess(withdrawn[t], plan.mode, amount)]
        /\ UNCHANGED message

\* _initiateCrossChainStep after the report was accepted.
CrossChainStep(plan, amount) ==
    /\ plan.cross
    /\ positions' = [positions EXCEPT ![plan.source] = Withdrawn(@, amount)]
    /\ message' = [message EXCEPT ![plan.exec] =
                       [state |-> "in flight", mode |-> plan.mode, target |-> plan.target,
                        asset |-> Collateral[plan.source], amount |-> amount]]
    /\ UNCHANGED kept

\* The report lands and its rescue succeeds.
Submit(w) ==
    LET plan == workflows[w].plan amount == Granted(plan)
    IN  /\ workflows[w].pc = "planned"
        /\ runs[plan.exec] = 0
        /\ amount > 0
        /\ WithdrawKeepsLtv(plan.source, amount)
        /\ SameChainStep(plan, amount) \/ CrossChainStep(plan, amount)
        /\ runs' = [runs EXCEPT ![plan.exec] = @ + 1]
        /\ SetWorkflow(w, "submitted", plan)
        /\ UNCHANGED <<prices, minute, reported, moves>>

\* The report lands and is undone: its id was used, or its step failed (for a
\* reason above, or because of a pause, a missing approval or fee).
SubmitUndone(w) ==
    /\ workflows[w].pc = "planned"
    /\ SetWorkflow(w, "submitted", workflows[w].plan)
    /\ UNCHANGED <<positions, prices, minute, runs, message, kept, reported, moves>>

\* The run dies, or writing the report throws.
WorkflowEnds(w) ==
    /\ workflows[w].pc # "idle"
    /\ SetWorkflow(w, "idle", NoPlan)
    /\ UNCHANGED <<positions, prices, minute, runs, message, kept, reported, moves>>

\* The settlement state of an envelope after submission; each of the two reads
\* may fail.
Settlement(plan, readsMessage, readsStatus) ==
    IF plan.cross /\ readsMessage /\ message[plan.exec] # NoMessage THEN {}
    ELSE IF readsStatus /\ runs[plan.exec] > 0 THEN {"DELIVERED_SUCCESS"}
    ELSE {}

ReadSettlement(w, readsMessage, readsStatus) ==
    /\ workflows[w].pc = "submitted"
    /\ LET plan == workflows[w].plan
       IN  reported' = [reported EXCEPT ![plan.exec] =
                            @ \cup Settlement(plan, readsMessage, readsStatus)]
    /\ SetWorkflow(w, "idle", NoPlan)
    /\ UNCHANGED <<positions, prices, minute, runs, message, kept, moves>>

-----------------------------------------------------------------------------
\* The router delivers a message; the target's action fails or not.
Deliver(e, works) ==
    LET m == message[e]
        succeeds == works /\ m.target \notin Home /\ TargetAccepts(m.mode, m.asset, m.target)
    IN  /\ m.state = "in flight"
        /\ message' = [message EXCEPT
                           ![e] = [m EXCEPT !.state = IF succeeds THEN "delivered" ELSE "failed"]]
        /\ IF succeeds
           THEN /\ positions' = [positions EXCEPT ![m.target] = Applied(@, m.mode, m.amount)]
                /\ kept' = [kept EXCEPT ![m.target] =
                                @ + Excess(positions[m.target], m.mode, m.amount)]
           ELSE UNCHANGED <<positions, kept>>
        /\ UNCHANGED <<prices, minute, runs, workflows, reported, moves>>

\* reconcileChainlinkApiGuardLog on the log of an event that was emitted.
Reconcile(e) ==
    /\ \/ /\ runs[e] > 0                 \* RescueCompleted
          /\ reported' = [reported EXCEPT ![e] = @ \cup {"DELIVERED_SUCCESS"}]
       \/ /\ message[e].state = "delivered"
          /\ reported' = [reported EXCEPT ![e] = @ \cup {"DELIVERED_SUCCESS"}]
       \/ /\ message[e].state = "failed"
          /\ reported' = [reported EXCEPT ![e] = @ \cup {"DELIVERED_FAILED"}]
    /\ reported' # reported
    /\ UNCHANGED <<positions, prices, minute, runs, message, kept, workflows, moves>>

-----------------------------------------------------------------------------
\* The environment: prices, the user and the clock.
PricesMove ==
    /\ moves < MaxMoves
    /\ prices' \in PriceVectors \ {prices}
    /\ moves' = moves + 1
    /\ UNCHANGED <<positions, minute, runs, message, kept, workflows, reported>>

UserActs(a) ==
    /\ moves < MaxMoves
    /\ \E p \in UserPositions[a] \ {positions[a]} : positions' = [positions EXCEPT ![a] = p]
    /\ moves' = moves + 1
    /\ UNCHANGED <<prices, minute, runs, message, kept, workflows, reported>>

ClockTicks ==
    /\ minute < MaxMinute /\ moves < MaxMoves
    /\ minute' = minute + 1
    /\ moves' = moves + 1
    /\ UNCHANGED <<positions, prices, runs, message, kept, workflows, reported>>

Next ==
    \/ \E w \in Workflows :
           \/ \E request \in Requests, readable \in SUBSET Adapters, penalty \in Penalties,
                  readsPending \in BOOLEAN :
                  MakePlan(w, request, readable, penalty, readsPending)
           \/ Submit(w) \/ SubmitUndone(w) \/ WorkflowEnds(w)
           \/ \E readsMessage, readsStatus \in BOOLEAN :
                  ReadSettlement(w, readsMessage, readsStatus)
    \/ \E e \in ExecIds : Reconcile(e) \/ \E works \in BOOLEAN : Deliver(e, works)
    \/ PricesMove \/ ClockTicks
    \/ \E a \in Adapters : UserActs(a)

GuardSpec == Init /\ [][Next]_guardVars

-----------------------------------------------------------------------------
(* The types. *)
GuardTypeOK ==
    /\ positions \in [Adapters -> Position]
    /\ prices \in PriceVectors
    /\ minute \in 0..MaxMinute
    /\ runs \in [ExecIds -> Nat]
    /\ message \in [ExecIds -> Message]
    /\ kept \in [Adapters -> Nat]
    /\ workflows \in [Workflows -> [pc : {"idle", "planned", "submitted"}, plan : Plan \cup {NoPlan}]]
    /\ reported \in [ExecIds -> SUBSET {"DELIVERED_SUCCESS", "DELIVERED_FAILED"}]
    /\ moves \in 0..MaxMoves

Planning(w) == workflows[w].pc = "idle" /\ workflows'[w].pc = "planned"

(* A plan leaves its source at the early warning or above, by the          *)
(* workflow's own measure of it after the step, however its four roundings *)
(* fall, so that a rescue does not make its source the next to rescue.     *)
(* (A penalty may still do so.)                                            *)
PlanKeepsFloor ==
    [][\A w \in Workflows : Planning(w) =>
           LET plan == workflows'[w].plan s == plan.source
           IN  positions[s].debt > 0 =>
                   Effective(Value(s, positions[s].collateral - plan.amount))
                       >= (plan.floor * DebtUsd(s)) \div Bps]_guardVars

(* Prices for which the planner's arithmetic is as fine as its amounts: a  *)
(* token bears at least one unit of value, and the value a target needs is *)
(* a whole number of units for every amount of its debt.                   *)
FinePrices ==
    \A v \in PriceVectors, a \in Adapters :
        /\ Bps <= v[Collateral[a]] * LiquidationThreshold
        /\ \E k \in 0..(TargetHf * v[Debt[a]]) : TargetHf * v[Debt[a]] = k * Bps

Reaches(t, collateral, debt) ==
    Effective(Value(t, collateral)) * Bps >= TargetHf * (debt * prices[Debt[t]])

(* A plan that nothing caps takes the target to the health factor planned: *)
(* one token more would reach it or pass it, and the plan itself does not  *)
(* overshoot by as much as a token.                                        *)
PlanReachesTarget ==
    [][\A w \in Workflows : Planning(w) =>
           LET plan == workflows'[w].plan t == plan.target p == positions[t]
           IN  /\ p.debt > 0
               /\ plan.amount = EstimateNeeded(plan.mode, t)
               => \/ /\ plan.mode = "TOP_UP"
                     /\ Reaches(t, p.collateral + plan.amount + 1, p.debt)
                     /\ ~Reaches(t, p.collateral + plan.amount - 1, p.debt)
                  \/ /\ plan.mode = "REPAY"
                     /\ Reaches(t, p.collateral, p.debt - plan.amount - 1)
                     /\ ~Reaches(t, p.collateral, p.debt - plan.amount + 1)]_guardVars

(* A rescue never takes its source below the margin that the source's      *)
(* adapter keeps, however stale its plan is when the report lands.         *)
SourceStaysSafe ==
    [][\A w \in Workflows :
           LET s == workflows[w].plan.source
           IN  (workflows[w].pc = "planned" /\ runs' # runs /\ workflows'[w] # workflows[w]
                /\ positions[s].debt > 0)
               => HealthFactor(s, positions'[s].collateral, positions'[s].debt) >= Margin[s]]_guardVars

\* What the user has of an asset: in markets, left in them, and in messages on
\* their way or put in escrow; and what the user owes of it.
Supplied(asset, ps) == [a \in Adapters |-> IF Collateral[a] = asset THEN ps[a].collateral ELSE 0]
Left(asset, ks) == [a \in Adapters |-> IF Debt[a] = asset THEN ks[a] ELSE 0]
Sent(asset, ms) ==
    [e \in ExecIds |-> IF ms[e].asset = asset /\ ms[e].state \in {"in flight", "failed"}
                       THEN ms[e].amount ELSE 0]
Owed(asset, ps) == [a \in Adapters |-> IF Debt[a] = asset THEN ps[a].debt ELSE 0]

Net(asset, ps, ms, ks) ==
    Total(Adapters, Supplied(asset, ps)) + Total(Adapters, Left(asset, ks))
        + Total(ExecIds, Sent(asset, ms)) - Total(Adapters, Owed(asset, ps))

(* Rescues create and destroy nothing: whatever is capped, capped again,   *)
(* in excess of a debt, on its way or in escrow, the user's net holding of *)
(* every asset changes by the user's own acts only.                        *)
FundsConserved ==
    [][moves' = moves =>
           \A asset \in Assets :
               Net(asset, positions', message', kept') = Net(asset, positions, message, kept)]_guardVars

(* What the design says of every rescue of two chains: its completion on   *)
(* the source chain is the acceptance of a dispatch, not a settlement.     *)
SettledMeansDelivered ==
    \A e \in ExecIds :
        "DELIVERED_SUCCESS" \in reported[e] => message[e].state \in {"none", "delivered"}
=============================================================================
