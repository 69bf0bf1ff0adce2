------------------------------- MODULE Indexer -------------------------------
(***************************************************************************)
(* The event indexer                                                       *)
(* (backend/src/modules/rescue-history/rescue-history.service.ts) and the  *)
(* API's projection on demand: processes that scan windows of blocks,      *)
(* upsert the decoded logs row by row, rebuild the projections of the      *)
(* executions they met and move the chain's cursor; readers that rebuild a *)
(* projection when a rescue is asked for; the command that resets it all.  *)
(*                                                                         *)
(* Each request to a node and each database statement is an action.  A     *)
(* projection reads in one statement and writes in another.  A process     *)
(* works on the cursors it read when its run began.                        *)
(*                                                                         *)
(* The chains are an environment: blocks are mined, and a reorganisation   *)
(* may drop the transactions of blocks that are not final.                 *)
(***************************************************************************)
EXTENDS RescueProjection

CONSTANTS
    Indexers,       \* indexer:start, and indexer:once or a second container
    Readers,        \* requests for a rescue's details
    BlockWindow,    \* INDEXER_BLOCK_WINDOW
    Confirmations,  \* INDEXER_CONFIRMATIONS
    ReorgDepth,     \* how many of the latest blocks a reorganisation replaces
    NoExec,
    \* Bounds of the model.
    MaxBlock,       \* blocks of a chain
    MaxTroubles     \* reorganisations, failing requests and statements,
                    \* processes that die and resets, together

ASSUME IndexerAssumption ==
    /\ BlockWindow \in Nat \ {0} /\ Confirmations \in Nat /\ ReorgDepth \in Nat
    /\ MaxBlock \in Nat /\ MaxTroubles \in Nat
    /\ NoExec \notin Execs

VARIABLES
    height,      \* latest block of each chain
    minedAt,     \* the block of each log, 0 when it is in none
    rows,        \* rescue_events
    executions,  \* rescue_executions
    cursor,      \* chains.indexer_cursor_block, 0 for null
    indexers,    \* where each process is in its run
    readers,     \* where each request is
    resetting,   \* the next statement of the reset command
    troubles

indexerVars == <<height, minedAt, rows, executions, cursor, indexers, readers,
                 resetting, troubles>>

-----------------------------------------------------------------------------
Phase == {"idle", "chain", "window", "write"}

Process == [pc : Phase,
            left : SUBSET Chains,           \* chains still to index in this run
            snapshot : [Chains -> 0..MaxBlock],
            at : 0..(MaxBlock + 1), to : 0..MaxBlock, chunk : 0..BlockWindow,
            todo : SUBSET Log,
            execs : SUBSET Execs,           \* executions still to project
            projecting : Execs \cup {NoExec},
            projected : Statuses \cup {NoExecution}]

\* A process about to index the next of the chains that are left.  It keeps
\* the cursors of these.
AtChain(left, snapshot) ==
    [pc |-> IF left = {} THEN "idle" ELSE "chain", left |-> left,
     snapshot |-> [c \in Chains |-> IF c \in left THEN snapshot[c] ELSE 0],
     at |-> 0, to |-> 0, chunk |-> 0, todo |-> {}, execs |-> {},
     projecting |-> NoExec, projected |-> NoExecution]

IdleProcess == AtChain({}, [c \in Chains |-> 0])

IdleReader == [exec |-> NoExec, projected |-> NoExecution]

\* The chains are indexed in ascending order of their ids.
CurrentChain(p) ==
    CHOOSE c \in indexers[p].left : \A d \in indexers[p].left : c <= d

SetIndexer(p, process) == indexers' = [indexers EXCEPT ![p] = process]

\* Blocks that no reorganisation replaces any more.
FinalBlock(c) == IF height[c] > ReorgDepth THEN height[c] - ReorgDepth ELSE 0

\* safeLatestBlock
SafeLatestBlock(c) ==
    IF height[c] > Confirmations THEN height[c] - Confirmations ELSE 0

Final(l) == minedAt[l] \in 1..FinalBlock(l.chain)

IndexerInit ==
    /\ height = [c \in Chains |-> 0]
    /\ minedAt = [l \in Log |-> 0]
    /\ rows = {}
    /\ executions = [e \in Execs |-> NoExecution]
    /\ cursor = [c \in Chains |-> 0]
    /\ indexers = [p \in Indexers |-> IdleProcess]
    /\ readers = [r \in Readers |-> IdleReader]
    /\ resetting = "none"
    /\ troubles = 0

-----------------------------------------------------------------------------
\* The chains.

\* The transactions that may be mined on c: an execution runs once, and a
\* destination ends its message once, after the relay has seen it initiated
\* in a final block.
Transactions(c) ==
    UNION {
        (IF c = Source[e] /\ minedAt[LogOf(e, "RescueInitiated")] = 0
         THEN {{LogOf(e, "RescueInitiated"), LogOf(e, "RescueFailed")},
               {LogOf(e, "RescueInitiated"), LogOf(e, "RescueCompleted")} \cup
               (IF e \in CrossChain THEN {LogOf(e, "CrossChainInitiated")} ELSE {})}
         ELSE {})
        \cup
        (IF /\ c = Destination[e] /\ Final(LogOf(e, "CrossChainInitiated"))
            /\ \A event \in DestinationEvents : minedAt[LogOf(e, event)] = 0
         THEN {{LogOf(e, event)} : event \in DestinationEvents}
         ELSE {})
        : e \in Execs}

\* A block, empty or with a transaction of the protocol.
MineBlock(c) ==
    /\ height[c] < MaxBlock
    /\ \E logs \in Transactions(c) \cup {{}} :
           minedAt' = [l \in Log |-> IF l \in logs THEN height[c] + 1 ELSE minedAt[l]]
    /\ height' = [height EXCEPT ![c] = height[c] + 1]
    /\ UNCHANGED <<rows, executions, cursor, indexers, readers, resetting,
                   troubles>>

\* The blocks above k are replaced by blocks without those transactions,
\* which may be mined again.
Reorganise(c) ==
    /\ troubles < MaxTroubles
    /\ \E k \in FinalBlock(c)..(height[c] - 1) :
           minedAt' = [l \in Log |->
                          IF l.chain = c /\ minedAt[l] > k THEN 0 ELSE minedAt[l]]
    /\ troubles' = troubles + 1
    /\ UNCHANGED <<height, rows, executions, cursor, indexers, readers,
                   resetting>>

-----------------------------------------------------------------------------
\* One run of an indexer: runIndexerOnce and indexChain.

StartRun(p) ==
    /\ indexers[p].pc = "idle"
    /\ resetting = "none"
    /\ SetIndexer(p, AtChain(Chains, cursor))
    /\ UNCHANGED <<height, minedAt, rows, executions, cursor, readers,
                   resetting, troubles>>

\* The process is done with its current chain.
NextChain(p) ==
    SetIndexer(p, AtChain(indexers[p].left \ {CurrentChain(p)}, indexers[p].snapshot))

\* fromBlock > safeLatestBlock: nothing to index.
ChainIdle(p) ==
    /\ indexers[p].pc = "chain"
    /\ indexers[p].snapshot[CurrentChain(p)] + 1 > SafeLatestBlock(CurrentChain(p))
    /\ NextChain(p)
    /\ UNCHANGED <<height, minedAt, rows, executions, cursor, readers,
                   resetting, troubles>>

\* Fault: the window reaches the latest block.
WindowEndUnsafe(c, from) ==
    IF from + BlockWindow - 1 < height[c] THEN from + BlockWindow - 1 ELSE height[c]

\* toBlock
WindowEnd(c, from) ==
    IF from + BlockWindow - 1 < SafeLatestBlock(c)
    THEN from + BlockWindow - 1 ELSE SafeLatestBlock(c)

\* The latest block is read and a window chosen after the cursor.
ChooseWindow(p) ==
    LET from == indexers[p].snapshot[CurrentChain(p)] + 1
    IN /\ indexers[p].pc = "chain"
       /\ from <= SafeLatestBlock(CurrentChain(p))
       /\ SetIndexer(p, [indexers[p] EXCEPT !.pc = "window", !.at = from,
                             !.to = WindowEnd(CurrentChain(p), from),
                             !.chunk = BlockWindow])
       /\ UNCHANGED <<height, minedAt, rows, executions, cursor, readers, resetting, troubles>>

\* A window is fetched in chunks, then its rows are written, then the
\* executions it met are projected.
Fetching(p) == indexers[p].pc = "window" /\ indexers[p].at <= indexers[p].to

Persisting(p) ==
    /\ indexers[p].pc = "window" /\ indexers[p].at > indexers[p].to
    /\ indexers[p].todo # {}

Projecting(p) ==
    /\ indexers[p].pc = "window" /\ indexers[p].at > indexers[p].to
    /\ indexers[p].todo = {}

\* The last block of the chunk that starts at currentFrom.
ChunkEnd(p) ==
    IF indexers[p].at + indexers[p].chunk - 1 < indexers[p].to
    THEN indexers[p].at + indexers[p].chunk - 1 ELSE indexers[p].to

\* Logs of the process's chain in the blocks first to last.
LogsIn(p, first, last) ==
    {l \in Log : l.chain = CurrentChain(p) /\ minedAt[l] \in first..last}

\* getIndexedLogs answers for one chunk of the window.
FetchChunk(p) ==
    LET found == LogsIn(p, indexers[p].at, ChunkEnd(p))
    IN /\ Fetching(p)
       /\ SetIndexer(p, [indexers[p] EXCEPT
              !.at = ChunkEnd(p) + 1,
              !.todo = indexers[p].todo \cup found,
              !.execs = indexers[p].execs \cup {l.exec : l \in found}])
       /\ UNCHANGED <<height, minedAt, rows, executions, cursor, readers, resetting, troubles>>

\* Fault: the chunk counts as fetched when it is made smaller.
ShrinkChunkSkips(p) ==
    /\ Fetching(p) /\ indexers[p].chunk > 1 /\ troubles < MaxTroubles
    /\ \E size \in 1..(indexers[p].chunk - 1) :
           SetIndexer(p, [indexers[p] EXCEPT !.chunk = size, !.at = ChunkEnd(p) + 1])
    /\ troubles' = troubles + 1
    /\ UNCHANGED <<height, minedAt, rows, executions, cursor, readers, resetting>>

\* Fault: a maximum of no blocks is believed.
ShrinkChunkToNone(p) ==
    /\ Fetching(p) /\ indexers[p].chunk > 1 /\ troubles < MaxTroubles
    /\ \E size \in 0..(indexers[p].chunk - 1) :
           SetIndexer(p, [indexers[p] EXCEPT !.chunk = size])
    /\ troubles' = troubles + 1
    /\ UNCHANGED <<height, minedAt, rows, executions, cursor, readers, resetting>>

\* The node refuses the chunk: a smaller one is tried, half the size or the
\* maximum that the error names.
ShrinkChunk(p) ==
    /\ Fetching(p) /\ indexers[p].chunk > 1 /\ troubles < MaxTroubles
    /\ \E size \in 1..(indexers[p].chunk - 1) :
           SetIndexer(p, [indexers[p] EXCEPT !.chunk = size])
    /\ troubles' = troubles + 1
    /\ UNCHANGED <<height, minedAt, rows, executions, cursor, readers, resetting>>

\* Fault: the rows of a window are written in any order.
PersistRowUnordered(p) ==
    /\ Persisting(p)
    /\ \E l \in indexers[p].todo :
           /\ rows' = rows \cup {l}
           /\ SetIndexer(p, [indexers[p] EXCEPT !.todo = indexers[p].todo \ {l}])
    /\ UNCHANGED <<height, minedAt, executions, cursor, readers, resetting, troubles>>

\* persistLogs: one upsert, in the order of the logs.
\* (The order of logs of different executions is left open.)
PersistRow(p) ==
    /\ Persisting(p)
    /\ \E l \in indexers[p].todo :
           /\ \A k \in indexers[p].todo : ~Precedes(k, l)
           /\ rows' = rows \cup {l}
           /\ SetIndexer(p, [indexers[p] EXCEPT !.todo = indexers[p].todo \ {l}])
    /\ UNCHANGED <<height, minedAt, executions, cursor, readers, resetting, troubles>>

\* projectExec, its first statement; without events it does nothing else.
ReadEvents(p) ==
    /\ Projecting(p)
    /\ \E e \in indexers[p].execs :
           SetIndexer(p, IF RowsOf(rows, e) = {}
                         THEN [indexers[p] EXCEPT !.execs = indexers[p].execs \ {e}]
                         ELSE [indexers[p] EXCEPT !.pc = "write",
                                   !.execs = indexers[p].execs \ {e},
                                   !.projecting = e,
                                   !.projected = ReduceProjection(rows, e)])
    /\ UNCHANGED <<height, minedAt, rows, executions, cursor, readers, resetting, troubles>>

\* The process goes on to the next execution.
ProjectNext(p) ==
    SetIndexer(p, [indexers[p] EXCEPT !.pc = "window", !.projecting = NoExec,
                          !.projected = NoExecution])

\* projectExec, its second statement.
WriteProjection(p) ==
    /\ indexers[p].pc = "write"
    /\ executions' = [executions EXCEPT ![indexers[p].projecting] = indexers[p].projected]
    /\ ProjectNext(p)
    /\ UNCHANGED <<height, minedAt, rows, cursor, readers, resetting, troubles>>

\* A statement of projectExec fails; the error is swallowed.
ProjectionFails(p) ==
    /\ troubles < MaxTroubles
    /\ \/ indexers[p].pc = "write" /\ ProjectNext(p)
       \/ /\ Projecting(p)
          /\ \E e \in indexers[p].execs :
                 SetIndexer(p, [indexers[p] EXCEPT !.execs = indexers[p].execs \ {e}])
    /\ troubles' = troubles + 1
    /\ UNCHANGED <<height, minedAt, rows, executions, cursor, readers, resetting>>

\* The cursor moves to the end of the window, whatever it is by now.
AdvanceCursor(p) ==
    /\ Projecting(p) /\ indexers[p].execs = {}
    /\ cursor' = [cursor EXCEPT ![CurrentChain(p)] = indexers[p].to]
    /\ NextChain(p)
    /\ UNCHANGED <<height, minedAt, rows, executions, readers, resetting, troubles>>

\* A request or a statement fails and the chain is given up in this run: a
\* chunk only when it is a single block, the window's last statement also.
ChainFails(p) ==
    /\ \/ indexers[p].pc = "chain"
       \/ Fetching(p) /\ indexers[p].chunk = 1
       \/ Persisting(p)
       \/ Projecting(p) /\ indexers[p].execs = {}
    /\ troubles < MaxTroubles
    /\ NextChain(p)
    /\ troubles' = troubles + 1
    /\ UNCHANGED <<height, minedAt, rows, executions, cursor, readers, resetting>>

\* The process dies, or ends: runIndexerLoop does not catch an error of the
\* statements between the chains.  It is started again.
IndexerDies(p) ==
    /\ indexers[p].pc # "idle" /\ troubles < MaxTroubles
    /\ SetIndexer(p, IdleProcess)
    /\ troubles' = troubles + 1
    /\ UNCHANGED <<height, minedAt, rows, executions, cursor, readers, resetting>>

-----------------------------------------------------------------------------
\* getRescue: the projection is rebuilt, then the row is returned.

ReaderReads(r, e) ==
    /\ readers[r] = IdleReader
    /\ RowsOf(rows, e) # {}
    /\ readers' = [readers EXCEPT ![r] =
                      [exec |-> e, projected |-> ReduceProjection(rows, e)]]
    /\ UNCHANGED <<height, minedAt, rows, executions, cursor, indexers,
                   resetting, troubles>>

\* Fault: the row of an execution is inserted and never updated.
ReaderInserts(r) ==
    /\ readers[r] # IdleReader
    /\ executions' = [executions EXCEPT ![readers[r].exec] =
                         IF executions[readers[r].exec] = NoExecution
                         THEN readers[r].projected ELSE executions[readers[r].exec]]
    /\ readers' = [readers EXCEPT ![r] = IdleReader]
    /\ UNCHANGED <<height, minedAt, rows, cursor, indexers, resetting, troubles>>

ReaderWrites(r) ==
    /\ readers[r] # IdleReader
    /\ executions' = [executions EXCEPT ![readers[r].exec] = readers[r].projected]
    /\ readers' = [readers EXCEPT ![r] = IdleReader]
    /\ UNCHANGED <<height, minedAt, rows, cursor, indexers, resetting,
                   troubles>>

-----------------------------------------------------------------------------
\* resetIndexedRescueData, run by hand while no indexer runs; nothing in the
\* code enforces that.

ResetEvents ==
    /\ resetting = "none" /\ troubles < MaxTroubles
    /\ \A p \in Indexers : indexers[p] = IdleProcess
    /\ rows' = {}
    /\ resetting' = "executions"
    /\ troubles' = troubles + 1
    /\ UNCHANGED <<height, minedAt, executions, cursor, indexers, readers>>

ResetExecutions ==
    /\ resetting = "executions"
    /\ executions' = [e \in Execs |-> NoExecution]
    /\ resetting' = "cursor"
    /\ UNCHANGED <<height, minedAt, rows, cursor, indexers, readers,
                   troubles>>

\* Fault: the cursors are set to the block before the first window's.
ResetCursorBefore ==
    /\ resetting = "cursor"
    /\ cursor' = [c \in Chains |-> -1]
    /\ resetting' = "none"
    /\ UNCHANGED <<height, minedAt, rows, executions, indexers, readers, troubles>>

ResetCursor ==
    /\ resetting = "cursor"
    /\ cursor' = [c \in Chains |-> 0]
    /\ resetting' = "none"
    /\ UNCHANGED <<height, minedAt, rows, executions, indexers, readers,
                   troubles>>

-----------------------------------------------------------------------------
Reset == ResetEvents \/ ResetExecutions \/ ResetCursor

\* What an indexer does when nothing fails.
IndexerStep(p) ==
    \/ StartRun(p) \/ ChainIdle(p) \/ ChooseWindow(p)
    \/ FetchChunk(p) \/ PersistRow(p)
    \/ ReadEvents(p) \/ WriteProjection(p) \/ AdvanceCursor(p)

IndexerFault(p) ==
    ShrinkChunk(p) \/ ProjectionFails(p) \/ ChainFails(p) \/ IndexerDies(p)

ReaderStep(r) == (\E e \in Execs : ReaderReads(r, e)) \/ ReaderWrites(r)

IndexerNext ==
    \/ \E c \in Chains : MineBlock(c) \/ Reorganise(c)
    \/ \E p \in Indexers : IndexerStep(p) \/ IndexerFault(p)
    \/ \E r \in Readers : ReaderStep(r)
    \/ Reset

IndexerSpec == IndexerInit /\ [][IndexerNext]_indexerVars

\* runIndexerLoop never ends and a process that died is restarted; a reset
\* goes on to its last statement, and a request to its end.
IndexerFairSpec ==
    /\ IndexerSpec
    /\ \A p \in Indexers : WF_indexerVars(IndexerStep(p))
    /\ WF_indexerVars(ResetExecutions \/ ResetCursor)
    /\ \A r \in Readers : WF_indexerVars(ReaderWrites(r))

-----------------------------------------------------------------------------
\* Every table and process holds values of its type.
IndexerTypeOK ==
    /\ height \in [Chains -> 0..MaxBlock]
    /\ minedAt \in [Log -> 0..MaxBlock]
    /\ rows \subseteq Log
    /\ executions \in [Execs -> Statuses \cup {NoExecution}]
    /\ cursor \in [Chains -> 0..MaxBlock]
    /\ indexers \in [Indexers -> Process]
    /\ readers \in [Readers -> [exec : Execs \cup {NoExec},
                                projected : Statuses \cup {NoExecution}]]
    /\ resetting \in {"none", "executions", "cursor"}
    /\ troubles \in 0..MaxTroubles

\* No event is lost: unless a reset is under way, every log up to a chain's
\* cursor has its row, although windows overlap, fail half-way, are indexed
\* twice and in two processes, and an older run may move a cursor back.
CursorCovers ==
    resetting = "none" =>
        \A l \in Log : minedAt[l] \in 1..cursor[l.chain] => l \in rows

\* No event is invented: with at least as many confirmations as a
\* reorganisation is deep, a row's log is on the chain for good.
NoPhantomRows == \A l \in rows : Final(l)

\* Whether the chains say that an execution is over.
DoneOnChain(e) ==
    \/ Final(LogOf(e, "CrossChainCompleted"))
    \/ /\ Final(LogOf(e, "RescueCompleted"))
       /\ ~Final(LogOf(e, "CrossChainInitiated"))

FailedOnChain(e) ==
    Final(LogOf(e, "RescueFailed")) \/ Final(LogOf(e, "CrossChainDestinationFailed"))

\* What the API says of a rescue is true of the chains: it is completed only
\* when its message, if it has one, was completed at its destination, also
\* when the projection is built from half a window, during a reset or from
\* events read earlier.
StatusSound ==
    \A e \in Execs :
        /\ executions[e] = "completed" => DoneOnChain(e)
        /\ executions[e] = "failed" => FailedOnChain(e)

\* Every log in a final block gets its row, after every failure and reset.
LogsIndexed == \A l \in Log : Final(l) ~> l \in rows

\* Somebody asks for a rescue again and again.
KeptAsking(e) == \E r \in Readers : []<><<ReaderReads(r, e)>>_indexerVars

\* The status of a rescue that is asked for again and again becomes and stays
\* the one the chains say, although a request or a run may overwrite it with
\* an earlier one and the indexer does not retry a projection that failed.
StatusSettles ==
    \A e \in Execs :
        KeptAsking(e) =>
            /\ <>[](FailedOnChain(e) => executions[e] = "failed")
            /\ <>[](DoneOnChain(e) => executions[e] = "completed")
=============================================================================
