---------------------------- MODULE IndexerProofs ----------------------------
(***************************************************************************)
(* Proofs about the event indexer, for any chains, executions, processes,  *)
(* requests, window, bounds and number of failures.                        *)
(*                                                                         *)
(* First, what each step does to the record of its process; then two       *)
(* invariants:                                                             *)
(*   - IndexerInv: what a process read of the cursors is covered by the    *)
(*     rows, and what it fetched of its window by the rows and those it    *)
(*     has still to write, so that a cursor only moves over written logs;  *)
(*   - TruthInv, if a process waits for as many blocks as a reorganisation *)
(*     replaces: windows end in final blocks, so that what is fetched or   *)
(*     written is final, and an execution's end is never written before    *)
(*     the message it sent, so that every projection is true.              *)
(***************************************************************************)
EXTENDS Indexer, WellFoundedInduction, TLAPS

Working(p) == indexers[p].pc \in {"window", "write"}

\* Every log of c in the blocks up to b is among logs.
Covers(c, b, logs) ==
    \A l \in Log : l.chain = c /\ minedAt[l] \in 1..b => l \in logs

\* A process that is not idle has a chain to index.
BusyHasChain ==
    \A p \in Indexers : indexers[p].pc = "idle" <=> indexers[p].left = {}

\* The cursors a process read are no further than the rows, now or then.
SnapshotsCovered ==
    \A p \in Indexers : \A c \in indexers[p].left :
        indexers[p].snapshot[c] <= height[c] /\ Covers(c, indexers[p].snapshot[c], rows)

\* What a process fetched it has written or has still to write.
WindowsCovered ==
    \A p \in Indexers : Working(p) =>
        /\ indexers[p].at \in 1..(indexers[p].to + 1)
        /\ indexers[p].to <= height[CurrentChain(p)]
        /\ Covers(CurrentChain(p), indexers[p].at - 1, rows \cup indexers[p].todo)

\* A projection is computed when the window's rows are written.
ProjectsLast ==
    \A p \in Indexers : indexers[p].pc = "write" =>
        /\ indexers[p].at > indexers[p].to /\ indexers[p].todo = {}
        /\ indexers[p].projecting \in Execs /\ indexers[p].projected \in Statuses

\* The cursor is in a block of the chain, and a reset is alone.
CursorsMined == \A c \in Chains : cursor[c] <= height[c]

ResetAlone == resetting # "none" => \A p \in Indexers : indexers[p] = IdleProcess

\* A request holds a projection to write, or none.
ReadersWhole ==
    \A r \in Readers : readers[r] # IdleReader =>
        readers[r].exec \in Execs /\ readers[r].projected \in Statuses

IndexerInv ==
    /\ IndexerTypeOK /\ BusyHasChain /\ ProjectsLast /\ ReadersWhole
    /\ CursorsMined /\ ResetAlone
    /\ CursorCovers /\ SnapshotsCovered /\ WindowsCovered

-----------------------------------------------------------------------------
(* Numbers and records. *)

\* A set of chains has a least one.
LEMMA LeastExists ==
  ASSUME NEW S, S \subseteq Nat, S # {}
  PROVE  \E c \in S : \A d \in S : c <= d
<1>1. PICK c \in S : \A d \in S : ~ (<<d, c>> \in OpToRel(<, Nat))
  <2> HIDE DEF OpToRel
  <2> QED BY NatLessThanWellFounded, WFMin, Zenon
<1>2. \A d \in S : ~(d < c)
  BY <1>1 DEF OpToRel
<1>3. QED
  BY <1>2

LEMMA CurrentChainLeft ==
  ASSUME IndexerTypeOK, NEW p \in Indexers, indexers[p].left # {}
  PROVE  CurrentChain(p) \in indexers[p].left /\ CurrentChain(p) \in Chains
<1>1. indexers[p].left \subseteq Chains /\ Chains \subseteq Nat
  BY ExecsAssumption DEF IndexerTypeOK, Process
<1>2. \E c \in indexers[p].left : \A d \in indexers[p].left : c <= d
  BY <1>1, LeastExists
<1>3. QED
  BY <1>1, <1>2 DEF CurrentChain

\* The projection of an execution has a status.
LEMMA ProjectionType ==
  ASSUME NEW rs, NEW e
  PROVE  ReduceProjection(rs, e) \in Statuses
BY DEF ReduceProjection, ComputeStatus, Statuses

-----------------------------------------------------------------------------
(* What the steps do to a process. *)

\* p goes on to the chains left, with the cursors snapshot.
GoesOn(p, left, snapshot) ==
    /\ left \in SUBSET Chains /\ snapshot \in [Chains -> 0..MaxBlock]
    /\ indexers' = [indexers EXCEPT ![p] = AtChain(left, snapshot)]
    /\ UNCHANGED <<height, minedAt, rows, executions, readers, resetting>>

\* p stays at its chain.
Stays(p) ==
    /\ indexers' \in [Indexers -> Process]
    /\ \A q \in Indexers \ {p} : indexers'[q] = indexers[q]
    /\ indexers[p].pc # "idle" /\ indexers'[p].pc # "idle"
    /\ indexers'[p].left = indexers[p].left
    /\ indexers'[p].snapshot = indexers[p].snapshot
    /\ UNCHANGED <<height, minedAt, cursor, readers, resetting>>

\* p keeps its window.
KeepsWindow(p) ==
    /\ Stays(p) /\ Working(p) /\ Working(p)'
    /\ indexers'[p].to = indexers[p].to

LEMMA StaysAtChain ==
  ASSUME NEW p \in Indexers, Stays(p)
  PROVE  \A q \in Indexers : /\ CurrentChain(q)' = CurrentChain(q)
                             /\ indexers'[q].left = indexers[q].left
                             /\ indexers'[q].snapshot = indexers[q].snapshot
BY DEF Stays, CurrentChain

LEMMA StartRunEffect ==
  ASSUME IndexerTypeOK, NEW p \in Indexers, StartRun(p)
  PROVE  GoesOn(p, Chains, cursor) /\ cursor' = cursor
BY DEF StartRun, GoesOn, SetIndexer, IndexerTypeOK

LEMMA NextChainEffect ==
  ASSUME IndexerTypeOK, NEW p \in Indexers, ChainIdle(p) \/ ChainFails(p) \/ AdvanceCursor(p)
  PROVE  GoesOn(p, indexers[p].left \ {CurrentChain(p)}, indexers[p].snapshot)
<1>1. indexers[p].left \in SUBSET Chains /\ indexers[p].snapshot \in [Chains -> 0..MaxBlock]
  BY DEF IndexerTypeOK, Process
<1>2. NextChain(p) /\ UNCHANGED <<height, minedAt, rows, executions, readers, resetting>>
  BY DEF ChainIdle, ChainFails, AdvanceCursor
<1>3. QED
  BY <1>1, <1>2 DEF NextChain, SetIndexer, GoesOn

LEMMA IndexerDiesEffect ==
  ASSUME NEW p \in Indexers, IndexerDies(p)
  PROVE  GoesOn(p, {}, [c \in Chains |-> 0]) /\ cursor' = cursor
BY IndexerAssumption DEF IndexerDies, GoesOn, SetIndexer, IdleProcess

LEMMA ChooseWindowEffect ==
  ASSUME IndexerInv, NEW p \in Indexers, ChooseWindow(p)
  PROVE  /\ Stays(p) /\ rows' = rows /\ executions' = executions
         /\ indexers'[p].pc = "window" /\ indexers'[p].todo = indexers[p].todo
         /\ indexers'[p].at = indexers[p].snapshot[CurrentChain(p)] + 1
         /\ indexers'[p].to <= SafeLatestBlock(CurrentChain(p))
         /\ indexers'[p].at <= indexers'[p].to + 1
         /\ CurrentChain(p) \in indexers[p].left
<1> DEFINE c == CurrentChain(p)
           from == indexers[p].snapshot[c] + 1
           end == WindowEnd(c, from)
<1>1. indexers \in [Indexers -> Process] /\ indexers[p] \in Process /\ indexers[p].pc = "chain"
  BY DEF IndexerInv, IndexerTypeOK, ChooseWindow
<1>2. c \in indexers[p].left /\ c \in Chains
  BY <1>1, CurrentChainLeft DEF IndexerInv, BusyHasChain
<1>3. indexers[p].snapshot[c] \in 0..MaxBlock /\ height[c] \in 0..MaxBlock
  BY <1>1, <1>2 DEF Process, IndexerInv, IndexerTypeOK
<1>4. from <= SafeLatestBlock(c) /\ SafeLatestBlock(c) \in 0..MaxBlock
  BY <1>3, IndexerAssumption DEF ChooseWindow, SafeLatestBlock
<1>5. end \in 0..MaxBlock /\ end <= SafeLatestBlock(c) /\ from <= end + 1
  BY <1>3, <1>4, IndexerAssumption DEF WindowEnd
<1>6. from \in 0..(MaxBlock + 1) /\ BlockWindow \in 0..BlockWindow
  BY <1>3, IndexerAssumption
<1>7. /\ indexers' = [indexers EXCEPT ![p] = [indexers[p] EXCEPT !.pc = "window",
                         !.at = from, !.to = end, !.chunk = BlockWindow]]
      /\ UNCHANGED <<height, minedAt, rows, executions, cursor, readers, resetting>>
  BY DEF ChooseWindow, SetIndexer
<1> HIDE DEF from, end, c
<1>8. /\ indexers'[p] \in Process
      /\ indexers'[p].pc = "window" /\ indexers'[p].todo = indexers[p].todo
      /\ indexers'[p].at = from /\ indexers'[p].to = end
      /\ indexers'[p].left = indexers[p].left /\ indexers'[p].snapshot = indexers[p].snapshot
  BY <1>1, <1>5, <1>6, <1>7 DEF Process, Phase
<1>9. Stays(p)
  BY <1>1, <1>7, <1>8 DEF Stays
<1>10. QED
  BY <1>2, <1>5, <1>7, <1>8, <1>9 DEF c, from

LEMMA FetchChunkEffect ==
  ASSUME IndexerInv, NEW p \in Indexers, FetchChunk(p)
  PROVE  /\ KeepsWindow(p) /\ rows' = rows /\ executions' = executions
         /\ indexers'[p].pc = "window"
         /\ indexers[p].at <= indexers[p].to /\ ChunkEnd(p) <= indexers[p].to
         /\ indexers'[p].at = ChunkEnd(p) + 1 /\ ChunkEnd(p) \in Int
         /\ indexers'[p].todo = indexers[p].todo \cup LogsIn(p, indexers[p].at, ChunkEnd(p))
         /\ indexers[p].at <= ChunkEnd(p) + 1
<1> DEFINE found == LogsIn(p, indexers[p].at, ChunkEnd(p))
<1>1. indexers \in [Indexers -> Process] /\ indexers[p] \in Process
  BY DEF IndexerInv, IndexerTypeOK
<1>2. /\ ChunkEnd(p) + 1 \in 0..(MaxBlock + 1) /\ ChunkEnd(p) <= indexers[p].to
      /\ indexers[p].at <= ChunkEnd(p) + 1 /\ ChunkEnd(p) \in Int
  BY <1>1, IndexerAssumption DEF Process, ChunkEnd, FetchChunk, Fetching
<1>3. found \subseteq Log /\ {l.exec : l \in found} \subseteq Execs
  BY DEF LogsIn, Log, LogOf
<1>4. /\ indexers[p].pc = "window" /\ indexers[p].at <= indexers[p].to
      /\ indexers' = [indexers EXCEPT ![p] = [indexers[p] EXCEPT
              !.at = ChunkEnd(p) + 1,
              !.todo = indexers[p].todo \cup found,
              !.execs = indexers[p].execs \cup {l.exec : l \in found}]]
      /\ UNCHANGED <<height, minedAt, rows, executions, cursor, readers, resetting>>
  BY DEF FetchChunk, Fetching, SetIndexer
<1> HIDE DEF found
<1>5. /\ indexers'[p] \in Process
      /\ indexers'[p].pc = "window" /\ indexers'[p].to = indexers[p].to
      /\ indexers'[p].at = ChunkEnd(p) + 1 /\ indexers'[p].todo = indexers[p].todo \cup found
      /\ indexers'[p].left = indexers[p].left /\ indexers'[p].snapshot = indexers[p].snapshot
  BY <1>1, <1>2, <1>3, <1>4 DEF Process, Phase
<1>6. KeepsWindow(p)
  BY <1>1, <1>4, <1>5 DEF Stays, KeepsWindow, Working
<1>7. QED
  BY <1>2, <1>4, <1>5, <1>6 DEF found

LEMMA ShrinkChunkEffect ==
  ASSUME IndexerInv, NEW p \in Indexers, ShrinkChunk(p)
  PROVE  /\ KeepsWindow(p) /\ rows' = rows /\ executions' = executions
         /\ indexers'[p].pc = "window"
         /\ indexers'[p].at = indexers[p].at /\ indexers'[p].todo = indexers[p].todo
<1>1. indexers \in [Indexers -> Process] /\ indexers[p] \in Process
  BY DEF IndexerInv, IndexerTypeOK
<1>2. PICK size \in 1..(indexers[p].chunk - 1) :
         indexers' = [indexers EXCEPT ![p] = [indexers[p] EXCEPT !.chunk = size]]
  BY DEF ShrinkChunk, SetIndexer
<1>3. size \in 0..BlockWindow
  BY <1>1, IndexerAssumption DEF Process
<1>4. /\ indexers[p].pc = "window"
      /\ UNCHANGED <<height, minedAt, rows, executions, cursor, readers, resetting>>
  BY DEF ShrinkChunk, Fetching
<1>5. /\ indexers'[p] \in Process
      /\ indexers'[p].pc = "window" /\ indexers'[p].to = indexers[p].to
      /\ indexers'[p].at = indexers[p].at /\ indexers'[p].todo = indexers[p].todo
      /\ indexers'[p].left = indexers[p].left /\ indexers'[p].snapshot = indexers[p].snapshot
  BY <1>1, <1>2, <1>3, <1>4 DEF Process, Phase
<1>6. QED
  BY <1>1, <1>2, <1>4, <1>5 DEF Stays, KeepsWindow, Working

LEMMA PersistRowEffect ==
  ASSUME IndexerInv, NEW p \in Indexers, PersistRow(p)
  PROVE  /\ KeepsWindow(p) /\ executions' = executions
         /\ indexers'[p].pc = "window" /\ indexers'[p].at = indexers[p].at
         /\ \E l \in indexers[p].todo :
                /\ \A k \in indexers[p].todo : ~Precedes(k, l)
                /\ rows' = rows \cup {l}
                /\ indexers'[p].todo = indexers[p].todo \ {l}
<1>1. indexers \in [Indexers -> Process] /\ indexers[p] \in Process
  BY DEF IndexerInv, IndexerTypeOK
<1>2. PICK l \in indexers[p].todo :
         /\ \A k \in indexers[p].todo : ~Precedes(k, l)
         /\ rows' = rows \cup {l}
         /\ indexers' = [indexers EXCEPT ![p] =
                            [indexers[p] EXCEPT !.todo = indexers[p].todo \ {l}]]
  BY DEF PersistRow, SetIndexer
<1>3. /\ indexers[p].pc = "window"
      /\ UNCHANGED <<height, minedAt, executions, cursor, readers, resetting>>
  BY DEF PersistRow, Persisting
<1>4. /\ indexers'[p] \in Process
      /\ indexers'[p].pc = "window" /\ indexers'[p].to = indexers[p].to
      /\ indexers'[p].at = indexers[p].at /\ indexers'[p].todo = indexers[p].todo \ {l}
      /\ indexers'[p].left = indexers[p].left /\ indexers'[p].snapshot = indexers[p].snapshot
  BY <1>1, <1>2, <1>3 DEF Process, Phase
<1>5. QED
  BY <1>1, <1>2, <1>3, <1>4 DEF Stays, KeepsWindow, Working

LEMMA ReadEventsEffect ==
  ASSUME IndexerInv, NEW p \in Indexers, ReadEvents(p)
  PROVE  /\ KeepsWindow(p) /\ rows' = rows /\ executions' = executions
         /\ indexers'[p].at = indexers[p].at /\ indexers'[p].todo = indexers[p].todo
         /\ indexers'[p].pc = "write" =>
                /\ indexers[p].at > indexers[p].to /\ indexers[p].todo = {}
                /\ indexers'[p].projecting \in Execs
                /\ indexers'[p].projected = ReduceProjection(rows, indexers'[p].projecting)
<1>1. indexers \in [Indexers -> Process] /\ indexers[p] \in Process
  BY DEF IndexerInv, IndexerTypeOK
<1>2. /\ indexers[p].pc = "window" /\ indexers[p].at > indexers[p].to /\ indexers[p].todo = {}
      /\ UNCHANGED <<height, minedAt, rows, executions, cursor, readers, resetting>>
  BY DEF ReadEvents, Projecting
<1>3. PICK e \in indexers[p].execs :
         \/ indexers' = [indexers EXCEPT ![p] =
                            [indexers[p] EXCEPT !.execs = indexers[p].execs \ {e}]]
         \/ indexers' = [indexers EXCEPT ![p] =
                            [indexers[p] EXCEPT !.pc = "write",
                                   !.execs = indexers[p].execs \ {e},
                                   !.projecting = e,
                                   !.projected = ReduceProjection(rows, e)]]
  BY DEF ReadEvents, SetIndexer
<1> DEFINE status == ReduceProjection(rows, e)
<1>4. e \in Execs /\ status \in Statuses
  BY <1>1, ProjectionType DEF Process
<1>5. CASE indexers' = [indexers EXCEPT ![p] =
                            [indexers[p] EXCEPT !.execs = indexers[p].execs \ {e}]]
  <2>1. /\ indexers'[p] \in Process
        /\ indexers'[p].pc = "window" /\ indexers'[p].to = indexers[p].to
        /\ indexers'[p].at = indexers[p].at /\ indexers'[p].todo = indexers[p].todo
        /\ indexers'[p].left = indexers[p].left
        /\ indexers'[p].snapshot = indexers[p].snapshot
    BY <1>1, <1>2, <1>5 DEF Process, Phase
  <2>2. QED
    BY <1>1, <1>2, <1>5, <2>1 DEF Stays, KeepsWindow, Working
<1>6. CASE indexers' = [indexers EXCEPT ![p] =
                            [indexers[p] EXCEPT !.pc = "write",
                                   !.execs = indexers[p].execs \ {e},
                                   !.projecting = e,
                                   !.projected = status]]
  <2> HIDE DEF status
  <2>1. /\ indexers'[p] \in Process
        /\ indexers'[p].pc = "write" /\ indexers'[p].to = indexers[p].to
        /\ indexers'[p].projecting = e /\ indexers'[p].projected = status
        /\ indexers'[p].at = indexers[p].at /\ indexers'[p].todo = indexers[p].todo
        /\ indexers'[p].left = indexers[p].left
        /\ indexers'[p].snapshot = indexers[p].snapshot
    BY <1>1, <1>2, <1>4, <1>6 DEF Process, Phase
  <2>2. KeepsWindow(p)
    BY <1>1, <1>2, <1>6, <2>1 DEF Stays, KeepsWindow, Working
  <2>3. QED
    BY <1>2, <1>4, <2>1, <2>2 DEF status
<1>7. QED
  BY <1>3, <1>5, <1>6

LEMMA ProjectNextEffect ==
  ASSUME IndexerInv, NEW p \in Indexers, ProjectNext(p), indexers[p].pc = "write",
         UNCHANGED <<height, minedAt, rows, cursor, readers, resetting>>
  PROVE  /\ KeepsWindow(p) /\ indexers'[p].pc = "window"
         /\ indexers'[p].at = indexers[p].at /\ indexers'[p].todo = indexers[p].todo
<1>1. indexers \in [Indexers -> Process] /\ indexers[p] \in Process
  BY DEF IndexerInv, IndexerTypeOK
<1>2. indexers' = [indexers EXCEPT ![p] = [indexers[p] EXCEPT !.pc = "window",
                      !.projecting = NoExec, !.projected = NoExecution]]
  BY DEF ProjectNext, SetIndexer
<1>3. /\ indexers'[p] \in Process
      /\ indexers'[p].pc = "window" /\ indexers'[p].to = indexers[p].to
      /\ indexers'[p].at = indexers[p].at /\ indexers'[p].todo = indexers[p].todo
      /\ indexers'[p].left = indexers[p].left /\ indexers'[p].snapshot = indexers[p].snapshot
  BY <1>1, <1>2 DEF Process, Phase
<1>4. QED
  BY <1>1, <1>2, <1>3 DEF Stays, KeepsWindow, Working

LEMMA ProjectionFailsEffect ==
  ASSUME IndexerInv, NEW p \in Indexers, ProjectionFails(p)
  PROVE  /\ KeepsWindow(p) /\ rows' = rows /\ executions' = executions
         /\ indexers'[p].pc = "window"
         /\ indexers'[p].at = indexers[p].at /\ indexers'[p].todo = indexers[p].todo
<1>1. UNCHANGED <<height, minedAt, rows, executions, cursor, readers, resetting>>
  BY DEF ProjectionFails
<1>2. CASE indexers[p].pc = "write" /\ ProjectNext(p)
  BY <1>1, <1>2, ProjectNextEffect
<1>3. CASE Projecting(p) /\ \E e \in indexers[p].execs :
              SetIndexer(p, [indexers[p] EXCEPT !.execs = indexers[p].execs \ {e}])
  <2>1. indexers \in [Indexers -> Process] /\ indexers[p] \in Process
    BY DEF IndexerInv, IndexerTypeOK
  <2>2. PICK e \in indexers[p].execs :
           indexers' = [indexers EXCEPT ![p] =
                           [indexers[p] EXCEPT !.execs = indexers[p].execs \ {e}]]
    BY <1>3 DEF SetIndexer
  <2>3. /\ indexers'[p] \in Process
        /\ indexers[p].pc = "window" /\ indexers'[p].pc = "window"
        /\ indexers'[p].to = indexers[p].to
        /\ indexers'[p].at = indexers[p].at /\ indexers'[p].todo = indexers[p].todo
        /\ indexers'[p].left = indexers[p].left
        /\ indexers'[p].snapshot = indexers[p].snapshot
    BY <1>3, <2>1, <2>2 DEF Process, Phase, Projecting
  <2>4. QED
    BY <1>1, <2>1, <2>2, <2>3 DEF Stays, KeepsWindow, Working
<1>4. QED
  BY <1>2, <1>3 DEF ProjectionFails

LEMMA WriteProjectionEffect ==
  ASSUME IndexerInv, NEW p \in Indexers, WriteProjection(p)
  PROVE  /\ KeepsWindow(p) /\ rows' = rows
         /\ indexers'[p].pc = "window"
         /\ indexers'[p].at = indexers[p].at /\ indexers'[p].todo = indexers[p].todo
         /\ indexers[p].pc = "write"
         /\ indexers[p].projecting \in Execs /\ indexers[p].projected \in Statuses
         /\ executions' = [executions EXCEPT ![indexers[p].projecting] = indexers[p].projected]
BY ProjectNextEffect DEF WriteProjection, IndexerInv, ProjectsLast

-----------------------------------------------------------------------------
(* No event is lost. *)

\* The part of the invariant that is about the processes.
ProcessInv == BusyHasChain /\ ProjectsLast /\ SnapshotsCovered /\ WindowsCovered

\* Going on to other chains keeps it if their cursors are covered.
LEMMA GoesOnCovered ==
  ASSUME IndexerInv, NEW p \in Indexers, NEW left, NEW snapshot, GoesOn(p, left, snapshot),
         \A c \in left : snapshot[c] <= height[c] /\ Covers(c, snapshot[c], rows)
  PROVE  ProcessInv' /\ indexers' \in [Indexers -> Process]
<1> DEFINE record == AtChain(left, snapshot)
<1>1. /\ record \in Process
      /\ record.pc = "idle" <=> left = {}
      /\ record.pc \in {"idle", "chain"}
      /\ record.left = left
      /\ \A c \in left : record.snapshot[c] = snapshot[c]
  <2>1. left \in SUBSET Chains /\ snapshot \in [Chains -> 0..MaxBlock]
    BY DEF GoesOn
  <2>2. QED
    BY <2>1, IndexerAssumption DEF AtChain, Process, Phase
<1>2. /\ indexers' = [indexers EXCEPT ![p] = record]
      /\ height' = height /\ minedAt' = minedAt /\ rows' = rows
  BY DEF GoesOn
<1> HIDE DEF record
<1>3. indexers \in [Indexers -> Process] /\ indexers' \in [Indexers -> Process]
  BY <1>1, <1>2 DEF IndexerInv, IndexerTypeOK
<1>4. indexers'[p] = record /\ \A q \in Indexers \ {p} : indexers'[q] = indexers[q]
  BY <1>2, <1>3
<1>5. BusyHasChain'
  BY <1>1, <1>4 DEF IndexerInv, BusyHasChain
<1>6. ProjectsLast'
  BY <1>1, <1>4 DEF IndexerInv, ProjectsLast
<1>7. SnapshotsCovered'
  <2> SUFFICES ASSUME NEW q \in Indexers, NEW c \in indexers'[q].left
               PROVE  indexers'[q].snapshot[c] <= height[c]
                      /\ Covers(c, indexers'[q].snapshot[c], rows)
    BY <1>2 DEF SnapshotsCovered, Covers
  <2>1. CASE q = p
    BY <1>1, <1>4, <2>1
  <2>2. CASE q # p
    BY <1>4, <2>2 DEF IndexerInv, SnapshotsCovered
  <2>3. QED
    BY <2>1, <2>2
<1>8. WindowsCovered'
  <2> SUFFICES ASSUME NEW q \in Indexers, Working(q)'
               PROVE  /\ indexers'[q].at \in 1..(indexers'[q].to + 1)
                      /\ indexers'[q].to <= height[CurrentChain(q)']
                      /\ Covers(CurrentChain(q)', indexers'[q].at - 1,
                                rows \cup indexers'[q].todo)
    BY <1>2 DEF WindowsCovered, Covers
  <2>1. q # p
    BY <1>1, <1>4 DEF Working
  <2>2. indexers'[q] = indexers[q] /\ CurrentChain(q)' = CurrentChain(q) /\ Working(q)
    BY <1>4, <2>1 DEF CurrentChain, Working
  <2>3. QED
    BY <2>2 DEF IndexerInv, WindowsCovered
<1>9. QED
  BY <1>3, <1>5, <1>6, <1>7, <1>8 DEF ProcessInv

\* Staying at a chain keeps it if the window is covered and no row is lost.
LEMMA StaysCovered ==
  ASSUME IndexerInv, NEW p \in Indexers, Stays(p), rows \subseteq rows',
         Working(p)' => /\ indexers'[p].at \in 1..(indexers'[p].to + 1)
                        /\ indexers'[p].to <= height[CurrentChain(p)]
                        /\ Covers(CurrentChain(p), indexers'[p].at - 1,
                                  rows' \cup indexers'[p].todo),
         indexers'[p].pc = "write" =>
            /\ indexers'[p].at > indexers'[p].to /\ indexers'[p].todo = {}
            /\ indexers'[p].projecting \in Execs /\ indexers'[p].projected \in Statuses
  PROVE  ProcessInv'
<1>1. /\ \A q \in Indexers \ {p} : indexers'[q] = indexers[q]
      /\ indexers[p].pc # "idle" /\ indexers'[p].pc # "idle"
      /\ height' = height /\ minedAt' = minedAt
  BY DEF Stays
<1>2. \A q \in Indexers : /\ CurrentChain(q)' = CurrentChain(q)
                          /\ indexers'[q].left = indexers[q].left
                          /\ indexers'[q].snapshot = indexers[q].snapshot
  BY StaysAtChain
<1>3. BusyHasChain'
  BY <1>1, <1>2 DEF IndexerInv, BusyHasChain
<1>4. ProjectsLast'
  BY <1>1 DEF IndexerInv, ProjectsLast
<1>5. SnapshotsCovered'
  BY <1>1, <1>2 DEF IndexerInv, SnapshotsCovered, Covers
<1>6. WindowsCovered'
  <2> SUFFICES ASSUME NEW q \in Indexers, Working(q)'
               PROVE  /\ indexers'[q].at \in 1..(indexers'[q].to + 1)
                      /\ indexers'[q].to <= height[CurrentChain(q)]
                      /\ Covers(CurrentChain(q), indexers'[q].at - 1,
                                rows' \cup indexers'[q].todo)
    BY <1>1, <1>2 DEF WindowsCovered, Covers
  <2>1. CASE q = p
    BY <2>1
  <2>2. CASE q # p
    <3>1. indexers'[q] = indexers[q] /\ Working(q)
      BY <1>1, <2>2 DEF Working
    <3>2. QED
      BY <3>1 DEF IndexerInv, WindowsCovered, Covers
  <2>3. QED
    BY <2>1, <2>2
<1>7. QED
  BY <1>3, <1>4, <1>5, <1>6 DEF ProcessInv

\* The steps of a process.
LEMMA ProcessStepCovered ==
  ASSUME IndexerInv, NEW p \in Indexers, IndexerStep(p) \/ IndexerFault(p)
  PROVE  ProcessInv' /\ indexers' \in [Indexers -> Process]
<1>1. CASE StartRun(p)
  <2>1. resetting = "none"
    BY <1>1 DEF StartRun
  <2>2. \A c \in Chains : cursor[c] <= height[c] /\ Covers(c, cursor[c], rows)
    BY <2>1 DEF IndexerInv, CursorsMined, CursorCovers, Covers
  <2>3. QED
    BY <1>1, <2>2, StartRunEffect, GoesOnCovered DEF IndexerInv
<1>2. CASE ChainIdle(p) \/ ChainFails(p) \/ AdvanceCursor(p)
  <2>1. GoesOn(p, indexers[p].left \ {CurrentChain(p)}, indexers[p].snapshot)
    BY <1>2, NextChainEffect DEF IndexerInv
  <2>2. QED
    BY <2>1, GoesOnCovered DEF IndexerInv, SnapshotsCovered
<1>3. CASE IndexerDies(p)
  <2>1. GoesOn(p, {}, [c \in Chains |-> 0])
    BY <1>3, IndexerDiesEffect
  <2>2. QED
    BY <2>1, GoesOnCovered
<1>4. CASE ChooseWindow(p)
  <2> DEFINE c == CurrentChain(p)
  <2>1. /\ Stays(p) /\ rows' = rows /\ indexers'[p].pc = "window"
        /\ indexers'[p].at = indexers[p].snapshot[c] + 1
        /\ indexers'[p].to <= SafeLatestBlock(c)
        /\ indexers'[p].at <= indexers'[p].to + 1
        /\ c \in indexers[p].left
    BY <1>4, ChooseWindowEffect
  <2>2. c \in Chains /\ height[c] \in Nat /\ indexers[p].snapshot[c] \in Nat
        /\ indexers'[p].to \in Nat
    BY <2>1 DEF IndexerInv, IndexerTypeOK, Process, Stays
  <2>3. indexers'[p].to <= height[c]
    BY <2>1, <2>2, IndexerAssumption DEF SafeLatestBlock
  <2>4. Covers(c, indexers[p].snapshot[c], rows)
    BY <2>1 DEF IndexerInv, SnapshotsCovered
  <2>5. Covers(c, indexers'[p].at - 1, rows' \cup indexers'[p].todo)
    BY <2>1, <2>2, <2>4 DEF Covers
  <2>6. indexers'[p].at \in 1..(indexers'[p].to + 1)
    BY <2>1, <2>2
  <2>7. rows \subseteq rows' /\ indexers'[p].pc # "write"
    BY <2>1
  <2> HIDE DEF c
  <2>8. ProcessInv'
    BY <2>1, <2>3, <2>5, <2>6, <2>7, StaysCovered, Zenon DEF c
  <2>9. QED
    BY <2>1, <2>8 DEF Stays
<1>5. CASE FetchChunk(p)
  <2> DEFINE c == CurrentChain(p)
             end == ChunkEnd(p)
  <2>1. /\ Stays(p) /\ Working(p) /\ rows' = rows /\ indexers'[p].to = indexers[p].to
        /\ indexers'[p].pc = "window"
        /\ indexers[p].at <= indexers[p].to /\ end <= indexers[p].to
        /\ indexers'[p].at = end + 1 /\ end \in Int
        /\ indexers'[p].todo = indexers[p].todo \cup LogsIn(p, indexers[p].at, end)
        /\ indexers[p].at <= end + 1
    BY <1>5, FetchChunkEffect DEF KeepsWindow
  <2>2. /\ indexers[p].at \in Nat \ {0} /\ indexers[p].to \in Nat
        /\ indexers[p].to <= height[c]
        /\ Covers(c, indexers[p].at - 1, rows \cup indexers[p].todo)
    <3>1. indexers[p] \in Process
      BY DEF IndexerInv, IndexerTypeOK
    <3>2. /\ indexers[p].at \in 1..(indexers[p].to + 1) /\ indexers[p].to <= height[c]
          /\ Covers(c, indexers[p].at - 1, rows \cup indexers[p].todo)
      BY <2>1 DEF IndexerInv, WindowsCovered
    <3>3. QED
      BY <3>1, <3>2 DEF Process
  <2>3. Covers(c, end, rows \cup indexers'[p].todo)
    <3> SUFFICES ASSUME NEW l \in Log, l.chain = c, minedAt[l] \in 1..end,
                        l \notin rows \cup indexers[p].todo
                 PROVE  l \in LogsIn(p, indexers[p].at, end)
      BY <2>1 DEF Covers
    <3>1. minedAt[l] \in Nat /\ ~ (minedAt[l] \in 1..(indexers[p].at - 1))
      BY <2>2 DEF Covers
    <3>2. minedAt[l] \in indexers[p].at..end
      BY <2>1, <2>2, <3>1
    <3>3. QED
      BY <3>2 DEF LogsIn
  <2> HIDE DEF end
  <2>4. /\ indexers'[p].at - 1 = end /\ indexers'[p].at \in 1..(indexers'[p].to + 1)
        /\ indexers'[p].to <= height[c]
    BY <2>1, <2>2
  <2>5. Covers(c, indexers'[p].at - 1, rows' \cup indexers'[p].todo)
    BY <2>1, <2>3, <2>4
  <2>6. rows \subseteq rows' /\ indexers'[p].pc # "write"
    BY <2>1
  <2>7. ProcessInv'
    BY <2>1, <2>4, <2>5, <2>6, StaysCovered, Zenon
  <2>8. QED
    BY <2>1, <2>7 DEF Stays
<1>6. CASE ShrinkChunk(p) \/ ProjectionFails(p) \/ WriteProjection(p) \/ ReadEvents(p)
  <2>1. /\ KeepsWindow(p) /\ rows' = rows
        /\ indexers'[p].at = indexers[p].at /\ indexers'[p].todo = indexers[p].todo
        /\ indexers'[p].pc = "write" =>
                /\ indexers[p].at > indexers[p].to /\ indexers[p].todo = {}
                /\ indexers'[p].projecting \in Execs /\ indexers'[p].projected \in Statuses
    BY <1>6, ShrinkChunkEffect, ProjectionFailsEffect, WriteProjectionEffect,
       ReadEventsEffect, ProjectionType
  <2>2. QED
    BY <2>1, StaysCovered DEF KeepsWindow, Stays, IndexerInv, WindowsCovered
<1>7. CASE PersistRow(p)
  <2>1. /\ KeepsWindow(p)
        /\ indexers'[p].pc = "window" /\ indexers'[p].at = indexers[p].at
        /\ \E l \in indexers[p].todo :
               /\ rows' = rows \cup {l}
               /\ indexers'[p].todo = indexers[p].todo \ {l}
    BY <1>7, PersistRowEffect
  <2>2. rows \subseteq rows' /\ rows \cup indexers[p].todo \subseteq rows' \cup indexers'[p].todo
    BY <2>1
  <2>3. QED
    BY <2>1, <2>2, StaysCovered DEF KeepsWindow, Stays, IndexerInv, WindowsCovered, Covers
<1>8. QED
  BY <1>1, <1>2, <1>3, <1>4, <1>5, <1>6, <1>7 DEF IndexerStep, IndexerFault

\* What a process's step does to the rest.
LEMMA ProcessStepInv ==
  ASSUME IndexerInv, NEW p \in Indexers, IndexerStep(p) \/ IndexerFault(p)
  PROVE  IndexerInv'
<1>1. ProcessInv' /\ indexers' \in [Indexers -> Process]
  BY ProcessStepCovered
<1>2. UNCHANGED <<height, minedAt, readers, resetting>>
  BY DEF IndexerStep, IndexerFault, StartRun, ChainIdle, ChooseWindow, FetchChunk, PersistRow,
     ReadEvents, WriteProjection, AdvanceCursor, ShrinkChunk, ProjectionFails, ChainFails,
     IndexerDies
<1>3. resetting = "none"
  <2>1. StartRun(p) \/ indexers[p].pc # "idle"
    BY DEF IndexerStep, IndexerFault, ChainIdle, ChooseWindow, FetchChunk, PersistRow,
       ReadEvents, WriteProjection, AdvanceCursor, ShrinkChunk, ProjectionFails, ChainFails,
       IndexerDies, Fetching, Persisting, Projecting
  <2>2. IdleProcess.pc = "idle"
    BY DEF IdleProcess, AtChain
  <2>3. QED
    BY <2>1, <2>2, SMTT(30) DEF StartRun, IndexerInv, ResetAlone
<1>4. rows \subseteq rows' /\ rows' \subseteq Log
  <2>1. \A l \in indexers[p].todo : l \in Log
    BY DEF IndexerInv, IndexerTypeOK, Process
  <2>2. QED
    BY <2>1 DEF IndexerStep, IndexerFault, StartRun, ChainIdle, ChooseWindow, FetchChunk,
       PersistRow, ReadEvents, WriteProjection, AdvanceCursor, ShrinkChunk, ProjectionFails,
       ChainFails, IndexerDies, IndexerInv, IndexerTypeOK
<1>5. executions' \in [Execs -> Statuses \cup {NoExecution}]
  <2>1. CASE WriteProjection(p)
    BY <2>1, WriteProjectionEffect DEF IndexerInv, IndexerTypeOK
  <2>2. CASE ~WriteProjection(p)
    BY <2>2 DEF IndexerStep, IndexerFault, StartRun, ChainIdle, ChooseWindow, FetchChunk,
       PersistRow, ReadEvents, AdvanceCursor, ShrinkChunk, ProjectionFails,
       ChainFails, IndexerDies, IndexerInv, IndexerTypeOK
  <2>3. QED
    BY <2>1, <2>2
<1>6. troubles' \in 0..MaxTroubles
  <2>1. troubles' = troubles \/ (troubles < MaxTroubles /\ troubles' = troubles + 1)
    BY DEF IndexerStep, IndexerFault, StartRun, ChainIdle, ChooseWindow, FetchChunk, PersistRow,
       ReadEvents, WriteProjection, AdvanceCursor, ShrinkChunk, ProjectionFails, ChainFails,
       IndexerDies
  <2>2. troubles \in 0..MaxTroubles
    BY DEF IndexerInv, IndexerTypeOK
  <2>3. QED
    BY <2>1, <2>2, IndexerAssumption
<1>7. /\ cursor' \in [Chains -> 0..MaxBlock]
      /\ \A c \in Chains : cursor'[c] <= height[c]
      /\ \A l \in Log : minedAt[l] \in 1..cursor'[l.chain] => l \in rows
  <2>1. CASE AdvanceCursor(p)
    <3> DEFINE c == CurrentChain(p)
               to == indexers[p].to
    <3>1. /\ indexers[p].pc = "window" /\ indexers[p].at > to /\ indexers[p].todo = {}
          /\ cursor' = [cursor EXCEPT ![c] = to]
      BY <2>1 DEF AdvanceCursor, Projecting
    <3>2. indexers[p] \in Process /\ cursor \in [Chains -> 0..MaxBlock]
      BY DEF IndexerInv, IndexerTypeOK
    <3>3. c \in Chains
      BY <3>1, CurrentChainLeft DEF IndexerInv, BusyHasChain
    <3>4. /\ indexers[p].at \in 1..(to + 1) /\ to <= height[c]
          /\ Covers(c, indexers[p].at - 1, rows \cup indexers[p].todo)
      BY <3>1 DEF IndexerInv, WindowsCovered, Working
    <3>5. to \in 0..MaxBlock /\ indexers[p].at - 1 = to
      BY <3>1, <3>2, <3>4 DEF Process
    <3>6. \A l \in Log : l.chain = c /\ minedAt[l] \in 1..to => l \in rows
      BY <3>1, <3>4, <3>5 DEF Covers
    <3>7. \A l \in Log : l.chain # c /\ minedAt[l] \in 1..cursor[l.chain] => l \in rows
      BY <1>3 DEF IndexerInv, CursorCovers
    <3>8. cursor' \in [Chains -> 0..MaxBlock] /\ \A d \in Chains : cursor'[d] <= height[d]
      BY <3>1, <3>2, <3>4, <3>5 DEF IndexerInv, CursorsMined
    <3>9. /\ cursor'[c] = to
          /\ \A d \in Chains \ {c} : cursor'[d] = cursor[d]
          /\ \A l \in Log : l.chain \in Chains
      BY <3>1, <3>2, <3>3, ExecsAssumption DEF Log, LogOf
    <3>10. QED
      BY <3>6, <3>7, <3>8, <3>9
  <2>2. CASE ~AdvanceCursor(p)
    <3>1. cursor' = cursor
      BY <2>2 DEF IndexerStep, IndexerFault, StartRun, ChainIdle, ChooseWindow, FetchChunk,
         PersistRow, ReadEvents, WriteProjection, ShrinkChunk, ProjectionFails, ChainFails,
         IndexerDies
    <3>2. QED
      BY <1>3, <3>1 DEF IndexerInv, IndexerTypeOK, CursorsMined, CursorCovers
  <2>3. QED
    BY <2>1, <2>2
<1>8. CursorsMined' /\ CursorCovers' /\ ResetAlone' /\ ReadersWhole'
  BY <1>2, <1>3, <1>4, <1>7 DEF IndexerInv, CursorsMined, CursorCovers, ResetAlone, ReadersWhole
<1>9. IndexerTypeOK'
  BY <1>1, <1>2, <1>4, <1>5, <1>6, <1>7 DEF IndexerInv, IndexerTypeOK
<1>10. QED
  BY <1>1, <1>8, <1>9 DEF IndexerInv, ProcessInv

\* A transaction is of one execution, on the execution's source chain, where
\* it has not run, or on its destination, where its message has not ended.
LEMMA TransactionKinds ==
  ASSUME NEW c \in Chains, NEW logs \in Transactions(c)
  PROVE  \E e \in Execs :
            \/ /\ c = Source[e] /\ minedAt[LogOf(e, "RescueInitiated")] = 0
               /\ LogOf(e, "RescueInitiated") \in logs
               /\ logs \subseteq {LogOf(e, event) : event \in SourceEvents}
            \/ /\ c = Destination[e]
               /\ \A event \in DestinationEvents : minedAt[LogOf(e, event)] = 0
               /\ \E event \in DestinationEvents : logs = {LogOf(e, event)}
<1> DEFINE onSource(e) ==
              {{LogOf(e, "RescueInitiated"), LogOf(e, "RescueFailed")},
               {LogOf(e, "RescueInitiated"), LogOf(e, "RescueCompleted")} \cup
               (IF e \in CrossChain THEN {LogOf(e, "CrossChainInitiated")} ELSE {})}
           onDestination(e) == {{LogOf(e, event)} : event \in DestinationEvents}
<1>1. PICK e \in Execs :
         \/ /\ c = Source[e] /\ minedAt[LogOf(e, "RescueInitiated")] = 0
            /\ logs \in onSource(e)
         \/ /\ c = Destination[e]
            /\ \A event \in DestinationEvents : minedAt[LogOf(e, event)] = 0
            /\ logs \in onDestination(e)
  BY DEF Transactions
<1>2. logs \in onSource(e) =>
         /\ LogOf(e, "RescueInitiated") \in logs
         /\ logs \subseteq {LogOf(e, event) : event \in SourceEvents}
  BY DEF SourceEvents
<1>3. QED
  BY <1>1, <1>2

\* What happens on the chains: a log gets a new block, or none.
LEMMA ChainsEffect ==
  ASSUME IndexerTypeOK, NEW c \in Chains, MineBlock(c) \/ Reorganise(c)
  PROVE  /\ height' \in [Chains -> 0..MaxBlock] /\ \A d \in Chains : height[d] <= height'[d]
         /\ minedAt' \in [Log -> 0..MaxBlock]
         /\ \A l \in Log : minedAt'[l] \in {0, minedAt[l], height[l.chain] + 1}
         /\ troubles' \in 0..MaxTroubles
         /\ UNCHANGED <<rows, executions, cursor, indexers, readers, resetting>>
<1>1. \A d \in Chains : height[d] \in 0..MaxBlock
  BY DEF IndexerTypeOK
<1>2. \A l \in Log : minedAt[l] \in 0..MaxBlock
  BY DEF IndexerTypeOK
<1>3. CASE MineBlock(c)
  <2>1. PICK logs \in Transactions(c) \cup {{}} :
           minedAt' = [l \in Log |-> IF l \in logs THEN height[c] + 1 ELSE minedAt[l]]
    BY <1>3 DEF MineBlock
  <2>2. \A l \in logs : l.chain = c
    <3>1. \A e \in Execs : /\ \A event \in SourceEvents : LogOf(e, event).chain = Source[e]
                          /\ \A event \in DestinationEvents :
                                LogOf(e, event).chain = Destination[e]
      BY DEF LogOf, SourceEvents, DestinationEvents
    <3>2. QED
      BY <2>1, <3>1, TransactionKinds
  <2>3. /\ height[c] < MaxBlock /\ height' = [height EXCEPT ![c] = height[c] + 1]
        /\ UNCHANGED <<rows, executions, cursor, indexers, readers, resetting, troubles>>
    BY <1>3 DEF MineBlock
  <2>4. height[c] + 1 \in 0..MaxBlock
    BY <1>1, <2>3, IndexerAssumption
  <2>5. QED
    BY <1>1, <1>2, <2>1, <2>2, <2>3, <2>4 DEF IndexerTypeOK
<1>4. CASE Reorganise(c)
  <2>1. PICK k \in FinalBlock(c)..(height[c] - 1) :
           minedAt' = [l \in Log |-> IF l.chain = c /\ minedAt[l] > k THEN 0 ELSE minedAt[l]]
    BY <1>4 DEF Reorganise
  <2>2. /\ troubles < MaxTroubles /\ troubles' = troubles + 1
        /\ UNCHANGED <<height, rows, executions, cursor, indexers, readers, resetting>>
    BY <1>4 DEF Reorganise
  <2>3. QED
    BY <1>1, <1>2, <2>1, <2>2, IndexerAssumption DEF IndexerTypeOK
<1>5. QED
  BY <1>3, <1>4

LEMMA ChainsInv ==
  ASSUME IndexerInv, NEW c \in Chains, MineBlock(c) \/ Reorganise(c)
  PROVE  IndexerInv'
<1>1. /\ height' \in [Chains -> 0..MaxBlock] /\ \A d \in Chains : height[d] <= height'[d]
      /\ minedAt' \in [Log -> 0..MaxBlock]
      /\ \A l \in Log : minedAt'[l] \in {0, minedAt[l], height[l.chain] + 1}
      /\ troubles' \in 0..MaxTroubles
      /\ UNCHANGED <<rows, executions, cursor, indexers, readers, resetting>>
  BY ChainsEffect DEF IndexerInv
<1>2. \A d \in Chains : height[d] \in Nat /\ height'[d] \in Nat
  BY <1>1 DEF IndexerInv, IndexerTypeOK
<1>3. \A l \in Log : l.chain \in Chains
  BY ExecsAssumption DEF Log, LogOf
<1>4. \A d \in Chains : \A b \in Int : \A logs :
         b <= height[d] /\ Covers(d, b, logs) =>
             \A l \in Log : l.chain = d /\ minedAt'[l] \in 1..b => l \in logs
  BY <1>1, <1>2, <1>3 DEF Covers
<1>5. IndexerTypeOK'
  BY <1>1 DEF IndexerInv, IndexerTypeOK
<1>6. BusyHasChain' /\ ProjectsLast' /\ ReadersWhole' /\ ResetAlone'
  BY <1>1 DEF IndexerInv, BusyHasChain, ProjectsLast, ReadersWhole, ResetAlone
<1>7. CursorsMined'
  BY <1>1, <1>2 DEF IndexerInv, IndexerTypeOK, CursorsMined
<1>8. CursorCovers'
  BY <1>1, <1>2, <1>3 DEF IndexerInv, IndexerTypeOK, CursorsMined, CursorCovers
<1>9. SnapshotsCovered'
  <2> SUFFICES ASSUME NEW p \in Indexers, NEW d \in indexers[p].left
               PROVE  /\ indexers[p].snapshot[d] <= height'[d]
                      /\ \A l \in Log :
                             l.chain = d /\ minedAt'[l] \in 1..indexers[p].snapshot[d]
                                 => l \in rows
    BY <1>1 DEF SnapshotsCovered, Covers
  <2>1. d \in Chains /\ indexers[p].snapshot[d] \in Nat
    BY DEF IndexerInv, IndexerTypeOK, Process
  <2>2. indexers[p].snapshot[d] <= height[d] /\ Covers(d, indexers[p].snapshot[d], rows)
    BY DEF IndexerInv, SnapshotsCovered
  <2>3. QED
    BY <1>1, <1>2, <1>4, <2>1, <2>2
<1>10. WindowsCovered'
  <2> SUFFICES ASSUME NEW p \in Indexers, Working(p)
               PROVE  /\ indexers[p].at \in 1..(indexers[p].to + 1)
                      /\ indexers[p].to <= height'[CurrentChain(p)]
                      /\ \A l \in Log :
                             l.chain = CurrentChain(p) /\ minedAt'[l] \in 1..(indexers[p].at - 1)
                                 => l \in rows \cup indexers[p].todo
    BY <1>1 DEF WindowsCovered, Covers, CurrentChain, Working
  <2>1. indexers[p] \in Process /\ CurrentChain(p) \in Chains
    BY CurrentChainLeft DEF IndexerInv, IndexerTypeOK, BusyHasChain, Working
  <2>2. /\ indexers[p].at \in 1..(indexers[p].to + 1)
        /\ indexers[p].to <= height[CurrentChain(p)]
        /\ Covers(CurrentChain(p), indexers[p].at - 1, rows \cup indexers[p].todo)
    BY DEF IndexerInv, WindowsCovered
  <2>3. indexers[p].at - 1 \in Int /\ indexers[p].at - 1 <= height[CurrentChain(p)]
        /\ indexers[p].to <= height'[CurrentChain(p)]
    BY <1>1, <1>2, <2>1, <2>2 DEF Process
  <2>4. QED
    BY <1>4, <2>1, <2>2, <2>3
<1>11. QED
  BY <1>5, <1>6, <1>7, <1>8, <1>9, <1>10 DEF IndexerInv

LEMMA ReaderInv ==
  ASSUME IndexerInv, NEW r \in Readers, ReaderStep(r)
  PROVE  IndexerInv'
<1>1. UNCHANGED <<height, minedAt, rows, cursor, indexers, resetting, troubles>>
  BY DEF ReaderStep, ReaderReads, ReaderWrites
<1>2. ReadersWhole' /\ executions' \in [Execs -> Statuses \cup {NoExecution}]
      /\ readers' \in [Readers -> [exec : Execs \cup {NoExec},
                                   projected : Statuses \cup {NoExecution}]]
  <2>1. /\ readers \in [Readers -> [exec : Execs \cup {NoExec},
                                    projected : Statuses \cup {NoExecution}]]
        /\ executions \in [Execs -> Statuses \cup {NoExecution}]
    BY DEF IndexerInv, IndexerTypeOK
  <2>2. CASE \E e \in Execs : ReaderReads(r, e)
    <3>1. PICK e \in Execs : ReaderReads(r, e)
      BY <2>2
    <3>2. PICK status \in Statuses :
             readers' = [readers EXCEPT ![r] = [exec |-> e, projected |-> status]]
      BY <3>1, ProjectionType DEF ReaderReads
    <3>3. executions' = executions
      BY <3>1 DEF ReaderReads
    <3>4. QED
      BY <2>1, <3>2, <3>3 DEF IndexerInv, ReadersWhole
  <2>3. CASE ReaderWrites(r)
    <3>1. readers[r].exec \in Execs /\ readers[r].projected \in Statuses
      BY <2>3 DEF ReaderWrites, IndexerInv, ReadersWhole
    <3>2. /\ executions' = [executions EXCEPT ![readers[r].exec] = readers[r].projected]
          /\ readers' = [readers EXCEPT ![r] = IdleReader]
      BY <2>3 DEF ReaderWrites
    <3>3. IdleReader \in [exec : Execs \cup {NoExec}, projected : Statuses \cup {NoExecution}]
      BY DEF IdleReader
    <3>4. QED
      BY <2>1, <3>1, <3>2, <3>3 DEF IndexerInv, ReadersWhole
  <2>4. QED
    BY <2>2, <2>3 DEF ReaderStep
<1>3. IndexerTypeOK'
  BY <1>1, <1>2 DEF IndexerInv, IndexerTypeOK
<1>4. BusyHasChain' /\ ProjectsLast' /\ CursorsMined' /\ ResetAlone' /\ CursorCovers'
  BY <1>1 DEF IndexerInv, BusyHasChain, ProjectsLast, CursorsMined, ResetAlone, CursorCovers
<1>5. SnapshotsCovered' /\ WindowsCovered'
  BY <1>1 DEF IndexerInv, SnapshotsCovered, WindowsCovered, Covers, Working, CurrentChain
<1>6. QED
  BY <1>2, <1>3, <1>4, <1>5 DEF IndexerInv

LEMMA ResetInv ==
  ASSUME IndexerInv, Reset
  PROVE  IndexerInv'
<1>1. \A p \in Indexers : indexers[p] = IdleProcess
  BY DEF IndexerInv, ResetAlone, Reset, ResetEvents, ResetExecutions, ResetCursor
<1>2. \A p \in Indexers : /\ indexers[p].pc = "idle" /\ indexers[p].left = {}
  BY <1>1 DEF IdleProcess, AtChain
<1>3. UNCHANGED <<height, minedAt, indexers, readers>>
  BY DEF Reset, ResetEvents, ResetExecutions, ResetCursor
<1>4. BusyHasChain' /\ ProjectsLast' /\ ReadersWhole' /\ SnapshotsCovered' /\ WindowsCovered'
  BY <1>2, <1>3 DEF IndexerInv, BusyHasChain, ProjectsLast, ReadersWhole, SnapshotsCovered,
     WindowsCovered, Working
<1>5. ResetAlone'
  BY <1>1, <1>3 DEF ResetAlone
<1>6. /\ cursor' \in [Chains -> 0..MaxBlock] /\ CursorsMined'
      /\ cursor' = cursor \/ cursor' = [c \in Chains |-> 0]
  <2>1. cursor' = cursor \/ cursor' = [c \in Chains |-> 0]
    BY DEF Reset, ResetEvents, ResetExecutions, ResetCursor
  <2>2. \A c \in Chains : height[c] \in 0..MaxBlock
    BY DEF IndexerInv, IndexerTypeOK
  <2>3. QED
    BY <1>3, <2>1, <2>2, IndexerAssumption DEF IndexerInv, IndexerTypeOK, CursorsMined
<1>7. CursorCovers'
  <2>1. CASE ResetCursor
    <3>1. \A l \in Log : l.chain \in Chains
      BY ExecsAssumption DEF Log, LogOf
    <3>2. \A l \in Log : cursor'[l.chain] = 0
      BY <2>1, <3>1 DEF ResetCursor
    <3>3. QED
      BY <3>2 DEF CursorCovers
  <2>2. CASE ResetEvents \/ ResetExecutions
    BY <2>2 DEF ResetEvents, ResetExecutions, CursorCovers
  <2>3. QED
    BY <2>1, <2>2 DEF Reset
<1>8. IndexerTypeOK'
  <2>1. rows' \subseteq Log
    BY DEF Reset, ResetEvents, ResetExecutions, ResetCursor, IndexerInv, IndexerTypeOK
  <2>2. executions' \in [Execs -> Statuses \cup {NoExecution}]
    BY DEF Reset, ResetEvents, ResetExecutions, ResetCursor, IndexerInv, IndexerTypeOK
  <2>3. troubles' \in 0..MaxTroubles
    BY IndexerAssumption
       DEF Reset, ResetEvents, ResetExecutions, ResetCursor, IndexerInv, IndexerTypeOK
  <2>4. resetting' \in {"none", "executions", "cursor"}
    BY DEF Reset, ResetEvents, ResetExecutions, ResetCursor
  <2>5. QED
    BY <1>3, <1>6, <2>1, <2>2, <2>3, <2>4 DEF IndexerInv, IndexerTypeOK
<1>9. QED
  BY <1>4, <1>5, <1>6, <1>7, <1>8 DEF IndexerInv

LEMMA IndexerInitInv ==
  ASSUME IndexerInit
  PROVE  IndexerInv
<1>1. IdleProcess \in Process /\ IdleProcess.pc = "idle" /\ IdleProcess.left = {}
  BY IndexerAssumption DEF IdleProcess, AtChain, Process, Phase
<1>2. IndexerTypeOK
  BY <1>1, IndexerAssumption DEF IndexerInit, IndexerTypeOK, IdleReader
<1>3. \A p \in Indexers : indexers[p] = IdleProcess
  BY DEF IndexerInit
<1>4. BusyHasChain /\ ProjectsLast /\ SnapshotsCovered /\ WindowsCovered /\ ResetAlone
  BY <1>1, <1>3 DEF BusyHasChain, ProjectsLast, SnapshotsCovered, WindowsCovered, Working,
     ResetAlone
<1>5. ReadersWhole
  BY DEF IndexerInit, ReadersWhole
<1>6. CursorsMined
  BY DEF IndexerInit, CursorsMined
<1>7. CursorCovers
  BY DEF IndexerInit, CursorCovers
<1>8. QED
  BY <1>2, <1>4, <1>5, <1>6, <1>7 DEF IndexerInv

LEMMA IndexerNextInv ==
  ASSUME IndexerInv, [IndexerNext]_indexerVars
  PROVE  IndexerInv'
<1>1. CASE UNCHANGED indexerVars
  <2>1. \A p \in Indexers : CurrentChain(p)' = CurrentChain(p)
    BY <1>1 DEF indexerVars, CurrentChain
  <2>2. QED
    BY <1>1, <2>1 DEF indexerVars, IndexerInv, IndexerTypeOK, BusyHasChain, ProjectsLast,
       ReadersWhole, CursorsMined, ResetAlone, CursorCovers, SnapshotsCovered, WindowsCovered,
       Covers, Working
<1>2. CASE IndexerNext
  BY <1>2, ChainsInv, ProcessStepInv, ReaderInv, ResetInv DEF IndexerNext
<1>3. QED
  BY <1>1, <1>2

\* The invariant of which the theorems below are parts.
THEOREM IndexerInvariant == IndexerSpec => []IndexerInv
<1>1. IndexerInit => IndexerInv
  BY IndexerInitInv
<1>2. IndexerInv /\ [IndexerNext]_indexerVars => IndexerInv'
  BY IndexerNextInv
<1>3. QED
  BY <1>1, <1>2, PTL DEF IndexerSpec

\* Every variable keeps its type.
THEOREM IndexerTypeCorrect == IndexerSpec => []IndexerTypeOK
<1>1. IndexerInv => IndexerTypeOK
  BY DEF IndexerInv
<1>2. QED
  BY <1>1, IndexerInvariant, PTL

\* No event is lost: with any number of processes, requests and chains, any
\* window and any number of failures, deaths and resets.
THEOREM IndexerLosesNothing == IndexerSpec => []CursorCovers
<1>1. IndexerInv => CursorCovers
  BY DEF IndexerInv
<1>2. QED
  BY <1>1, IndexerInvariant, PTL

-----------------------------------------------------------------------------
(* No event is invented and no status is wrong, if a process waits for as  *)
(* many blocks as a reorganisation replaces.                               *)

\* The events of an execution on its source chain are in one block.
TogetherMined ==
    \A e \in Execs : \A event \in SourceEvents :
        minedAt[LogOf(e, event)] \in {0, minedAt[LogOf(e, "RescueInitiated")]}

\* Windows end in final blocks, and what was fetched is final.
WindowsFinal ==
    \A p \in Indexers :
        /\ Working(p) => indexers[p].to <= FinalBlock(CurrentChain(p))
        /\ \A l \in indexers[p].todo : Final(l)

\* An execution's end is written after the message it sent.
MessageFirst ==
    \A e \in Execs : Final(LogOf(e, "CrossChainInitiated")) =>
        /\ LogOf(e, "RescueCompleted") \in rows => LogOf(e, "CrossChainInitiated") \in rows
        /\ \A p \in Indexers :
               LogOf(e, "RescueCompleted") \in indexers[p].todo =>
                   LogOf(e, "CrossChainInitiated") \in rows \cup indexers[p].todo

Truthful(e, status) ==
    /\ status = "completed" => DoneOnChain(e)
    /\ status = "failed" => FailedOnChain(e)

\* What is about to be written is true.
ProjectionsTruthful ==
    /\ \A p \in Indexers : indexers[p].pc = "write" =>
           Truthful(indexers[p].projecting, indexers[p].projected)
    /\ \A r \in Readers : readers[r] # IdleReader =>
           Truthful(readers[r].exec, readers[r].projected)

TruthInv ==
    /\ TogetherMined /\ WindowsFinal /\ NoPhantomRows
    /\ MessageFirst /\ ProjectionsTruthful /\ StatusSound

LEMMA LogType ==
  /\ \A e \in Execs : \A event \in SourceEvents \cup DestinationEvents :
        /\ LogOf(e, event) \in Log
        /\ LogOf(e, event).exec = e /\ LogOf(e, event).event = event
  /\ \A e \in Execs : \A event \in SourceEvents : LogOf(e, event).chain = Source[e]
  /\ \A l \in Log : /\ l = LogOf(l.exec, l.event) /\ l.chain \in Chains
                    /\ l.exec \in Execs /\ l.event \in SourceEvents \cup DestinationEvents
BY ExecsAssumption DEF Log, LogOf, SourceEvents, DestinationEvents

LEMMA EventNames ==
  /\ {"RescueInitiated", "CrossChainInitiated", "RescueCompleted", "RescueFailed"}
        = SourceEvents
  /\ {"CrossChainCompleted", "CrossChainDestinationFailed"} = DestinationEvents
  /\ \A event \in SourceEvents : event \notin DestinationEvents
BY DEF SourceEvents, DestinationEvents

LEMMA FinalBlockMined ==
  ASSUME IndexerTypeOK, NEW c \in Chains
  PROVE  /\ FinalBlock(c) \in Nat /\ FinalBlock(c) <= height[c] /\ height[c] \in Nat
         /\ ReorgDepth <= Confirmations => SafeLatestBlock(c) <= FinalBlock(c)
BY IndexerAssumption DEF IndexerTypeOK, FinalBlock, SafeLatestBlock

\* A block is final for good, and the events of an execution stay together.
LEMMA ChainsFinal ==
  ASSUME IndexerTypeOK, TogetherMined, NEW c \in Chains, MineBlock(c) \/ Reorganise(c)
  PROVE  /\ TogetherMined'
         /\ \A l \in Log : Final(l) => minedAt'[l] = minedAt[l] /\ Final(l)'
<1>1. /\ \A d \in Chains : height[d] \in 0..MaxBlock
      /\ \A l \in Log : minedAt[l] \in 0..MaxBlock
  BY DEF IndexerTypeOK
<1>2. \A d \in Chains : FinalBlock(d) <= FinalBlock(d)'
  <2>1. \A d \in Chains : height[d] <= height'[d] /\ height'[d] \in 0..MaxBlock
    BY ChainsEffect
  <2>2. QED
    BY <1>1, <2>1, IndexerAssumption DEF FinalBlock
<1>3. \A d \in Chains : FinalBlock(d) \in Nat /\ FinalBlock(d)' \in Nat
  <2>1. \A d \in Chains : height'[d] \in 0..MaxBlock
    BY ChainsEffect
  <2>2. QED
    BY <1>1, <2>1, IndexerAssumption DEF FinalBlock
<1>4. CASE MineBlock(c)
  <2>1. PICK logs \in Transactions(c) \cup {{}} :
           minedAt' = [l \in Log |-> IF l \in logs THEN height[c] + 1 ELSE minedAt[l]]
    BY <1>4 DEF MineBlock
  <2>2. CASE logs = {}
    <3>1. \A l \in Log : minedAt'[l] = minedAt[l]
      BY <2>1, <2>2
    <3>2. TogetherMined'
      BY <3>1, LogType, EventNames DEF TogetherMined
    <3>3. QED
      BY <1>1, <1>2, <1>3, <3>1, <3>2, LogType DEF Final
  <2>3. CASE logs \in Transactions(c)
    <3>1. PICK e \in Execs :
            \/ /\ c = Source[e] /\ minedAt[LogOf(e, "RescueInitiated")] = 0
               /\ LogOf(e, "RescueInitiated") \in logs
               /\ logs \subseteq {LogOf(e, event) : event \in SourceEvents}
            \/ /\ c = Destination[e]
               /\ \A event \in DestinationEvents : minedAt[LogOf(e, event)] = 0
               /\ \E event \in DestinationEvents : logs = {LogOf(e, event)}
      BY <2>3, TransactionKinds
    <3>2. \A l \in logs : minedAt[l] = 0
      BY <3>1 DEF TogetherMined
    <3>3. \A l \in Log : Final(l) => minedAt'[l] = minedAt[l]
      BY <2>1, <3>2 DEF Final
    <3>4. \A l \in Log : Final(l) => Final(l)'
      BY <1>1, <1>2, <1>3, <3>3, LogType DEF Final
    <3>5. TogetherMined'
      <4> SUFFICES ASSUME NEW f \in Execs, NEW event \in SourceEvents
                   PROVE  minedAt'[LogOf(f, event)]
                             \in {0, minedAt'[LogOf(f, "RescueInitiated")]}
        BY DEF TogetherMined
      <4>1. /\ LogOf(f, event) \in Log /\ LogOf(f, "RescueInitiated") \in Log
            /\ LogOf(f, event).exec = f /\ LogOf(f, "RescueInitiated").exec = f
            /\ LogOf(f, event).event = event
            /\ LogOf(f, "RescueInitiated").event = "RescueInitiated"
        BY LogType, EventNames
      <4>2. minedAt[LogOf(f, event)] \in {0, minedAt[LogOf(f, "RescueInitiated")]}
        BY DEF TogetherMined
      <4>3. CASE LogOf(e, "RescueInitiated") \in logs /\ f = e
        BY <2>1, <3>1, <4>1, <4>2, <4>3, <3>2
      <4>4. CASE LogOf(e, "RescueInitiated") \notin logs \/ f # e
        <5>1. LogOf(f, event) \notin logs /\ LogOf(f, "RescueInitiated") \notin logs
          BY <3>1, <4>1, <4>4, LogType, EventNames
        <5>2. QED
          BY <2>1, <4>1, <4>2, <5>1
      <4>5. QED
        BY <4>3, <4>4
    <3>6. QED
      BY <3>3, <3>4, <3>5
  <2>4. QED
    BY <2>1, <2>2, <2>3
<1>5. CASE Reorganise(c)
  <2>1. PICK k \in FinalBlock(c)..(height[c] - 1) :
           minedAt' = [l \in Log |-> IF l.chain = c /\ minedAt[l] > k THEN 0 ELSE minedAt[l]]
    BY <1>5 DEF Reorganise
  <2>2. \A l \in Log : Final(l) => minedAt'[l] = minedAt[l]
    BY <1>1, <1>3, <2>1, LogType DEF Final
  <2>3. \A l \in Log : Final(l) => Final(l)'
    BY <1>1, <1>2, <1>3, <2>2, LogType DEF Final
  <2>4. TogetherMined'
    <3> SUFFICES ASSUME NEW f \in Execs, NEW event \in SourceEvents
                 PROVE  minedAt'[LogOf(f, event)]
                           \in {0, minedAt'[LogOf(f, "RescueInitiated")]}
      BY DEF TogetherMined
    <3>1. /\ LogOf(f, event) \in Log /\ LogOf(f, "RescueInitiated") \in Log
          /\ LogOf(f, event).chain = Source[f] /\ LogOf(f, "RescueInitiated").chain = Source[f]
      BY LogType, EventNames
    <3>2. minedAt[LogOf(f, event)] \in {0, minedAt[LogOf(f, "RescueInitiated")]}
      BY DEF TogetherMined
    <3>3. QED
      BY <2>1, <3>1, <3>2
  <2>5. QED
    BY <2>2, <2>3, <2>4
<1>6. QED
  BY <1>4, <1>5

\* An execution that is over without a message never gets one.
LEMMA NoLateMessage ==
  ASSUME IndexerTypeOK, TogetherMined, NEW c \in Chains, MineBlock(c) \/ Reorganise(c),
         NEW e \in Execs, Final(LogOf(e, "RescueCompleted")),
         Final(LogOf(e, "CrossChainInitiated"))'
  PROVE  Final(LogOf(e, "CrossChainInitiated"))
<1> DEFINE done == LogOf(e, "RescueCompleted")
           sent == LogOf(e, "CrossChainInitiated")
           begun == LogOf(e, "RescueInitiated")
<1>1. /\ done \in Log /\ sent \in Log /\ begun \in Log
      /\ done.chain = Source[e] /\ sent.chain = Source[e] /\ Source[e] \in Chains
  BY LogType, EventNames, ExecsAssumption
<1>2. /\ minedAt[done] \in {0, minedAt[begun]} /\ minedAt[sent] \in {0, minedAt[begun]}
      /\ minedAt'[sent] \in {0, minedAt'[begun]}
  BY ChainsFinal, EventNames DEF TogetherMined
<1>3. minedAt[done] \in 1..FinalBlock(Source[e]) /\ minedAt'[sent] # 0
  BY <1>1 DEF Final
<1>4. minedAt[begun] \in 1..FinalBlock(Source[e]) /\ minedAt[begun] = minedAt[done]
  BY <1>2, <1>3
<1>5. minedAt'[sent] \in {0, minedAt[sent], height[Source[e]] + 1}
  BY <1>1, ChainsEffect
<1>6. begun.chain = Source[e]
  BY LogType, EventNames
<1>7. Final(begun)
  BY <1>4, <1>6 DEF Final
<1>8. minedAt'[begun] = minedAt[begun]
  BY <1>1, <1>7, ChainsFinal
<1>9. FinalBlock(Source[e]) <= height[Source[e]] /\ FinalBlock(Source[e]) \in Nat
      /\ height[Source[e]] \in Nat
  BY <1>1, FinalBlockMined
<1> HIDE DEF done, sent, begun
<1>10. minedAt'[sent] # height[Source[e]] + 1
  BY <1>2, <1>3, <1>4, <1>8, <1>9
<1>11. minedAt[sent] = minedAt[begun]
  BY <1>2, <1>3, <1>5, <1>10
<1>12. QED
  BY <1>1, <1>4, <1>11 DEF Final, sent

\* What is true of an execution stays true.
LEMMA TruthStays ==
  ASSUME IndexerTypeOK, TogetherMined, NEW c \in Chains, MineBlock(c) \/ Reorganise(c),
         NEW e \in Execs, NEW status, Truthful(e, status)
  PROVE  Truthful(e, status)'
<1>1. /\ LogOf(e, "CrossChainCompleted") \in Log /\ LogOf(e, "RescueCompleted") \in Log
      /\ LogOf(e, "RescueFailed") \in Log /\ LogOf(e, "CrossChainDestinationFailed") \in Log
  BY LogType, EventNames
<1>2. DoneOnChain(e) => DoneOnChain(e)'
  BY <1>1, ChainsFinal, NoLateMessage DEF DoneOnChain
<1>3. FailedOnChain(e) => FailedOnChain(e)'
  BY <1>1, ChainsFinal DEF FailedOnChain
<1>4. QED
  BY <1>2, <1>3 DEF Truthful

LEMMA ChainsTruth ==
  ASSUME IndexerInv, TruthInv, NEW c \in Chains, MineBlock(c) \/ Reorganise(c)
  PROVE  TruthInv'
<1>1. UNCHANGED <<rows, executions, indexers, readers>>
  BY ChainsEffect DEF IndexerInv
<1>2. IndexerTypeOK /\ TogetherMined
  BY DEF IndexerInv, TruthInv
<1>3. /\ TogetherMined'
      /\ \A l \in Log : Final(l) => Final(l)'
  BY <1>2, ChainsFinal
<1>4. rows \subseteq Log /\ \A p \in Indexers : indexers[p].todo \subseteq Log
  BY DEF IndexerInv, IndexerTypeOK, Process
<1>5. NoPhantomRows'
  BY <1>1, <1>3, <1>4 DEF TruthInv, NoPhantomRows
<1>6. WindowsFinal'
  <2> SUFFICES ASSUME NEW p \in Indexers
               PROVE  /\ Working(p) => indexers[p].to <= FinalBlock(CurrentChain(p))'
                      /\ \A l \in indexers[p].todo : Final(l)'
    BY <1>1 DEF WindowsFinal, Working
  <2>1. \A l \in indexers[p].todo : Final(l)'
    BY <1>3, <1>4 DEF TruthInv, WindowsFinal
  <2>2. ASSUME Working(p) PROVE indexers[p].to <= FinalBlock(CurrentChain(p))'
    <3>1. CurrentChain(p) \in Chains /\ CurrentChain(p)' = CurrentChain(p)
          /\ indexers[p] \in Process
      BY <1>1, <2>2, CurrentChainLeft
         DEF IndexerInv, IndexerTypeOK, BusyHasChain, Working, CurrentChain
    <3>2. indexers[p].to <= FinalBlock(CurrentChain(p))
      BY <2>2 DEF TruthInv, WindowsFinal
    <3>3. /\ \A d \in Chains : height[d] \in 0..MaxBlock /\ height'[d] \in 0..MaxBlock
          /\ \A d \in Chains : height[d] <= height'[d]
      BY <1>2, ChainsEffect DEF IndexerTypeOK
    <3>4. indexers[p].to \in Nat
      BY <3>1 DEF Process
    <3> DEFINE d == CurrentChain(p)
    <3>5. d \in Chains /\ d' = d /\ indexers[p].to <= FinalBlock(d)
      BY <3>1, <3>2
    <3> HIDE DEF d
    <3>6. indexers[p].to <= IF height'[d] > ReorgDepth THEN height'[d] - ReorgDepth ELSE 0
      BY <3>3, <3>4, <3>5, IndexerAssumption DEF FinalBlock
    <3>7. QED
      BY <3>5, <3>6 DEF FinalBlock, d
  <2>3. QED
    BY <2>1, <2>2
<1>7. MessageFirst'
  <2> SUFFICES ASSUME NEW e \in Execs, Final(LogOf(e, "CrossChainInitiated"))'
               PROVE  /\ LogOf(e, "RescueCompleted") \in rows =>
                            LogOf(e, "CrossChainInitiated") \in rows
                      /\ \A p \in Indexers :
                            LogOf(e, "RescueCompleted") \in indexers[p].todo =>
                               LogOf(e, "CrossChainInitiated") \in rows \cup indexers[p].todo
    BY <1>1 DEF MessageFirst
  <2>1. Final(LogOf(e, "RescueCompleted")) => Final(LogOf(e, "CrossChainInitiated"))
    BY <1>2, NoLateMessage
  <2>2. QED
    BY <2>1 DEF TruthInv, MessageFirst, NoPhantomRows, WindowsFinal
<1>8. ProjectionsTruthful'
  <2>1. ASSUME NEW p \in Indexers, indexers[p].pc = "write"
        PROVE  Truthful(indexers[p].projecting, indexers[p].projected)'
    <3>1. PICK e \in Execs, status \in Statuses :
             e = indexers[p].projecting /\ status = indexers[p].projected
      BY <2>1 DEF IndexerInv, ProjectsLast
    <3>2. Truthful(e, status)
      BY <2>1, <3>1 DEF TruthInv, ProjectionsTruthful
    <3>3. Truthful(e, status)'
      BY <1>2, <3>2, TruthStays
    <3>4. QED
      BY <1>1, <3>1, <3>3
  <2>2. ASSUME NEW r \in Readers, readers[r] # IdleReader
        PROVE  Truthful(readers[r].exec, readers[r].projected)'
    <3>1. PICK e \in Execs, status \in Statuses :
             e = readers[r].exec /\ status = readers[r].projected
      BY <2>2 DEF IndexerInv, ReadersWhole
    <3>2. Truthful(e, status)
      BY <2>2, <3>1 DEF TruthInv, ProjectionsTruthful
    <3>3. Truthful(e, status)'
      BY <1>2, <3>2, TruthStays
    <3>4. QED
      BY <1>1, <3>1, <3>3
  <2>3. QED
    BY <1>1, <2>1, <2>2 DEF ProjectionsTruthful
<1>9. StatusSound'
  <2> SUFFICES ASSUME NEW e \in Execs PROVE Truthful(e, executions[e])'
    BY <1>1 DEF StatusSound, Truthful
  <2>1. PICK status : status = executions[e]
    OBVIOUS
  <2>2. Truthful(e, status)
    BY <2>1 DEF TruthInv, StatusSound, Truthful
  <2>3. Truthful(e, status)'
    BY <1>2, <2>2, TruthStays
  <2>4. QED
    BY <1>1, <2>1, <2>3
<1>10. QED
  BY <1>3, <1>5, <1>6, <1>7, <1>8, <1>9 DEF TruthInv

\* A projection of the rows is true.
LEMMA ProjectionTrue ==
  ASSUME IndexerTypeOK, TruthInv, NEW e \in Execs
  PROVE  Truthful(e, ReduceProjection(rows, e))
<1> DEFINE events == {l.event : l \in RowsOf(rows, e)}
<1>1. \A event \in events : LogOf(e, event) \in rows /\ Final(LogOf(e, event))
  <2>1. \A l \in RowsOf(rows, e) : l \in rows /\ l = LogOf(e, l.event) /\ Final(l)
    BY LogType DEF RowsOf, IndexerTypeOK, TruthInv, NoPhantomRows
  <2>2. QED
    BY <2>1
<1>2. LogOf(e, "CrossChainInitiated") \in rows => "CrossChainInitiated" \in events
  BY LogType, EventNames DEF RowsOf
<1> HIDE DEF events
<1>3. ComputeStatus(events) = "failed" => FailedOnChain(e)
  BY <1>1 DEF ComputeStatus, FailedOnChain
<1>4. ComputeStatus(events) = "completed" => DoneOnChain(e)
  <2> SUFFICES ASSUME ComputeStatus(events) = "completed" PROVE DoneOnChain(e)
    OBVIOUS
  <2>1. /\ "CrossChainCompleted" \in events \/ "RescueCompleted" \in events
        /\ "CrossChainInitiated" \in events => "CrossChainCompleted" \in events
    BY DEF ComputeStatus
  <2>2. CASE "CrossChainCompleted" \in events
    BY <1>1, <2>2 DEF DoneOnChain
  <2>3. CASE "CrossChainCompleted" \notin events
    <3>1. LogOf(e, "RescueCompleted") \in rows /\ Final(LogOf(e, "RescueCompleted"))
          /\ LogOf(e, "CrossChainInitiated") \notin rows
      BY <1>1, <1>2, <2>1, <2>3
    <3>2. QED
      BY <3>1 DEF TruthInv, MessageFirst, DoneOnChain
  <2>4. QED
    BY <2>2, <2>3
<1>5. QED
  BY <1>3, <1>4 DEF ReduceProjection, Truthful, events

\* A process that goes on to other chains.
LEMMA GoesOnTruth ==
  ASSUME IndexerInv, TruthInv, NEW p \in Indexers, NEW left, NEW snapshot,
         GoesOn(p, left, snapshot)
  PROVE  TruthInv'
<1>1. /\ indexers \in [Indexers -> Process]
      /\ indexers' = [indexers EXCEPT ![p] = AtChain(left, snapshot)]
      /\ UNCHANGED <<height, minedAt, rows, executions, readers>>
  BY DEF GoesOn, IndexerInv, IndexerTypeOK
<1>2. /\ indexers'[p].todo = {} /\ indexers'[p].pc \notin {"window", "write"}
      /\ \A q \in Indexers \ {p} : indexers'[q] = indexers[q]
  BY <1>1 DEF AtChain
<1>3. TogetherMined' /\ NoPhantomRows' /\ StatusSound'
  BY <1>1 DEF TruthInv, TogetherMined, NoPhantomRows, StatusSound, Final, FinalBlock,
     DoneOnChain, FailedOnChain
<1>4. WindowsFinal'
  <2> SUFFICES ASSUME NEW q \in Indexers
               PROVE  /\ Working(q)' => indexers'[q].to <= FinalBlock(CurrentChain(q)')
                      /\ \A l \in indexers'[q].todo : Final(l)
    BY <1>1 DEF WindowsFinal, Final, FinalBlock
  <2>1. CASE q = p
    BY <1>2, <2>1 DEF Working
  <2>2. CASE q # p
    <3>1. indexers'[q] = indexers[q] /\ CurrentChain(q)' = CurrentChain(q)
          /\ Working(q)' = Working(q)
      BY <1>2, <2>2 DEF CurrentChain, Working
    <3>2. QED
      BY <3>1 DEF TruthInv, WindowsFinal
  <2>3. QED
    BY <2>1, <2>2
<1>5. MessageFirst'
  BY <1>1, <1>2 DEF TruthInv, MessageFirst, Final, FinalBlock
<1>6. ProjectionsTruthful'
  BY <1>1, <1>2 DEF TruthInv, ProjectionsTruthful, Truthful, DoneOnChain, FailedOnChain, Final,
     FinalBlock
<1>7. QED
  BY <1>3, <1>4, <1>5, <1>6 DEF TruthInv

\* A process that stays at its chain.
LEMMA StaysTruth ==
  ASSUME IndexerInv, TruthInv, NEW p \in Indexers, Stays(p), rows \subseteq rows',
         Working(p)' => indexers'[p].to <= FinalBlock(CurrentChain(p)),
         \A l \in indexers'[p].todo \cup rows' : Final(l),
         \A e \in Execs : Final(LogOf(e, "CrossChainInitiated")) =>
            /\ LogOf(e, "RescueCompleted") \in rows' => LogOf(e, "CrossChainInitiated") \in rows'
            /\ LogOf(e, "RescueCompleted") \in indexers'[p].todo =>
                   LogOf(e, "CrossChainInitiated") \in rows' \cup indexers'[p].todo,
         indexers'[p].pc = "write" =>
            Truthful(indexers'[p].projecting, indexers'[p].projected),
         \A e \in Execs : Truthful(e, executions'[e])
  PROVE  TruthInv'
<1>1. /\ UNCHANGED <<height, minedAt, readers>>
      /\ \A q \in Indexers \ {p} : indexers'[q] = indexers[q]
  BY DEF Stays
<1>2. \A q \in Indexers : CurrentChain(q)' = CurrentChain(q)
  BY StaysAtChain
<1>3. \A l : Final(l)' <=> Final(l)
  BY <1>1 DEF Final, FinalBlock
<1>4. \A e : (DoneOnChain(e)' <=> DoneOnChain(e)) /\ (FailedOnChain(e)' <=> FailedOnChain(e))
  BY <1>3 DEF DoneOnChain, FailedOnChain
<1>5. TogetherMined'
  BY <1>1 DEF TruthInv, TogetherMined
<1>6. NoPhantomRows' /\ StatusSound'
  BY <1>3, <1>4 DEF NoPhantomRows, StatusSound, Truthful
<1>7. WindowsFinal'
  <2> SUFFICES ASSUME NEW q \in Indexers
               PROVE  /\ Working(q)' => indexers'[q].to <= FinalBlock(CurrentChain(q))
                      /\ \A l \in indexers'[q].todo : Final(l)
    BY <1>1, <1>2, <1>3 DEF WindowsFinal, FinalBlock
  <2>1. CASE q = p
    BY <2>1
  <2>2. CASE q # p
    <3>1. indexers'[q] = indexers[q] /\ Working(q)' = Working(q)
      BY <1>1, <2>2 DEF Working
    <3>2. QED
      BY <3>1 DEF TruthInv, WindowsFinal
  <2>3. QED
    BY <2>1, <2>2
<1>8. MessageFirst'
  <2> SUFFICES ASSUME NEW e \in Execs, Final(LogOf(e, "CrossChainInitiated")),
                      NEW q \in Indexers, LogOf(e, "RescueCompleted") \in indexers'[q].todo
               PROVE  LogOf(e, "CrossChainInitiated") \in rows' \cup indexers'[q].todo
    BY <1>3 DEF MessageFirst
  <2>1. CASE q = p
    BY <2>1
  <2>2. CASE q # p
    BY <1>1, <2>2 DEF TruthInv, MessageFirst
  <2>3. QED
    BY <2>1, <2>2
<1>9. ProjectionsTruthful'
  BY <1>1, <1>4 DEF TruthInv, ProjectionsTruthful, Truthful
<1>10. QED
  BY <1>5, <1>6, <1>7, <1>8, <1>9 DEF TruthInv

LEMMA ProcessTruth ==
  ASSUME ReorgDepth <= Confirmations, IndexerInv, TruthInv, NEW p \in Indexers,
         IndexerStep(p) \/ IndexerFault(p)
  PROVE  TruthInv'
<1>1. CASE StartRun(p) \/ IndexerDies(p)
  BY <1>1, StartRunEffect, IndexerDiesEffect, GoesOnTruth DEF IndexerInv
<1>2. CASE ChainIdle(p) \/ ChainFails(p) \/ AdvanceCursor(p)
  <2>1. GoesOn(p, indexers[p].left \ {CurrentChain(p)}, indexers[p].snapshot)
    BY <1>2, NextChainEffect DEF IndexerInv
  <2>2. QED
    BY <2>1, GoesOnTruth
<1>3. \A e \in Execs : Truthful(e, executions[e])
  BY DEF TruthInv, StatusSound, Truthful
<1>4. /\ \A l \in indexers[p].todo \cup rows : Final(l)
      /\ Working(p) => indexers[p].to <= FinalBlock(CurrentChain(p))
      /\ \A e \in Execs : Final(LogOf(e, "CrossChainInitiated")) =>
            /\ LogOf(e, "RescueCompleted") \in rows => LogOf(e, "CrossChainInitiated") \in rows
            /\ LogOf(e, "RescueCompleted") \in indexers[p].todo =>
                   LogOf(e, "CrossChainInitiated") \in rows \cup indexers[p].todo
  BY DEF TruthInv, NoPhantomRows, WindowsFinal, MessageFirst
<1>5. CASE ChooseWindow(p)
  <2>1. /\ Stays(p) /\ rows' = rows /\ executions' = executions
        /\ indexers'[p].pc = "window" /\ indexers'[p].todo = indexers[p].todo
        /\ indexers'[p].to <= SafeLatestBlock(CurrentChain(p))
        /\ CurrentChain(p) \in indexers[p].left
    BY <1>5, ChooseWindowEffect
  <2>2. CurrentChain(p) \in Chains /\ indexers'[p].to \in Nat
    BY <2>1 DEF Stays, IndexerInv, IndexerTypeOK, Process
  <2> DEFINE c == CurrentChain(p)
  <2>3. SafeLatestBlock(c) <= FinalBlock(c) /\ FinalBlock(c) \in Nat
    BY <2>2, FinalBlockMined DEF IndexerInv
  <2>4. SafeLatestBlock(c) \in Int
    BY <2>2, IndexerAssumption DEF IndexerInv, IndexerTypeOK, SafeLatestBlock
  <2>5. indexers'[p].to <= FinalBlock(c)
    BY <2>1, <2>2, <2>3, <2>4
  <2>6. QED
    BY <1>3, <1>4, <2>1, <2>5, StaysTruth
<1>6. CASE FetchChunk(p)
  <2> DEFINE found == LogsIn(p, indexers[p].at, ChunkEnd(p))
             c == CurrentChain(p)
  <2>1. /\ Stays(p) /\ Working(p) /\ rows' = rows /\ executions' = executions
        /\ indexers'[p].to = indexers[p].to /\ indexers'[p].pc = "window"
        /\ indexers'[p].todo = indexers[p].todo \cup found
        /\ ChunkEnd(p) <= indexers[p].to /\ ChunkEnd(p) \in Int
    BY <1>6, FetchChunkEffect DEF KeepsWindow
  <2>2. c \in Chains /\ indexers[p] \in Process
    BY <2>1, CurrentChainLeft DEF IndexerInv, IndexerTypeOK, BusyHasChain, Working
  <2>3. FinalBlock(c) \in Nat
    BY <2>2, FinalBlockMined DEF IndexerInv
  <2>4. indexers[p].at \in Nat \ {0} /\ indexers[p].to \in Nat /\ indexers[p].to <= FinalBlock(c)
    <3>1. indexers[p].at \in 1..(indexers[p].to + 1)
      BY <2>1 DEF IndexerInv, WindowsCovered
    <3>2. QED
      BY <1>4, <2>1, <2>2, <3>1 DEF Process
  <2>5. \A l \in found : Final(l)
    BY <2>1, <2>3, <2>4 DEF LogsIn, Final
  <2>6. ASSUME NEW e \in Execs, Final(LogOf(e, "CrossChainInitiated")),
               LogOf(e, "RescueCompleted") \in found
        PROVE  LogOf(e, "CrossChainInitiated") \in found
    <3> DEFINE done == LogOf(e, "RescueCompleted")
               sent == LogOf(e, "CrossChainInitiated")
    <3>1. sent \in Log /\ sent.chain = done.chain
      BY LogType, EventNames
    <3>2. minedAt[sent] # 0 /\ minedAt[done] # 0
      BY <2>4, <2>6, <2>1 DEF Final, LogsIn
    <3>3. minedAt[sent] = minedAt[done]
      BY <3>2, EventNames DEF TruthInv, TogetherMined
    <3>4. QED
      BY <2>6, <3>1, <3>3 DEF LogsIn
  <2> HIDE DEF found
  <2>7. \A l \in indexers'[p].todo \cup rows' : Final(l)
    BY <1>4, <2>1, <2>5
  <2>8. \A e \in Execs : Final(LogOf(e, "CrossChainInitiated")) =>
            /\ LogOf(e, "RescueCompleted") \in rows' => LogOf(e, "CrossChainInitiated") \in rows'
            /\ LogOf(e, "RescueCompleted") \in indexers'[p].todo =>
                   LogOf(e, "CrossChainInitiated") \in rows' \cup indexers'[p].todo
    BY <1>4, <2>1, <2>6
  <2>9. QED
    BY <1>3, <2>1, <2>4, <2>7, <2>8, StaysTruth
<1>7. CASE ShrinkChunk(p) \/ ProjectionFails(p)
  <2>1. /\ KeepsWindow(p) /\ rows' = rows /\ executions' = executions
        /\ indexers'[p].pc = "window" /\ indexers'[p].todo = indexers[p].todo
    BY <1>7, ShrinkChunkEffect, ProjectionFailsEffect
  <2>2. QED
    BY <1>3, <1>4, <2>1, StaysTruth DEF KeepsWindow
<1>8. CASE ReadEvents(p)
  <2>1. /\ KeepsWindow(p) /\ rows' = rows /\ executions' = executions
        /\ indexers'[p].todo = indexers[p].todo
        /\ indexers'[p].pc = "write" =>
              /\ indexers'[p].projecting \in Execs
              /\ indexers'[p].projected = ReduceProjection(rows, indexers'[p].projecting)
    BY <1>8, ReadEventsEffect
  <2>2. indexers'[p].pc = "write" => Truthful(indexers'[p].projecting, indexers'[p].projected)
    BY <2>1, ProjectionTrue DEF IndexerInv
  <2>3. QED
    BY <1>3, <1>4, <2>1, <2>2, StaysTruth DEF KeepsWindow
<1>9. CASE WriteProjection(p)
  <2>1. /\ KeepsWindow(p) /\ rows' = rows
        /\ indexers'[p].pc = "window" /\ indexers'[p].todo = indexers[p].todo
        /\ indexers[p].pc = "write"
        /\ executions' = [executions EXCEPT ![indexers[p].projecting] = indexers[p].projected]
    BY <1>9, WriteProjectionEffect
  <2>2. Truthful(indexers[p].projecting, indexers[p].projected)
    BY <2>1 DEF TruthInv, ProjectionsTruthful
  <2>3. \A e \in Execs : executions'[e] = executions[e]
                         \/ (e = indexers[p].projecting /\ executions'[e] = indexers[p].projected)
    BY <2>1 DEF IndexerInv, IndexerTypeOK
  <2>4. \A e \in Execs : Truthful(e, executions'[e])
    BY <1>3, <2>2, <2>3
  <2>5. QED
    BY <1>4, <2>1, <2>4, StaysTruth DEF KeepsWindow
<1>10. CASE PersistRow(p)
  <2>1. /\ KeepsWindow(p) /\ executions' = executions /\ indexers'[p].pc = "window"
        /\ \E l \in indexers[p].todo :
               /\ \A k \in indexers[p].todo : ~Precedes(k, l)
               /\ rows' = rows \cup {l}
               /\ indexers'[p].todo = indexers[p].todo \ {l}
    BY <1>10, PersistRowEffect
  <2>2. PICK l \in indexers[p].todo :
           /\ \A k \in indexers[p].todo : ~Precedes(k, l)
           /\ rows' = rows \cup {l}
           /\ indexers'[p].todo = indexers[p].todo \ {l}
    BY <2>1
  <2>3. \A e \in Execs : Precedes(LogOf(e, "CrossChainInitiated"), LogOf(e, "RescueCompleted"))
    BY DEF Precedes, LogOf, Emitted
  <2>4. \A k \in indexers'[p].todo \cup rows' : Final(k)
    BY <1>4, <2>2
  <2>5. ASSUME NEW e \in Execs, Final(LogOf(e, "CrossChainInitiated"))
        PROVE  /\ LogOf(e, "RescueCompleted") \in rows' => LogOf(e, "CrossChainInitiated") \in rows'
               /\ LogOf(e, "RescueCompleted") \in indexers'[p].todo =>
                   LogOf(e, "CrossChainInitiated") \in rows' \cup indexers'[p].todo
    BY <1>4, <2>2, <2>3, <2>5
  <2>6. QED
    BY <1>3, <1>4, <2>1, <2>2, <2>4, <2>5, StaysTruth DEF KeepsWindow
<1>11. QED
  BY <1>1, <1>2, <1>5, <1>6, <1>7, <1>8, <1>9, <1>10 DEF IndexerStep, IndexerFault

LEMMA ReaderTruth ==
  ASSUME IndexerInv, TruthInv, NEW r \in Readers, ReaderStep(r)
  PROVE  TruthInv'
<1>1. UNCHANGED <<height, minedAt, rows, indexers>>
  BY DEF ReaderStep, ReaderReads, ReaderWrites
<1>2. \A l : Final(l)' <=> Final(l)
  BY <1>1 DEF Final, FinalBlock
<1>3. \A e : (DoneOnChain(e)' <=> DoneOnChain(e)) /\ (FailedOnChain(e)' <=> FailedOnChain(e))
  BY <1>2 DEF DoneOnChain, FailedOnChain
<1>4. TogetherMined' /\ NoPhantomRows' /\ MessageFirst'
  BY <1>1, <1>2 DEF TruthInv, TogetherMined, NoPhantomRows, MessageFirst
<1>5. WindowsFinal'
  <2>1. \A p \in Indexers : /\ CurrentChain(p)' = CurrentChain(p) /\ Working(p)' = Working(p)
    BY <1>1 DEF CurrentChain, Working
  <2>2. QED
    BY <1>1, <1>2, <2>1 DEF TruthInv, WindowsFinal, FinalBlock
<1>6. /\ \A q \in Readers : readers'[q] # IdleReader =>
            Truthful(readers'[q].exec, readers'[q].projected)
      /\ \A e \in Execs : Truthful(e, executions'[e])
  <2>1. /\ \A q \in Readers : readers[q] # IdleReader =>
               Truthful(readers[q].exec, readers[q].projected)
        /\ \A e \in Execs : Truthful(e, executions[e])
    BY DEF TruthInv, ProjectionsTruthful, StatusSound, Truthful
  <2>2. CASE \E e \in Execs : ReaderReads(r, e)
    <3>1. PICK e \in Execs : ReaderReads(r, e)
      BY <2>2
    <3>2. PICK status : status = ReduceProjection(rows, e)
      OBVIOUS
    <3>3. /\ readers' = [readers EXCEPT ![r] = [exec |-> e, projected |-> status]]
          /\ executions' = executions
      BY <3>1, <3>2 DEF ReaderReads
    <3>4. Truthful(e, status)
      BY <3>2, ProjectionTrue DEF IndexerInv
    <3>5. QED
      BY <2>1, <3>3, <3>4 DEF IndexerInv, IndexerTypeOK
  <2>3. CASE ReaderWrites(r)
    <3>1. /\ readers[r] # IdleReader
          /\ executions' = [executions EXCEPT ![readers[r].exec] = readers[r].projected]
          /\ readers' = [readers EXCEPT ![r] = IdleReader]
      BY <2>3 DEF ReaderWrites
    <3>2. \A e \in Execs : executions'[e] = executions[e]
                           \/ (e = readers[r].exec /\ executions'[e] = readers[r].projected)
      BY <3>1 DEF IndexerInv, IndexerTypeOK
    <3>3. \A q \in Readers : readers'[q] = readers[q] \/ readers'[q] = IdleReader
      BY <3>1 DEF IndexerInv, IndexerTypeOK
    <3>4. QED
      BY <2>1, <3>1, <3>2, <3>3
  <2>4. QED
    BY <2>2, <2>3 DEF ReaderStep
<1>7. ProjectionsTruthful'
  BY <1>1, <1>3, <1>6 DEF TruthInv, ProjectionsTruthful, Truthful
<1>8. StatusSound'
  BY <1>3, <1>6 DEF StatusSound, Truthful
<1>9. QED
  BY <1>4, <1>5, <1>7, <1>8 DEF TruthInv

LEMMA ResetTruth ==
  ASSUME IndexerInv, TruthInv, Reset
  PROVE  TruthInv'
<1>1. UNCHANGED <<height, minedAt, indexers, readers>>
  BY DEF Reset, ResetEvents, ResetExecutions, ResetCursor
<1>2. \A p \in Indexers : indexers[p].pc = "idle" /\ indexers[p].todo = {}
  <2>1. \A p \in Indexers : indexers[p] = IdleProcess
    BY DEF IndexerInv, ResetAlone, Reset, ResetEvents, ResetExecutions, ResetCursor
  <2>2. QED
    BY <2>1 DEF IdleProcess, AtChain
<1>3. \A l : Final(l)' <=> Final(l)
  BY <1>1 DEF Final, FinalBlock
<1>4. \A e : (DoneOnChain(e)' <=> DoneOnChain(e)) /\ (FailedOnChain(e)' <=> FailedOnChain(e))
  BY <1>3 DEF DoneOnChain, FailedOnChain
<1>5. rows' = rows \/ rows' = {}
  BY DEF Reset, ResetEvents, ResetExecutions, ResetCursor
<1>6. \A e \in Execs : executions'[e] \in {executions[e], NoExecution}
  BY DEF Reset, ResetEvents, ResetExecutions, ResetCursor
<1>7. TogetherMined' /\ NoPhantomRows'
  BY <1>1, <1>3, <1>5 DEF TruthInv, TogetherMined, NoPhantomRows
<1>8. WindowsFinal' /\ MessageFirst'
  BY <1>1, <1>2, <1>3, <1>5 DEF TruthInv, WindowsFinal, MessageFirst, Working
<1>9. ProjectionsTruthful'
  BY <1>1, <1>4 DEF TruthInv, ProjectionsTruthful, Truthful
<1>10. StatusSound'
  BY <1>4, <1>6 DEF TruthInv, StatusSound, NoExecution
<1>11. QED
  BY <1>7, <1>8, <1>9, <1>10 DEF TruthInv

LEMMA IndexerInitTruth ==
  ASSUME IndexerInit
  PROVE  TruthInv
<1>1. \A p \in Indexers : indexers[p].pc = "idle" /\ indexers[p].todo = {}
  <2>1. \A p \in Indexers : indexers[p] = IdleProcess
    BY DEF IndexerInit
  <2>2. QED
    BY <2>1 DEF IdleProcess, AtChain
<1>2. TogetherMined
  BY LogType, EventNames DEF IndexerInit, TogetherMined
<1>3. NoPhantomRows /\ WindowsFinal /\ MessageFirst
  BY <1>1 DEF IndexerInit, NoPhantomRows, WindowsFinal, MessageFirst, Working
<1>4. ProjectionsTruthful
  BY <1>1 DEF IndexerInit, ProjectionsTruthful
<1>5. StatusSound
  BY DEF IndexerInit, StatusSound, NoExecution
<1>6. QED
  BY <1>2, <1>3, <1>4, <1>5 DEF TruthInv

LEMMA IndexerNextTruth ==
  ASSUME ReorgDepth <= Confirmations, IndexerInv, TruthInv, [IndexerNext]_indexerVars
  PROVE  TruthInv'
<1>1. CASE UNCHANGED indexerVars
  <2>1. \A p \in Indexers : CurrentChain(p)' = CurrentChain(p) /\ Working(p)' = Working(p)
    BY <1>1 DEF indexerVars, CurrentChain, Working
  <2>2. /\ \A l : Final(l)' <=> Final(l)
        /\ \A c : FinalBlock(c)' = FinalBlock(c)
    BY <1>1 DEF indexerVars, Final, FinalBlock
  <2>3. \A e : (DoneOnChain(e)' <=> DoneOnChain(e)) /\ (FailedOnChain(e)' <=> FailedOnChain(e))
    BY <2>2 DEF DoneOnChain, FailedOnChain
  <2>4. QED
    BY <1>1, <2>1, <2>2, <2>3
       DEF indexerVars, TruthInv, TogetherMined, WindowsFinal, NoPhantomRows, MessageFirst,
           ProjectionsTruthful, Truthful, StatusSound
<1>2. CASE IndexerNext
  BY <1>2, ChainsTruth, ProcessTruth, ReaderTruth, ResetTruth DEF IndexerNext
<1>3. QED
  BY <1>1, <1>2

LEMMA TruthInvariant ==
  ASSUME ReorgDepth <= Confirmations
  PROVE  IndexerSpec => [](IndexerInv /\ TruthInv)
<1>1. IndexerInit => IndexerInv /\ TruthInv
  BY IndexerInitInv, IndexerInitTruth
<1>2. IndexerInv /\ TruthInv /\ [IndexerNext]_indexerVars => (IndexerInv /\ TruthInv)'
  BY IndexerNextInv, IndexerNextTruth
<1>3. QED
  BY <1>1, <1>2, PTL DEF IndexerSpec

\* No event is invented: no row survives of a block that was replaced, if
\* the processes wait for as many blocks as a reorganisation replaces.
THEOREM IndexerInventsNothing ==
  ASSUME ReorgDepth <= Confirmations
  PROVE  IndexerSpec => []NoPhantomRows
<1>1. TruthInv => NoPhantomRows
  BY DEF TruthInv
<1>2. QED
  BY <1>1, TruthInvariant, PTL

\* Under the same condition the API never says that a rescue was completed
\* or failed that on the chains was not.
THEOREM IndexerTellsTruth ==
  ASSUME ReorgDepth <= Confirmations
  PROVE  IndexerSpec => []StatusSound
<1>1. TruthInv => StatusSound
  BY DEF TruthInv
<1>2. QED
  BY <1>1, TruthInvariant, PTL
=============================================================================
