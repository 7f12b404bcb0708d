------------------------- MODULE CommitWriteProofs --------------------------
(***************************************************************************)
(* Proofs about the write path of CommitPipeline, on top of the invariant  *)
(* of CommitPipelineProofs: the order of the WAL, what a sync acknowledges,*)
(* the two bounded queues and what an ingestion sees. WritePathInv is      *)
(* inductive relative to PipelineInv: the semaphores count the entries of  *)
(* the queues, and commitPipeline.mu is held from the sequencing of a      *)
(* batch to its write.                                                     *)
(***************************************************************************)
EXTENDS CommitPipelineProofs, FiniteSetTheorems

\* A step of p that leaves the WAL, the semaphores and the batches alone.
Still(p) ==
    /\ Moves(p) /\ Edge(p)
    /\ pc[p] \notin {"commitSem", "syncSem", "assign", "wait"} /\ pc'[p] # "spin"
    /\ pc[p] = "spin" => Drained(p)
    /\ \A q \in Procs : q # p => cur'[q] = cur[q]
    /\ UNCHANGED <<kind, count, seqNum, commitErr, commitQueueSem, logSyncQSem, logSeqNum, walVars>>

LEMMA StillBefore ==
    ASSUME pc \in [Procs -> PCs], NEW p \in Procs,
           \/ EnqueueStore(p) \/ EnqueueAdvance(p) \/ WriteFails(p) \/ AllocPrepare(p)
           \/ DirectWriteWait(p) \/ Apply(p) \/ ApplyFails(p) \/ MarkApplied(p)
    PROVE  Still(p)
<1>1. Moves(p) /\ Edge(p)
  BY QuietBefore DEF Quiet
<1>2. /\ pc[p] \notin {"commitSem", "syncSem", "assign", "wait"}
      /\ pc'[p] # "spin" /\ (pc[p] = "spin" => Drained(p)) /\ cur' = cur
  BY Zenon DEF EnqueueStore, EnqueueAdvance, WriteFails, AllocPrepare, DirectWriteWait, Apply, ApplyFails,
         MarkApplied, Goto, localVars
<1>3. UNCHANGED <<kind, count, seqNum, commitErr, commitQueueSem, logSyncQSem, logSeqNum, walVars>>
  BY Zenon DEF EnqueueStore, EnqueueAdvance, WriteFails, AllocPrepare, DirectWriteWait, Apply, ApplyFails,
         MarkApplied, batchVars, semVars, seqVars
<1> QED BY <1>1, <1>2, <1>3 DEF Still

LEMMA StillPublish ==
    ASSUME TypeOK, NEW p \in Procs,
           \/ DequeueLoad(p) \/ DequeueSlot(p) \/ DequeueCheck(p) \/ DequeueCAS(p) \/ DequeueClear(p)
           \/ RatchetLoad(p) \/ RatchetCAS(p) \/ SyncWait(p) \/ Fatalf(p)
    PROVE  Still(p)
<1>0. pc \in [Procs -> PCs] /\ cur \in [Procs -> Nat]
  BY Zenon DEF TypeOK
<1>1. Moves(p) /\ Edge(p)
  BY <1>0, QuietPublish DEF Quiet
<1>2. pc[p] \notin {"commitSem", "syncSem", "assign", "wait", "spin"} /\ pc'[p] # "spin"
  <2>1. pc[p] \in {"load", "slot", "check", "cas", "clear", "ratchet", "ratchetCAS", "syncWait", "failed", "syncFailed"}
    BY Zenon DEF DequeueLoad, DequeueSlot, DequeueCheck, DequeueCAS, DequeueClear, RatchetLoad, RatchetCAS,
                 SyncWait, Fatalf, Goto
  <2> QED BY <1>1, <2>1 DEF Edge, PublishPCs
<1>3. \A q \in Procs : q # p => cur'[q] = cur[q]
  BY <1>0, Zenon DEF DequeueLoad, DequeueSlot, DequeueCheck, DequeueCAS, DequeueClear, RatchetLoad, RatchetCAS,
         SyncWait, Fatalf, localVars
<1>4. UNCHANGED <<kind, count, seqNum, commitErr, commitQueueSem, logSyncQSem, logSeqNum, walVars>>
  BY Zenon DEF DequeueLoad, DequeueSlot, DequeueCheck, DequeueCAS, DequeueClear, RatchetLoad, RatchetCAS,
               SyncWait, Fatalf, batchVars, semVars, seqVars
<1> QED BY <1>1, <1>2, <1>3, <1>4 DEF Still

LEMMA WriteSteps ==
    ASSUME TypeOK, [Next]_vars
    PROVE  \/ \E p \in Procs : Still(p)
           \/ \E p \in Procs : \/ Start(p) \/ Release(p) \/ PublishDone(p) \/ Lock(p) \/ Return(p)
                               \/ AcquireCommitQueueSem(p) \/ AcquireLogSyncQSem(p)
                               \/ AssignSeqNum(p) \/ Write(p) \/ DirectWrite(p)
           \/ \E err \in BOOLEAN : SyncDone(err)
           \/ UNCHANGED vars
<1>1. pc \in [Procs -> PCs]
  BY Zenon DEF TypeOK
<1>2. CASE Next
  BY <1>1, <1>2, NextCases, StillBefore, StillPublish, Zenon DEF Start
<1> QED BY <1>2, Zenon

-----------------------------------------------------------------------------
(* The semaphores. *)

LEMMA AddToken ==
    ASSUME NEW sem, Bounded(sem), HasRoom(sem), NEW p
    PROVE  Bounded(sem \cup {p})
<1>1. Cardinality(sem) \in Nat /\ SyncConcurrency \in Nat
  BY FS_CardinalityType, PipelineAssumption DEF Bounded
<1>2. IsFiniteSet(sem \cup {p}) /\ Cardinality(sem \cup {p}) <= Cardinality(sem) + 1
  BY <1>1, FS_AddElement DEF Bounded
<1>3. Cardinality(sem \cup {p}) \in Nat
  BY <1>2, FS_CardinalityType
<1> QED BY <1>1, <1>2, <1>3 DEF Bounded, HasRoom

LEMMA RemoveToken ==
    ASSUME NEW sem, Bounded(sem), NEW p
    PROVE  Bounded(sem \ {p})
<1>1. Cardinality(sem) \in Nat /\ SyncConcurrency \in Nat
  BY FS_CardinalityType, PipelineAssumption DEF Bounded
<1>2. IsFiniteSet(sem \ {p}) /\ Cardinality(sem \ {p}) <= Cardinality(sem)
  BY <1>1, FS_RemoveElement DEF Bounded
<1>3. Cardinality(sem \ {p}) \in Nat
  BY <1>2, FS_CardinalityType
<1> QED BY <1>1, <1>2, <1>3 DEF Bounded

\* Steps that neither take nor need a new token.
LEMMA TokenFrame ==
    ASSUME TokenInv, UNCHANGED <<commitQueueSem, logSyncQSem>>,
           \A q \in Procs : (QueueToken(q)' => QueueToken(q)) /\ (SyncToken(q)' => SyncToken(q))
    PROVE  TokenInv'
  BY DEF TokenInv, Bounded

LEMMA TokenStep ==
    ASSUME TypeOK, KindInv, SyncQueueInv, TokenInv, [Next]_vars
    PROVE  TokenInv'
<1>0. /\ pc \in [Procs -> PCs] /\ kind \in [Procs -> Kinds \cup {"plain"}] /\ syncQ \in Seq(Procs)
  BY Zenon DEF TypeOK
<1>1. ASSUME NEW p \in Procs, Still(p) PROVE TokenInv'
  <2>1. \A q : AwaitsSync(q)' <=> AwaitsSync(q)
    BY <1>0, <1>1, SyncQueueFacts DEF Still, walVars
  <2>2. \A q \in Procs : (QueueToken(q)' => QueueToken(q)) /\ (SyncToken(q)' => SyncToken(q))
    BY <1>1, <2>1 DEF Still, Moves, Edge, PublishPCs, QueueToken, SyncToken
  <2> QED BY <1>1, <2>2, TokenFrame DEF Still
<1>2. ASSUME NEW p \in Procs, Start(p) \/ Release(p) \/ PublishDone(p) \/ Lock(p) \/ AssignSeqNum(p)
      PROVE  TokenInv'
  <2>1. UNCHANGED <<commitQueueSem, logSyncQSem, syncQ>>
    BY <1>2, Zenon DEF Start, StartCommit, StartAllocate, Release, PublishDone, Lock, AssignSeqNum, semVars, walVars
  <2>2. \A q : AwaitsSync(q)' <=> AwaitsSync(q)
    BY <1>0, <2>1, SyncQueueFacts
  <2>3. \A q \in Procs : q # p => pc'[q] = pc[q] /\ kind'[q] = kind[q]
    BY <1>0, <1>2, Zenon DEF Start, StartCommit, StartAllocate, Release, PublishDone, Lock, AssignSeqNum, Goto
  <2>4. \/ pc'[p] \in {"idle", "commitSem", "load"} /\ (pc'[p] = "load" => pc[p] = "done")
        \/ pc[p] \in {"lock", "assign"} /\ kind' = kind /\ pc'[p] \in {"enqueue", "spin", "write"}
    BY <1>0, <1>2, Zenon DEF Start, StartCommit, StartAllocate, Release, PublishDone, Lock, AssignSeqNum, Goto
  <2>5. \A q \in Procs : (QueueToken(q)' => QueueToken(q)) /\ (SyncToken(q)' => SyncToken(q))
    BY <2>2, <2>3, <2>4 DEF QueueToken, SyncToken
  <2> QED BY <2>1, <2>5, TokenFrame
<1>3. ASSUME NEW p \in Procs, Write(p) PROVE TokenInv'
  <2>1. \A q : AwaitsSync(q)' <=> AwaitsSync(q) \/ (q = p /\ kind[p] # "plain")
    BY <1>0, <1>3, SyncQueueFacts, Zenon DEF Write
  <2>2. pc[p] = "write" /\ kind[p] # "alloc" /\ kind[p] \in {"plain", "sync", "noSyncWait", "alloc"}
    BY <1>0, <1>3, PipelineAssumption DEF Write, Goto, KindInv
  <2>3. UNCHANGED <<commitQueueSem, logSyncQSem, kind>> /\ \A q \in Procs : pc'[q] = IF q = p THEN "apply" ELSE pc[q]
    BY <1>0, <1>3 DEF Write, Goto, semVars, batchVars
  <2>4. \A q \in Procs : (QueueToken(q)' => QueueToken(q)) /\ (SyncToken(q)' => SyncToken(q))
    BY <2>1, <2>2, <2>3 DEF QueueToken, SyncToken
  <2> QED BY <2>3, <2>4, TokenFrame
<1>4. ASSUME NEW p \in Procs, AcquireCommitQueueSem(p) PROVE TokenInv'
  <2>1. UNCHANGED <<logSyncQSem, syncQ, kind>> /\ commitQueueSem' = commitQueueSem \cup {p} /\ HasRoom(commitQueueSem)
    BY <1>4 DEF AcquireCommitQueueSem, walVars, batchVars
  <2>2. \A q : AwaitsSync(q)' <=> AwaitsSync(q)
    BY <1>0, <2>1, SyncQueueFacts
  <2>3. /\ \A q \in Procs : q # p => pc'[q] = pc[q]
        /\ pc'[p] = IF kind[p] \in {"sync", "noSyncWait"} THEN "syncSem" ELSE "lock"
    BY <1>0, <1>4 DEF AcquireCommitQueueSem, Goto
  <2>4. Bounded(commitQueueSem') /\ Bounded(logSyncQSem')
    BY <2>1, AddToken DEF TokenInv
  <2> QED BY <2>1, <2>2, <2>3, <2>4 DEF TokenInv, QueueToken, SyncToken
<1>5. ASSUME NEW p \in Procs, AcquireLogSyncQSem(p) PROVE TokenInv'
  <2>1. UNCHANGED <<commitQueueSem, syncQ, kind>> /\ logSyncQSem' = logSyncQSem \cup {p} /\ HasRoom(logSyncQSem)
    BY <1>5 DEF AcquireLogSyncQSem, walVars, batchVars
  <2>2. \A q : AwaitsSync(q)' <=> AwaitsSync(q)
    BY <1>0, <2>1, SyncQueueFacts
  <2>3. pc[p] = "syncSem" /\ pc'[p] = "lock" /\ \A q \in Procs : q # p => pc'[q] = pc[q]
    BY <1>0, <1>5 DEF AcquireLogSyncQSem, Goto
  <2>4. Bounded(commitQueueSem') /\ Bounded(logSyncQSem')
    BY <2>1, AddToken DEF TokenInv
  <2> QED BY <2>1, <2>2, <2>3, <2>4 DEF TokenInv, QueueToken, SyncToken
<1>6. ASSUME NEW p \in Procs, DirectWrite(p) PROVE TokenInv'
  <2>1. UNCHANGED <<commitQueueSem, kind>> /\ logSyncQSem' = logSyncQSem \cup {p} /\ HasRoom(logSyncQSem)
    BY <1>6 DEF DirectWrite
  <2>2. \A q : AwaitsSync(q)' <=> AwaitsSync(q) \/ q = p
    BY <1>0, <1>6, SyncQueueFacts DEF DirectWrite
  <2>3. pc[p] = "directSem" /\ pc'[p] = "directWait" /\ \A q \in Procs : q # p => pc'[q] = pc[q]
    BY <1>0, <1>6 DEF DirectWrite, Goto
  <2>4. Bounded(commitQueueSem') /\ Bounded(logSyncQSem')
    BY <2>1, AddToken DEF TokenInv
  <2> QED BY <2>1, <2>2, <2>3, <2>4 DEF TokenInv, QueueToken, SyncToken
<1>7. ASSUME NEW p \in Procs, Return(p) PROVE TokenInv'
  <2>1. UNCHANGED <<logSyncQSem, syncQ, kind>> /\ commitQueueSem' = commitQueueSem \ {p}
    BY <1>7 DEF Return, walVars, batchVars
  <2>2. \A q : AwaitsSync(q)' <=> AwaitsSync(q)
    BY <1>0, <2>1, SyncQueueFacts
  <2>3. pc'[p] \in {"syncWait", "syncFailed", "acked"} /\ \A q \in Procs : q # p => pc'[q] = pc[q]
    BY <1>0, <1>7 DEF Return, Goto
  <2>4. Bounded(commitQueueSem') /\ Bounded(logSyncQSem')
    BY <2>1, RemoveToken DEF TokenInv
  <2> QED BY <2>1, <2>2, <2>3, <2>4 DEF TokenInv, QueueToken, SyncToken
<1>8. ASSUME NEW err \in BOOLEAN, SyncDone(err) PROVE TokenInv'
  <2>1. PICK b \in Procs : b = Head(syncQ) /\ AwaitsSync(b)
    BY <1>0, <1>8, SyncQueueFacts DEF SyncDone
  <2>2. \A q : AwaitsSync(q)' <=> AwaitsSync(q) /\ q # b
    BY <1>0, <1>8, <2>1, SyncQueueFacts DEF SyncDone
  <2>3. UNCHANGED <<pc, kind, commitQueueSem>> /\ logSyncQSem' = logSyncQSem \ {b}
    BY <1>8, <2>1 DEF SyncDone
  <2>4. pc[b] \notin {"lock", "enqueue", "advance", "assign", "write"}
    BY <2>1 DEF SyncQueueInv, SyncWaiters, Written, InPublish, Publishing
  <2>5. Bounded(commitQueueSem') /\ Bounded(logSyncQSem')
    BY <2>3, RemoveToken DEF TokenInv
  <2> QED BY <2>2, <2>3, <2>4, <2>5 DEF TokenInv, QueueToken, SyncToken
<1>9. CASE UNCHANGED vars
  <2>1. UNCHANGED <<commitQueueSem, logSyncQSem, pc, kind, syncQ>>
    BY <1>9 DEF vars, semVars, batchVars, walVars
  <2> QED BY <2>1, TokenFrame DEF QueueToken, SyncToken, AwaitsSync
<1> QED BY <1>1, <1>2, <1>3, <1>4, <1>5, <1>6, <1>7, <1>8, <1>9, WriteSteps, Zenon

-----------------------------------------------------------------------------
(* The order of the WAL. *)

LEMMA WALFrame ==
    ASSUME WALInSeqNumOrder, WALInv, UNCHANGED <<wal, logSeqNum>>,
           \A q \in Procs : pc'[q] \in {"write", "spin", "directSem"} =>
                pc[q] \in {"write", "spin", "directSem"} /\ seqNum'[q] = seqNum[q]
    PROVE  WALInSeqNumOrder' /\ WALInv'
  BY DEF WALInSeqNumOrder, WALInv

\* The writer appends its record while it holds commitPipeline.mu.
LEMMA WALAppend ==
    ASSUME TypeOK, MuInv, WALInSeqNumOrder, WALInv, NEW p \in Procs,
           pc[p] \in {"write", "directSem"}, pc'[p] \notin {"write", "spin", "directSem"},
           \A q \in Procs : q # p => pc'[q] = pc[q],
           wal' = Append(wal, seqNum[p]), UNCHANGED <<seqNum, logSeqNum>>
    PROVE  WALInSeqNumOrder' /\ WALInv'
<1>1. wal \in Seq(Nat) /\ seqNum[p] \in Nat /\ logSeqNum \in Nat
  BY DEF TypeOK
<1>2. Len(wal) \in Nat /\ Len(wal') = Len(wal) + 1 /\ wal'[Len(wal) + 1] = seqNum[p]
  BY <1>1
<1>3. \A i \in 1 .. Len(wal) : wal'[i] = wal[i] /\ wal[i] \in Nat
  BY <1>1
<1>4. seqNum[p] <= logSeqNum /\ \A i \in 1 .. Len(wal) : wal[i] <= seqNum[p] /\ wal[i] <= logSeqNum
  BY DEF WALInv
<1>5. WALInSeqNumOrder'
  <2> SUFFICES ASSUME NEW i \in 1 .. Len(wal'), NEW j \in 1 .. Len(wal'), i < j
               PROVE  wal'[i] <= wal'[j]
    BY DEF WALInSeqNumOrder
  <2>1. i \in 1 .. Len(wal) /\ (j \in 1 .. Len(wal) \/ j = Len(wal) + 1)
    BY <1>2
  <2> QED BY <1>2, <1>3, <1>4, <2>1 DEF WALInSeqNumOrder
<1>6. \A i \in 1 .. Len(wal') : wal'[i] <= logSeqNum'
  BY <1>2, <1>3, <1>4
<1>7. \A q \in Procs : pc'[q] \notin {"write", "spin", "directSem"}
  BY PipelineAssumption DEF MuInv
<1> QED BY <1>5, <1>6, <1>7 DEF WALInv

LEMMA WALStep ==
    ASSUME TypeOK, MuInv, WALInSeqNumOrder, WALInv, [Next]_vars
    PROVE  WALInSeqNumOrder' /\ WALInv'
<1>0. pc \in [Procs -> PCs] /\ seqNum \in [Procs -> Nat] /\ count \in [Procs -> Nat] /\ logSeqNum \in Nat
  BY Zenon DEF TypeOK
<1>1. ASSUME NEW p \in Procs, Still(p) PROVE WALInSeqNumOrder' /\ WALInv'
  <2>1. \A q \in Procs : pc'[q] \in {"write", "spin", "directSem"} => pc[q] \in {"write", "spin", "directSem"}
    BY <1>1 DEF Still, Moves, Edge, PublishPCs
  <2> QED BY <1>1, <2>1, WALFrame DEF Still, walVars
<1>2. ASSUME NEW p \in Procs, \/ Start(p) \/ Release(p) \/ PublishDone(p) \/ Lock(p) \/ Return(p)
                             \/ AcquireCommitQueueSem(p) \/ AcquireLogSyncQSem(p)
      PROVE  WALInSeqNumOrder' /\ WALInv'
  <2>1. UNCHANGED <<wal, logSeqNum>>
    BY <1>2, Zenon DEF Start, StartCommit, StartAllocate, Release, PublishDone, Lock, Return,
                       AcquireCommitQueueSem, AcquireLogSyncQSem, seqVars, walVars
  <2>2. \A q \in Procs : q # p => pc'[q] = pc[q] /\ seqNum'[q] = seqNum[q]
    BY <1>0, <1>2, Zenon DEF Start, StartCommit, StartAllocate, Release, PublishDone, Lock, Return,
                       AcquireCommitQueueSem, AcquireLogSyncQSem, Goto, batchVars
  <2>3. pc'[p] \in {"commitSem", "idle", "load", "enqueue", "syncSem", "lock", "syncWait", "syncFailed", "acked"}
    BY <1>0, <1>2, Zenon DEF Start, StartCommit, StartAllocate, Release, PublishDone, Lock, Return,
                       AcquireCommitQueueSem, AcquireLogSyncQSem, Goto
  <2> QED BY <2>1, <2>2, <2>3, WALFrame
<1>3. ASSUME NEW p \in Procs, AssignSeqNum(p) PROVE WALInSeqNumOrder' /\ WALInv'
  <2>1. wal' = wal /\ seqNum'[p] = FirstSeqNum(p) /\ logSeqNum' = FirstSeqNum(p) + count[p]
    BY <1>0, <1>3 DEF AssignSeqNum, walVars
  <2>2. FirstSeqNum(p) \in Nat /\ FirstSeqNum(p) >= logSeqNum /\ count[p] \in Nat
    BY <1>0 DEF FirstSeqNum, SkippedZero
  <2>3. \A i \in 1 .. Len(wal) : wal[i] \in Nat /\ wal[i] <= logSeqNum
    <3>1. wal \in Seq(Nat)
      BY Zenon DEF TypeOK
    <3> QED BY <3>1 DEF WALInv
  <2>4. \A q \in Procs : q # p => pc'[q] \notin {"write", "spin", "directSem"}
    BY <1>0, <1>3, PipelineAssumption DEF AssignSeqNum, Goto, MuInv
  <2>5. WALInSeqNumOrder'
    BY <2>1 DEF WALInSeqNumOrder
  <2>6. WALInv'
    BY <1>0, <2>1, <2>2, <2>3, <2>4 DEF WALInv
  <2> QED BY <2>5, <2>6
<1>4. ASSUME NEW p \in Procs, Write(p) PROVE WALInSeqNumOrder' /\ WALInv'
  BY <1>0, <1>4, WALAppend DEF Write, Goto, batchVars, seqVars
<1>5. ASSUME NEW p \in Procs, DirectWrite(p) PROVE WALInSeqNumOrder' /\ WALInv'
  BY <1>0, <1>5, WALAppend DEF DirectWrite, Goto, seqVars
<1>6. ASSUME NEW err \in BOOLEAN, SyncDone(err) PROVE WALInSeqNumOrder' /\ WALInv'
  BY <1>6, WALFrame DEF SyncDone, seqVars
<1>7. CASE UNCHANGED vars
  BY <1>7, WALFrame DEF vars, batchVars, seqVars, walVars
<1> QED BY <1>1, <1>2, <1>3, <1>4, <1>5, <1>6, <1>7, WriteSteps, Zenon

-----------------------------------------------------------------------------
(* What a sync acknowledges. *)

LEMMA DurableFrame ==
    ASSUME DurableInv, walSynced \in Nat, walSynced' \in Nat, walSynced <= walSynced',
           walPos \in [Procs -> Nat],
           \A q \in Procs : Committing(q)' /\ ~AwaitsSync(q)' /\ ~commitErr'[q] =>
                \/ Committing(q) /\ ~AwaitsSync(q) /\ ~commitErr[q] /\ walPos'[q] = walPos[q]
                \/ walPos'[q] <= walSynced'
    PROVE  DurableInv'
<1> SUFFICES ASSUME NEW q \in Procs, Committing(q)' /\ ~AwaitsSync(q)' /\ ~commitErr'[q]
             PROVE  walPos'[q] <= walSynced'
  BY DEF DurableInv
<1>1. CASE walPos'[q] <= walSynced'
  BY <1>1
<1>2. CASE Committing(q) /\ ~AwaitsSync(q) /\ ~commitErr[q] /\ walPos'[q] = walPos[q]
  <2>1. walPos[q] <= walSynced /\ walPos[q] \in Nat
    BY <1>2 DEF DurableInv
  <2> QED BY <1>2, <2>1
<1> QED BY <1>1, <1>2

LEMMA DurableStep ==
    ASSUME TypeOK, KindInv, SyncQueueInv, DurableInv, [Next]_vars
    PROVE  DurableInv'
<1>0. /\ pc \in [Procs -> PCs] /\ kind \in [Procs -> Kinds \cup {"plain"}] /\ syncQ \in Seq(Procs)
      /\ walPos \in [Procs -> Nat] /\ walSynced \in Nat /\ commitErr \in [Procs -> BOOLEAN]
  BY Zenon DEF TypeOK
<1> USE DEF Committing, InPublish, Publishing
<1>1. ASSUME NEW p \in Procs, Still(p) PROVE DurableInv'
  <2>1. \A q : AwaitsSync(q)' <=> AwaitsSync(q)
    BY <1>0, <1>1, SyncQueueFacts DEF Still, walVars
  <2>2. \A q \in Procs : Committing(q)' => Committing(q)
    BY <1>1 DEF Still, Moves, Edge, PublishPCs, KindInv
  <2>3. UNCHANGED <<walPos, walSynced, commitErr>>
    BY <1>1 DEF Still, walVars
  <2>4. walSynced' \in Nat /\ walSynced <= walSynced'
    BY <1>0, <2>3
  <2> HIDE DEF Committing
  <2> QED BY <1>0, <2>1, <2>2, <2>3, <2>4, DurableFrame
<1>2. ASSUME NEW p \in Procs, \/ Start(p) \/ Release(p) \/ PublishDone(p) \/ Lock(p) \/ Return(p)
                             \/ AcquireCommitQueueSem(p) \/ AcquireLogSyncQSem(p) \/ AssignSeqNum(p)
      PROVE  DurableInv'
  <2>1. UNCHANGED <<walSynced, syncQ>>
    BY <1>2, Zenon DEF Start, StartCommit, StartAllocate, Release, PublishDone, Lock, Return,
                       AcquireCommitQueueSem, AcquireLogSyncQSem, AssignSeqNum, walVars
  <2>2. \A q : AwaitsSync(q)' <=> AwaitsSync(q)
    BY <1>0, <2>1, SyncQueueFacts
  <2>3. \A q \in Procs : q # p => /\ pc'[q] = pc[q] /\ kind'[q] = kind[q]
                                 /\ commitErr'[q] = commitErr[q] /\ walPos'[q] = walPos[q]
    BY <1>0, <1>2, Zenon DEF Start, StartCommit, StartAllocate, Release, PublishDone, Lock, Return,
                       AcquireCommitQueueSem, AcquireLogSyncQSem, AssignSeqNum, Goto, batchVars, walVars
  <2>4. \/ pc'[p] \in {"commitSem", "idle", "enqueue", "syncSem", "lock", "write", "spin"}
        \/ /\ pc[p] \in {"wait", "done"} /\ UNCHANGED <<kind, commitErr, walPos>>
           /\ pc'[p] \in {"load", "syncWait", "syncFailed", "acked"}
    BY <1>0, <1>2, Zenon DEF Start, StartCommit, StartAllocate, Release, PublishDone, Lock, Return,
                       AcquireCommitQueueSem, AcquireLogSyncQSem, AssignSeqNum, Goto, batchVars, walVars
  <2>5. \A q \in Procs : Committing(q)' => /\ Committing(q) /\ walPos'[q] = walPos[q]
                                          /\ commitErr'[q] = commitErr[q]
    BY <2>3, <2>4
  <2>6. walSynced' \in Nat /\ walSynced <= walSynced'
    BY <1>0, <2>1
  <2> HIDE DEF Committing
  <2> QED BY <1>0, <2>2, <2>5, <2>6, DurableFrame
<1>3. ASSUME NEW p \in Procs, Write(p) \/ DirectWrite(p) PROVE DurableInv'
  <2>1. UNCHANGED <<kind, commitErr, walSynced>>
    BY <1>3, Zenon DEF Write, DirectWrite, batchVars
  <2>2. \A q \in Procs : q # p => pc'[q] = pc[q] /\ walPos'[q] = walPos[q]
    BY <1>0, <1>3 DEF Write, DirectWrite, Goto
  <2>3. /\ \A q : AwaitsSync(q) => AwaitsSync(q)'
        /\ \A q : AwaitsSync(q)' => AwaitsSync(q) \/ q = p
        /\ AwaitsSync(p)' \/ kind[p] = "plain"
    BY <1>0, <1>3, SyncQueueFacts, Zenon DEF Write, DirectWrite
  <2>4. walSynced' \in Nat /\ walSynced <= walSynced'
    BY <1>0, <2>1
  <2>5. \A q \in Procs : Committing(q)' /\ ~AwaitsSync(q)' =>
            Committing(q) /\ ~AwaitsSync(q) /\ walPos'[q] = walPos[q]
    BY <2>1, <2>2, <2>3
  <2> HIDE DEF Committing
  <2> QED BY <1>0, <2>1, <2>4, <2>5, DurableFrame
<1>4. ASSUME NEW err \in BOOLEAN, SyncDone(err) PROVE DurableInv'
  <2>1. PICK b \in Procs : b = Head(syncQ)
    BY <1>0, <1>4, SyncQueueFacts DEF SyncDone
  <2>2. \A q : AwaitsSync(q)' <=> AwaitsSync(q) /\ q # b
    BY <1>0, <1>4, <2>1, SyncQueueFacts DEF SyncDone
  <2>3. UNCHANGED <<pc, kind, walPos>> /\ commitErr' = [commitErr EXCEPT ![b] = err]
    BY <1>4, <2>1 DEF SyncDone
  <2>4. walSynced' = IF err \/ walPos[b] < walSynced THEN walSynced ELSE walPos[b]
    BY <1>4, <2>1 DEF SyncDone
  <2>5. walPos[b] \in Nat
    BY <1>0
  <2>6. walSynced' \in Nat /\ walSynced <= walSynced'
    BY <1>0, <2>4, <2>5
  <2>7. err \/ walPos[b] <= walSynced'
    BY <1>0, <2>4, <2>5
  <2>8. commitErr'[b] = err /\ \A q \in Procs : q # b => commitErr'[q] = commitErr[q]
    BY <1>0, <2>3, Zenon
  <2>9. \A q \in Procs : Committing(q)' <=> Committing(q)
    BY <2>3
  <2> HIDE DEF Committing
  <2>10. \A q \in Procs : Committing(q)' /\ ~AwaitsSync(q)' /\ ~commitErr'[q] =>
                \/ Committing(q) /\ ~AwaitsSync(q) /\ ~commitErr[q] /\ walPos'[q] = walPos[q]
                \/ walPos'[q] <= walSynced'
    BY <2>2, <2>3, <2>7, <2>8, <2>9, Zenon
  <2> QED BY <1>0, <2>6, <2>10, DurableFrame
<1>5. CASE UNCHANGED vars
  <2>1. UNCHANGED <<pc, kind, commitErr, walPos, walSynced, syncQ>>
    BY <1>5 DEF vars, batchVars, walVars
  <2> QED BY <2>1 DEF DurableInv, AwaitsSync
<1> QED BY <1>1, <1>2, <1>3, <1>4, <1>5, WriteSteps, Zenon

-----------------------------------------------------------------------------
(* What an ingestion sees. *)

LEMMA IngestFrame ==
    ASSUME IngestInv,
           \A q \in Procs :
                /\ Unapplied(q)' => Unapplied(q) /\ count'[q] = count[q] /\ seqNum'[q] = seqNum[q]
                /\ pc'[q] = "spin" => pc[q] = "spin" /\ cur'[q] = cur[q]
                /\ pc'[q] \in {"directSem", "directWait"} => pc[q] \in {"directSem", "directWait"}
    PROVE  IngestInv'
<1> SUFFICES ASSUME NEW p \in Procs, NEW q \in Procs, q # p, Unapplied(q)'
             PROVE  /\ pc'[p] = "spin" => EndSeqNum(q)' <= cur'[p]
                    /\ pc'[p] \in {"directSem", "directWait"} => count'[q] = 0
  BY DEF IngestInv
<1>1. Unapplied(q) /\ EndSeqNum(q)' = EndSeqNum(q) /\ count'[q] = count[q]
  BY DEF EndSeqNum
<1> QED BY <1>1 DEF IngestInv

LEMMA IngestStep ==
    ASSUME IInv, IngestInv, [Next]_vars
    PROVE  IngestInv'
<1>0. /\ TypeOK
      /\ pc \in [Procs -> PCs] /\ kind \in [Procs -> Kinds \cup {"plain"}] /\ cur \in [Procs -> Nat]
      /\ seqNum \in [Procs -> Nat] /\ count \in [Procs -> Nat] /\ logSeqNum \in Nat /\ visibleSeqNum \in Nat
  BY Zenon DEF IInv, TypeOK
<1>1. ASSUME NEW p \in Procs, Still(p) PROVE IngestInv'
  <2>1. UNCHANGED <<count, seqNum>>
    BY <1>1 DEF Still
  <2>2. \A q \in Procs : Unapplied(q)' => Unapplied(q)
    BY <1>1 DEF Still, Moves, Edge, PublishPCs, Unapplied
  <2>3. \A q \in Procs : pc'[q] = "spin" => pc[q] = "spin" /\ cur'[q] = cur[q]
    BY <1>1 DEF Still, Moves
  <2>4. \A q \in Procs : pc'[q] \in {"directSem", "directWait"} =>
            pc[q] \in {"directSem", "directWait"} \/ (q = p /\ pc[p] = "spin" /\ Drained(p))
    BY <1>1 DEF Still, Moves, Edge, PublishPCs
  <2>5. CASE pc[p] = "spin" /\ pc'[p] \in {"directSem", "directWait"}
    <3>1. \A q \in Procs : Unapplied(q) => visibleSeqNum <= seqNum[q]
      BY IInvImplies DEF VisibleIsApplied
    <3>2. visibleSeqNum = cur[p]
      BY <2>4, <2>5 DEF Drained
    <3>3. \A q \in Procs : q # p /\ Unapplied(q) => count[q] = 0
      BY <1>0, <2>5, <3>1, <3>2 DEF IngestInv, EndSeqNum
    <3>4. \A q \in Procs : q # p => pc'[q] = pc[q] /\ pc[q] # "spin"
      BY <1>1, <2>5, PipelineAssumption DEF Still, Moves, IInv, PipelineInv, MuInv
    <3>5. \A q \in Procs : q # p => pc[q] \notin {"directSem", "directWait"}
      BY <2>5, PipelineAssumption DEF IInv, PipelineInv, MuInv
    <3> QED BY <2>1, <2>2, <2>5, <3>3, <3>4, <3>5 DEF IngestInv
  <2>6. CASE ~(pc[p] = "spin" /\ pc'[p] \in {"directSem", "directWait"})
    BY <2>1, <2>2, <2>3, <2>4, <2>6, IngestFrame
  <2> QED BY <2>5, <2>6
<1>2. ASSUME NEW p \in Procs, \/ Start(p) \/ Release(p) \/ PublishDone(p) \/ Lock(p) \/ Return(p)
                             \/ AcquireCommitQueueSem(p) \/ AcquireLogSyncQSem(p)
      PROVE  IngestInv'
  <2>1. \A q \in Procs : q # p => /\ pc'[q] = pc[q] /\ cur'[q] = cur[q]
                                 /\ count'[q] = count[q] /\ seqNum'[q] = seqNum[q]
    BY <1>0, <1>2, Zenon DEF Start, StartCommit, StartAllocate, Release, PublishDone, Lock, Return,
                       AcquireCommitQueueSem, AcquireLogSyncQSem, Goto, batchVars, localVars
  <2>2. pc'[p] \in {"commitSem", "idle", "load", "enqueue", "syncSem", "lock", "syncWait", "syncFailed", "acked"}
    BY <1>0, <1>2, Zenon DEF Start, StartCommit, StartAllocate, Release, PublishDone, Lock, Return,
                       AcquireCommitQueueSem, AcquireLogSyncQSem, Goto
  <2> QED BY <2>1, <2>2, IngestFrame DEF Unapplied
<1>3. ASSUME NEW p \in Procs, AssignSeqNum(p) PROVE IngestInv'
  <2>1. /\ \A q \in Procs : q # p => pc'[q] = pc[q] /\ seqNum'[q] = seqNum[q]
        /\ pc'[p] = (IF kind[p] = "alloc" THEN "spin" ELSE "write") /\ count' = count
        /\ pc'[p] = "spin" => cur'[p] = logSeqNum
    BY <1>0, <1>3 DEF AssignSeqNum, Goto
  <2>2. \A q \in Procs : q # p => pc[q] \notin {"assign", "spin", "directSem", "directWait"}
    BY <1>3, PipelineAssumption DEF AssignSeqNum, Goto, IInv, PipelineInv, MuInv
  <2>3. \A q \in Procs : q # p /\ Unapplied(q) => EndSeqNum(q) <= logSeqNum
    <3> SUFFICES ASSUME NEW q \in Procs, q # p, Unapplied(q) PROVE EndSeqNum(q) <= logSeqNum
      OBVIOUS
    <3>1. PICK i \in Window : At(i) = q
      BY DEF IInv, PipelineInv, AppliedInv, BeforePublish, InQueue
    <3>2. pc[At(i)] # "assign"
      BY <2>2, <3>1
    <3> QED BY <3>1, <3>2 DEF IInv, PipelineInv, SeqNumInv
  <2> QED BY <2>1, <2>2, <2>3 DEF IngestInv, Unapplied, EndSeqNum
<1>4. ASSUME NEW p \in Procs, Write(p) \/ DirectWrite(p) PROVE IngestInv'
  <2>1. UNCHANGED <<count, seqNum, cur>> /\ \A q \in Procs : q # p => pc'[q] = pc[q]
    BY <1>0, <1>4 DEF Write, DirectWrite, Goto, batchVars, localVars
  <2>2. \/ pc[p] = "write" /\ pc'[p] = "apply"
        \/ pc[p] = "directSem" /\ pc'[p] = "directWait"
    BY <1>0, <1>4 DEF Write, DirectWrite, Goto
  <2> QED BY <2>1, <2>2, IngestFrame DEF Unapplied
<1>5. ASSUME NEW err \in BOOLEAN, SyncDone(err) PROVE IngestInv'
  <2>1. UNCHANGED <<pc, count, seqNum, cur>>
    BY <1>5 DEF SyncDone, localVars
  <2> QED BY <2>1, IngestFrame DEF Unapplied
<1>6. CASE UNCHANGED vars
  <2>1. UNCHANGED <<pc, count, seqNum, cur>>
    BY <1>6 DEF vars, batchVars, localVars
  <2> QED BY <2>1, IngestFrame DEF Unapplied
<1> QED BY <1>0, <1>1, <1>2, <1>3, <1>4, <1>5, <1>6, WriteSteps, Zenon

-----------------------------------------------------------------------------
(* The invariant and what follows from it. *)

LEMMA InitWritePath == Init => WritePathInv
<1> SUFFICES ASSUME Init PROVE WritePathInv
  OBVIOUS
<1>1. Bounded({})
  BY FS_EmptySet, PipelineAssumption DEF Bounded
<1>2. /\ \A p \in Procs : pc[p] = "idle"
      /\ commitQueueSem = {} /\ logSyncQSem = {} /\ Len(wal) = 0 /\ Len(syncQ) = 0
  BY DEF Init
<1>3. TokenInv
  BY <1>1, <1>2 DEF TokenInv, QueueToken, SyncToken, AwaitsSync
<1>4. WALInSeqNumOrder /\ WALInv
  BY <1>2 DEF WALInSeqNumOrder, WALInv
<1>5. DurableInv /\ IngestInv
  BY <1>2 DEF DurableInv, Committing, InPublish, Publishing, IngestInv, Unapplied
<1> QED BY <1>3, <1>4, <1>5 DEF WritePathInv

LEMMA NextWritePath == IInv /\ WritePathInv /\ [Next]_vars => WritePathInv'
<1> SUFFICES ASSUME IInv, WritePathInv, [Next]_vars PROVE WritePathInv'
  OBVIOUS
<1>1. TypeOK /\ MuInv /\ KindInv /\ SyncQueueInv
  BY DEF IInv, PipelineInv
<1>2. TokenInv /\ WALInSeqNumOrder /\ WALInv /\ DurableInv /\ IngestInv
  BY DEF WritePathInv
<1> QED BY <1>1, <1>2, TokenStep, WALStep, DurableStep, IngestStep DEF WritePathInv

\* A set of indices that maps one to one into a bounded set is bounded.
LEMMA InjectionBound ==
    ASSUME NEW S, IsFiniteSet(S), NEW a \in Int, NEW b \in Int, NEW f \in [a .. b -> S],
           \A i, j \in a .. b : f[i] = f[j] => i = j
    PROVE  b - a + 1 <= Cardinality(S)
<1>1. IsInjective(f)
  BY DEF IsInjective
<1>2. f \in Injection(a .. b, S)
  BY <1>1 DEF Injection
<1>3. IsFiniteSet(a .. b) /\ Cardinality(a .. b) = IF a > b THEN 0 ELSE b - a + 1
  BY FS_Interval
<1>4. Cardinality(a .. b) <= Cardinality(S)
  BY <1>2, FS_Injection
<1>5. Cardinality(S) \in Nat
  BY FS_CardinalityType
<1> QED BY <1>3, <1>4, <1>5


LEMMA CommitQueueBound ==
    ASSUME IInv, WritePathInv
    PROVE  ~QueueFull
<1>0. headTail.head \in Nat /\ headTail.tail \in Nat /\ SyncConcurrency \in Nat
  BY PipelineAssumption DEF IInv, TypeOK
<1>1. \A i \in Window : At(i) \in commitQueueSem
  BY Zenon DEF IInv, PipelineInv, RingInv, RingEntries, BeforePublish, InPublish, Publishing, Unapplied,
               WritePathInv, TokenInv, QueueToken
<1>2. \A i, j \in Window : At(i) = At(j) => i = j
  BY Zenon DEF IInv, PipelineInv, RingInv, RingEntries
<1> DEFINE f == [i \in headTail.tail .. headTail.head - 1 |-> At(i)]
<1>3. /\ f \in [headTail.tail .. headTail.head - 1 -> commitQueueSem]
      /\ \A i, j \in headTail.tail .. headTail.head - 1 : f[i] = f[j] => i = j
  BY <1>1, <1>2 DEF Window
<1>4. IsFiniteSet(commitQueueSem) /\ Cardinality(commitQueueSem) <= SyncConcurrency - 1
  BY DEF WritePathInv, TokenInv, Bounded
<1> HIDE DEF f
<1>5. headTail.head - headTail.tail <= Cardinality(commitQueueSem)
  <2>1. headTail.head - 1 \in Int /\ headTail.tail \in Int
    BY <1>0
  <2>2. headTail.head - 1 - headTail.tail + 1 <= Cardinality(commitQueueSem)
    BY <1>3, <1>4, <2>1, InjectionBound
  <2>3. Cardinality(commitQueueSem) \in Nat
    BY <1>4, FS_CardinalityType
  <2> QED BY <1>0, <2>2, <2>3
<1>6. Cardinality(commitQueueSem) \in Nat
  BY <1>4, FS_CardinalityType
<1> QED BY <1>0, <1>4, <1>5, <1>6 DEF QueueFull

LEMMA SyncQueueBound ==
    ASSUME IInv, WritePathInv
    PROVE  Len(syncQ) < SyncConcurrency
<1>0. syncQ \in Seq(Procs) /\ Len(syncQ) \in Nat /\ SyncConcurrency \in Nat
  BY PipelineAssumption DEF IInv, TypeOK
<1>1. \A i \in 1 .. Len(syncQ) : syncQ[i] \in Procs
  BY <1>0
<1>2. \A i \in 1 .. Len(syncQ) : syncQ[i] \in logSyncQSem
  BY <1>1 DEF WritePathInv, TokenInv, SyncToken, AwaitsSync
<1> DEFINE f == [i \in 1 .. Len(syncQ) |-> syncQ[i]]
<1>3. f \in [1 .. Len(syncQ) -> logSyncQSem] /\ \A i, j \in 1 .. Len(syncQ) : f[i] = f[j] => i = j
  BY <1>2 DEF IInv, PipelineInv, SyncQueueInv, SyncQDistinct
<1>4. IsFiniteSet(logSyncQSem) /\ Cardinality(logSyncQSem) <= SyncConcurrency - 1
  BY DEF WritePathInv, TokenInv, Bounded
<1> HIDE DEF f
<1>5. Len(syncQ) - 1 + 1 <= Cardinality(logSyncQSem)
  BY <1>0, <1>3, <1>4, InjectionBound
<1>6. Cardinality(logSyncQSem) \in Nat
  BY <1>4, FS_CardinalityType
<1> QED BY <1>0, <1>4, <1>5, <1>6

\* The four safety properties of the write path follow from the two invariants.
LEMMA WritePathImplies ==
    ASSUME IInv, WritePathInv
    PROVE  SyncAckIsDurable /\ WALInSeqNumOrder /\ QueuesNeverOverflow /\ IngestSeesEarlierWrites
<1>1. SyncAckIsDurable
  <2>1. \A p \in Procs : pc[p] = "acked" => ~AwaitsSync(p)
    BY DEF IInv, PipelineInv, SyncQueueInv, SyncWaiters, Written, InPublish, Publishing
  <2>2. \A p \in Procs : pc[p] = "acked" /\ kind[p] \in {"sync", "noSyncWait"} => Committing(p)
    BY DEF Committing
  <2> QED BY <2>1, <2>2, Zenon DEF WritePathInv, DurableInv, SyncAckIsDurable
<1>2. WALInSeqNumOrder
  BY DEF WritePathInv
<1>3. QueuesNeverOverflow
  BY CommitQueueBound, SyncQueueBound DEF QueuesNeverOverflow
<1>4. IngestSeesEarlierWrites
  BY DEF WritePathInv, IngestInv, IngestSeesEarlierWrites
<1> QED BY <1>1, <1>2, <1>3, <1>4

\* The semaphores, the WAL, the sync queue and a waiting ingestion agree, in every
\* state and for any number of goroutines, with what commitPipeline.prepare,
\* directWrite and AllocateSeqNum assume of one another.
THEOREM WritePathInvariant == Spec => [](TypeOK /\ PipelineInv /\ WritePathInv)
<1>1. Init => IInv /\ WritePathInv
  BY InitIInv, InitWritePath
<1>2. IInv /\ WritePathInv /\ [Next]_vars => (IInv /\ WritePathInv)'
  BY NextIInv, NextWritePath
<1>3. IInv /\ WritePathInv <=> TypeOK /\ PipelineInv /\ WritePathInv
  BY DEF IInv
<1> QED BY <1>1, <1>2, <1>3, PTL DEF Spec

\* A Commit or SyncWait that returned without an error for a synced batch returned
\* after the batch's record was on disk.
THEOREM SyncIsDurable == Spec => []SyncAckIsDurable
<1>1. TypeOK /\ PipelineInv /\ WritePathInv => SyncAckIsDurable
  BY WritePathImplies DEF IInv
<1> QED BY <1>1, WritePathInvariant, PTL

\* Records reach the WAL in the order in which commitPipeline.prepare and
\* AllocateSeqNum handed out the sequence numbers.
THEOREM WALIsInOrder == Spec => []WALInSeqNumOrder
<1>1. TypeOK /\ PipelineInv /\ WritePathInv => WALInSeqNumOrder
  BY WritePathImplies DEF IInv
<1> QED BY <1>1, WritePathInvariant, PTL

\* commitQueue.enqueue and syncQueue.push never meet a full queue: the panics they
\* guard against are unreachable for every SyncConcurrency of at least 2.
THEOREM QueuesAreBounded == Spec => []QueuesNeverOverflow
<1>1. TypeOK /\ PipelineInv /\ WritePathInv => QueuesNeverOverflow
  BY WritePathImplies DEF IInv
<1> QED BY <1>1, WritePathInvariant, PTL

\* An ingestion that goes on as a flushable waited for every write sequenced before
\* it: none of them can still reach a memtable.
THEOREM IngestSeesWrites == Spec => []IngestSeesEarlierWrites
<1>1. TypeOK /\ PipelineInv /\ WritePathInv => IngestSeesEarlierWrites
  BY WritePathImplies DEF IInv
<1> QED BY <1>1, WritePathInvariant, PTL
=============================================================================
