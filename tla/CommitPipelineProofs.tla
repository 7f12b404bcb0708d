------------------------ MODULE CommitPipelineProofs ------------------------
(***************************************************************************)
(* Proofs about CommitPipeline for any set of goroutines, any queue size   *)
(* of at least two and any batch counts. The inductive invariant is        *)
(* TypeOK /\ PipelineInv. Its queue part (QueueInv) is preserved by the    *)
(* lemmas of CommitQueueProofs and CommitDequeueProofs and two of this     *)
(* module, its mutex, WaitGroup and sync-queue parts by those of           *)
(* CommitControlProofs: Batch.commit reaches zero only when the batch was  *)
(* published, which lets Release reuse the batch.                          *)
(***************************************************************************)
EXTENDS CommitDequeueProofs, CommitControlProofs

\* Types of the updates that the type invariant needs.
LEMMA UpdateTypes ==
    /\ \A t \in [head : Nat, tail : Nat] :
          /\ [t EXCEPT !.head = @ + 1] \in [head : Nat, tail : Nat]
          /\ [t EXCEPT !.tail = @ + 1] \in [head : Nat, tail : Nat]
    /\ \A f \in [Procs -> Int], b \in Procs : [f EXCEPT ![b] = @ - 1] \in [Procs -> Int]
    /\ \A f \in [Procs -> Nat], p \in Procs, n \in Nat : [f EXCEPT ![p] = n] \in [Procs -> Nat]
    /\ \A w \in Seq(Nat) : Len(w) + 1 \in Nat
    /\ \A q \in Seq(Procs) : q # <<>> => Head(q) \in Procs /\ Tail(q) \in Seq(Procs)
<1>1. \A t \in [head : Nat, tail : Nat] :
        /\ [t EXCEPT !.head = @ + 1] \in [head : Nat, tail : Nat]
        /\ [t EXCEPT !.tail = @ + 1] \in [head : Nat, tail : Nat]
  OBVIOUS
<1>2. \A f \in [Procs -> Int], b \in Procs : [f EXCEPT ![b] = @ - 1] \in [Procs -> Int]
  OBVIOUS
<1>3. \A f \in [Procs -> Nat], p \in Procs, n \in Nat : [f EXCEPT ![p] = n] \in [Procs -> Nat]
  OBVIOUS
<1>4. \A w \in Seq(Nat) : Len(w) + 1 \in Nat
  OBVIOUS
<1>5. \A q \in Seq(Procs) : q # <<>> => Head(q) \in Procs /\ Tail(q) \in Seq(Procs)
  OBVIOUS
<1>6. QED BY <1>1, <1>2, <1>3, <1>4, <1>5

\* Every step keeps the state well formed.
LEMMA TypeStep ==
    ASSUME TypeOK, QueueInv, [Next]_vars
    PROVE  TypeOK'
<1> USE DEF TypeOK, PCs, Goto, NoPtrs, batchVars, queueVars, localVars,
             semVars, seqVars, walVars
<1>1. ASSUME NEW p \in Procs, NEW k \in Kinds, NEW n \in Counts, StartCommit(p, k, n)
      PROVE  TypeOK'
  <2>1. pc' \in [Procs -> PCs]
    BY <1>1, PipelineAssumption DEF StartCommit
  <2>2. kind' \in [Procs -> Kinds \cup {"plain"}]
    BY <1>1, PipelineAssumption DEF StartCommit
  <2>3. count' \in [Procs -> Nat]
    BY <1>1, PipelineAssumption DEF StartCommit
  <2>4. issued' \in Nat
    BY <1>1, PipelineAssumption DEF StartCommit
  <2>5. UNCHANGED <<seqNum, applied, commitErr, commitWG, fsyncWG, headTail, slots, ptrs, cand, cur, mu, ingestSem, commitQueueSem, logSyncQSem, logSeqNum, visibleSeqNum, wal, walPos, walSynced, syncQ, fatal>>
    BY <1>1 DEF StartCommit
  <2>6. QED BY <2>1, <2>2, <2>3, <2>4, <2>5, Zenon
<1>2. ASSUME NEW p \in Procs, NEW n \in Counts, StartAllocate(p, n)
      PROVE  TypeOK'
  <2>1. pc' \in [Procs -> PCs]
    BY <1>2, PipelineAssumption DEF StartAllocate
  <2>2. kind' \in [Procs -> Kinds \cup {"plain"}]
    BY <1>2, PipelineAssumption DEF StartAllocate
  <2>3. count' \in [Procs -> Nat]
    BY <1>2, PipelineAssumption DEF StartAllocate
  <2>4. issued' \in Nat
    BY <1>2, PipelineAssumption DEF StartAllocate
  <2>5. ingestSem' \in Procs \cup {NoBatch}
    BY <1>2, PipelineAssumption DEF StartAllocate
  <2>6. UNCHANGED <<seqNum, applied, commitErr, commitWG, fsyncWG, headTail, slots, ptrs, cand, cur, mu, commitQueueSem, logSyncQSem, logSeqNum, visibleSeqNum, wal, walPos, walSynced, syncQ, fatal>>
    BY <1>2 DEF StartAllocate
  <2>7. QED BY <2>1, <2>2, <2>3, <2>4, <2>5, <2>6, Zenon
<1>3. ASSUME NEW p \in Procs, AcquireCommitQueueSem(p)
      PROVE  TypeOK'
  BY <1>3, PipelineAssumption, Zenon DEF AcquireCommitQueueSem
<1>4. ASSUME NEW p \in Procs, AcquireLogSyncQSem(p)
      PROVE  TypeOK'
  BY <1>4, PipelineAssumption, Zenon DEF AcquireLogSyncQSem
<1>5. ASSUME NEW p \in Procs, Lock(p)
      PROVE  TypeOK'
  <2>1. pc' \in [Procs -> PCs]
    BY <1>5, PipelineAssumption DEF Lock, CommitCount
  <2>2. mu' \in Procs \cup {NoBatch}
    BY <1>5, PipelineAssumption DEF Lock, CommitCount
  <2>3. commitWG' \in [Procs -> Int]
    BY <1>5, PipelineAssumption DEF Lock, CommitCount
  <2>4. fsyncWG' \in [Procs -> Int]
    BY <1>5, PipelineAssumption DEF Lock, CommitCount
  <2>5. UNCHANGED <<kind, count, seqNum, applied, commitErr, headTail, slots, ptrs, cand, cur, ingestSem, commitQueueSem, logSyncQSem, logSeqNum, visibleSeqNum, wal, walPos, walSynced, syncQ, issued, fatal>>
    BY <1>5 DEF Lock, CommitCount
  <2>6. QED BY <2>1, <2>2, <2>3, <2>4, <2>5, Zenon
<1>6. ASSUME NEW p \in Procs, EnqueueStore(p)
      PROVE  TypeOK'
  BY <1>6, PipelineAssumption, Zenon DEF EnqueueStore, SlotFree
<1>7. ASSUME NEW p \in Procs, EnqueueAdvance(p)
      PROVE  TypeOK'
  <2>1. pc' \in [Procs -> PCs]
    BY <1>7, PipelineAssumption DEF EnqueueAdvance
  <2>2. headTail' \in [head : Nat, tail : Nat]
    <3>1. headTail \in [head : Nat, tail : Nat] OBVIOUS
    <3>2. headTail' = [headTail EXCEPT !.head = @ + 1] BY <1>7 DEF EnqueueAdvance
    <3> HIDE DEF TypeOK
    <3>3. QED BY <3>1, <3>2, UpdateTypes
  <2>3. UNCHANGED <<kind, count, seqNum, applied, commitErr, commitWG, fsyncWG, slots, ptrs, cand, cur, mu, ingestSem, commitQueueSem, logSyncQSem, logSeqNum, visibleSeqNum, wal, walPos, walSynced, syncQ, issued, fatal>>
    BY <1>7 DEF EnqueueAdvance
  <2>4. QED BY <2>1, <2>2, <2>3, Zenon
<1>8. ASSUME NEW p \in Procs, AssignSeqNum(p)
      PROVE  TypeOK'
  <2>1. pc' \in [Procs -> PCs]
    BY <1>8, PipelineAssumption DEF AssignSeqNum, FirstSeqNum, SkippedZero
  <2>2. seqNum' \in [Procs -> Nat]
    BY <1>8, PipelineAssumption DEF AssignSeqNum, FirstSeqNum, SkippedZero
  <2>3. logSeqNum' \in Nat
    <3>1. logSeqNum \in Nat /\ count[p] \in Nat OBVIOUS
    <3>2. logSeqNum' = logSeqNum + 1 + count[p] \/ logSeqNum' = logSeqNum + 0 + count[p]
      BY <1>8 DEF AssignSeqNum, FirstSeqNum, SkippedZero
    <3> HIDE DEF TypeOK
    <3>3. QED BY <3>1, <3>2
  <2>4. cur' \in [Procs -> Nat]
    BY <1>8, PipelineAssumption DEF AssignSeqNum, FirstSeqNum, SkippedZero
  <2>5. UNCHANGED <<kind, count, applied, commitErr, commitWG, fsyncWG, headTail, slots, ptrs, cand, mu, ingestSem, commitQueueSem, logSyncQSem, visibleSeqNum, wal, walPos, walSynced, syncQ, issued, fatal>>
    BY <1>8 DEF AssignSeqNum, FirstSeqNum, SkippedZero
  <2>6. QED BY <2>1, <2>2, <2>3, <2>4, <2>5, Zenon
<1>9. ASSUME NEW p \in Procs, Write(p)
      PROVE  TypeOK'
  <2>1. pc' \in [Procs -> PCs]
    BY <1>9, PipelineAssumption DEF Write
  <2>2. wal' \in Seq(Nat)
    BY <1>9, PipelineAssumption DEF Write
  <2>3. walPos' \in [Procs -> Nat]
    <3>1. walPos \in [Procs -> Nat] /\ wal \in Seq(Nat) OBVIOUS
    <3>2. walPos' = [walPos EXCEPT ![p] = Len(wal) + 1] BY <1>9 DEF Write
    <3> HIDE DEF TypeOK
    <3>3. QED BY <3>1, <3>2, UpdateTypes
  <2>4. syncQ' \in Seq(Procs)
    BY <1>9, PipelineAssumption DEF Write
  <2>5. mu' \in Procs \cup {NoBatch}
    BY <1>9, PipelineAssumption DEF Write
  <2>6. UNCHANGED <<kind, count, seqNum, applied, commitErr, commitWG, fsyncWG, headTail, slots, ptrs, cand, cur, ingestSem, commitQueueSem, logSyncQSem, logSeqNum, visibleSeqNum, walSynced, issued, fatal>>
    BY <1>9 DEF Write
  <2>7. QED BY <2>1, <2>2, <2>3, <2>4, <2>5, <2>6, Zenon
<1>10. ASSUME NEW p \in Procs, WriteFails(p)
      PROVE  TypeOK'
  BY <1>10, PipelineAssumption, Zenon DEF WriteFails
<1>11. ASSUME NEW p \in Procs, AllocPrepare(p)
      PROVE  TypeOK'
  <2>1. pc' \in [Procs -> PCs] /\ mu' \in Procs \cup {NoBatch}
    BY <1>11, Zenon DEF AllocPrepare
  <2>2. UNCHANGED <<kind, count, seqNum, applied, commitErr, commitWG, fsyncWG, headTail, slots, ptrs, cand, cur, ingestSem, commitQueueSem, logSyncQSem, logSeqNum, visibleSeqNum, wal, walPos, walSynced, syncQ, issued, fatal>>
    BY <1>11 DEF AllocPrepare
  <2>3. QED BY <2>1, <2>2, Zenon
<1>12. ASSUME NEW p \in Procs, DirectWrite(p)
      PROVE  TypeOK'
  <2>1. pc' \in [Procs -> PCs]
    BY <1>12, PipelineAssumption DEF DirectWrite
  <2>2. logSyncQSem' \in SUBSET Procs
    BY <1>12, PipelineAssumption DEF DirectWrite
  <2>3. wal' \in Seq(Nat)
    BY <1>12, PipelineAssumption DEF DirectWrite
  <2>4. walPos' \in [Procs -> Nat]
    <3>1. walPos \in [Procs -> Nat] /\ wal \in Seq(Nat) OBVIOUS
    <3>2. walPos' = [walPos EXCEPT ![p] = Len(wal) + 1] BY <1>12 DEF DirectWrite
    <3> HIDE DEF TypeOK
    <3>3. QED BY <3>1, <3>2, UpdateTypes
  <2>5. syncQ' \in Seq(Procs)
    BY <1>12, PipelineAssumption DEF DirectWrite
  <2>6. fsyncWG' \in [Procs -> Int]
    BY <1>12, PipelineAssumption DEF DirectWrite
  <2>7. UNCHANGED <<kind, count, seqNum, applied, commitErr, commitWG, headTail, slots, ptrs, cand, cur, mu, ingestSem, commitQueueSem, logSeqNum, visibleSeqNum, walSynced, issued, fatal>>
    BY <1>12 DEF DirectWrite
  <2>8. QED BY <2>1, <2>2, <2>3, <2>4, <2>5, <2>6, <2>7, Zenon
<1>13. ASSUME NEW p \in Procs, DirectWriteWait(p)
      PROVE  TypeOK'
  BY <1>13, PipelineAssumption, Zenon DEF DirectWriteWait
<1>14. ASSUME NEW p \in Procs, Apply(p)
      PROVE  TypeOK'
  BY <1>14, PipelineAssumption, Zenon DEF Apply
<1>15. ASSUME NEW p \in Procs, ApplyFails(p)
      PROVE  TypeOK'
  BY <1>15, PipelineAssumption, Zenon DEF ApplyFails
<1>16. ASSUME NEW p \in Procs, MarkApplied(p)
      PROVE  TypeOK'
  BY <1>16, PipelineAssumption, Zenon DEF MarkApplied
<1>17. ASSUME NEW p \in Procs, DequeueLoad(p)
      PROVE  TypeOK'
  BY <1>17, PipelineAssumption, Zenon DEF DequeueLoad
<1>18. ASSUME NEW p \in Procs, DequeueSlot(p)
      PROVE  TypeOK'
  <2>1. pc' \in [Procs -> PCs]
    BY <1>18, PipelineAssumption, SlotOfType DEF DequeueSlot
  <2>2. cand' \in [Procs -> Procs \cup {NoBatch}]
    BY <1>18, PipelineAssumption, SlotOfType, Zenon DEF DequeueSlot
  <2>3. UNCHANGED <<kind, count, seqNum, applied, commitErr, commitWG, fsyncWG, headTail, slots, ptrs, cur, mu, ingestSem, commitQueueSem, logSyncQSem, logSeqNum, visibleSeqNum, wal, walPos, walSynced, syncQ, issued, fatal>>
    BY <1>18 DEF DequeueSlot
  <2>4. QED BY <2>1, <2>2, <2>3, Zenon
<1>19. ASSUME NEW p \in Procs, DequeueCheck(p)
      PROVE  TypeOK'
  BY <1>19, PipelineAssumption, Zenon DEF DequeueCheck, Ready
<1>20. ASSUME NEW p \in Procs, DequeueCAS(p)
      PROVE  TypeOK'
  <2>1. pc' \in [Procs -> PCs]
    <3>1. pc' = [pc EXCEPT ![p] = "clear"] \/ pc' = [pc EXCEPT ![p] = "load"]
      BY <1>20 DEF DequeueCAS
    <3>2. QED BY <3>1, Zenon
  <2>2. headTail' \in [head : Nat, tail : Nat]
    <3>1. headTail \in [head : Nat, tail : Nat] OBVIOUS
    <3>2. headTail' = [headTail EXCEPT !.tail = @ + 1] \/ headTail' = headTail
      BY <1>20 DEF DequeueCAS
    <3> HIDE DEF TypeOK
    <3>3. QED BY <3>1, <3>2, UpdateTypes
  <2>3. UNCHANGED <<kind, count, seqNum, applied, commitErr, commitWG, fsyncWG, slots, ptrs, cand, cur, mu, ingestSem, commitQueueSem, logSyncQSem, logSeqNum, visibleSeqNum, wal, walPos, walSynced, syncQ, issued, fatal>>
    BY <1>20 DEF DequeueCAS
  <2>4. QED BY <2>1, <2>2, <2>3, Zenon
<1>21. ASSUME NEW p \in Procs, DequeueClear(p)
      PROVE  TypeOK'
  BY <1>21, PipelineAssumption, Zenon DEF DequeueClear
<1>22. ASSUME NEW p \in Procs, RatchetLoad(p)
      PROVE  TypeOK'
  BY <1>22, PipelineAssumption, Zenon DEF RatchetLoad
<1>23. ASSUME NEW p \in Procs, RatchetCAS(p)
      PROVE  TypeOK'
  <2>1. visibleSeqNum' \in Nat
    <3>1. cand[p] \in Procs
      BY <1>23 DEF RatchetCAS, QueueInv, PublisherInv, Publishing
    <3>2. visibleSeqNum' = visibleSeqNum \/ visibleSeqNum' = seqNum[cand[p]] + count[cand[p]]
      BY <1>23 DEF RatchetCAS, EndSeqNum
    <3>3. visibleSeqNum \in Nat /\ seqNum[cand[p]] \in Nat /\ count[cand[p]] \in Nat
      BY <3>1
    <3> HIDE DEF TypeOK
    <3>4. QED BY <3>2, <3>3
  <2>2. QED BY <1>23, <2>1, Zenon DEF RatchetCAS, VisibleNotMoved
<1>24. ASSUME NEW p \in Procs, PublishDone(p)
      PROVE  TypeOK'
  <2>1. pc' \in [Procs -> PCs]
    BY <1>24, PipelineAssumption DEF PublishDone
  <2>2. commitWG' \in [Procs -> Int]
    <3>1. commitWG \in [Procs -> Int] OBVIOUS
    <3>2. commitWG' = [commitWG EXCEPT ![cand[p]] = @ - 1] BY <1>24 DEF PublishDone
    <3>3. cand[p] \in Procs BY <1>24 DEF PublishDone, QueueInv, PublisherInv, Publishing
    <3> HIDE DEF TypeOK
    <3>4. QED BY <3>1, <3>2, <3>3, UpdateTypes
  <2>3. cand' \in [Procs -> Procs \cup {NoBatch}]
    BY <1>24, PipelineAssumption DEF PublishDone
  <2>4. cur' \in [Procs -> Nat]
    BY <1>24, PipelineAssumption DEF PublishDone
  <2>5. UNCHANGED <<kind, count, seqNum, applied, commitErr, fsyncWG, headTail, slots, ptrs, mu, ingestSem, commitQueueSem, logSyncQSem, logSeqNum, visibleSeqNum, wal, walPos, walSynced, syncQ, issued, fatal>>
    BY <1>24 DEF PublishDone
  <2>6. QED BY <2>1, <2>2, <2>3, <2>4, <2>5, Zenon
<1>25. ASSUME NEW p \in Procs, Return(p)
      PROVE  TypeOK'
  BY <1>25, PipelineAssumption, Zenon DEF Return, CommitDone
<1>26. ASSUME NEW p \in Procs, SyncWait(p)
      PROVE  TypeOK'
  BY <1>26, PipelineAssumption, Zenon DEF SyncWait
<1>27. ASSUME NEW p \in Procs, Release(p)
      PROVE  TypeOK'
  BY <1>27, PipelineAssumption, Zenon DEF Release
<1>28. ASSUME NEW p \in Procs, Fatalf(p)
      PROVE  TypeOK'
  BY <1>28, PipelineAssumption, Zenon DEF Fatalf
<1>29. ASSUME NEW err \in BOOLEAN, SyncDone(err)
      PROVE  TypeOK'
  <2>1. commitErr' \in [Procs -> BOOLEAN]
    BY <1>29, PipelineAssumption, Zenon DEF SyncDone
  <2>2. commitWG' \in [Procs -> Int]
    <3>1. commitWG \in [Procs -> Int] /\ syncQ \in Seq(Procs) /\ syncQ # <<>> BY <1>29 DEF SyncDone
    <3>2. commitWG' = [commitWG EXCEPT ![Head(syncQ)] = @ - 1] \/ commitWG' = commitWG BY <1>29, Zenon DEF SyncDone
    <3> HIDE DEF TypeOK
    <3>3. QED BY <3>1, <3>2, UpdateTypes
  <2>3. fsyncWG' \in [Procs -> Int]
    <3>1. fsyncWG \in [Procs -> Int] /\ syncQ \in Seq(Procs) /\ syncQ # <<>> BY <1>29 DEF SyncDone
    <3>2. fsyncWG' = [fsyncWG EXCEPT ![Head(syncQ)] = @ - 1] \/ fsyncWG' = fsyncWG BY <1>29, Zenon DEF SyncDone
    <3> HIDE DEF TypeOK
    <3>3. QED BY <3>1, <3>2, UpdateTypes
  <2>4. walSynced' \in Nat
    <3>1. walPos \in [Procs -> Nat] /\ walSynced \in Nat /\ syncQ \in Seq(Procs) OBVIOUS
    <3>2. syncQ # <<>> /\ walSynced' \in {walSynced, walPos[Head(syncQ)]} BY <1>29 DEF SyncDone
    <3> HIDE DEF TypeOK
    <3>3. QED BY <3>1, <3>2, UpdateTypes
  <2>5. syncQ' \in Seq(Procs)
    BY <1>29, PipelineAssumption DEF SyncDone
  <2>6. logSyncQSem' \in SUBSET Procs
    BY <1>29, PipelineAssumption DEF SyncDone
  <2>7. UNCHANGED <<pc, kind, count, seqNum, applied, headTail, slots, ptrs, cand, cur, mu, ingestSem, commitQueueSem, logSeqNum, visibleSeqNum, wal, walPos, issued, fatal>>
    BY <1>29 DEF SyncDone
  <2>8. QED BY <2>1, <2>2, <2>3, <2>4, <2>5, <2>6, <2>7, Zenon
<1>30. CASE UNCHANGED vars
  BY <1>30, PipelineAssumption, Zenon DEF vars
<1>31. QED
  BY <1>1, <1>2, <1>3, <1>4, <1>5, <1>6, <1>7, <1>8, <1>9, <1>10, <1>11, <1>12,
     <1>13, <1>14, <1>15, <1>16, <1>17, <1>18, <1>19, <1>20, <1>21, <1>22, <1>23, <1>24,
     <1>25, <1>26, <1>27, <1>28, <1>29, <1>30, NextCases, Zenon

\* Commit returns for a batch that was published.
LEMMA ReturnQueue ==
    ASSUME QueueTypeOK, QueueInv, NEW p \in Procs, Return(p), ~Unpublished(p)
    PROVE  /\ QueueInv'
           /\ \A q \in Procs : Unpublished(q)' <=> Unpublished(q)
<1>1. /\ pc[p] = "wait"
      /\ \E t \in {"syncWait", "acked", "syncFailed"} : pc' = [pc EXCEPT ![p] = t]
      /\ \A q \in Procs : q # p => /\ cur'[q] = cur[q] /\ cand'[q] = cand[q]
                                   /\ ptrs'[q] = ptrs[q]
      /\ UNCHANGED <<headTail, slots, seqNum, count, applied, logSeqNum, visibleSeqNum>>
  BY Zenon DEF Return, CommitDone, Goto, batchVars, queueVars, seqVars, QueueTypeOK
<1>2. /\ \A q \in Procs : q # p => pc'[q] = pc[q]
      /\ pc'[p] \in {"syncWait", "acked", "syncFailed"}
  BY <1>1 DEF QueueTypeOK
<1>3. /\ \A q : EndSeqNum(q)' = EndSeqNum(q)
      /\ \A i : At(i)' = At(i)
      /\ Window' = Window
      /\ \A q : InQueue(q)' <=> InQueue(q)
  BY <1>1 DEF At, Window, InQueue, EndSeqNum
<1>4. /\ \A q \in Procs :
            /\ Publishing(q)' <=> Publishing(q)
            /\ q # p => (InPublish(q)' <=> InPublish(q))
            /\ BeforePublish(q)' <=> BeforePublish(q)
      /\ ~Publishing(p) /\ InPublish(p) /\ ~InPublish(p)'
  BY <1>1, <1>2 DEF Publishing, InPublish, BeforePublish, Unapplied
<1>5. /\ \A i \in Window : At(i) \in Procs /\ At(i) # p
      /\ \A q \in Procs : Publishing(q) => cand[q] # p
      /\ EndSeqNum(p) <= visibleSeqNum
  BY <1>4 DEF QueueInv, RingInv, RingEntries, PublishedInv, Unpublished, InQueue
<1>6. RingInv'
  BY <1>1, <1>2, <1>3, <1>4, <1>5, RingFrame DEF QueueInv, Unpublished
<1>7. CandidateInv'
  BY <1>1, <1>2, <1>3 DEF QueueInv, CandidateInv
<1>8. PublisherInv'
  BY <1>1, <1>2, <1>3, <1>4, <1>5 DEF QueueInv, PublisherInv
<1>9. AppliedInv'
  BY <1>1, <1>2, <1>3, <1>4 DEF QueueInv, AppliedInv
<1>10. SeqNumInv'
  BY <1>1, <1>2, <1>3, <1>4, <1>5 DEF QueueInv, SeqNumInv
<1>11. PublishedInv'
  BY <1>1, <1>2, <1>3, <1>4, <1>5 DEF QueueInv, PublishedInv, Unpublished
<1>12. \A q \in Procs : Unpublished(q)' <=> Unpublished(q)
  BY <1>1, <1>3, <1>4 DEF Unpublished
<1>13. QED
  BY <1>12, <1>6, <1>7, <1>8, <1>9, <1>10, <1>11 DEF QueueInv

\* A batch is reset, or taken for the next operation, while nobody refers to it.
LEMMA ReleaseQueue ==
    ASSUME QueueTypeOK, QueueInv, NEW p \in Procs,
           Release(p) \/ Start(p)
    PROVE  /\ QueueInv'
           /\ \A q \in Procs : Unpublished(q)' <=> Unpublished(q)
<1>1. /\ pc[p] \in {"acked", "idle"}
      /\ \E t \in {"idle", "commitSem"} : pc' = [pc EXCEPT ![p] = t]
      /\ \A q \in Procs : q # p => /\ seqNum'[q] = seqNum[q] /\ count'[q] = count[q]
                                   /\ applied'[q] = applied[q]
      /\ applied'[p] = FALSE
      /\ UNCHANGED <<headTail, slots, ptrs, cand, cur, logSeqNum, visibleSeqNum>>
  <2>1. CASE Release(p)
    BY <2>1 DEF Release, Goto, queueVars, localVars, seqVars, QueueTypeOK
  <2>2. ASSUME NEW n \in Counts, NEW k \in Kinds, StartCommit(p, k, n) PROVE <1>1!:
    <3>1. pc[p] = "idle" /\ UNCHANGED applied
      BY <2>2 DEF StartCommit, Goto
    <3>2. applied[p] = FALSE
      BY <3>1, Zenon DEF QueueInv, AppliedInv, InPublish, Publishing, QueueTypeOK
    <3>3. QED
      BY <2>2, <3>1, <3>2 DEF StartCommit, Goto, queueVars, localVars, seqVars, QueueTypeOK
  <2>3. ASSUME NEW n \in Counts, StartAllocate(p, n) PROVE <1>1!:
    <3>1. pc[p] = "idle" /\ UNCHANGED applied
      BY <2>3 DEF StartAllocate, Goto
    <3>2. applied[p] = FALSE
      BY <3>1, Zenon DEF QueueInv, AppliedInv, InPublish, Publishing, QueueTypeOK
    <3>3. QED
      BY <2>3, <3>1, <3>2 DEF StartAllocate, Goto, queueVars, localVars, seqVars, QueueTypeOK
  <2>4. QED BY <2>1, <2>2, <2>3, Zenon DEF Start
<1>2. /\ \A q \in Procs : q # p => pc'[q] = pc[q]
      /\ pc'[p] \in {"idle", "commitSem"}
  BY <1>1 DEF QueueTypeOK
<1>3. /\ \A q \in Procs : q # p => EndSeqNum(q)' = EndSeqNum(q)
      /\ \A i : At(i)' = At(i)
      /\ Window' = Window
      /\ \A q : InQueue(q)' <=> InQueue(q)
  BY <1>1 DEF At, Window, InQueue, EndSeqNum
<1>4. /\ \A q \in Procs :
            /\ Publishing(q)' <=> Publishing(q)
            /\ InPublish(q)' <=> InPublish(q)
            /\ BeforePublish(q)' <=> BeforePublish(q)
      /\ ~Publishing(p) /\ ~InPublish(p) /\ ~BeforePublish(p)
  BY <1>1, <1>2 DEF Publishing, InPublish, BeforePublish, Unapplied
<1>5. /\ \A i \in Window : At(i) \in Procs /\ At(i) # p
      /\ \A q \in Procs : Publishing(q) => cand[q] \in Procs /\ cand[q] # p /\ q # p
  BY <1>4 DEF QueueInv, RingInv, RingEntries, PublisherInv
<1>6. RingInv'
  BY <1>1, <1>2, <1>3, <1>4, <1>5, RingFrame DEF QueueInv
<1>7. CandidateInv'
  <2>1. \A q \in Procs : /\ pc[q] = "cas" /\ ptrs[q].tail = headTail.tail
                         => cand[q] \in Procs /\ cand[q] # p
    <3> SUFFICES ASSUME NEW q \in Procs, pc[q] = "cas", ptrs[q].tail = headTail.tail
                 PROVE cand[q] \in Procs /\ cand[q] # p
      OBVIOUS
    <3>1. /\ cand[q] \in Procs /\ cand[q] = At(headTail.tail)
          /\ ptrs[q].tail < ptrs[q].head /\ ptrs[q].head <= headTail.head
      BY DEF QueueInv, CandidateInv
    <3>2. headTail.tail \in Nat /\ headTail.head \in Nat /\ headTail.tail < headTail.head
      BY <3>1 DEF QueueTypeOK
    <3>3. headTail.tail \in Window
      BY <3>2 DEF Window
    <3>4. QED BY <3>1, <3>3, <1>5
  <2>2. QED BY <2>1, <1>1, <1>2, <1>3 DEF QueueInv, CandidateInv
<1>8. PublisherInv'
  <2>1. \A q \in Procs : Publishing(q) =>
          pc'[q] = pc[q] /\ cand[q] \in Procs /\ EndSeqNum(cand[q])' = EndSeqNum(cand[q])
    BY <1>1, <1>2, <1>3, <1>5
  <2>2. QED BY <2>1, <1>1, <1>3, <1>4 DEF QueueInv, PublisherInv
<1>9. AppliedInv'
  BY <1>1, <1>2, <1>3, <1>4 DEF QueueInv, AppliedInv
<1>10. SeqNumInv'
  BY <1>1, <1>2, <1>3, <1>4, <1>5 DEF QueueInv, SeqNumInv
<1>11. PublishedInv'
  BY <1>1, <1>2, <1>3, <1>4, <1>5 DEF QueueInv, PublishedInv, Unpublished
<1>12. \A q \in Procs : Unpublished(q)' <=> Unpublished(q)
  BY <1>1, <1>3, <1>4 DEF Unpublished
<1>13. QED
  BY <1>12, <1>6, <1>7, <1>8, <1>9, <1>10, <1>11 DEF QueueInv

\* Every step keeps the invariants of the queue; only enqueue adds a batch to the
\* unpublished ones and only publish's Done removes one.
LEMMA QueueStep ==
    ASSUME QueueTypeOK, MuInv, QueueInv, WaitGroupInv, [Next]_vars
    PROVE  QueueInv' /\ UnpublishedStep
<1> USE DEF batchVars, queueVars, localVars,
             semVars, seqVars, walVars
<1>1. ASSUME NEW p \in Procs, NEW k \in Kinds, NEW n \in Counts, StartCommit(p, k, n)
      PROVE  QueueInv' /\ UnpublishedStep
  <2>1. QueueInv' /\ \A q \in Procs : Unpublished(q)' <=> Unpublished(q)
    <3>1. Start(p)
      BY <1>1 DEF Start
    <3>2. QED BY <3>1, ReleaseQueue
  <2>2. \A q \in Procs : ~Enqueued(q) /\ ~Published(q)
    BY <1>1 DEF StartCommit, Goto, QueueTypeOK, Enqueued, Published
  <2>3. QED BY <2>1, <2>2 DEF UnpublishedStep
<1>2. ASSUME NEW p \in Procs, NEW n \in Counts, StartAllocate(p, n)
      PROVE  QueueInv' /\ UnpublishedStep
  <2>1. QueueInv' /\ \A q \in Procs : Unpublished(q)' <=> Unpublished(q)
    <3>1. Start(p)
      BY <1>2 DEF Start
    <3>2. QED BY <3>1, ReleaseQueue
  <2>2. \A q \in Procs : ~Enqueued(q) /\ ~Published(q)
    BY <1>2 DEF StartAllocate, Goto, QueueTypeOK, Enqueued, Published
  <2>3. QED BY <2>1, <2>2 DEF UnpublishedStep
<1>3. ASSUME NEW p \in Procs, AcquireCommitQueueSem(p)
      PROVE  QueueInv' /\ UnpublishedStep
  <2>1. UNCHANGED queueState
    BY <1>3 DEF AcquireCommitQueueSem, queueState
  <2>2. \A q \in Procs : SameStage(q) /\ ~Enqueued(q) /\ ~Published(q)
    BY <1>3 DEF AcquireCommitQueueSem, Goto, QueueTypeOK, SameStage, OutPCs, BeforePCs, AfterPCs, Enqueued, Published
  <2>3. QED BY <2>1, <2>2, StageFrame DEF UnpublishedStep
<1>4. ASSUME NEW p \in Procs, AcquireLogSyncQSem(p)
      PROVE  QueueInv' /\ UnpublishedStep
  <2>1. UNCHANGED queueState
    BY <1>4 DEF AcquireLogSyncQSem, queueState
  <2>2. \A q \in Procs : SameStage(q) /\ ~Enqueued(q) /\ ~Published(q)
    BY <1>4 DEF AcquireLogSyncQSem, Goto, QueueTypeOK, SameStage, OutPCs, BeforePCs, AfterPCs, Enqueued, Published
  <2>3. QED BY <2>1, <2>2, StageFrame DEF UnpublishedStep
<1>5. ASSUME NEW p \in Procs, Lock(p)
      PROVE  QueueInv' /\ UnpublishedStep
  <2>1. UNCHANGED queueState
    BY <1>5 DEF Lock, CommitCount, queueState
  <2>2. \A q \in Procs : SameStage(q) /\ ~Enqueued(q) /\ ~Published(q)
    BY <1>5 DEF Lock, CommitCount, Goto, QueueTypeOK, SameStage, OutPCs, BeforePCs, AfterPCs, Enqueued, Published
  <2>3. QED BY <2>1, <2>2, StageFrame DEF UnpublishedStep
<1>6. ASSUME NEW p \in Procs, EnqueueStore(p)
      PROVE  QueueInv' /\ UnpublishedStep
  <2>1. QueueInv' /\ \A q \in Procs : Unpublished(q)' <=> Unpublished(q)
    BY <1>6, EnqueueStoreQueue
  <2>2. \A q \in Procs : ~Enqueued(q) /\ ~Published(q)
    BY <1>6 DEF EnqueueStore, SlotFree, Goto, QueueTypeOK, Enqueued, Published
  <2>3. QED BY <2>1, <2>2 DEF UnpublishedStep
<1>7. ASSUME NEW p \in Procs, EnqueueAdvance(p)
      PROVE  QueueInv' /\ UnpublishedStep
  <2>1. /\ QueueInv' /\ Unpublished(p)'
        /\ \A q \in Procs : q # p => (Unpublished(q)' <=> Unpublished(q))
    BY <1>7, EnqueueAdvanceQueue
  <2>2. \A q \in Procs : ~Published(q) /\ (Enqueued(q) <=> q = p)
    BY <1>7 DEF EnqueueAdvance, Goto, QueueTypeOK, Enqueued, Published
  <2>3. QED BY <2>1, <2>2 DEF UnpublishedStep
<1>8. ASSUME NEW p \in Procs, AssignSeqNum(p)
      PROVE  QueueInv' /\ UnpublishedStep
  <2>1. QueueInv' /\ \A q \in Procs : Unpublished(q)' <=> Unpublished(q)
    BY <1>8, AssignSeqNumQueue
  <2>2. \A q \in Procs : ~Enqueued(q) /\ ~Published(q)
    BY <1>8 DEF AssignSeqNum, FirstSeqNum, SkippedZero, Goto, QueueTypeOK, Enqueued, Published
  <2>3. QED BY <2>1, <2>2 DEF UnpublishedStep
<1>9. ASSUME NEW p \in Procs, Write(p)
      PROVE  QueueInv' /\ UnpublishedStep
  <2>1. UNCHANGED queueState
    BY <1>9 DEF Write, queueState
  <2>2. \A q \in Procs : SameStage(q) /\ ~Enqueued(q) /\ ~Published(q)
    BY <1>9 DEF Write, Goto, QueueTypeOK, SameStage, OutPCs, BeforePCs, AfterPCs, Enqueued, Published
  <2>3. QED BY <2>1, <2>2, StageFrame DEF UnpublishedStep
<1>10. ASSUME NEW p \in Procs, WriteFails(p)
      PROVE  QueueInv' /\ UnpublishedStep
  <2>1. UNCHANGED queueState
    BY <1>10 DEF WriteFails, queueState
  <2>2. \A q \in Procs : SameStage(q) /\ ~Enqueued(q) /\ ~Published(q)
    BY <1>10 DEF WriteFails, Goto, QueueTypeOK, SameStage, OutPCs, BeforePCs, AfterPCs, Enqueued, Published
  <2>3. QED BY <2>1, <2>2, StageFrame DEF UnpublishedStep
<1>11. ASSUME NEW p \in Procs, AllocPrepare(p)
      PROVE  QueueInv' /\ UnpublishedStep
  <2>1. UNCHANGED queueState
    BY <1>11 DEF AllocPrepare, queueState
  <2>2. \A q \in Procs : SameStage(q) /\ ~Enqueued(q) /\ ~Published(q)
    BY <1>11, Zenon DEF AllocPrepare, Goto, QueueTypeOK, SameStage, OutPCs, BeforePCs, AfterPCs, Enqueued, Published
  <2>3. QED BY <2>1, <2>2, StageFrame DEF UnpublishedStep
<1>12. ASSUME NEW p \in Procs, DirectWrite(p)
      PROVE  QueueInv' /\ UnpublishedStep
  <2>1. UNCHANGED queueState
    BY <1>12 DEF DirectWrite, queueState
  <2>2. \A q \in Procs : SameStage(q) /\ ~Enqueued(q) /\ ~Published(q)
    BY <1>12 DEF DirectWrite, Goto, QueueTypeOK, SameStage, OutPCs, BeforePCs, AfterPCs, Enqueued, Published
  <2>3. QED BY <2>1, <2>2, StageFrame DEF UnpublishedStep
<1>13. ASSUME NEW p \in Procs, DirectWriteWait(p)
      PROVE  QueueInv' /\ UnpublishedStep
  <2>1. UNCHANGED queueState
    BY <1>13 DEF DirectWriteWait, queueState
  <2>2. \A q \in Procs : SameStage(q) /\ ~Enqueued(q) /\ ~Published(q)
    BY <1>13, Zenon DEF DirectWriteWait, Goto, QueueTypeOK, SameStage, OutPCs, BeforePCs, AfterPCs, Enqueued, Published
  <2>3. QED BY <2>1, <2>2, StageFrame DEF UnpublishedStep
<1>14. ASSUME NEW p \in Procs, Apply(p)
      PROVE  QueueInv' /\ UnpublishedStep
  <2>1. UNCHANGED queueState
    BY <1>14 DEF Apply, queueState
  <2>2. \A q \in Procs : SameStage(q) /\ ~Enqueued(q) /\ ~Published(q)
    BY <1>14 DEF Apply, Goto, QueueTypeOK, SameStage, OutPCs, BeforePCs, AfterPCs, Enqueued, Published
  <2>3. QED BY <2>1, <2>2, StageFrame DEF UnpublishedStep
<1>15. ASSUME NEW p \in Procs, ApplyFails(p)
      PROVE  QueueInv' /\ UnpublishedStep
  <2>1. UNCHANGED queueState
    BY <1>15 DEF ApplyFails, queueState
  <2>2. \A q \in Procs : SameStage(q) /\ ~Enqueued(q) /\ ~Published(q)
    BY <1>15 DEF ApplyFails, Goto, QueueTypeOK, SameStage, OutPCs, BeforePCs, AfterPCs, Enqueued, Published
  <2>3. QED BY <2>1, <2>2, StageFrame DEF UnpublishedStep
<1>16. ASSUME NEW p \in Procs, MarkApplied(p)
      PROVE  QueueInv' /\ UnpublishedStep
  <2>1. QueueInv' /\ \A q \in Procs : Unpublished(q)' <=> Unpublished(q)
    BY <1>16, MarkAppliedQueue
  <2>2. \A q \in Procs : ~Enqueued(q) /\ ~Published(q)
    BY <1>16 DEF MarkApplied, Goto, QueueTypeOK, Enqueued, Published
  <2>3. QED BY <2>1, <2>2 DEF UnpublishedStep
<1>17. ASSUME NEW p \in Procs, DequeueLoad(p)
      PROVE  QueueInv' /\ UnpublishedStep
  <2>1. QueueInv' /\ \A q \in Procs : Unpublished(q)' <=> Unpublished(q)
    BY <1>17, DequeueReadQueue
  <2>2. \A q \in Procs : ~Enqueued(q) /\ ~Published(q)
    BY <1>17 DEF DequeueLoad, Goto, QueueTypeOK, Enqueued, Published
  <2>3. QED BY <2>1, <2>2 DEF UnpublishedStep
<1>18. ASSUME NEW p \in Procs, DequeueSlot(p)
      PROVE  QueueInv' /\ UnpublishedStep
  <2>1. QueueInv' /\ \A q \in Procs : Unpublished(q)' <=> Unpublished(q)
    BY <1>18, DequeueReadQueue
  <2>2. \A q \in Procs : ~Enqueued(q) /\ ~Published(q)
    BY <1>18 DEF DequeueSlot, Goto, QueueTypeOK, Enqueued, Published
  <2>3. QED BY <2>1, <2>2 DEF UnpublishedStep
<1>19. ASSUME NEW p \in Procs, DequeueCheck(p)
      PROVE  QueueInv' /\ UnpublishedStep
  <2>1. QueueInv' /\ \A q \in Procs : Unpublished(q)' <=> Unpublished(q)
    BY <1>19, DequeueReadQueue
  <2>2. \A q \in Procs : ~Enqueued(q) /\ ~Published(q)
    BY <1>19 DEF DequeueCheck, Ready, Goto, QueueTypeOK, Enqueued, Published
  <2>3. QED BY <2>1, <2>2 DEF UnpublishedStep
<1>20. ASSUME NEW p \in Procs, DequeueCAS(p)
      PROVE  QueueInv' /\ UnpublishedStep
  <2>1. QueueInv' /\ \A q \in Procs : Unpublished(q)' <=> Unpublished(q)
    BY <1>20, DequeueCASQueue, DequeueCASFailsQueue
  <2>2. \A q \in Procs : ~Enqueued(q) /\ ~Published(q)
    <3>1. \A q \in Procs : q # p => pc'[q] = pc[q]
      BY <1>20 DEF DequeueCAS, Goto, QueueTypeOK
    <3>2. pc[p] = "cas"
      BY <1>20 DEF DequeueCAS, Goto
    <3>3. QED BY <3>1, <3>2 DEF Enqueued, Published
  <2>3. QED BY <2>1, <2>2 DEF UnpublishedStep
<1>21. ASSUME NEW p \in Procs, DequeueClear(p)
      PROVE  QueueInv' /\ UnpublishedStep
  <2>1. QueueInv' /\ \A q \in Procs : Unpublished(q)' <=> Unpublished(q)
    BY <1>21, DequeueClearQueue
  <2>2. \A q \in Procs : ~Enqueued(q) /\ ~Published(q)
    BY <1>21 DEF DequeueClear, Goto, QueueTypeOK, Enqueued, Published
  <2>3. QED BY <2>1, <2>2 DEF UnpublishedStep
<1>22. ASSUME NEW p \in Procs, RatchetLoad(p)
      PROVE  QueueInv' /\ UnpublishedStep
  <2>1. QueueInv' /\ \A q \in Procs : Unpublished(q)' <=> Unpublished(q)
    BY <1>22, RatchetQueue
  <2>2. \A q \in Procs : ~Enqueued(q) /\ ~Published(q)
    BY <1>22 DEF RatchetLoad, Goto, QueueTypeOK, Enqueued, Published
  <2>3. QED BY <2>1, <2>2 DEF UnpublishedStep
<1>23. ASSUME NEW p \in Procs, RatchetCAS(p)
      PROVE  QueueInv' /\ UnpublishedStep
  <2>1. QueueInv' /\ \A q \in Procs : Unpublished(q)' <=> Unpublished(q)
    BY <1>23, RatchetQueue
  <2>2. \A q \in Procs : ~Enqueued(q) /\ ~Published(q)
    BY <1>23, Zenon DEF RatchetCAS, VisibleNotMoved, Goto, QueueTypeOK, Enqueued, Published
  <2>3. QED BY <2>1, <2>2 DEF UnpublishedStep
<1>24. ASSUME NEW p \in Procs, PublishDone(p)
      PROVE  QueueInv' /\ UnpublishedStep
  <2>1. PICK b \in Procs :
          /\ QueueInv' /\ b = cand[p] /\ Unpublished(b) /\ ~Unpublished(b)'
          /\ \A q \in Procs : q # b => (Unpublished(q)' <=> Unpublished(q))
    BY <1>24, PublishDoneQueue
  <2>2. \A q \in Procs : ~Enqueued(q) /\ (Published(q) <=> q = b)
    BY <1>24, <2>1, Zenon DEF PublishDone, Goto, QueueTypeOK, Enqueued, Published
  <2>3. QED BY <2>1, <2>2 DEF UnpublishedStep
<1>25. ASSUME NEW p \in Procs, Return(p)
      PROVE  QueueInv' /\ UnpublishedStep
  <2>1. ~Unpublished(p)
    <3>1. pc[p] = "wait" /\ commitWG[p] = 0
      BY <1>25 DEF Return, CommitDone, Goto
    <3>2. QED BY <3>1 DEF WaitGroupInv, InPublish, PublishPending
  <2>2. QueueInv' /\ \A q \in Procs : Unpublished(q)' <=> Unpublished(q)
    BY <1>25, <2>1, ReturnQueue
  <2>3. \A q \in Procs : ~Enqueued(q) /\ ~Published(q)
    BY <1>25 DEF Return, CommitDone, Goto, QueueTypeOK, Enqueued, Published
  <2>4. QED BY <2>2, <2>3 DEF UnpublishedStep
<1>26. ASSUME NEW p \in Procs, SyncWait(p)
      PROVE  QueueInv' /\ UnpublishedStep
  <2>1. UNCHANGED queueState
    BY <1>26 DEF SyncWait, queueState
  <2>2. \A q \in Procs : SameStage(q) /\ ~Enqueued(q) /\ ~Published(q)
    BY <1>26 DEF SyncWait, Goto, QueueTypeOK, SameStage, OutPCs, BeforePCs, AfterPCs, Enqueued, Published
  <2>3. QED BY <2>1, <2>2, StageFrame DEF UnpublishedStep
<1>27. ASSUME NEW p \in Procs, Release(p)
      PROVE  QueueInv' /\ UnpublishedStep
  <2>1. QueueInv' /\ \A q \in Procs : Unpublished(q)' <=> Unpublished(q)
    BY <1>27, ReleaseQueue
  <2>2. \A q \in Procs : ~Enqueued(q) /\ ~Published(q)
    BY <1>27 DEF Release, Goto, QueueTypeOK, Enqueued, Published
  <2>3. QED BY <2>1, <2>2 DEF UnpublishedStep
<1>28. ASSUME NEW p \in Procs, Fatalf(p)
      PROVE  QueueInv' /\ UnpublishedStep
  <2>1. UNCHANGED queueState
    BY <1>28 DEF Fatalf, queueState
  <2>2. \A q \in Procs : SameStage(q) /\ ~Enqueued(q) /\ ~Published(q)
    BY <1>28 DEF Fatalf, Goto, QueueTypeOK, SameStage, OutPCs, BeforePCs, AfterPCs, Enqueued, Published
  <2>3. QED BY <2>1, <2>2, StageFrame DEF UnpublishedStep
<1>29. ASSUME NEW err \in BOOLEAN, SyncDone(err)
      PROVE  QueueInv' /\ UnpublishedStep
  <2>1. UNCHANGED queueState
    BY <1>29 DEF SyncDone, queueState
  <2>2. \A q \in Procs : SameStage(q) /\ ~Enqueued(q) /\ ~Published(q)
    BY <1>29 DEF SyncDone, QueueTypeOK, SameStage, OutPCs, BeforePCs, AfterPCs, Enqueued, Published
  <2>3. QED BY <2>1, <2>2, StageFrame DEF UnpublishedStep
<1>30. CASE UNCHANGED vars
  <2>1. UNCHANGED queueState /\ pc' = pc
    BY <1>30 DEF vars, queueState
  <2>2. \A q \in Procs : SameStage(q) /\ ~Enqueued(q) /\ ~Published(q)
    BY <2>1 DEF SameStage, Enqueued, Published
  <2>3. QED BY <2>1, <2>2, StageFrame DEF UnpublishedStep
<1>31. QED
  BY <1>1, <1>2, <1>3, <1>4, <1>5, <1>6, <1>7, <1>8, <1>9, <1>10, <1>11, <1>12,
     <1>13, <1>14, <1>15, <1>16, <1>17, <1>18, <1>19, <1>20, <1>21, <1>22, <1>23, <1>24,
     <1>25, <1>26, <1>27, <1>28, <1>29, <1>30, NextCases

-----------------------------------------------------------------------------
(* The theorems. *)

\* The inductive invariant.
IInv == TypeOK /\ PipelineInv

\* The inductive invariant holds of a new pipeline (newCommitPipeline).
LEMMA InitIInv == Init => IInv
<1> SUFFICES ASSUME Init PROVE IInv
  OBVIOUS
<1>1. TypeOK
  <2>1. /\ pc \in [Procs -> PCs] /\ kind \in [Procs -> Kinds \cup {"plain"}]
        /\ count \in [Procs -> Nat] /\ seqNum \in [Procs -> Nat]
        /\ applied \in [Procs -> BOOLEAN] /\ commitErr \in [Procs -> BOOLEAN]
        /\ commitWG \in [Procs -> Int] /\ fsyncWG \in [Procs -> Int]
    BY DEF Init, PCs
  <2>2. /\ headTail \in [head : Nat, tail : Nat]
        /\ slots \in [0 .. SyncConcurrency - 1 -> Procs \cup {NoBatch}]
    BY DEF Init
  <2>3. ptrs \in [Procs -> [head : Nat, tail : Nat]]
    BY DEF Init, NoPtrs
  <2>4. /\ cand \in [Procs -> Procs \cup {NoBatch}] /\ cur \in [Procs -> Nat]
        /\ mu \in Procs \cup {NoBatch} /\ ingestSem \in Procs \cup {NoBatch}
        /\ commitQueueSem \subseteq Procs /\ logSyncQSem \subseteq Procs
    BY DEF Init
  <2>5. /\ logSeqNum \in Nat /\ visibleSeqNum \in Nat
        /\ walPos \in [Procs -> Nat] /\ walSynced \in Nat /\ issued \in Nat
    BY PipelineAssumption DEF Init
  <2>6. wal \in Seq(Nat) /\ syncQ \in Seq(Procs)
    BY DEF Init
  <2>7. fatal \in BOOLEAN
    BY Zenon DEF Init
  <2>8. QED BY <2>1, <2>2, <2>3, <2>4, <2>5, <2>6, <2>7, Zenon DEF TypeOK
<1>2. /\ headTail = [head |-> 0, tail |-> 0]
      /\ pc \in [Procs -> {"idle"}]
      /\ applied \in [Procs -> {FALSE}]
      /\ syncQ = <<>> /\ visibleSeqNum = logSeqNum /\ logSeqNum \in Nat
  BY PipelineAssumption DEF Init
<1>3. /\ Window = {}
      /\ headTail.head = 0 /\ headTail.tail = 0
      /\ \A p \in Procs : /\ pc[p] = "idle" /\ ~applied[p]
                          /\ ~InQueue(p) /\ ~Publishing(p) /\ ~InPublish(p)
                          /\ ~BeforePublish(p) /\ ~AwaitsSync(p)
  <2>1. headTail.head = 0 /\ headTail.tail = 0 /\ Len(syncQ) = 0
    BY <1>2
  <2>2. Window = {} /\ \A p : ~InQueue(p) /\ ~AwaitsSync(p)
    BY <2>1 DEF Window, InQueue, AwaitsSync
  <2>3. \A p \in Procs : pc[p] = "idle" /\ ~applied[p]
    BY <1>2, Zenon
  <2>4. QED BY <2>1, <2>2, <2>3 DEF Publishing, InPublish, BeforePublish, Unapplied
<1>4. RingInv /\ CandidateInv /\ PublisherInv /\ AppliedInv
  <2>1. RingBounds /\ RingEntries
    BY <1>3, PipelineAssumption DEF RingBounds, RingEntries
  <2>2. RingProducer /\ RingClearing
    BY <1>3 DEF RingProducer, RingClearing
  <2>3. CandidateInv /\ PublisherInv
    BY <1>3 DEF CandidateInv, PublisherInv
  <2>4. AppliedInv
    BY <1>3 DEF AppliedInv
  <2>5. QED BY <2>1, <2>2, <2>3, <2>4 DEF RingInv
<1>5. SeqNumInv /\ PublishedInv
  BY <1>2, <1>3 DEF SeqNumInv, PublishedInv
<1>6. MuInv /\ WaitGroupInv /\ KindInv /\ SyncQueueInv
  <2>1. \A p \in Procs : pc[p] = "idle"
    BY <1>3
  <2>2. MuInv
    BY <1>2, <2>1 DEF MuInv
  <2>3. WaitGroupInv
    BY <1>2, <1>3, <2>1 DEF WaitGroupInv
  <2>4. KindInv
    BY <1>2, <2>1 DEF KindInv
  <2>5. SyncQueueInv
    <3>1. \A p \in Procs : ~AwaitsSync(p)
      BY <1>3
    <3>2. Len(syncQ) = 0
      BY <1>2
    <3>3. SyncWaiters
      BY <3>1, Zenon DEF SyncWaiters
    <3>4. SyncQDistinct
      BY <3>2 DEF SyncQDistinct
    <3>5. QED BY <3>3, <3>4 DEF SyncQueueInv
  <2>6. QED BY <2>2, <2>3, <2>4, <2>5
<1>7. QED BY <1>1, <1>4, <1>5, <1>6 DEF IInv, PipelineInv

\* Every step of every goroutine and of the flush loop keeps the inductive invariant.
LEMMA NextIInv == IInv /\ [Next]_vars => IInv'
<1> SUFFICES ASSUME IInv, [Next]_vars PROVE IInv'
  OBVIOUS
<1>1. /\ TypeOK /\ MuInv /\ QueueInv /\ WaitGroupInv /\ KindInv /\ SyncQueueInv
  BY DEF IInv, PipelineInv, QueueInv
<1>2. QueueTypeOK
  BY <1>1, Zenon DEF TypeOK, QueueTypeOK
<1>3. /\ pc \in [Procs -> PCs] /\ kind \in [Procs -> Kinds \cup {"plain"}]
      /\ commitWG \in [Procs -> Int] /\ fsyncWG \in [Procs -> Int]
      /\ syncQ \in Seq(Procs)
  BY <1>1, Zenon DEF TypeOK
<1>4. TypeOK'
  BY <1>1, TypeStep
<1>5. MuInv' /\ KindInv'
  BY <1>1, <1>3, MuKindStep
<1>6. QueueInv' /\ UnpublishedStep
  BY <1>1, <1>2, QueueStep
<1>7. WaitGroupInv'
  BY <1>1, <1>3, <1>6, WaitGroupStep DEF QueueInv
<1>8. SyncQueueInv'
  BY <1>1, <1>3, SyncQueueStep
<1>9. QED
  BY <1>4, <1>5, <1>6, <1>7, <1>8 DEF IInv, PipelineInv, QueueInv

\* What the inductive invariant says of visibility.
LEMMA IInvImplies == IInv => VisibleIsApplied /\ ReadYourWrites
<1> SUFFICES ASSUME IInv PROVE VisibleIsApplied /\ ReadYourWrites
  OBVIOUS
<1>1. VisibleIsApplied
  <2>1. visibleSeqNum <= logSeqNum
    BY DEF IInv, PipelineInv, SeqNumInv
  <2>2. ASSUME NEW p \in Procs, Unapplied(p) PROVE visibleSeqNum <= seqNum[p]
    <3>1. PICK i \in Window : At(i) = p
      BY <2>2 DEF IInv, PipelineInv, AppliedInv, BeforePublish, InQueue
    <3>2. pc[At(i)] # "assign"
      BY <2>2, <3>1 DEF Unapplied
    <3>3. QED BY <3>1, <3>2 DEF IInv, PipelineInv, SeqNumInv
  <2>3. QED BY <2>1, <2>2 DEF VisibleIsApplied
<1>2. ReadYourWrites
  BY DEF IInv, PipelineInv, PublishedInv, ReadYourWrites, TypeOK, EndSeqNum
<1>3. QED BY <1>1, <1>2

\* The type invariant and the invariant of the pipeline hold for every number
\* of goroutines, every queue size and every batch size.
THEOREM PipelineInvariant == Spec => [](TypeOK /\ PipelineInv)
<1>1. Init => IInv BY InitIInv
<1>2. IInv /\ [Next]_vars => IInv' BY NextIInv
<1>3. QED BY <1>1, <1>2, PTL DEF Spec, IInv

\* commitPipeline.publish makes batches visible in sequence-number order: no
\* reader at visibleSeqNum misses an operation below it.
THEOREM VisibilityInOrder == Spec => []VisibleIsApplied
<1>1. IInv => VisibleIsApplied BY IInvImplies
<1>2. QED BY <1>1, PipelineInvariant, PTL DEF IInv

\* When Commit returns, the batch is visible, whoever published it.
THEOREM CommitIsVisible == Spec => []ReadYourWrites
<1>1. IInv => ReadYourWrites BY IInvImplies
<1>2. QED BY <1>1, PipelineInvariant, PTL DEF IInv

\* Only the compare-and-swap of publish writes visibleSeqNum.
LEMMA VisibleStep ==
    ASSUME IInv, [Next]_vars
    PROVE  [visibleSeqNum' >= visibleSeqNum]_vars
<1>1. QueueTypeOK /\ QueueInv /\ visibleSeqNum \in Nat
  BY Zenon DEF IInv, PipelineInv, QueueInv, TypeOK, QueueTypeOK
<1>2. CASE \E p \in Procs : RatchetCAS(p)
  BY <1>1, <1>2, RatchetQueue
<1>3. CASE visibleSeqNum' = visibleSeqNum
  BY <1>1, <1>3
<1>4. (\E p \in Procs : RatchetCAS(p)) \/ visibleSeqNum' = visibleSeqNum
  BY NextCases, Zenon
  DEF StartCommit, StartAllocate, AcquireCommitQueueSem, AcquireLogSyncQSem, Lock, CommitCount,
      EnqueueStore, SlotFree, EnqueueAdvance, AssignSeqNum, FirstSeqNum, SkippedZero, Write, WriteFails, AllocPrepare,
      DirectWrite, DirectWriteWait, Apply, ApplyFails, MarkApplied, DequeueLoad,
      DequeueSlot, DequeueCheck, Ready, DequeueCAS, DequeueClear, RatchetLoad,
      PublishDone, Return, CommitDone, SyncWait, Release, Fatalf, SyncDone, vars, seqVars
<1>5. QED BY <1>2, <1>3, <1>4

\* The compare-and-swap loop of publish never moves visibleSeqNum down, also
\* when publishers of older and newer batches overtake each other.
THEOREM VisibleNeverDecreases == Spec => VisibleRatchets
<1>1. IInv /\ [Next]_vars => [visibleSeqNum' >= visibleSeqNum]_vars BY VisibleStep
<1>2. QED BY <1>1, PipelineInvariant, PTL DEF Spec, IInv, VisibleRatchets
=============================================================================
