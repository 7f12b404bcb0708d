------------------------ MODULE CommitControlProofs ------------------------
(***************************************************************************)
(* Proofs about the control flow of CommitPipeline: commitPipeline.mu, the *)
(* kinds of operation, the WaitGroup Batch.commit and the sync queue. Most *)
(* steps leave the WaitGroups and the sync queue alone and only move their *)
(* goroutine on; StepShapes states which, so that the lemmas after it have *)
(* one case for all of them.                                               *)
(***************************************************************************)
EXTENDS CommitPipeline, TLAPS

\* What a step does to the set of batches that are not published.
Enqueued(q) == pc[q] = "advance" /\ pc'[q] = "assign"
Published(q) == \E p \in Procs : pc[p] = "done" /\ pc'[p] = "load" /\ cand[p] = q
UnpublishedStep ==
    \A q \in Procs : Unpublished(q)' <=> (Unpublished(q) \/ Enqueued(q)) /\ ~Published(q)

\* The actions, one by one.
LEMMA NextCases ==
    ASSUME Next
    PROVE  \/ \E p \in Procs, k \in Kinds, n \in Counts : StartCommit(p, k, n)
           \/ \E p \in Procs, n \in Counts : StartAllocate(p, n)
           \/ \E p \in Procs :
                \/ AcquireCommitQueueSem(p) \/ AcquireLogSyncQSem(p) \/ Lock(p)
                \/ EnqueueStore(p) \/ EnqueueAdvance(p) \/ AssignSeqNum(p)
                \/ Write(p) \/ WriteFails(p) \/ AllocPrepare(p)
                \/ DirectWrite(p) \/ DirectWriteWait(p)
                \/ Apply(p) \/ ApplyFails(p) \/ MarkApplied(p)
                \/ DequeueLoad(p) \/ DequeueSlot(p) \/ DequeueCheck(p)
                \/ DequeueCAS(p) \/ DequeueClear(p)
                \/ RatchetLoad(p) \/ RatchetCAS(p) \/ PublishDone(p)
                \/ Return(p) \/ SyncWait(p) \/ Release(p) \/ Fatalf(p)
           \/ \E err \in BOOLEAN : SyncDone(err)
           \/ UNCHANGED vars
BY DEF Next, Start, Step, Fails, Stopped

\* Who waits in the sync queue after a push and after a pop.
LEMMA SyncQueueFacts ==
    ASSUME syncQ \in Seq(Procs)
    PROVE  /\ syncQ' = syncQ => \A q : AwaitsSync(q)' <=> AwaitsSync(q)
           /\ \A p \in Procs : syncQ' = Append(syncQ, p) =>
                \A q : AwaitsSync(q)' <=> AwaitsSync(q) \/ q = p
           /\ syncQ # <<>> => Head(syncQ) \in Procs /\ AwaitsSync(Head(syncQ))
           /\ SyncQueueInv /\ syncQ # <<>> /\ syncQ' = Tail(syncQ) =>
                \A q : AwaitsSync(q)' <=> AwaitsSync(q) /\ q # Head(syncQ)
<1>1. \A p \in Procs : syncQ' = Append(syncQ, p) =>
          \A q : AwaitsSync(q)' <=> AwaitsSync(q) \/ q = p
  BY DEF AwaitsSync
<1>2. syncQ # <<>> => Head(syncQ) \in Procs /\ AwaitsSync(Head(syncQ))
  BY DEF AwaitsSync
<1>3. ASSUME SyncQueueInv, syncQ # <<>>, syncQ' = Tail(syncQ), NEW q
      PROVE  AwaitsSync(q)' <=> AwaitsSync(q) /\ q # Head(syncQ)
  <2>1. /\ Len(syncQ) \in Nat /\ Len(syncQ) >= 1 /\ Len(syncQ') = Len(syncQ) - 1
        /\ \A i \in 1 .. Len(syncQ') : syncQ'[i] = syncQ[i + 1]
        /\ Head(syncQ) = syncQ[1]
    BY <1>3
  <2>2. ASSUME AwaitsSync(q)' PROVE AwaitsSync(q) /\ q # Head(syncQ)
    <3>1. PICK i \in 1 .. Len(syncQ') : syncQ'[i] = q
      BY <2>2 DEF AwaitsSync
    <3>2. i + 1 \in 1 .. Len(syncQ) /\ i + 1 # 1 /\ 1 \in 1 .. Len(syncQ) /\ syncQ[i + 1] = q
      BY <2>1, <3>1
    <3>3. QED BY <1>3, <2>1, <3>2 DEF AwaitsSync, SyncQueueInv, SyncQDistinct
  <2>3. ASSUME AwaitsSync(q), q # Head(syncQ) PROVE AwaitsSync(q)'
    <3>1. PICK i \in 1 .. Len(syncQ) : syncQ[i] = q
      BY <2>3 DEF AwaitsSync
    <3>2. i - 1 \in 1 .. Len(syncQ') /\ syncQ'[i - 1] = q
      BY <2>1, <2>3, <3>1
    <3>3. QED BY <3>2 DEF AwaitsSync
  <2>4. QED BY <2>2, <2>3
<1>4. syncQ' = syncQ => \A q : AwaitsSync(q)' <=> AwaitsSync(q)
  BY DEF AwaitsSync
<1>5. QED BY <1>1, <1>2, <1>3, <1>4
\* The stages in which commitPipeline.mu is held, and those of a batch that is
\* written and not yet released by its owner.
MuPCs == {"enqueue", "advance", "assign", "write", "spin", "directSem", "directWait"}
PublishPCs == {"load", "slot", "check", "cas", "clear", "ratchet", "ratchetCAS", "done", "wait"}

\* A step of p that changes neither a WaitGroup nor the sync queue.
Moves(p) == \A q \in Procs : q # p => pc'[q] = pc[q]
Edge(p) ==
    \/ pc'[p] = pc[p]
    \/ pc[p] \in {"commitSem", "syncSem"} /\ pc'[p] \in {"syncSem", "lock"}
    \/ pc[p] = "enqueue" /\ pc'[p] = "advance"
    \/ pc[p] = "advance" /\ pc'[p] = "assign"
    \/ pc[p] = "assign" /\ pc'[p] = IF kind[p] = "alloc" THEN "spin" ELSE "write"
    \/ pc[p] = "write" /\ pc'[p] = "failed"
    \/ pc[p] = "spin" /\ pc'[p] \in {"apply", "directSem"}
    \/ pc[p] = "directWait" /\ pc'[p] \in {"apply", "failed"} /\ fsyncWG[p] = 0
    \/ pc[p] = "apply" /\ pc'[p] \in {"publish", "failed"}
    \/ pc[p] \in {"publish"} \cup (PublishPCs \ {"done", "wait"}) /\ pc'[p] \in PublishPCs
    \/ /\ pc[p] = "wait" /\ commitWG[p] = 0
       /\ pc'[p] \in {"syncWait", "syncFailed", "acked"}
       /\ pc'[p] = "syncWait" <=> kind[p] = "noSyncWait"
    \/ pc[p] = "syncWait" /\ pc'[p] = "acked" /\ fsyncWG[p] = 0
MuEdge(p) ==
    \/ mu' = mu /\ (pc'[p] \in MuPCs => pc[p] \in MuPCs)
    \/ mu' = NoBatch /\ pc[p] \in MuPCs /\ pc'[p] \notin MuPCs
Quiet(p) ==
    /\ Moves(p) /\ Edge(p) /\ MuEdge(p)
    /\ UNCHANGED <<kind, commitWG, fsyncWG, syncQ>>

\* The steps of an operation up to its publication that are quiet.
LEMMA QuietBefore ==
    ASSUME pc \in [Procs -> PCs], NEW p \in Procs,
           \/ AcquireCommitQueueSem(p) \/ AcquireLogSyncQSem(p)
           \/ EnqueueStore(p) \/ EnqueueAdvance(p) \/ AssignSeqNum(p)
           \/ WriteFails(p) \/ AllocPrepare(p) \/ DirectWriteWait(p)
           \/ Apply(p) \/ ApplyFails(p) \/ MarkApplied(p)
    PROVE  Quiet(p)
<1> USE DEF Goto, Quiet, Moves, Edge, MuEdge, MuPCs, PublishPCs, batchVars, walVars
<1>1. CASE AcquireCommitQueueSem(p) BY <1>1, Zenon DEF AcquireCommitQueueSem
<1>2. CASE AcquireLogSyncQSem(p) BY <1>2, Zenon DEF AcquireLogSyncQSem
<1>3. CASE EnqueueStore(p) BY <1>3, Zenon DEF EnqueueStore
<1>4. CASE EnqueueAdvance(p) BY <1>4 DEF EnqueueAdvance
<1>5. CASE AssignSeqNum(p) BY <1>5, Zenon DEF AssignSeqNum
<1>6. CASE WriteFails(p) BY <1>6, Zenon DEF WriteFails
<1>7. CASE AllocPrepare(p) BY <1>7, Zenon DEF AllocPrepare
<1>8. CASE DirectWriteWait(p) BY <1>8, Zenon DEF DirectWriteWait
<1>9. CASE Apply(p) BY <1>9 DEF Apply
<1>10. CASE ApplyFails(p) BY <1>10 DEF ApplyFails
<1>11. CASE MarkApplied(p) BY <1>11 DEF MarkApplied
<1>12. QED BY <1>1, <1>2, <1>3, <1>4, <1>5, <1>6, <1>7, <1>8, <1>9, <1>10, <1>11, Zenon

\* The steps of publish, and of the return from Commit, that are quiet.
LEMMA QuietPublish ==
    ASSUME pc \in [Procs -> PCs], NEW p \in Procs,
           \/ DequeueLoad(p) \/ DequeueSlot(p) \/ DequeueCheck(p)
           \/ DequeueCAS(p) \/ DequeueClear(p) \/ RatchetLoad(p) \/ RatchetCAS(p)
           \/ Return(p) \/ SyncWait(p) \/ Fatalf(p)
    PROVE  Quiet(p)
<1> USE DEF Goto, Quiet, Moves, Edge, MuEdge, MuPCs, PublishPCs, batchVars, walVars
<1>1. CASE DequeueLoad(p) BY <1>1, Zenon DEF DequeueLoad
<1>2. CASE DequeueSlot(p) BY <1>2 DEF DequeueSlot
<1>3. CASE DequeueCheck(p) BY <1>3 DEF DequeueCheck
<1>4. CASE DequeueCAS(p) BY <1>4 DEF DequeueCAS
<1>5. CASE DequeueClear(p) BY <1>5 DEF DequeueClear
<1>6. CASE RatchetLoad(p) BY <1>6, Zenon DEF RatchetLoad
<1>7. CASE RatchetCAS(p) BY <1>7 DEF RatchetCAS
<1>8. CASE Return(p) BY <1>8 DEF Return, CommitDone
<1>9. CASE SyncWait(p) BY <1>9 DEF SyncWait
<1>10. CASE Fatalf(p) BY <1>10 DEF Fatalf
<1>11. QED BY <1>1, <1>2, <1>3, <1>4, <1>5, <1>6, <1>7, <1>8, <1>9, <1>10, Zenon

\* Every step is quiet, or one of the eight that are not.
LEMMA StepShapes ==
    ASSUME pc \in [Procs -> PCs], [Next]_vars
    PROVE  \/ \E p \in Procs : Quiet(p)
           \/ \E p \in Procs : (\E k \in Kinds, n \in Counts : StartCommit(p, k, n))
                               \/ (\E n \in Counts : StartAllocate(p, n))
           \/ \E p \in Procs : Lock(p) \/ Write(p) \/ DirectWrite(p)
           \/ \E p \in Procs : PublishDone(p) \/ Release(p)
           \/ \E err \in BOOLEAN : SyncDone(err)
           \/ UNCHANGED vars
<1>1. CASE UNCHANGED vars BY <1>1
<1>2. CASE Next BY <1>2, NextCases, QuietBefore, QuietPublish
<1>3. QED BY <1>1, <1>2

\* The mutex and the kinds of operation: every step keeps MuInv and KindInv.
LEMMA MuKindStep ==
    ASSUME pc \in [Procs -> PCs], kind \in [Procs -> Kinds \cup {"plain"}],
           fsyncWG \in [Procs -> Int], syncQ \in Seq(Procs),
           MuInv, KindInv, SyncQueueInv, [Next]_vars
    PROVE  MuInv' /\ KindInv'
<1> USE DEF MuInv, KindInv
<1>1. ASSUME NEW p \in Procs, Quiet(p) PROVE MuInv' /\ KindInv'
  <2>1. MuInv'
    BY <1>1 DEF Quiet, Moves, MuEdge, MuPCs
  <2>2. KindInv'
    BY <1>1 DEF Quiet, Moves, Edge, PublishPCs
  <2>3. QED BY <2>1, <2>2
<1>2. ASSUME NEW p \in Procs, NEW k \in Kinds, NEW n \in Counts, StartCommit(p, k, n)
      PROVE  MuInv' /\ KindInv'
  BY <1>2 DEF StartCommit, Goto
<1>3. ASSUME NEW p \in Procs, NEW n \in Counts, StartAllocate(p, n)
      PROVE  MuInv' /\ KindInv'
  BY <1>3 DEF StartAllocate, Goto
<1>4. ASSUME NEW p \in Procs, Lock(p) PROVE MuInv' /\ KindInv'
  BY <1>4, PipelineAssumption DEF Lock, Goto
<1>5. ASSUME NEW p \in Procs, Write(p) PROVE MuInv' /\ KindInv'
  BY <1>5 DEF Write, Goto, batchVars
<1>6. ASSUME NEW p \in Procs, DirectWrite(p) PROVE MuInv' /\ KindInv'
  BY <1>6 DEF DirectWrite, Goto
<1>7. ASSUME NEW p \in Procs, PublishDone(p) \/ Release(p) PROVE MuInv' /\ KindInv'
  BY <1>7, Zenon DEF PublishDone, Release, Goto
<1>8. ASSUME NEW err \in BOOLEAN, SyncDone(err) PROVE MuInv' /\ KindInv'
  <2>1. PICK b \in Procs : b = Head(syncQ) /\ AwaitsSync(b)
    BY <1>8, SyncQueueFacts DEF SyncDone
  <2>2. pc[b] \notin {"enqueue", "advance", "assign", "write"}
    BY <2>1 DEF SyncQueueInv, SyncWaiters, Written, InPublish, Publishing
  <2>3. /\ \A q \in Procs : q # b => fsyncWG'[q] = fsyncWG[q]
        /\ UNCHANGED <<pc, kind, mu>>
    BY <1>8, <2>1 DEF SyncDone
  <2>4. QED BY <2>2, <2>3
<1>9. CASE UNCHANGED vars
  BY <1>9 DEF vars, batchVars
<1>10. QED BY <1>1, <1>2, <1>3, <1>4, <1>5, <1>6, <1>7, <1>8, <1>9, StepShapes

\* Batch.commit counts exactly what is still pending, whichever step is taken.
LEMMA WaitGroupStep ==
    ASSUME pc \in [Procs -> PCs], commitWG \in [Procs -> Int], syncQ \in Seq(Procs),
           PublisherInv, KindInv, SyncQueueInv, WaitGroupInv, UnpublishedStep, [Next]_vars
    PROVE  WaitGroupInv'
<1> USE DEF WaitGroupInv, SyncPending, PublishPending, BeforePublish, InPublish,
            Publishing, Unapplied, UnpublishedStep, Enqueued
<1>1. ASSUME NEW p \in Procs, Quiet(p) PROVE WaitGroupInv'
  <2>1. /\ \A q : AwaitsSync(q)' <=> AwaitsSync(q)
        /\ UNCHANGED <<kind, commitWG>>
        /\ \A q \in Procs : q # p => pc'[q] = pc[q]
    BY <1>1 DEF Quiet, Moves, AwaitsSync
  <2>2. \A q \in Procs : ~Published(q)
    BY <1>1 DEF Quiet, Moves, Edge, Published, PublishPCs
  <2>3. \A q \in Procs : q # p =>
          /\ PublishPending(q)' <=> PublishPending(q)
          /\ SyncPending(q)' <=> SyncPending(q)
    BY <2>1, <2>2
  <2>4. ASSUME pc'[p] # "failed",
               pc'[p] \in {"enqueue", "advance"} \/ BeforePublish(p)' \/ InPublish(p)'
        PROVE  /\ pc[p] # "failed"
               /\ pc[p] \in {"enqueue", "advance"} \/ BeforePublish(p) \/ InPublish(p)
               /\ PublishPending(p)' <=> PublishPending(p)
               /\ SyncPending(p)' <=> SyncPending(p)
    BY <1>1, <2>1, <2>2, <2>4 DEF Quiet, Edge, PublishPCs, KindInv
  <2>5. commitWG' = commitWG
    BY <2>1
  <2>6. \A q \in Procs : q # p /\ pc'[q] = pc[q] =>
          /\ BeforePublish(q)' <=> BeforePublish(q)
          /\ InPublish(q)' <=> InPublish(q)
    OBVIOUS
  <2> HIDE DEF SyncPending, PublishPending, BeforePublish, InPublish, Publishing, Unapplied,
               UnpublishedStep, Enqueued
  <2>7. QED BY <2>1, <2>3, <2>4, <2>5, <2>6
<1>2. ASSUME NEW p \in Procs, NEW k \in Kinds, NEW n \in Counts, StartCommit(p, k, n)
      PROVE  WaitGroupInv'
  BY <1>2 DEF StartCommit, Goto, AwaitsSync, Published, walVars
<1>3. ASSUME NEW p \in Procs, NEW n \in Counts, StartAllocate(p, n) PROVE WaitGroupInv'
  BY <1>3 DEF StartAllocate, Goto, AwaitsSync, Published, walVars
<1>4. ASSUME NEW p \in Procs, Lock(p) PROVE WaitGroupInv'
  BY <1>4 DEF Lock, CommitCount, Goto, AwaitsSync, Published, walVars
<1>5. ASSUME NEW p \in Procs, Write(p) PROVE WaitGroupInv'
  <2>1. \A q : AwaitsSync(q)' <=> AwaitsSync(q) \/ (q = p /\ kind[p] # "plain")
    BY <1>5, SyncQueueFacts, Zenon DEF Write
  <2>2. \A q \in Procs : ~Published(q)
    BY <1>5 DEF Write, Goto, Published
  <2>3. QED BY <1>5, <2>1, <2>2 DEF Write, Goto, batchVars
<1>6. ASSUME NEW p \in Procs, DirectWrite(p) PROVE WaitGroupInv'
  <2>1. \A q : AwaitsSync(q)' <=> AwaitsSync(q) \/ q = p
    BY <1>6, SyncQueueFacts DEF DirectWrite
  <2>2. \A q \in Procs : ~Published(q)
    BY <1>6 DEF DirectWrite, Goto, Published
  <2>3. QED BY <1>6, <2>1, <2>2 DEF DirectWrite, Goto, KindInv
<1>7. ASSUME NEW p \in Procs, Release(p) PROVE WaitGroupInv'
  BY <1>7 DEF Release, Goto, AwaitsSync, Published
<1>8. ASSUME NEW p \in Procs, PublishDone(p) PROVE WaitGroupInv'
  <2>1. PICK b \in Procs : b = cand[p] /\ InPublish(b)
    BY <1>8 DEF PublishDone, Goto, PublisherInv
  <2>2. /\ pc[p] = "done" /\ pc'[p] = "load"
        /\ \A q \in Procs : q # p => pc'[q] = pc[q]
        /\ commitWG'[b] = commitWG[b] - 1
        /\ \A q \in Procs : q # b => commitWG'[q] = commitWG[q]
        /\ UNCHANGED kind
        /\ \A q : AwaitsSync(q)' <=> AwaitsSync(q)
    BY <1>8, <2>1 DEF PublishDone, Goto, AwaitsSync, walVars
  <2>3. \A q \in Procs : Published(q) <=> q = b
    BY <2>1, <2>2, Zenon DEF Published
  <2>4. Unpublished(b) /\ ~Unpublished(b)'
    BY <2>1, <2>2, <2>3 DEF Unpublished
  <2>5. \A q \in Procs : q # b => (PublishPending(q)' <=> PublishPending(q))
    BY <2>2, <2>3
  <2>6. PublishPending(b) /\ ~PublishPending(b)'
    BY <2>1, <2>2, <2>4, Zenon
  <2>7. \A q \in Procs : SyncPending(q)' <=> SyncPending(q)
    BY <2>2
  <2>8. commitWG[b] = 1 + (IF SyncPending(b) THEN 1 ELSE 0)
    BY <2>1, <2>6
  <2>9. commitWG'[b] = (IF PublishPending(b)' THEN 1 ELSE 0) + (IF SyncPending(b)' THEN 1 ELSE 0)
    BY <2>2, <2>6, <2>7, <2>8
  <2>10. \A q \in Procs :
           /\ pc'[q] # "failed"
           /\ pc'[q] \in {"enqueue", "advance"} \/ BeforePublish(q)' \/ InPublish(q)'
           => /\ pc[q] # "failed"
              /\ pc[q] \in {"enqueue", "advance"} \/ BeforePublish(q) \/ InPublish(q)
    BY <2>2
  <2> HIDE DEF SyncPending, PublishPending, BeforePublish, InPublish, Publishing, Unapplied,
               UnpublishedStep, Enqueued
  <2>11. QED BY <2>2, <2>5, <2>7, <2>9, <2>10
<1>9. ASSUME NEW err \in BOOLEAN, SyncDone(err) PROVE WaitGroupInv'
  <2>1. PICK b \in Procs : b = Head(syncQ) /\ AwaitsSync(b)
    BY <1>9, SyncQueueFacts DEF SyncDone
  <2>2. \A q : AwaitsSync(q)' <=> AwaitsSync(q) /\ q # b
    BY <1>9, <2>1, SyncQueueFacts DEF SyncDone
  <2>3. /\ commitWG'[b] = IF kind[b] = "sync" THEN commitWG[b] - 1 ELSE commitWG[b]
        /\ \A q \in Procs : q # b => commitWG'[q] = commitWG[q]
        /\ UNCHANGED <<pc, kind>>
    BY <1>9, <2>1 DEF SyncDone
  <2>4. kind[b] = "sync" => Written(b)
    BY <2>1 DEF SyncQueueInv, SyncWaiters
  <2>5. QED BY <2>1, <2>2, <2>3, <2>4 DEF Published, Written
<1>10. CASE UNCHANGED vars
  BY <1>10 DEF vars, batchVars, walVars, AwaitsSync, Published
<1>11. QED
  BY <1>1, <1>2, <1>3, <1>4, <1>5, <1>6, <1>7, <1>8, <1>9, <1>10, StepShapes, Zenon

\* A push keeps the batches of the sync queue distinct.
LEMMA PushDistinct ==
    ASSUME syncQ \in Seq(Procs), SyncQDistinct, NEW p \in Procs, ~AwaitsSync(p),
           syncQ' = Append(syncQ, p)
    PROVE  SyncQDistinct'
<1>1. /\ Len(syncQ) \in Nat /\ Len(syncQ') = Len(syncQ) + 1
      /\ \A i \in 1 .. Len(syncQ) : syncQ'[i] = syncQ[i] /\ syncQ[i] # p
      /\ syncQ'[Len(syncQ) + 1] = p
  BY DEF AwaitsSync
<1>2. ASSUME NEW i \in 1 .. Len(syncQ'), NEW j \in 1 .. Len(syncQ'), syncQ'[i] = syncQ'[j]
      PROVE  i = j
  <2>1. CASE i = Len(syncQ) + 1
    <3>1. j \notin 1 .. Len(syncQ) BY <1>1, <1>2, <2>1
    <3>2. QED BY <1>1, <2>1, <3>1
  <2>2. CASE j = Len(syncQ) + 1
    <3>1. i \notin 1 .. Len(syncQ) BY <1>1, <1>2, <2>2
    <3>2. QED BY <1>1, <2>2, <3>1
  <2>3. CASE i \in 1 .. Len(syncQ) /\ j \in 1 .. Len(syncQ)
    BY <1>1, <1>2, <2>3 DEF SyncQDistinct
  <2>4. QED BY <1>1, <2>1, <2>2, <2>3
<1>3. QED BY <1>2 DEF SyncQDistinct

\* A pop keeps them distinct, too.
LEMMA PopDistinct ==
    ASSUME syncQ \in Seq(Procs), SyncQDistinct, syncQ # <<>>, syncQ' = Tail(syncQ)
    PROVE  SyncQDistinct'
<1>1. /\ Len(syncQ) \in Nat /\ Len(syncQ') = Len(syncQ) - 1
      /\ \A i \in 1 .. Len(syncQ') : syncQ'[i] = syncQ[i + 1] /\ i + 1 \in 1 .. Len(syncQ)
  OBVIOUS
<1>2. \A i, j \in 1 .. Len(syncQ') : syncQ'[i] = syncQ'[j] => i + 1 = j + 1
  BY <1>1 DEF SyncQDistinct
<1>3. Len(syncQ') \in Int
  BY <1>1
<1>4. \A i, j \in 1 .. Len(syncQ') : i + 1 = j + 1 => i = j
  BY <1>3
<1>5. QED BY <1>2, <1>4 DEF SyncQDistinct

\* No step releases or reuses a batch that the sync queue still holds.
LEMMA SyncQueueStep ==
    ASSUME pc \in [Procs -> PCs], kind \in [Procs -> Kinds \cup {"plain"}],
           fsyncWG \in [Procs -> Int], syncQ \in Seq(Procs),
           KindInv, SyncQueueInv, WaitGroupInv, [Next]_vars
    PROVE  SyncQueueInv'
<1> USE DEF SyncQueueInv, SyncWaiters, Written, InPublish, Publishing
<1>1. ASSUME NEW p \in Procs, Quiet(p) PROVE SyncQueueInv'
  <2>1. /\ \A q : AwaitsSync(q)' <=> AwaitsSync(q)
        /\ UNCHANGED <<kind, fsyncWG, syncQ>>
        /\ \A q \in Procs : q # p => pc'[q] = pc[q]
    BY <1>1 DEF Quiet, Moves, AwaitsSync
  <2>2. pc[p] = "wait" /\ commitWG[p] = 0 /\ kind[p] = "sync" => ~AwaitsSync(p)
    <3>1. pc[p] = "wait" => commitWG[p] = (IF PublishPending(p) THEN 1 ELSE 0)
                                          + (IF SyncPending(p) THEN 1 ELSE 0)
      BY DEF WaitGroupInv
    <3>2. QED BY <3>1 DEF SyncPending
  <2>3. AwaitsSync(p) =>
          \/ kind[p] = "sync" /\ Written(p)'
          \/ kind[p] = "noSyncWait" /\ (Written(p)' \/ pc'[p] = "syncWait") /\ fsyncWG[p] = 1
          \/ kind[p] = "alloc" /\ pc'[p] = "directWait" /\ fsyncWG[p] = 1
    BY <1>1, <2>2 DEF Quiet, Edge, PublishPCs
  <2>4. QED BY <2>1, <2>3 DEF SyncQDistinct
<1>2. ASSUME NEW p \in Procs, NEW k \in Kinds, NEW n \in Counts, StartCommit(p, k, n)
      PROVE  SyncQueueInv'
  BY <1>2 DEF StartCommit, Goto, walVars, AwaitsSync, SyncQDistinct
<1>3. ASSUME NEW p \in Procs, NEW n \in Counts, StartAllocate(p, n) PROVE SyncQueueInv'
  BY <1>3 DEF StartAllocate, Goto, walVars, AwaitsSync, SyncQDistinct
<1>4. ASSUME NEW p \in Procs, Lock(p) PROVE SyncQueueInv'
  BY <1>4 DEF Lock, Goto, walVars, AwaitsSync, SyncQDistinct
<1>5. ASSUME NEW p \in Procs, Write(p) PROVE SyncQueueInv'
  <2>1. \A q : AwaitsSync(q)' <=> AwaitsSync(q) \/ (q = p /\ kind[p] # "plain")
    BY <1>5, SyncQueueFacts, Zenon DEF Write
  <2>2. ~AwaitsSync(p)
    BY <1>5, Zenon DEF Write, Goto
  <2>3. SyncWaiters'
    BY <1>5, <2>1, PipelineAssumption, Zenon DEF Write, Goto, batchVars, KindInv
  <2>4. SyncQDistinct'
    BY <1>5, <2>2, PushDistinct DEF Write, SyncQDistinct
  <2>5. QED BY <2>3, <2>4
<1>6. ASSUME NEW p \in Procs, DirectWrite(p) PROVE SyncQueueInv'
  <2>1. \A q : AwaitsSync(q)' <=> AwaitsSync(q) \/ q = p
    BY <1>6, SyncQueueFacts DEF DirectWrite
  <2>2. ~AwaitsSync(p)
    BY <1>6, Zenon DEF DirectWrite, Goto
  <2>3. SyncWaiters'
    BY <1>6, <2>1 DEF DirectWrite, Goto, KindInv
  <2>4. SyncQDistinct'
    BY <1>6, <2>2, PushDistinct DEF DirectWrite
  <2>5. QED BY <2>3, <2>4
<1>7. ASSUME NEW p \in Procs, PublishDone(p) \/ Release(p) PROVE SyncQueueInv'
  <2>1. /\ UNCHANGED <<fsyncWG, syncQ>>
        /\ \A q \in Procs : q # p => pc'[q] = pc[q] /\ kind'[q] = kind[q]
        /\ \/ pc[p] = "done" /\ pc'[p] = "load" /\ kind'[p] = kind[p]
           \/ pc[p] = "acked"
    BY <1>7 DEF PublishDone, Release, Goto, walVars
  <2>2. \A q : AwaitsSync(q)' <=> AwaitsSync(q)
    BY <2>1 DEF AwaitsSync
  <2>3. SyncWaiters'
    BY <2>1, <2>2
  <2>4. QED BY <2>1, <2>3 DEF SyncQDistinct
<1>8. ASSUME NEW err \in BOOLEAN, SyncDone(err) PROVE SyncQueueInv'
  <2>1. PICK b \in Procs : b = Head(syncQ) /\ AwaitsSync(b)
    BY <1>8, SyncQueueFacts DEF SyncDone
  <2>2. \A q : AwaitsSync(q)' <=> AwaitsSync(q) /\ q # b
    BY <1>8, <2>1, SyncQueueFacts DEF SyncDone
  <2>3. /\ \A q \in Procs : q # b => fsyncWG'[q] = fsyncWG[q]
        /\ UNCHANGED <<pc, kind>>
    BY <1>8, <2>1 DEF SyncDone
  <2>4. SyncWaiters'
    BY <2>2, <2>3
  <2>5. SyncQDistinct'
    BY <1>8, PopDistinct DEF SyncDone
  <2>6. QED BY <2>4, <2>5
<1>9. CASE UNCHANGED vars
  BY <1>9 DEF vars, batchVars, walVars, AwaitsSync, SyncQDistinct
<1>10. QED BY <1>1, <1>2, <1>3, <1>4, <1>5, <1>6, <1>7, <1>8, <1>9, StepShapes, Zenon
=============================================================================
