------------------------- MODULE CommitQueueProofs --------------------------
(***************************************************************************)
(* The ring of the commitQueue: what is preserved by a step that leaves it *)
(* alone, by the two steps of enqueue, by the sequencing of a batch and by *)
(* its applied flag. A slot is reused only after it was cleared, so no     *)
(* more than one lap of the ring is in use.                                *)
(***************************************************************************)
EXTENDS CommitPipeline, TLAPS

\* A position of the queue has a slot.
LEMMA SlotOfType == \A i \in Nat : SlotOf(i) \in 0 .. SyncConcurrency - 1
BY PipelineAssumption DEF SlotOf

\* Two positions less than a lap apart have different slots (ptr & (len(slots) - 1)
\* in enqueue and dequeueApplied).
LEMMA SlotOfInjective ==
    \A i, j \in Nat : i < j /\ j < i + SyncConcurrency => SlotOf(i) # SlotOf(j)
<1> SUFFICES ASSUME NEW i \in Nat, NEW j \in Nat, i < j, j < i + SyncConcurrency,
                    SlotOf(i) = SlotOf(j)
             PROVE FALSE
  OBVIOUS
<1> DEFINE N == SyncConcurrency
           qi == i \div N
           qj == j \div N
<1>0. N \in Nat /\ N > 0 BY PipelineAssumption
<1>1. i = N * qi + (i % N) /\ qi \in Int BY <1>0
<1>2. j = N * qj + (j % N) /\ qj \in Int BY <1>0
<1>3. j - i = N * (qj - qi)
  BY <1>0, <1>1, <1>2 DEF SlotOf
<1>4. QED BY <1>0, <1>3, <1>1, <1>2

\* Positions a lap apart share a slot.
LEMMA SlotOfLap == \A i \in Nat : SlotOf(i + SyncConcurrency) = SlotOf(i)
<1> SUFFICES ASSUME NEW i \in Nat PROVE SlotOf(i + SyncConcurrency) = SlotOf(i)
  OBVIOUS
<1> DEFINE N == SyncConcurrency
           r == i % N
           s == (i + N) % N
<1>0. N \in Nat /\ N > 0 BY PipelineAssumption
<1>1. i = N * (i \div N) + r /\ i \div N \in Int /\ r \in 0 .. N - 1 BY <1>0
<1>2. i + N = N * ((i + N) \div N) + s /\ (i + N) \div N \in Int /\ s \in 0 .. N - 1
  BY <1>0
<1>3. s - r = N * ((i \div N) + 1 - ((i + N) \div N)) BY <1>0, <1>1, <1>2
<1>4. s - r < N /\ r - s < N BY <1>1, <1>2, <1>0
<1>5. s = r
  <2>1. ASSUME NEW n \in Nat, n > 0, NEW d \in Int, n * d < n, -n < n * d PROVE d = 0
    BY <2>1
  <2>2. (i \div N) + 1 - ((i + N) \div N) = 0 BY <1>0, <1>1, <1>2, <1>3, <1>4, <2>1
  <2>3. QED BY <1>0, <1>1, <1>2, <1>3, <2>2
<1>6. QED BY <1>5 DEF SlotOf
-----------------------------------------------------------------------------
(* The stages of an operation that the queue invariants tell apart. *)
OutPCs == {"idle", "commitSem", "syncSem", "lock", "enqueue"}
BeforePCs == {"write", "spin", "directSem", "directWait", "apply", "failed", "publish"}
AfterPCs == {"syncWait", "acked"}

\* The step keeps q in its stage.
SameStage(q) ==
    \/ pc'[q] = pc[q]
    \/ pc[q] \in OutPCs /\ pc'[q] \in OutPCs
    \/ pc[q] \in BeforePCs /\ pc'[q] \in BeforePCs
    \/ pc[q] \in AfterPCs /\ pc'[q] \in AfterPCs

\* What the invariants of the queue speak of.
queueState == <<headTail, slots, ptrs, cand, cur, seqNum, count, applied,
                logSeqNum, visibleSeqNum>>

QueueInv == RingInv /\ CandidateInv /\ PublisherInv /\ AppliedInv /\ SeqNumInv
            /\ PublishedInv

\* A step that leaves the ring alone, moves no goroutine into or out of the stages in
\* which it owns a position, and no queued batch out of its stages, preserves RingInv.
LEMMA RingFrame ==
    ASSUME RingInv, UNCHANGED <<headTail, slots>>,
           \A q \in Procs :
              /\ \A s \in {"advance", "assign", "clear"} : (pc'[q] = s => pc[q] = s)
              /\ pc[q] = "clear" => ptrs'[q] = ptrs[q] /\ cand'[q] = cand[q]
              /\ InQueue(q) /\ (BeforePublish(q) \/ InPublish(q))
                   => BeforePublish(q)' \/ InPublish(q)'
    PROVE  RingInv'
<1>1. Window' = Window /\ \A i : At(i)' = At(i)
  BY DEF Window, At
<1>2. RingBounds'
  BY DEF RingInv, RingBounds
<1>3. RingEntries'
  <2>1. ASSUME NEW i \in Window PROVE At(i) \in Procs /\ (BeforePublish(At(i)) \/ InPublish(At(i)))'
    <3>1. PICK q \in Procs : q = At(i) /\ InQueue(q) /\ (BeforePublish(q) \/ InPublish(q))
      BY <2>1 DEF RingInv, RingEntries, InQueue
    <3>2. BeforePublish(q)' \/ InPublish(q)'
      BY <3>1
    <3>3. QED BY <1>1, <3>1, <3>2 DEF BeforePublish, InPublish, Unapplied, Publishing
  <2>2. QED BY <1>1, <2>1 DEF RingInv, RingEntries
<1>4. RingProducer'
  BY <1>1 DEF RingInv, RingProducer
<1>5. RingClearing'
  BY <1>1 DEF RingInv, RingClearing
<1>6. QED BY <1>2, <1>3, <1>4, <1>5 DEF RingInv

\* A step that leaves the queue and its batches alone, and every goroutine in its
\* stage, preserves the invariants of the queue.
LEMMA StageFrame ==
    ASSUME QueueInv, UNCHANGED queueState, \A q \in Procs : SameStage(q)
    PROVE  /\ QueueInv'
           /\ \A q \in Procs : Unpublished(q)' <=> Unpublished(q)
<1>1. \A q \in Procs :
        /\ Publishing(q)' <=> Publishing(q)
        /\ InPublish(q)' <=> InPublish(q)
        /\ BeforePublish(q)' <=> BeforePublish(q)
        /\ pc'[q] \in {"syncWait", "acked"} <=> pc[q] \in {"syncWait", "acked"}
        /\ \A s \in {"assign", "advance", "clear", "done", "ratchetCAS",
                     "slot", "check", "cas", "syncFailed"} :
               (pc'[q] = s <=> pc[q] = s)
  BY DEF SameStage, OutPCs, BeforePCs, AfterPCs, Publishing, InPublish,
         BeforePublish, Unapplied
<1>2. /\ UNCHANGED <<headTail, slots, ptrs, cand, cur, seqNum, count, applied,
                     logSeqNum, visibleSeqNum>>
      /\ Window' = Window
      /\ \A i : At(i)' = At(i)
      /\ \A q : InQueue(q)' <=> InQueue(q)
      /\ \A q : EndSeqNum(q)' = EndSeqNum(q)
  BY DEF queueState, Window, At, InQueue, EndSeqNum
<1>3. RingInv'
  BY <1>1, <1>2, RingFrame DEF QueueInv
<1>4. CandidateInv'
  BY <1>1, <1>2 DEF QueueInv, CandidateInv
<1>5. PublisherInv'
  BY <1>1, <1>2 DEF QueueInv, PublisherInv
<1>6. AppliedInv'
  BY <1>1, <1>2 DEF QueueInv, AppliedInv
<1>7. SeqNumInv'
  <2>1. \A i \in Window : At(i) \in Procs
    BY DEF QueueInv, RingInv, RingBounds, RingEntries,
         RingProducer, RingClearing
  <2>2. QED
    BY <1>1, <1>2, <2>1 DEF QueueInv, SeqNumInv
<1>8. PublishedInv'
  BY <1>1, <1>2 DEF QueueInv, PublishedInv, Unpublished
<1>9. \A q \in Procs : Unpublished(q)' <=> Unpublished(q)
  BY <1>1, <1>2 DEF Unpublished
<1>10. QED
  BY <1>9, <1>3, <1>4, <1>5, <1>6, <1>7, <1>8 DEF QueueInv

\* The part of the type invariant that the queue invariants need.
QueueTypeOK ==
    /\ pc \in [Procs -> PCs]
    /\ count \in [Procs -> Nat] /\ seqNum \in [Procs -> Nat]
    /\ applied \in [Procs -> BOOLEAN]
    /\ headTail \in [head : Nat, tail : Nat]
    /\ slots \in [0 .. SyncConcurrency - 1 -> Procs \cup {NoBatch}]
    /\ ptrs \in [Procs -> [head : Nat, tail : Nat]]
    /\ cand \in [Procs -> Procs \cup {NoBatch}]
    /\ cur \in [Procs -> Nat]
    /\ logSeqNum \in Nat /\ visibleSeqNum \in Nat

\* enqueue's store fills a slot that no position in the window uses.
LEMMA EnqueueStoreQueue ==
    ASSUME QueueTypeOK, MuInv, QueueInv, NEW p \in Procs, EnqueueStore(p)
    PROVE  /\ QueueInv'
           /\ \A q \in Procs : Unpublished(q)' <=> Unpublished(q)
<1> DEFINE h == headTail.head
<1>1. /\ pc[p] = "enqueue"
      /\ pc' = [pc EXCEPT ![p] = "advance"]
      /\ At(h) = NoBatch
      /\ slots' = [slots EXCEPT ![SlotOf(h)] = p]
      /\ UNCHANGED <<headTail, ptrs, cand, cur, seqNum, count, applied, logSeqNum, visibleSeqNum>>
      /\ h \in Nat /\ headTail.tail \in Nat
      /\ headTail.tail <= h
      /\ h < headTail.tail + SyncConcurrency
  <2>1. /\ pc[p] = "enqueue" /\ pc' = [pc EXCEPT ![p] = "advance"]
        /\ At(h) = NoBatch /\ slots' = [slots EXCEPT ![SlotOf(h)] = p]
        /\ h # headTail.tail + SyncConcurrency
        /\ UNCHANGED <<headTail, ptrs, cand, cur, seqNum, count, applied, logSeqNum, visibleSeqNum>>
    BY DEF EnqueueStore, SlotFree, Goto, At, QueueFull, batchVars, localVars, seqVars
  <2>2. /\ h \in Nat /\ headTail.tail \in Nat /\ headTail.tail <= h
        /\ h <= headTail.tail + SyncConcurrency
    BY DEF QueueTypeOK, QueueInv, RingInv, RingBounds, RingEntries,
         RingProducer, RingClearing
  <2>3. QED BY <2>1, <2>2, PipelineAssumption
<1>2. \A q \in Procs : q # p => pc'[q] = pc[q] /\ pc[q] # "advance"
  BY <1>1 DEF QueueTypeOK, MuInv
<1>3. pc'[p] = "advance"
  BY <1>1 DEF QueueTypeOK
<1>4. /\ At(h)' = p
      /\ \A i \in Nat : SlotOf(i) # SlotOf(h) => At(i)' = At(i)
  BY <1>1, SlotOfType DEF QueueTypeOK, At
<1>5. /\ Window' = Window
      /\ \A i \in Window : i \in Nat /\ At(i)' = At(i)
  <2>1. Window' = Window BY <1>1 DEF Window
  <2>2. ASSUME NEW i \in Window PROVE i \in Nat /\ i < h /\ h < i + SyncConcurrency
    BY <1>1, PipelineAssumption DEF Window
  <2>3. QED BY <2>1, <2>2, <1>1, <1>4, SlotOfInjective
<1>6. \A q \in Procs : InQueue(q)' <=> InQueue(q)
  BY <1>5 DEF InQueue
<1>7. \A q \in Procs :
        /\ Publishing(q)' <=> Publishing(q)
        /\ InPublish(q)' <=> InPublish(q)
        /\ BeforePublish(q)' <=> BeforePublish(q)
  BY <1>1, <1>2, <1>3 DEF Publishing, InPublish, BeforePublish, Unapplied
<1>8. \A q : EndSeqNum(q)' = EndSeqNum(q)
  BY <1>1 DEF EndSeqNum
<1>9. \A i \in Window : At(i) \in Procs /\ At(i) # p
  BY <1>1 DEF QueueInv, RingInv, RingBounds, RingEntries,
         RingProducer, RingClearing, BeforePublish, InPublish, Publishing, Unapplied
<1>10. \A q \in Procs : pc[q] = "clear" =>
          /\ h < ptrs[q].tail + SyncConcurrency
          /\ At(ptrs[q].tail)' = At(ptrs[q].tail)
  <2> SUFFICES ASSUME NEW q \in Procs, pc[q] = "clear"
               PROVE /\ h < ptrs[q].tail + SyncConcurrency
                     /\ At(ptrs[q].tail)' = At(ptrs[q].tail)
    OBVIOUS
  <2>1. /\ ptrs[q].tail \in Nat
        /\ At(ptrs[q].tail) = cand[q] /\ cand[q] \in Procs
        /\ h <= ptrs[q].tail + SyncConcurrency
    BY DEF QueueTypeOK, QueueInv, RingInv, RingBounds, RingEntries,
         RingProducer, RingClearing, PublisherInv, Publishing
  <2>2. SlotOf(ptrs[q].tail) # SlotOf(h)
    BY <2>1, <1>1, PipelineAssumption DEF At
  <2>3. h # ptrs[q].tail + SyncConcurrency
    BY <2>1, <2>2, SlotOfLap
  <2>4. QED BY <2>1, <2>2, <2>3, <1>1, <1>4, PipelineAssumption
<1>11. RingInv'
  BY <1>1, <1>2, <1>3, <1>4, <1>5, <1>7, <1>9, <1>10 DEF QueueInv, RingInv, RingBounds, RingEntries,
         RingProducer, RingClearing
<1>12. CandidateInv'
  <2>1. headTail.tail < h => At(headTail.tail)' = At(headTail.tail)
    BY <1>1, <1>5 DEF Window
  <2>2. QED BY <1>1, <1>2, <1>3, <2>1 DEF QueueInv, CandidateInv, QueueTypeOK
<1>13. PublisherInv'
  BY <1>1, <1>2, <1>3, <1>6, <1>7, <1>8 DEF QueueInv, PublisherInv
<1>14. AppliedInv'
  BY <1>1, <1>2, <1>3, <1>6, <1>7 DEF QueueInv, AppliedInv
<1>15. SeqNumInv'
  BY <1>1, <1>2, <1>5, <1>7, <1>8, <1>9 DEF QueueInv, SeqNumInv
<1>16. PublishedInv'
  BY <1>1, <1>2, <1>3, <1>6, <1>7, <1>8 DEF QueueInv, PublishedInv, Unpublished
<1>17. \A q \in Procs : Unpublished(q)' <=> Unpublished(q)
  BY <1>1, <1>6, <1>7 DEF Unpublished
<1>18. QED
  BY <1>17, <1>11, <1>12, <1>13, <1>14, <1>15, <1>16 DEF QueueInv

\* Moving the head makes the stored batch the last one of the window.
LEMMA EnqueueAdvanceQueue ==
    ASSUME QueueTypeOK, MuInv, QueueInv, NEW p \in Procs, EnqueueAdvance(p)
    PROVE  /\ QueueInv'
           /\ Unpublished(p)' /\ \A q \in Procs : q # p => (Unpublished(q)' <=> Unpublished(q))
<1> DEFINE h == headTail.head
<1>0. headTail' = [headTail EXCEPT !.head = h + 1]
  BY DEF EnqueueAdvance
<1>1. /\ pc[p] = "advance" /\ pc' = [pc EXCEPT ![p] = "assign"]
      /\ UNCHANGED <<slots, ptrs, cand, cur, seqNum, count, applied, logSeqNum, visibleSeqNum>>
  BY DEF EnqueueAdvance, Goto, batchVars, localVars, seqVars
<1>2. /\ h \in Nat /\ headTail.tail \in Nat /\ headTail.tail <= h
      /\ h < headTail.tail + SyncConcurrency
      /\ At(h) = p
  BY <1>1 DEF QueueTypeOK, QueueInv, RingInv, RingBounds, RingEntries,
         RingProducer, RingClearing
<1>3. headTail'.head = h + 1 /\ headTail'.tail = headTail.tail
  BY <1>0 DEF QueueTypeOK
<1>4. \A q \in Procs : q # p => pc'[q] = pc[q] /\ pc[q] \notin {"advance", "assign"}
  BY <1>1 DEF QueueTypeOK, MuInv
<1>5. pc'[p] = "assign"
  BY <1>1 DEF QueueTypeOK
<1>6. /\ \A i : At(i)' = At(i)
      /\ \A q : EndSeqNum(q)' = EndSeqNum(q)
  BY <1>1 DEF At, EndSeqNum
<1>7. /\ Window' = Window \cup {h}
      /\ \A i \in Window : i \in Nat /\ i < h
  BY <1>2, <1>3 DEF Window
<1>8. \A i \in Window : At(i) \in Procs /\ At(i) # p
  BY <1>1 DEF QueueInv, RingInv, RingBounds, RingEntries,
         RingProducer, RingClearing, BeforePublish, InPublish, Publishing, Unapplied
<1>9. /\ InQueue(p)'
      /\ \A q \in Procs : q # p => (InQueue(q)' <=> InQueue(q))
  BY <1>2, <1>6, <1>7 DEF InQueue
<1>10. /\ \A q \in Procs :
            /\ Publishing(q)' <=> Publishing(q)
            /\ InPublish(q)' <=> InPublish(q)
            /\ q # p => (BeforePublish(q)' <=> BeforePublish(q))
       /\ ~Publishing(p) /\ ~InPublish(p) /\ BeforePublish(p)'
  BY <1>1, <1>4, <1>5 DEF Publishing, InPublish, BeforePublish, Unapplied
<1>11. RingInv'
  <2>0. \A q \in Procs : pc[q] = "clear" => /\ h < ptrs[q].tail + SyncConcurrency
                                            /\ ptrs[q].tail \in Nat
    BY <1>1 DEF QueueInv, RingInv, RingBounds, RingEntries,
         RingProducer, RingClearing, QueueTypeOK
  <2>1. \A q \in Procs : pc[q] = "clear" => h + 1 <= ptrs[q].tail + SyncConcurrency
    BY <1>2, <2>0, PipelineAssumption
  <2>2. RingBounds'
    BY <1>2, <1>3, PipelineAssumption DEF RingBounds
  <2>3. RingEntries'
    BY <1>2, <1>3, <1>4, <1>5, <1>6, <1>7, <1>8, <1>10 DEF QueueInv, RingInv, RingEntries
  <2>4. RingProducer'
    BY <1>4, <1>5 DEF RingProducer
  <2>5. RingClearing'
    BY <1>1, <1>3, <1>4, <1>5, <1>6, <2>1 DEF QueueInv, RingInv, RingClearing
  <2>6. QED
    BY <2>2, <2>3, <2>4, <2>5 DEF RingInv
<1>12. CandidateInv'
  BY <1>1, <1>2, <1>3, <1>4, <1>5, <1>6 DEF QueueInv, CandidateInv, QueueTypeOK
<1>13. PublisherInv'
  BY <1>1, <1>4, <1>5, <1>6, <1>9, <1>10 DEF QueueInv, PublisherInv
<1>14. AppliedInv'
  BY <1>1, <1>4, <1>5, <1>9, <1>10 DEF QueueInv, AppliedInv
<1>15. SeqNumInv'
  <2>1. \A i \in Window' : pc'[At(i)] # "assign" => i \in Window /\ pc[At(i)] # "assign"
    BY <1>2, <1>4, <1>5, <1>7, <1>8
  <2>2. \A i \in Window, j \in Window' : j < i => j \in Window
    BY <1>2, <1>7
  <2>3. QED BY <2>1, <2>2, <1>1, <1>6, <1>10 DEF QueueInv, SeqNumInv
<1>16. PublishedInv'
  BY <1>1, <1>4, <1>5, <1>6, <1>9, <1>10 DEF QueueInv, PublishedInv, Unpublished
<1>17. Unpublished(p)' /\ \A q \in Procs : q # p => (Unpublished(q)' <=> Unpublished(q))
  BY <1>1, <1>9, <1>10 DEF Unpublished
<1>18. QED
  BY <1>17, <1>11, <1>12, <1>13, <1>14, <1>15, <1>16 DEF QueueInv

\* The batch sequenced last starts where every other one ends.
LEMMA AssignSeqNumQueue ==
    ASSUME QueueTypeOK, MuInv, QueueInv, NEW p \in Procs, AssignSeqNum(p)
    PROVE  /\ QueueInv'
           /\ \A q \in Procs : Unpublished(q)' <=> Unpublished(q)
<1>1. /\ pc[p] = "assign"
      /\ \E t \in {"spin", "write"} : pc' = [pc EXCEPT ![p] = t]
      /\ \E k \in {0, 1} : /\ seqNum' = [seqNum EXCEPT ![p] = logSeqNum + k]
                           /\ logSeqNum' = logSeqNum + k + count[p]
      /\ \E c \in Nat : cur' = [cur EXCEPT ![p] = c]
      /\ UNCHANGED <<headTail, slots, ptrs, cand, count, applied, visibleSeqNum>>
  BY Zenon DEF AssignSeqNum, FirstSeqNum, SkippedZero, Goto, queueVars, QueueTypeOK
<1>2. \A q \in Procs : q # p => /\ pc'[q] = pc[q] /\ pc[q] # "assign"
                                 /\ seqNum'[q] = seqNum[q] /\ cur'[q] = cur[q]
  BY <1>1 DEF QueueTypeOK, MuInv
<1>3. pc'[p] \in {"spin", "write"}
  BY <1>1 DEF QueueTypeOK
<1>4. /\ seqNum'[p] \in Nat /\ logSeqNum' \in Nat /\ logSeqNum \in Nat
      /\ logSeqNum <= seqNum'[p] /\ logSeqNum' = seqNum'[p] + count[p]
      /\ count[p] \in Nat /\ logSeqNum <= logSeqNum'
  BY <1>1 DEF QueueTypeOK
<1>5. /\ \A i : At(i)' = At(i)
      /\ Window' = Window
      /\ \A q : InQueue(q)' <=> InQueue(q)
  BY <1>1 DEF At, Window, InQueue
<1>6. /\ \A q \in Procs : q # p => EndSeqNum(q)' = EndSeqNum(q) /\ EndSeqNum(q) \in Nat
      /\ EndSeqNum(p)' = logSeqNum'
  <2>1. \A q \in Procs : count[q] \in Nat /\ seqNum[q] \in Nat
    BY DEF QueueTypeOK
  <2>2. UNCHANGED count
    BY <1>1
  <2>3. \A q \in Procs : q # p => EndSeqNum(q)' = EndSeqNum(q) /\ EndSeqNum(q) \in Nat
    BY <1>2, <2>1, <2>2 DEF EndSeqNum
  <2>4. QED BY <1>4, <2>2, <2>3 DEF EndSeqNum
<1>7. \A q \in Procs : /\ Publishing(q)' <=> Publishing(q)
                       /\ InPublish(q)' <=> InPublish(q)
                       /\ BeforePublish(q)' <=> BeforePublish(q)
  BY <1>1, <1>2, <1>3 DEF Publishing, InPublish, BeforePublish, Unapplied
<1>8. ~Publishing(p) /\ ~InPublish(p) /\ BeforePublish(p)
  BY <1>1 DEF Publishing, InPublish, BeforePublish, Unapplied
<1>9. \A q \in Procs : Publishing(q) => cand[q] \in Procs /\ cand[q] # p /\ q # p
  BY <1>8 DEF QueueInv, PublisherInv
<1>10. \A i \in Window : /\ At(i) \in Procs /\ i \in Int /\ i <= headTail.head - 1
                         /\ At(i) = p => i = headTail.head - 1
  BY <1>1 DEF QueueInv, RingInv, RingBounds, RingEntries,
         RingProducer, RingClearing, Window, QueueTypeOK
<1>11. RingInv'
  <2>1. UNCHANGED <<headTail, slots, ptrs, cand>>
    BY <1>1
  <2>2. \A q \in Procs : \A s \in {"advance", "assign", "clear"} : (pc'[q] = s => pc[q] = s)
    BY <1>2, <1>3
  <2>3. QED BY <1>7, <2>1, <2>2, RingFrame DEF QueueInv
<1>12. CandidateInv'
  BY <1>1, <1>2, <1>3, <1>5 DEF QueueInv, CandidateInv
<1>13. PublisherInv'
  <2>1. UNCHANGED <<cand, visibleSeqNum>>
    BY <1>1
  <2>2. \A q \in Procs : Publishing(q) =>
          /\ pc'[q] = pc[q] /\ cur'[q] = cur[q]
          /\ EndSeqNum(cand[q])' = EndSeqNum(cand[q])
    BY <2>1, <1>2, <1>6, <1>9
  <2>3. QED BY <2>1, <2>2, <1>5, <1>7, <1>9, Zenon DEF QueueInv, PublisherInv
<1>14. AppliedInv'
  BY <1>1, <1>2, <1>3, <1>5, <1>7 DEF QueueInv, AppliedInv
<1>15. SeqNumInv'
  <2>1. visibleSeqNum' <= logSeqNum' /\ visibleSeqNum <= logSeqNum
    BY <1>1, <1>4 DEF QueueInv, SeqNumInv, QueueTypeOK
  <2>2. ASSUME NEW q \in Procs, Publishing(q)
        PROVE  EndSeqNum(cand[q])' = EndSeqNum(cand[q]) /\ EndSeqNum(cand[q]) <= logSeqNum
                /\ EndSeqNum(cand[q]) \in Nat /\ cand'[q] = cand[q]
    BY <2>2, <1>1, <1>6, <1>9 DEF QueueInv, SeqNumInv, EndSeqNum
  <2>3. ASSUME NEW i \in Window, At(i) # p
        PROVE  /\ pc[At(i)] # "assign"
               /\ EndSeqNum(At(i))' = EndSeqNum(At(i)) /\ EndSeqNum(At(i)) <= logSeqNum
               /\ EndSeqNum(At(i)) \in Nat
               /\ seqNum'[At(i)] = seqNum[At(i)]
    BY <2>3, <1>2, <1>5, <1>6, <1>10 DEF QueueInv, SeqNumInv, EndSeqNum
  <2>4. ASSUME NEW i \in Window, At(i) # p
        PROVE  /\ visibleSeqNum' <= seqNum'[At(i)]
               /\ EndSeqNum(At(i))' <= logSeqNum'
               /\ \A j \in Window : j < i => EndSeqNum(At(j))' <= seqNum'[At(i)]
               /\ \A q \in Procs : Publishing(q) => EndSeqNum(cand[q])' <= seqNum'[At(i)]
    <3>1. \A j \in Window : j < i => At(j) # p
      BY <1>10 DEF Window
    <3>2. QED BY <2>4, <3>1, <2>2, <2>3, <1>1, <1>4 DEF QueueInv, SeqNumInv
  <2>5. ASSUME NEW i \in Window, At(i) = p
        PROVE  /\ visibleSeqNum' <= seqNum'[p]
               /\ EndSeqNum(p)' <= logSeqNum'
               /\ \A j \in Window : j < i => EndSeqNum(At(j))' <= seqNum'[p]
               /\ \A q \in Procs : Publishing(q) => EndSeqNum(cand[q])' <= seqNum'[p]
    <3>1. \A j \in Window : j < i => At(j) # p
      BY <2>5, <1>10
    <3>2. seqNum'[p] \in Nat /\ logSeqNum \in Nat /\ logSeqNum <= seqNum'[p]
      BY <1>1 DEF QueueTypeOK
    <3>3. EndSeqNum(p)' <= logSeqNum'
      BY <1>1 DEF QueueTypeOK, EndSeqNum
    <3>4. visibleSeqNum' <= seqNum'[p]
      BY <2>1, <3>2, <1>1 DEF QueueTypeOK
    <3>5. \A j \in Window : j < i => EndSeqNum(At(j))' <= seqNum'[p]
      BY <2>3, <3>1, <3>2
    <3>6. \A q \in Procs : Publishing(q) => EndSeqNum(cand[q])' <= seqNum'[p]
      BY <2>2, <3>2
    <3>7. QED BY <3>3, <3>4, <3>5, <3>6
  <2>6. \A q \in Procs : Publishing(q) => EndSeqNum(cand[q])' <= logSeqNum'
    BY <2>2, <1>4
  <2>7. QED
    BY <2>1, <2>2, <2>4, <2>5, <2>6, <1>1, <1>5, <1>7 DEF SeqNumInv, EndSeqNum
<1>16. PublishedInv'
  BY <1>1, <1>2, <1>3, <1>5, <1>6, <1>7, <1>8 DEF QueueInv, PublishedInv, Unpublished
<1>17. \A q \in Procs : Unpublished(q)' <=> Unpublished(q)
  BY <1>1, <1>5, <1>7 DEF Unpublished
<1>18. QED
  BY <1>17, <1>11, <1>12, <1>13, <1>14, <1>15, <1>16 DEF QueueInv

\* Setting Batch.applied moves the batch to its publish stage.
LEMMA MarkAppliedQueue ==
    ASSUME QueueTypeOK, QueueInv, NEW p \in Procs, MarkApplied(p)
    PROVE  /\ QueueInv'
           /\ \A q \in Procs : Unpublished(q)' <=> Unpublished(q)
<1>1. /\ pc[p] = "publish" /\ pc' = [pc EXCEPT ![p] = "load"]
      /\ applied' = [applied EXCEPT ![p] = TRUE]
      /\ UNCHANGED <<headTail, slots, ptrs, cand, cur, seqNum, count, logSeqNum, visibleSeqNum>>
  BY DEF MarkApplied, Goto, queueVars, localVars, seqVars
<1>2. /\ \A q \in Procs : q # p => pc'[q] = pc[q] /\ applied'[q] = applied[q]
      /\ pc'[p] = "load" /\ applied'[p] = TRUE
  BY <1>1 DEF QueueTypeOK
<1>3. /\ \A i : At(i)' = At(i)
      /\ Window' = Window
      /\ \A q : InQueue(q)' <=> InQueue(q)
      /\ \A q : EndSeqNum(q)' = EndSeqNum(q)
  BY <1>1 DEF At, Window, InQueue, EndSeqNum
<1>4. /\ \A q \in Procs :
            /\ Publishing(q)' <=> Publishing(q)
            /\ q # p => (InPublish(q)' <=> InPublish(q))
            /\ q # p => (BeforePublish(q)' <=> BeforePublish(q))
      /\ ~Publishing(p) /\ BeforePublish(p)
      /\ InPublish(p)' /\ ~BeforePublish(p)'
  BY <1>1, <1>2 DEF Publishing, InPublish, BeforePublish, Unapplied
<1>5. InQueue(p)
  BY <1>4 DEF QueueInv, AppliedInv
<1>6. \A i \in Window : At(i) \in Procs
  BY DEF QueueInv, RingInv, RingEntries
<1>7. RingInv'
  <2>1. UNCHANGED <<headTail, slots, ptrs, cand>>
    BY <1>1
  <2>2. \A q \in Procs : \A s \in {"advance", "assign", "clear"} : (pc'[q] = s => pc[q] = s)
    BY <1>2
  <2>3. QED BY <1>4, <2>1, <2>2, RingFrame DEF QueueInv
<1>8. CandidateInv'
  BY <1>1, <1>2, <1>3 DEF QueueInv, CandidateInv
<1>9. PublisherInv'
  BY <1>1, <1>2, <1>3, <1>4 DEF QueueInv, PublisherInv
<1>10. AppliedInv'
  BY <1>1, <1>2, <1>3, <1>4 DEF QueueInv, AppliedInv
<1>11. SeqNumInv'
  BY <1>1, <1>2, <1>3, <1>4, <1>6 DEF QueueInv, SeqNumInv
<1>12. PublishedInv'
  BY <1>1, <1>2, <1>3, <1>4, <1>5 DEF QueueInv, PublishedInv, Unpublished
<1>13. \A q \in Procs : Unpublished(q)' <=> Unpublished(q)
  BY <1>1, <1>3, <1>4 DEF Unpublished
<1>14. QED
  BY <1>13, <1>7, <1>8, <1>9, <1>10, <1>11, <1>12 DEF QueueInv
=============================================================================
