------------------------ MODULE CommitDequeueProofs -------------------------
(***************************************************************************)
(* The consumers' side of the commitQueue: a batch leaves the window only  *)
(* through the one compare-and-swap that sees it applied at the tail, and  *)
(* its publisher ratchets visibleSeqNum past it before it ends the wait.   *)
(***************************************************************************)
EXTENDS CommitQueueProofs

\* The loads of dequeueApplied leave the reader with a candidate that is the tail
\* of the queue if headTail did not move.
LEMMA DequeueReadQueue ==
    ASSUME QueueTypeOK, QueueInv, NEW p \in Procs,
           DequeueLoad(p) \/ DequeueSlot(p) \/ DequeueCheck(p)
    PROVE  /\ QueueInv'
           /\ \A q \in Procs : Unpublished(q)' <=> Unpublished(q)
<1>1. /\ pc[p] \in {"load", "slot", "check"}
      /\ \E t \in {"slot", "check", "cas", "wait"} : pc' = [pc EXCEPT ![p] = t]
      /\ \A q \in Procs : q # p => ptrs'[q] = ptrs[q] /\ cand'[q] = cand[q]
      /\ UNCHANGED <<headTail, slots, cur, applied, seqNum, count, logSeqNum, visibleSeqNum>>
  <2>1. CASE DequeueLoad(p)
    BY <2>1, Zenon DEF DequeueLoad, Goto, queueVars, batchVars, seqVars, QueueTypeOK
  <2>2. CASE DequeueSlot(p)
    BY <2>2, SlotOfType, Zenon DEF DequeueSlot, Goto, queueVars, batchVars, seqVars, QueueTypeOK
  <2>3. CASE DequeueCheck(p)
    BY <2>3, Zenon DEF DequeueCheck, Ready, Goto, queueVars, localVars, batchVars, seqVars, QueueTypeOK
  <2>4. QED BY <2>1, <2>2, <2>3
<1>2. /\ \A q \in Procs : q # p => pc'[q] = pc[q] /\ ptrs'[q] = ptrs[q] /\ cand'[q] = cand[q]
      /\ pc'[p] \in {"slot", "check", "cas", "wait"}
  BY <1>1 DEF QueueTypeOK
<1>3. /\ \A i : At(i)' = At(i)
      /\ Window' = Window
      /\ \A q : InQueue(q)' <=> InQueue(q)
      /\ \A q : EndSeqNum(q)' = EndSeqNum(q)
  BY <1>1 DEF At, Window, InQueue, EndSeqNum
<1>4. /\ \A q \in Procs :
            /\ Publishing(q)' <=> Publishing(q)
            /\ InPublish(q)' <=> InPublish(q)
            /\ BeforePublish(q)' <=> BeforePublish(q)
      /\ ~Publishing(p)
  BY <1>1, <1>2 DEF Publishing, InPublish, BeforePublish, Unapplied
<1>5. \A i \in Window : At(i) \in Procs
  BY DEF QueueInv, RingInv, RingEntries
<1>6. RingInv'
  BY <1>1, <1>2, <1>3, <1>4, RingFrame DEF QueueInv
<1>7. CandidateInv'
  <2>1. \A q \in Procs : q # p =>
          /\ pc'[q] \in {"slot", "check", "cas"} =>
                /\ ptrs'[q].tail < ptrs'[q].head
                /\ ptrs'[q].tail <= headTail'.tail
                /\ ptrs'[q].head <= headTail'.head
          /\ pc'[q] \in {"check", "cas"} =>
                /\ cand'[q] \in Procs
                /\ ptrs'[q].tail = headTail'.tail => cand'[q] = At(headTail.tail)'
          /\ pc'[q] = "cas" /\ ptrs'[q].tail = headTail'.tail => applied'[cand'[q]]
    BY <1>1, <1>2, <1>3 DEF QueueInv, CandidateInv
  <2>2. /\ pc'[p] \in {"slot", "check", "cas"} =>
              /\ ptrs'[p].tail < ptrs'[p].head
              /\ ptrs'[p].tail <= headTail'.tail
              /\ ptrs'[p].head <= headTail'.head
        /\ pc'[p] \in {"check", "cas"} =>
              /\ cand'[p] \in Procs
              /\ ptrs'[p].tail = headTail'.tail => cand'[p] = At(headTail.tail)'
        /\ pc'[p] = "cas" /\ ptrs'[p].tail = headTail'.tail => applied'[cand'[p]]
    <3>1. CASE DequeueLoad(p)
      <4>1. /\ ptrs'[p] = headTail /\ UNCHANGED headTail
            /\ pc'[p] \in {"slot", "wait"}
            /\ pc'[p] = "slot" => headTail.head # headTail.tail
        BY <3>1 DEF DequeueLoad, Goto, queueVars, QueueTypeOK
      <4>2. /\ headTail.tail \in Nat /\ headTail.head \in Nat
            /\ headTail.tail <= headTail.head
        BY DEF QueueTypeOK, QueueInv, RingInv, RingBounds
      <4>3. QED BY <4>1, <4>2
    <3>2. CASE DequeueSlot(p)
      <4>1. /\ pc[p] = "slot" /\ UNCHANGED <<headTail, ptrs, slots>>
            /\ pc'[p] \in {"check", "wait"}
            /\ cand'[p] = At(ptrs[p].tail)
            /\ pc'[p] = "check" => cand'[p] # NoBatch
        BY <3>2 DEF DequeueSlot, Goto, queueVars, QueueTypeOK, At
      <4>2. cand'[p] \in Procs \cup {NoBatch}
        BY <4>1, SlotOfType DEF QueueTypeOK, At
      <4>3. QED BY <4>1, <4>2, <1>3 DEF QueueInv, CandidateInv
    <3>3. CASE DequeueCheck(p)
      <4>1. /\ pc[p] = "check" /\ UNCHANGED <<headTail, ptrs, cand, applied>>
            /\ pc'[p] \in {"cas", "wait"}
            /\ pc'[p] = "cas" => applied[cand[p]]
        BY <3>3 DEF DequeueCheck, Ready, Goto, queueVars, localVars, batchVars, QueueTypeOK
      <4>2. QED BY <4>1, <1>3 DEF QueueInv, CandidateInv
    <3>4. QED BY <3>1, <3>2, <3>3
  <2>3. QED BY <2>1, <2>2 DEF CandidateInv
<1>8. PublisherInv'
  BY <1>1, <1>2, <1>3, <1>4 DEF QueueInv, PublisherInv
<1>9. AppliedInv'
  BY <1>1, <1>2, <1>3, <1>4 DEF QueueInv, AppliedInv
<1>10. SeqNumInv'
  BY <1>1, <1>2, <1>3, <1>4, <1>5 DEF QueueInv, SeqNumInv
<1>11. PublishedInv'
  BY <1>1, <1>2, <1>3, <1>4 DEF QueueInv, PublishedInv, Unpublished
<1>12. \A q \in Procs : Unpublished(q)' <=> Unpublished(q)
  BY <1>1, <1>2, <1>3, <1>4 DEF Unpublished
<1>13. QED
  BY <1>12, <1>6, <1>7, <1>8, <1>9, <1>10, <1>11 DEF QueueInv

\* Clearing the slot of a dequeued batch touches no position in the window.
LEMMA DequeueClearQueue ==
    ASSUME QueueTypeOK, QueueInv, NEW p \in Procs, DequeueClear(p)
    PROVE  /\ QueueInv'
           /\ \A q \in Procs : Unpublished(q)' <=> Unpublished(q)
<1> DEFINE t == ptrs[p].tail
<1>1. /\ pc[p] = "clear" /\ pc' = [pc EXCEPT ![p] = "ratchet"]
      /\ slots' = [slots EXCEPT ![SlotOf(t)] = NoBatch]
      /\ ptrs' = [ptrs EXCEPT ![p] = NoPtrs]
      /\ UNCHANGED <<headTail, cand, cur, seqNum, count, applied, logSeqNum, visibleSeqNum>>
  BY DEF DequeueClear, Goto, batchVars, seqVars
<1>2. /\ \A q \in Procs : q # p => pc'[q] = pc[q] /\ ptrs'[q] = ptrs[q]
      /\ pc'[p] = "ratchet"
  BY <1>1 DEF QueueTypeOK
<1>3. /\ t \in Nat /\ headTail.tail \in Nat /\ headTail.head \in Nat
      /\ headTail.tail <= headTail.head
      /\ t < headTail.tail /\ headTail.head <= t + SyncConcurrency
  BY <1>1 DEF QueueTypeOK, QueueInv, RingInv, RingBounds, RingClearing
<1>4. \A i \in Nat : SlotOf(i) # SlotOf(t) => At(i)' = At(i)
  BY <1>1, <1>3, SlotOfType DEF QueueTypeOK, At
<1>5. /\ Window' = Window
      /\ \A i \in Window : At(i)' = At(i)
  <2>1. Window' = Window BY <1>1 DEF Window
  <2>2. ASSUME NEW i \in Window PROVE i \in Nat /\ t < i /\ i < t + SyncConcurrency
    BY <1>3, PipelineAssumption DEF Window
  <2>3. QED BY <2>1, <2>2, <1>3, <1>4, SlotOfInjective
<1>6. \A q \in Procs : InQueue(q)' <=> InQueue(q)
  BY <1>5 DEF InQueue
<1>7. /\ \A q : EndSeqNum(q)' = EndSeqNum(q)
      /\ \A i \in Window : At(i) \in Procs
  BY <1>1 DEF EndSeqNum, QueueInv, RingInv, RingEntries
<1>8. \A q \in Procs :
        /\ Publishing(q)' <=> Publishing(q)
        /\ InPublish(q)' <=> InPublish(q)
        /\ BeforePublish(q)' <=> BeforePublish(q)
  BY <1>1, <1>2 DEF Publishing, InPublish, BeforePublish, Unapplied
<1>9. RingInv'
  <2>1. RingBounds'
    BY <1>1 DEF QueueInv, RingInv, RingBounds
  <2>2. RingEntries'
    BY <1>1, <1>2, <1>5, <1>7, <1>8 DEF QueueInv, RingInv, RingEntries
  <2>3. RingProducer'
    <3>1. ASSUME NEW q \in Procs, pc'[q] = "advance"
          PROVE  At(headTail.head)' = At(headTail.head)
      <4>1. headTail.head < t + SyncConcurrency /\ t < headTail.head
        BY <3>1, <1>1, <1>2, <1>3 DEF QueueInv, RingInv, RingProducer
      <4>2. QED BY <4>1, <1>1, <1>3, <1>4, SlotOfInjective
    <3>2. QED BY <1>1, <1>2, <3>1 DEF QueueInv, RingInv, RingProducer
  <2>4. RingClearing'
    <3>1. ASSUME NEW q \in Procs, q # p, pc[q] = "clear"
          PROVE  At(ptrs[q].tail)' = At(ptrs[q].tail)
      <4>1. /\ ptrs[q].tail \in Nat /\ ptrs[q].tail < headTail.tail
            /\ headTail.head <= ptrs[q].tail + SyncConcurrency
            /\ ptrs[q].tail # t
        BY <3>1, <1>1 DEF QueueTypeOK, QueueInv, RingInv, RingClearing
      <4>2. \/ t < ptrs[q].tail /\ ptrs[q].tail < t + SyncConcurrency
            \/ ptrs[q].tail < t /\ t < ptrs[q].tail + SyncConcurrency
        BY <4>1, <1>3, PipelineAssumption
      <4>3. QED BY <3>1, <4>1, <4>2, <1>2, <1>3, <1>4, SlotOfInjective
    <3>2. QED BY <1>1, <1>2, <3>1 DEF QueueInv, RingInv, RingClearing
  <2>5. QED BY <2>1, <2>2, <2>3, <2>4 DEF RingInv
<1>10. CandidateInv'
  <2>1. headTail.tail < headTail.head => At(headTail.tail)' = At(headTail.tail)
    BY <1>1, <1>3, <1>5 DEF Window
  <2>2. QED BY <1>1, <1>2, <2>1 DEF QueueInv, CandidateInv, QueueTypeOK
<1>11. PublisherInv'
  BY <1>1, <1>2, <1>6, <1>7, <1>8 DEF QueueInv, PublisherInv
<1>12. AppliedInv'
  BY <1>1, <1>2, <1>6, <1>8 DEF QueueInv, AppliedInv
<1>13. SeqNumInv'
  BY <1>1, <1>2, <1>5, <1>7, <1>8 DEF QueueInv, SeqNumInv
<1>14. PublishedInv'
  BY <1>1, <1>2, <1>6, <1>7, <1>8 DEF QueueInv, PublishedInv, Unpublished
<1>15. \A q \in Procs : Unpublished(q)' <=> Unpublished(q)
  BY <1>1, <1>6, <1>8 DEF Unpublished
<1>16. QED
  BY <1>15, <1>9, <1>10, <1>11, <1>12, <1>13, <1>14 DEF QueueInv

\* A successful compare-and-swap hands the applied batch at the tail to one publisher.
LEMMA DequeueCASQueue ==
    ASSUME QueueTypeOK, QueueInv, NEW p \in Procs, DequeueCAS(p), headTail = ptrs[p]
    PROVE  /\ QueueInv'
           /\ \A q \in Procs : Unpublished(q)' <=> Unpublished(q)
<1> DEFINE t == headTail.tail
           b == cand[p]
<1>1. /\ pc[p] = "cas" /\ pc' = [pc EXCEPT ![p] = "clear"]
      /\ UNCHANGED <<slots, ptrs, cand, cur, seqNum, count, applied, logSeqNum, visibleSeqNum>>
  BY DEF DequeueCAS, Goto, batchVars, localVars, seqVars
<1>2. /\ headTail'.tail = t + 1 /\ headTail'.head = headTail.head
      /\ t \in Nat /\ headTail.head \in Nat /\ headTail.head <= t + SyncConcurrency
      /\ ptrs[p].tail = t
  BY DEF DequeueCAS, QueueTypeOK, QueueInv, RingInv, RingBounds
<1>3. /\ \A q \in Procs : q # p => pc'[q] = pc[q]
      /\ pc'[p] = "clear"
  BY <1>1 DEF QueueTypeOK
<1>4. t < headTail.head /\ b \in Procs /\ At(t) = b /\ applied[b]
  BY <1>1, <1>2 DEF QueueInv, CandidateInv
<1>5. /\ \A i : At(i)' = At(i)
      /\ \A q : EndSeqNum(q)' = EndSeqNum(q)
      /\ Window' = Window \ {t} /\ t \in Window
      /\ \A i \in Window : i \in Nat /\ t <= i
  BY <1>1, <1>2, <1>4 DEF At, EndSeqNum, Window
<1>6. /\ \A i \in Window : At(i) \in Procs
      /\ \A q \in Procs : InQueue(q)' <=> InQueue(q) /\ q # b
      /\ InQueue(b)
  BY <1>4, <1>5 DEF QueueInv, RingInv, RingEntries, InQueue
<1>7. /\ \A q \in Procs :
            /\ q # p => (Publishing(q)' <=> Publishing(q))
            /\ InPublish(q)' <=> InPublish(q)
            /\ BeforePublish(q)' <=> BeforePublish(q)
      /\ Publishing(p)' /\ ~Publishing(p)
  BY <1>1, <1>3 DEF Publishing, InPublish, BeforePublish, Unapplied
<1>8. InPublish(b) /\ ~BeforePublish(b) /\ pc[b] # "assign"
  <2>1. BeforePublish(b) \/ InPublish(b)
    BY <1>4, <1>5 DEF QueueInv, RingInv, RingEntries
  <2>2. InPublish(b) \/ pc[b] \in {"syncWait", "acked", "syncFailed"}
    BY <1>4 DEF QueueInv, AppliedInv
  <2>3. QED BY <2>1, <2>2 DEF BeforePublish, InPublish, Publishing, Unapplied
<1>9. \A q \in Procs : Publishing(q) => cand[q] \in Procs /\ cand[q] # b
  BY <1>6 DEF QueueInv, PublisherInv
<1>10. RingInv'
  <2>1. RingBounds'
    BY <1>2, <1>4, PipelineAssumption DEF RingBounds
  <2>2. RingEntries'
    BY <1>1, <1>2, <1>3, <1>5, <1>7 DEF QueueInv, RingInv, RingEntries
  <2>3. RingProducer'
    <3>1. ASSUME NEW q \in Procs, pc'[q] = "advance"
          PROVE  /\ headTail.head < t + 1 + SyncConcurrency
                 /\ headTail.head < t + SyncConcurrency
                 /\ At(headTail.head) = q
                 /\ \A r \in Procs : r # p /\ pc[r] = "clear"
                        => headTail.head < ptrs[r].tail + SyncConcurrency
      BY <3>1, <1>2, <1>3, PipelineAssumption DEF QueueInv, RingInv, RingProducer
    <3>2. QED BY <3>1, <1>1, <1>2, <1>3, <1>5 DEF RingProducer
  <2>4. RingClearing'
    <3>1. \A q \in Procs : q # p /\ pc[q] = "clear" =>
            /\ ptrs[q].tail < t /\ ptrs[q].tail \in Nat
            /\ headTail.head <= ptrs[q].tail + SyncConcurrency
            /\ At(ptrs[q].tail) = cand[q]
      BY DEF QueueTypeOK, QueueInv, RingInv, RingClearing
    <3>2. \A q, r \in Procs :
            pc[q] = "clear" /\ pc[r] = "clear" /\ ptrs[q].tail = ptrs[r].tail => q = r
      BY DEF QueueInv, RingInv, RingClearing
    <3>3. QED BY <3>1, <3>2, <1>1, <1>2, <1>3, <1>4, <1>5 DEF RingClearing
  <2>5. QED BY <2>1, <2>2, <2>3, <2>4 DEF RingInv
<1>11. CandidateInv'
  BY <1>1, <1>2, <1>3, <1>5 DEF QueueInv, CandidateInv, QueueTypeOK
<1>12. PublisherInv'
  BY <1>1, <1>3, <1>4, <1>5, <1>6, <1>7, <1>8, <1>9 DEF QueueInv, PublisherInv
<1>13. AppliedInv'
  BY <1>1, <1>3, <1>6, <1>7, <1>8 DEF QueueInv, AppliedInv
<1>14. SeqNumInv'
  <2>1. EndSeqNum(b) <= logSeqNum
    BY <1>4, <1>5, <1>8 DEF QueueInv, SeqNumInv
  <2>2. \A i \in Window : i # t /\ pc[At(i)] # "assign" => EndSeqNum(b) <= seqNum[At(i)]
    BY <1>2, <1>4, <1>5 DEF QueueInv, SeqNumInv
  <2>3. QED
    BY <2>1, <2>2, <1>1, <1>3, <1>5, <1>6, <1>7, Zenon DEF QueueInv, SeqNumInv
<1>15. PublishedInv'
  BY <1>1, <1>3, <1>5, <1>6, <1>7 DEF QueueInv, PublishedInv, Unpublished
<1>16. \A q \in Procs : Unpublished(q)' <=> Unpublished(q)
  BY <1>1, <1>6, <1>7 DEF Unpublished
<1>17. QED
  BY <1>16, <1>10, <1>11, <1>12, <1>13, <1>14, <1>15 DEF QueueInv

\* A failed compare-and-swap changes nothing but the stage of the reader.
LEMMA DequeueCASFailsQueue ==
    ASSUME QueueTypeOK, QueueInv, NEW p \in Procs, DequeueCAS(p), headTail # ptrs[p]
    PROVE  /\ QueueInv'
           /\ \A q \in Procs : Unpublished(q)' <=> Unpublished(q)
<1>1. /\ pc[p] = "cas" /\ pc' = [pc EXCEPT ![p] = "load"]
      /\ UNCHANGED <<headTail, slots, ptrs, cand, cur, seqNum, count, applied, logSeqNum, visibleSeqNum>>
  BY DEF DequeueCAS, Goto, batchVars, localVars, seqVars
<1>2. /\ \A q \in Procs : q # p => pc'[q] = pc[q]
      /\ pc'[p] = "load"
  BY <1>1 DEF QueueTypeOK
<1>3. /\ \A q : EndSeqNum(q)' = EndSeqNum(q)
      /\ \A i : At(i)' = At(i)
      /\ Window' = Window
      /\ \A q : InQueue(q)' <=> InQueue(q)
  BY <1>1 DEF At, Window, InQueue, EndSeqNum
<1>4. \A q \in Procs :
        /\ Publishing(q)' <=> Publishing(q)
        /\ InPublish(q)' <=> InPublish(q)
        /\ BeforePublish(q)' <=> BeforePublish(q)
  BY <1>1, <1>2 DEF Publishing, InPublish, BeforePublish, Unapplied
<1>5. \A i \in Window : At(i) \in Procs
  BY DEF QueueInv, RingInv, RingEntries
<1>6. RingInv'
  BY <1>1, <1>2, <1>3, <1>4, RingFrame DEF QueueInv
<1>7. CandidateInv'
  BY <1>1, <1>2, <1>3 DEF QueueInv, CandidateInv
<1>8. PublisherInv'
  BY <1>1, <1>2, <1>3, <1>4 DEF QueueInv, PublisherInv, Publishing
<1>9. AppliedInv'
  BY <1>1, <1>2, <1>3, <1>4, Zenon DEF QueueInv, AppliedInv
<1>10. SeqNumInv'
  BY <1>1, <1>2, <1>3, <1>4, <1>5 DEF QueueInv, SeqNumInv
<1>11. PublishedInv'
  BY <1>1, <1>2, <1>3, <1>4 DEF QueueInv, PublishedInv, Unpublished
<1>12. \A q \in Procs : Unpublished(q)' <=> Unpublished(q)
  BY <1>1, <1>3, <1>4 DEF Unpublished
<1>13. QED
  BY <1>12, <1>6, <1>7, <1>8, <1>9, <1>10, <1>11 DEF QueueInv

\* publish's load and compare-and-swap of visibleSeqNum: it grows, and never beyond a
\* batch that is still in the queue.
LEMMA RatchetQueue ==
    ASSUME QueueTypeOK, QueueInv, NEW p \in Procs, RatchetLoad(p) \/ RatchetCAS(p)
    PROVE  /\ QueueInv'
           /\ \A q \in Procs : Unpublished(q)' <=> Unpublished(q)
           /\ visibleSeqNum' \in Nat /\ visibleSeqNum' >= visibleSeqNum
<1> DEFINE b == cand[p]
<1>1. /\ pc[p] \in {"ratchet", "ratchetCAS"}
      /\ \E t \in {"done", "ratchet", "ratchetCAS"} : pc' = [pc EXCEPT ![p] = t]
      /\ \A q \in Procs : q # p => cur'[q] = cur[q]
      /\ UNCHANGED <<headTail, slots, ptrs, cand, seqNum, count, applied, logSeqNum>>
  <2>1. CASE RatchetLoad(p)
    BY <2>1, Zenon DEF RatchetLoad, Goto, batchVars, queueVars, seqVars, QueueTypeOK
  <2>2. CASE RatchetCAS(p)
    BY <2>2 DEF RatchetCAS, VisibleNotMoved, Goto, batchVars, queueVars, localVars, QueueTypeOK
  <2>3. QED BY <2>1, <2>2
<1>2. /\ \A q \in Procs : q # p => pc'[q] = pc[q]
      /\ pc'[p] \in {"done", "ratchet", "ratchetCAS"}
  BY <1>1 DEF QueueTypeOK
<1>3. /\ \A q : EndSeqNum(q)' = EndSeqNum(q)
      /\ \A i : At(i)' = At(i)
      /\ Window' = Window
      /\ \A q : InQueue(q)' <=> InQueue(q)
  BY <1>1 DEF At, Window, InQueue, EndSeqNum
<1>4. /\ \A q \in Procs :
            /\ Publishing(q)' <=> Publishing(q)
            /\ InPublish(q)' <=> InPublish(q)
            /\ BeforePublish(q)' <=> BeforePublish(q)
      /\ Publishing(p)
  BY <1>1, <1>2 DEF Publishing, InPublish, BeforePublish, Unapplied
<1>5. /\ \A i \in Window : At(i) \in Procs
      /\ b \in Procs /\ EndSeqNum(b) \in Nat /\ EndSeqNum(b) <= logSeqNum
      /\ \A i \in Window : pc[At(i)] # "assign" => EndSeqNum(b) <= seqNum[At(i)]
      /\ \A q \in Procs : EndSeqNum(q) \in Nat /\ seqNum[q] \in Nat
      /\ logSeqNum \in Nat /\ visibleSeqNum \in Nat
  <2>1. /\ \A q \in Procs : EndSeqNum(q) \in Nat /\ seqNum[q] \in Nat
        /\ logSeqNum \in Nat /\ visibleSeqNum \in Nat
    BY DEF EndSeqNum, QueueTypeOK
  <2>2. \A i \in Window : At(i) \in Procs
    BY DEF QueueInv, RingInv, RingEntries
  <2>3. b \in Procs
    BY <1>4 DEF QueueInv, PublisherInv
  <2>4. QED BY <2>1, <2>2, <2>3, <1>4 DEF QueueInv, SeqNumInv
<1>6. /\ \/ visibleSeqNum' = visibleSeqNum
         \/ visibleSeqNum' = EndSeqNum(b)
      /\ visibleSeqNum' >= visibleSeqNum /\ visibleSeqNum' \in Nat
      /\ pc'[p] = "done" => EndSeqNum(b) <= visibleSeqNum'
      /\ pc'[p] = "ratchetCAS" => cur'[p] < EndSeqNum(b)
  <2>1. CASE RatchetLoad(p)
    BY <2>1, <1>5 DEF RatchetLoad, Goto, seqVars, QueueTypeOK
  <2>2. CASE RatchetCAS(p)
    <3>1. cur[p] < EndSeqNum(b) /\ cur[p] \in Nat
      BY <2>2, <1>4 DEF RatchetCAS, VisibleNotMoved, Goto, QueueInv, PublisherInv, QueueTypeOK
    <3>2. QED BY <2>2, <3>1, <1>5 DEF RatchetCAS, VisibleNotMoved, Goto, localVars, QueueTypeOK
  <2>3. QED BY <2>1, <2>2
<1>7. RingInv'
  BY <1>1, <1>2, <1>3, <1>4, RingFrame DEF QueueInv
<1>8. CandidateInv'
  BY <1>1, <1>2, <1>3 DEF QueueInv, CandidateInv
<1>9. PublisherInv'
  <2>1. \A q \in Procs : Publishing(q) => EndSeqNum(cand[q]) \in Nat
    BY <1>5 DEF QueueInv, PublisherInv
  <2>2. \A q \in Procs : Publishing(q) =>
          /\ cand[q] \in Procs /\ InPublish(cand[q]) /\ ~InQueue(cand[q])
          /\ pc'[q] = "done" => EndSeqNum(cand[q]) <= visibleSeqNum'
          /\ pc'[q] = "ratchetCAS" => cur'[q] < EndSeqNum(cand[q])
    <3>1. \A q \in Procs : Publishing(q) /\ pc[q] = "done" => EndSeqNum(cand[q]) <= visibleSeqNum'
      <4>1. \A q \in Procs : Publishing(q) /\ pc[q] = "done" => EndSeqNum(cand[q]) <= visibleSeqNum
        BY DEF QueueInv, PublisherInv
      <4>2. QED BY <2>1, <4>1, <1>5, <1>6
    <3>2. QED BY <1>1, <1>2, <1>6, <3>1, Zenon DEF QueueInv, PublisherInv
  <2>3. QED
    BY <2>2, <1>1, <1>3, <1>4, Zenon DEF QueueInv, PublisherInv
<1>10. AppliedInv'
  BY <1>1, <1>2, <1>3, <1>4 DEF QueueInv, AppliedInv
<1>11. SeqNumInv'
  BY <1>1, <1>2, <1>3, <1>4, <1>5, <1>6 DEF QueueInv, SeqNumInv
<1>12. PublishedInv'
  BY <1>1, <1>2, <1>3, <1>4, <1>5, <1>6 DEF QueueInv, PublishedInv, Unpublished
<1>13. \A q \in Procs : Unpublished(q)' <=> Unpublished(q)
  BY <1>1, <1>3, <1>4, Zenon DEF Unpublished
<1>14. QED
  BY <1>13, <1>6, <1>7, <1>8, <1>9, <1>10, <1>11, <1>12 DEF QueueInv

\* Batch.commit.Done() ends the publication of one batch.
LEMMA PublishDoneQueue ==
    ASSUME QueueTypeOK, QueueInv, NEW p \in Procs, PublishDone(p)
    PROVE  /\ QueueInv'
           /\ \E b \in Procs :
                /\ b = cand[p] /\ Unpublished(b) /\ ~Unpublished(b)'
                /\ \A q \in Procs : q # b => (Unpublished(q)' <=> Unpublished(q))
<1>1. /\ pc[p] = "done" /\ pc' = [pc EXCEPT ![p] = "load"]
      /\ \A q \in Procs : q # p => cur'[q] = cur[q] /\ cand'[q] = cand[q]
      /\ UNCHANGED <<headTail, slots, ptrs, seqNum, count, applied, logSeqNum, visibleSeqNum>>
  BY DEF PublishDone, Goto, queueVars, seqVars, QueueTypeOK
<1>2. /\ \A q \in Procs : q # p => pc'[q] = pc[q]
      /\ pc'[p] = "load"
  BY <1>1 DEF QueueTypeOK
<1>3. /\ \A q : EndSeqNum(q)' = EndSeqNum(q)
      /\ \A i : At(i)' = At(i)
      /\ Window' = Window
      /\ \A q : InQueue(q)' <=> InQueue(q)
  BY <1>1, Zenon DEF At, Window, InQueue, EndSeqNum
<1>4. /\ \A q \in Procs :
            /\ q # p => (Publishing(q)' <=> Publishing(q))
            /\ InPublish(q)' <=> InPublish(q)
            /\ BeforePublish(q)' <=> BeforePublish(q)
      /\ Publishing(p) /\ ~Publishing(p)'
  BY <1>1, <1>2 DEF Publishing, InPublish, BeforePublish, Unapplied
<1>5. /\ \A i \in Window : At(i) \in Procs
      /\ EndSeqNum(cand[p]) <= visibleSeqNum
  BY <1>1, <1>4 DEF QueueInv, RingInv, RingEntries, PublisherInv
<1>6. RingInv'
  BY <1>1, <1>2, <1>3, <1>4, RingFrame, Zenon DEF QueueInv
<1>7. CandidateInv'
  BY <1>1, <1>2, <1>3 DEF QueueInv, CandidateInv
<1>8. PublisherInv'
  BY <1>1, <1>2, <1>3, <1>4, Zenon DEF QueueInv, PublisherInv
<1>9. AppliedInv'
  BY <1>1, <1>2, <1>3, <1>4 DEF QueueInv, AppliedInv
<1>10. SeqNumInv'
  BY <1>1, <1>2, <1>3, <1>4, <1>5 DEF QueueInv, SeqNumInv
<1>11. PublishedInv'
  BY <1>1, <1>2, <1>3, <1>4, <1>5 DEF QueueInv, PublishedInv, Unpublished
<1>12. \E b \in Procs :
          /\ b = cand[p] /\ Unpublished(b) /\ ~Unpublished(b)'
          /\ \A q \in Procs : q # b => (Unpublished(q)' <=> Unpublished(q))
  <2>1. PICK b \in Procs : b = cand[p]
    BY <1>4 DEF QueueInv, PublisherInv
  <2>2. Unpublished(b) /\ ~InQueue(b) /\ \A q \in Procs : Publishing(q) /\ cand[q] = b => q = p
    BY <2>1, <1>4 DEF QueueInv, PublisherInv, Unpublished
  <2>3. ~Unpublished(b)'
    BY <2>2, <1>1, <1>3, <1>4 DEF Unpublished
  <2>4. \A q \in Procs : q # b => (Unpublished(q)' <=> Unpublished(q))
    BY <2>1, <1>1, <1>3, <1>4 DEF Unpublished
  <2>5. QED BY <2>1, <2>2, <2>3, <2>4
<1>13. QED
  BY <1>12, <1>6, <1>7, <1>8, <1>9, <1>10, <1>11 DEF QueueInv
=============================================================================
