--------------------------- MODULE CommitPipeline ---------------------------
(***************************************************************************)
(* The commit pipeline of commit.go: goroutines sequence their batches     *)
(* under commitPipeline.mu, write them to the WAL, apply them to a         *)
(* memtable concurrently and publish them, in sequence-number order,       *)
(* through the lock-free single-producer multi-consumer commitQueue.       *)
(*                                                                         *)
(* A goroutine works on one batch at a time and batches are pooled, so a   *)
(* batch object is named by the goroutine that owns it: batch p is reset   *)
(* and reused by the next operation of p, exactly as Batch.release allows. *)
(* Every atomic load, store, add and compare-and-swap is a step of its own.*)
(***************************************************************************)
EXTENDS Integers, Sequences, FiniteSets

CONSTANTS
    Procs,            \* goroutines that commit batches or ingest sstables
    NoBatch,          \* the nil *Batch
    SyncConcurrency,  \* len(commitQueue.slots), record.SyncConcurrency
    Kinds,            \* operations that are started
    Counts,           \* Batch.Count() of the batches; 0 is a LogData-only batch
    SeqNumStart,      \* logSeqNum = visibleSeqNum when the pipeline is created
    MaxCommits        \* bound on the number of operations ever started

ASSUME PipelineAssumption ==
    /\ NoBatch \notin Procs
    /\ SyncConcurrency \in Nat /\ SyncConcurrency >= 2
    /\ Kinds \subseteq {"plain", "sync", "noSyncWait", "alloc"}
    /\ Counts \subseteq Nat
    /\ SeqNumStart \in Nat
    /\ MaxCommits \in Nat

VARIABLES
    pc,             \* the next step of each goroutine
    kind,           \* operation: plain, sync or noSyncWait Commit, or AllocateSeqNum
    count,          \* Batch.Count()
    seqNum,         \* Batch.SeqNum()
    applied,        \* Batch.applied
    commitWG,       \* counter of the WaitGroup Batch.commit
    fsyncWG,        \* counter of Batch.fsyncWait, or of directWrite's syncWG
    commitErr,      \* Batch.commitErr # nil
    headTail,       \* commitQueue.headTail
    slots,          \* commitQueue.slots
    ptrs, cand,     \* dequeueApplied: the loaded headTail, the loaded batch
    cur,            \* publish: the loaded visibleSeqNum
    mu,             \* holder of commitPipeline.mu, or NoBatch
    commitQueueSem, \* tokens in the channel commitQueueSem, by their owner
    logSyncQSem,    \* tokens in the channel logSyncQSem, by their owner
    ingestSem,      \* holder of the channel ingestSem, or NoBatch
    logSeqNum, visibleSeqNum,
    wal,            \* the records written to the WAL: sequence numbers, in order
    walPos,         \* length of wal once the batch of p was written
    walSynced,      \* length of the prefix of wal that was synced
    syncQ,          \* batches waiting in LogWriter.flusher.syncQ
    issued,         \* operations started so far
    fatal           \* Logger.Fatalf was called: the process is gone

batchVars == <<kind, count, seqNum, applied, commitWG, fsyncWG, commitErr>>
queueVars == <<headTail, slots>>
localVars == <<ptrs, cand, cur>>
semVars == <<commitQueueSem, logSyncQSem, ingestSem>>
seqVars == <<logSeqNum, visibleSeqNum>>
walVars == <<wal, walPos, walSynced, syncQ>>
vars == <<pc, batchVars, queueVars, localVars, mu, semVars, seqVars, walVars,
          issued, fatal>>

\* The locals of dequeueApplied once they are out of scope.
NoPtrs == [head |-> 0, tail |-> 0]

SlotOf(i) == i % SyncConcurrency

Init ==
    /\ pc = [p \in Procs |-> "idle"]
    /\ kind = [p \in Procs |-> "plain"]
    /\ count = [p \in Procs |-> 0]
    /\ seqNum = [p \in Procs |-> 0]
    /\ applied = [p \in Procs |-> FALSE]
    /\ commitWG = [p \in Procs |-> 0]
    /\ fsyncWG = [p \in Procs |-> 0]
    /\ commitErr = [p \in Procs |-> FALSE]
    /\ headTail = [head |-> 0, tail |-> 0]
    /\ slots = [i \in 0 .. SyncConcurrency - 1 |-> NoBatch]
    /\ ptrs = [p \in Procs |-> NoPtrs]
    /\ cand = [p \in Procs |-> NoBatch]
    /\ cur = [p \in Procs |-> 0]
    /\ mu = NoBatch
    /\ commitQueueSem = {} /\ logSyncQSem = {} /\ ingestSem = NoBatch
    /\ logSeqNum = SeqNumStart /\ visibleSeqNum = SeqNumStart
    /\ wal = <<>> /\ walPos = [p \in Procs |-> 0] /\ walSynced = 0
    /\ syncQ = <<>>
    /\ issued = 0
    /\ fatal = FALSE

Goto(p, from, to) ==
    /\ pc[p] = from
    /\ pc' = [pc EXCEPT ![p] = to]
-----------------------------------------------------------------------------
(* Commit and AllocateSeqNum up to the lock. *)

\* DB.applyInternal calls Commit with a batch that is not empty; prepare
\* counts what the WaitGroups wait for before it takes the lock.
StartCommit(p, k, n) ==
    /\ k \in Kinds \ {"alloc"}
    /\ Goto(p, "idle", "commitSem")
    /\ issued < MaxCommits /\ issued' = issued + 1
    /\ kind' = [kind EXCEPT ![p] = k]
    /\ count' = [count EXCEPT ![p] = n]
    /\ UNCHANGED <<seqNum, applied, commitWG, fsyncWG, commitErr, queueVars, localVars, mu,
                   semVars, seqVars, walVars, fatal>>

\* DB.ingest takes ingestSem and calls AllocateSeqNum with the number of files.
StartAllocate(p, n) ==
    /\ "alloc" \in Kinds /\ n > 0
    /\ ingestSem = NoBatch
    /\ Goto(p, "idle", "commitSem")
    /\ ingestSem' = p
    /\ issued < MaxCommits /\ issued' = issued + 1
    /\ kind' = [kind EXCEPT ![p] = "alloc"]
    /\ count' = [count EXCEPT ![p] = n]
    /\ UNCHANGED <<seqNum, applied, commitWG, fsyncWG, commitErr, queueVars, localVars, mu,
                   commitQueueSem, logSyncQSem, seqVars, walVars, fatal>>

\* A send on one of the two semaphore channels does not block.
RoomPastLimit(sem) == Cardinality(sem) <= SyncConcurrency - 1   \* mutant
HasRoom(sem) == Cardinality(sem) < SyncConcurrency - 1

AcquireCommitQueueSem(p) ==
    /\ HasRoom(commitQueueSem)
    /\ Goto(p, "commitSem",
            IF kind[p] \in {"sync", "noSyncWait"} THEN "syncSem" ELSE "lock")
    /\ commitQueueSem' = commitQueueSem \cup {p}
    /\ UNCHANGED <<batchVars, queueVars, localVars, mu, logSyncQSem, ingestSem,
                   seqVars, walVars, issued, fatal>>

AcquireLogSyncQSem(p) ==
    /\ HasRoom(logSyncQSem)
    /\ Goto(p, "syncSem", "lock")
    /\ logSyncQSem' = logSyncQSem \cup {p}
    /\ UNCHANGED <<batchVars, queueVars, localVars, mu, commitQueueSem,
                   ingestSem, seqVars, walVars, issued, fatal>>

\* prepare counts what Batch.commit waits for: the publish and, unless the caller
\* waits for it later with Batch.fsyncWait, the sync.
OnlyPublish(p) == 1                                             \* mutant
CommitCount(p) == IF kind[p] = "sync" THEN 2 ELSE 1

\* Then it takes the lock.
LockWithoutMutex(p) ==                                          \* mutant
    /\ Goto(p, "lock", "enqueue")
    /\ mu' = p
    /\ commitWG' = [commitWG EXCEPT ![p] = CommitCount(p)]
    /\ fsyncWG' = [fsyncWG EXCEPT ![p] = IF kind[p] = "noSyncWait" THEN 1 ELSE 0]
    /\ UNCHANGED <<kind, count, seqNum, applied, commitErr, queueVars, localVars,
                   semVars, seqVars, walVars, issued, fatal>>
Lock(p) ==
    /\ mu = NoBatch
    /\ Goto(p, "lock", "enqueue")
    /\ mu' = p
    /\ commitWG' = [commitWG EXCEPT ![p] = CommitCount(p)]
    /\ fsyncWG' = [fsyncWG EXCEPT ![p] = IF kind[p] = "noSyncWait" THEN 1 ELSE 0]
    /\ UNCHANGED <<kind, count, seqNum, applied, commitErr, queueVars, localVars,
                   semVars, seqVars, walVars, issued, fatal>>
-----------------------------------------------------------------------------
(* Under commitPipeline.mu. *)

\* commitQueue.enqueue panics if the queue is full.
QueueFull == headTail.tail + SyncConcurrency = headTail.head

\* It spins until a dequeuer has cleared the slot, and stores the batch.
SlotFree == slots[SlotOf(headTail.head)] = NoBatch

EnqueueStore(p) ==
    /\ ~QueueFull
    /\ SlotFree
    /\ Goto(p, "enqueue", "advance")
    /\ slots' = [slots EXCEPT ![SlotOf(headTail.head)] = p]
    /\ UNCHANGED <<batchVars, headTail, localVars, mu, semVars, seqVars, walVars,
                   issued, fatal>>

EnqueueAdvance(p) ==
    /\ Goto(p, "advance", "assign")
    /\ headTail' = [headTail EXCEPT !.head = @ + 1]
    /\ UNCHANGED <<batchVars, slots, localVars, mu, semVars, seqVars, walVars,
                   issued, fatal>>

\* The batch is sequenced; an ingestion never gets sequence number 0, and keeps
\* the value logSeqNum had in cur.
SkippedZero(p) == IF kind[p] = "alloc" /\ logSeqNum = 0 THEN 1 ELSE 0
FirstSeqNum(p) == logSeqNum + SkippedZero(p)

AssignSeqNum(p) ==
    /\ Goto(p, "assign", IF kind[p] = "alloc" THEN "spin" ELSE "write")
    /\ seqNum' = [seqNum EXCEPT ![p] = FirstSeqNum(p)]
    /\ logSeqNum' = FirstSeqNum(p) + count[p]
    /\ cur' = [cur EXCEPT ![p] = IF kind[p] = "alloc" THEN logSeqNum ELSE 0]
    /\ UNCHANGED <<kind, count, applied, commitWG, fsyncWG, commitErr, queueVars,
                   ptrs, cand, mu, semVars, visibleSeqNum, walVars, issued, fatal>>

\* env.write: the record is appended to the WAL and, for a sync, the batch is
\* pushed on the LogWriter's sync queue. The lock is released.
Write(p) ==
    /\ Goto(p, "write", "apply")
    /\ wal' = Append(wal, seqNum[p])
    /\ walPos' = [walPos EXCEPT ![p] = Len(wal) + 1]
    /\ syncQ' = IF kind[p] = "plain" THEN syncQ ELSE Append(syncQ, p)
    /\ mu' = NoBatch
    /\ UNCHANGED <<batchVars, queueVars, localVars, semVars, seqVars, walSynced,
                   issued, fatal>>

\* env.write fails (makeRoomForWrite returned an error): the lock is released,
\* the batch stays in the queue and the semaphore is not released.
WriteFails(p) ==
    /\ Goto(p, "write", "failed")
    /\ mu' = NoBatch
    /\ UNCHANGED <<batchVars, queueVars, localVars, semVars, seqVars, walVars,
                   issued, fatal>>

\* AllocateSeqNum spins until everything sequenced before is visible; its
\* prepare callback either only looks at the memtables, and the lock is
\* released, or ingests as a flushable.
NotDrained(p) == TRUE                                           \* mutant
Drained(p) == visibleSeqNum = cur[p]

AllocPrepare(p) ==
    /\ Drained(p)
    /\ \/ Goto(p, "spin", "apply") /\ mu' = NoBatch
       \/ Goto(p, "spin", "directSem") /\ mu' = mu
    /\ UNCHANGED <<batchVars, queueVars, localVars, semVars, seqVars, walVars,
                   issued, fatal>>

\* directWrite, with commitPipeline.mu held: reserve a place in the sync queue
\* and write the record ...
DirectWrite(p) ==
    /\ HasRoom(logSyncQSem)
    /\ Goto(p, "directSem", "directWait")
    /\ logSyncQSem' = logSyncQSem \cup {p}
    /\ wal' = Append(wal, seqNum[p])
    /\ walPos' = [walPos EXCEPT ![p] = Len(wal) + 1]
    /\ syncQ' = Append(syncQ, p)
    /\ fsyncWG' = [fsyncWG EXCEPT ![p] = 1]
    /\ UNCHANGED <<kind, count, seqNum, applied, commitWG, commitErr, queueVars,
                   localVars, mu, commitQueueSem, ingestSem, seqVars, walSynced,
                   issued, fatal>>

\* ... and wait for the sync; an error is fatal in handleIngestAsFlushable.
DirectWriteWait(p) ==
    /\ fsyncWG[p] = 0
    /\ IF commitErr[p] THEN Goto(p, "directWait", "failed") /\ mu' = mu
                       ELSE Goto(p, "directWait", "apply") /\ mu' = NoBatch
    /\ UNCHANGED <<batchVars, queueVars, localVars, semVars, seqVars, walVars,
                   issued, fatal>>
-----------------------------------------------------------------------------
(* Concurrently: apply and publish. *)

\* env.apply or the apply callback: the operation is in the memtable (or LSM).
Apply(p) ==
    /\ Goto(p, "apply", "publish")
    /\ UNCHANGED <<batchVars, queueVars, localVars, mu, semVars, seqVars,
                   walVars, issued, fatal>>

\* env.apply fails; the callback of AllocateSeqNum cannot.
ApplyFails(p) ==
    /\ kind[p] # "alloc"
    /\ Goto(p, "apply", "failed")
    /\ UNCHANGED <<batchVars, queueVars, localVars, mu, semVars, seqVars,
                   walVars, issued, fatal>>

MarkApplied(p) ==
    /\ Goto(p, "publish", "load")
    /\ applied' = [applied EXCEPT ![p] = TRUE]
    /\ UNCHANGED <<kind, count, seqNum, commitWG, fsyncWG, commitErr, queueVars,
                   localVars, mu, semVars, seqVars, walVars, issued, fatal>>

\* dequeueApplied: load headTail; an empty queue ends the loop of publish.
DequeueLoad(p) ==
    /\ Goto(p, "load", IF headTail.head = headTail.tail THEN "wait" ELSE "slot")
    /\ ptrs' = [ptrs EXCEPT ![p] = headTail]
    /\ UNCHANGED <<batchVars, queueVars, cand, cur, mu, semVars, seqVars,
                   walVars, issued, fatal>>

\* ... load the slot of the tail ...
DequeueSlot(p) ==
    LET b == slots[SlotOf(ptrs[p].tail)]
    IN  /\ Goto(p, "slot", IF b = NoBatch THEN "wait" ELSE "check")
        /\ cand' = [cand EXCEPT ![p] = b]
        /\ UNCHANGED <<batchVars, queueVars, ptrs, cur, mu, semVars, seqVars,
                       walVars, issued, fatal>>

\* ... load its applied flag, which may already be that of a reused batch ...
TakenUnapplied(b) == TRUE                                       \* mutant
Ready(b) == applied[b]

DequeueCheck(p) ==
    /\ Goto(p, "check", IF Ready(cand[p]) THEN "cas" ELSE "wait")
    /\ UNCHANGED <<batchVars, queueVars, localVars, mu, semVars, seqVars,
                   walVars, issued, fatal>>

\* ... and take the tail if headTail has not moved.
CASNeverSwaps(p) ==                                             \* mutant
    /\ Goto(p, "cas", "load")
    /\ UNCHANGED <<batchVars, queueVars, localVars, mu, semVars, seqVars, walVars,
                   issued, fatal>>

DequeueCAS(p) ==
    /\ IF headTail = ptrs[p]
         THEN /\ Goto(p, "cas", "clear")
              /\ headTail' = [headTail EXCEPT !.tail = @ + 1]
         ELSE /\ Goto(p, "cas", "load")
              /\ UNCHANGED headTail
    /\ UNCHANGED <<batchVars, slots, localVars, mu, semVars, seqVars, walVars,
                   issued, fatal>>

DequeueClear(p) ==
    /\ Goto(p, "clear", "ratchet")
    /\ slots' = [slots EXCEPT ![SlotOf(ptrs[p].tail)] = NoBatch]
    /\ ptrs' = [ptrs EXCEPT ![p] = NoPtrs]
    /\ UNCHANGED <<batchVars, headTail, cand, cur, mu, semVars, seqVars,
                   walVars, issued, fatal>>

\* The sequence number a dequeued batch makes visible.
EndSeqNum(b) == seqNum[b] + count[b]

RatchetLoad(p) ==
    /\ Goto(p, "ratchet",
            IF EndSeqNum(cand[p]) <= visibleSeqNum THEN "done" ELSE "ratchetCAS")
    /\ cur' = [cur EXCEPT ![p] = visibleSeqNum]
    /\ UNCHANGED <<batchVars, queueVars, ptrs, cand, mu, semVars, seqVars,
                   walVars, issued, fatal>>

PlainStore(p) == TRUE                                           \* mutant
VisibleNotMoved(p) == visibleSeqNum = cur[p]

RatchetCAS(p) ==
    /\ IF VisibleNotMoved(p)
         THEN /\ Goto(p, "ratchetCAS", "done")
              /\ visibleSeqNum' = EndSeqNum(cand[p])
         ELSE /\ Goto(p, "ratchetCAS", "ratchet")
              /\ UNCHANGED visibleSeqNum
    /\ UNCHANGED <<batchVars, queueVars, localVars, mu, semVars, logSeqNum,
                   walVars, issued, fatal>>

PublishDone(p) ==
    /\ Goto(p, "done", "load")
    /\ commitWG' = [commitWG EXCEPT ![cand[p]] = @ - 1]
    /\ cand' = [cand EXCEPT ![p] = NoBatch]
    /\ cur' = [cur EXCEPT ![p] = 0]
    /\ UNCHANGED <<kind, count, seqNum, applied, fsyncWG, commitErr, queueVars,
                   ptrs, mu, semVars, seqVars, walVars, issued, fatal>>

\* The batch was published, by this goroutine or by another one, and synced:
\* Commit returns. A sync error is fatal in applyInternal, unless the caller
\* waits for the sync in SyncWait.
CommitNotAwaited(p) == TRUE                                     \* mutant
CommitDone(p) == commitWG[p] = 0

Return(p) ==
    /\ CommitDone(p)
    /\ Goto(p, "wait", CASE kind[p] = "noSyncWait" -> "syncWait"
                         [] kind[p] = "sync" /\ commitErr[p] -> "syncFailed"
                         [] OTHER -> "acked")
    /\ commitQueueSem' = commitQueueSem \ {p}
    /\ ptrs' = [ptrs EXCEPT ![p] = NoPtrs]
    /\ cand' = [cand EXCEPT ![p] = NoBatch]
    /\ cur' = [cur EXCEPT ![p] = 0]
    /\ UNCHANGED <<batchVars, queueVars, mu, logSyncQSem, ingestSem, seqVars,
                   walVars, issued, fatal>>

SyncWait(p) ==
    /\ fsyncWG[p] = 0
    /\ Goto(p, "syncWait", "acked")
    /\ UNCHANGED <<batchVars, queueVars, localVars, mu, semVars, seqVars,
                   walVars, issued, fatal>>

\* Batch.release: the batch is reset and may be used again.
Release(p) ==
    /\ Goto(p, "acked", "idle")
    /\ kind' = [kind EXCEPT ![p] = "plain"]
    /\ count' = [count EXCEPT ![p] = 0]
    /\ seqNum' = [seqNum EXCEPT ![p] = 0]
    /\ applied' = [applied EXCEPT ![p] = FALSE]
    /\ commitErr' = [commitErr EXCEPT ![p] = FALSE]
    /\ walPos' = [walPos EXCEPT ![p] = 0]
    /\ ingestSem' = IF ingestSem = p THEN NoBatch ELSE ingestSem
    /\ UNCHANGED <<commitWG, fsyncWG, queueVars, localVars, mu, commitQueueSem,
                   logSyncQSem, seqVars, wal, walSynced, syncQ, issued, fatal>>

\* applyInternal: "the commit pipeline will be horked at this point".
Fatalf(p) ==
    /\ pc[p] \in {"failed", "syncFailed"}
    /\ fatal' = TRUE
    /\ UNCHANGED <<pc, batchVars, queueVars, localVars, mu, semVars, seqVars,
                   walVars, issued>>
-----------------------------------------------------------------------------
(* The LogWriter's flush loop, as the pipeline sees it: it pops the oldest   *)
(* waiter once the WAL up to its record is synced, or with the error that    *)
(* the sync returned.                                                        *)
SyncDone(err) ==
    /\ syncQ # <<>>
    /\ LET b == Head(syncQ)
       IN  /\ commitErr' = [commitErr EXCEPT ![b] = err]
           /\ IF kind[b] = "sync"
                THEN /\ commitWG' = [commitWG EXCEPT ![b] = @ - 1]
                     /\ UNCHANGED fsyncWG
                ELSE /\ fsyncWG' = [fsyncWG EXCEPT ![b] = @ - 1]
                     /\ UNCHANGED commitWG
           /\ walSynced' = IF err \/ walPos[b] < walSynced THEN walSynced
                                                           ELSE walPos[b]
    /\ syncQ' = Tail(syncQ)
    /\ logSyncQSem' = logSyncQSem \ {Head(syncQ)}
    /\ UNCHANGED <<pc, kind, count, seqNum, applied, queueVars, localVars, mu,
                   commitQueueSem, ingestSem, seqVars, wal, walPos, issued,
                   fatal>>
-----------------------------------------------------------------------------
\* What a goroutine does on its own once an operation was started.
Step(p) ==
    \/ AcquireCommitQueueSem(p) \/ AcquireLogSyncQSem(p) \/ Lock(p)
    \/ EnqueueStore(p) \/ EnqueueAdvance(p) \/ AssignSeqNum(p)
    \/ Write(p) \/ AllocPrepare(p) \/ DirectWrite(p) \/ DirectWriteWait(p)
    \/ Apply(p) \/ MarkApplied(p)
    \/ DequeueLoad(p) \/ DequeueSlot(p) \/ DequeueCheck(p)
    \/ DequeueCAS(p) \/ DequeueClear(p)
    \/ RatchetLoad(p) \/ RatchetCAS(p) \/ PublishDone(p)
    \/ Return(p) \/ SyncWait(p) \/ Release(p)
    \/ Fatalf(p)

Start(p) ==
    \E n \in Counts : (\E k \in Kinds : StartCommit(p, k, n)) \/ StartAllocate(p, n)

Fails(p) == WriteFails(p) \/ ApplyFails(p)

\* Nothing is left to do, or the process exited.
Stopped ==
    /\ fatal \/ (issued = MaxCommits /\ \A p \in Procs : pc[p] = "idle")
    /\ UNCHANGED vars

Next ==
    \/ ~fatal /\ \E p \in Procs : Start(p) \/ Step(p) \/ Fails(p)
    \/ ~fatal /\ \E err \in BOOLEAN : SyncDone(err)
    \/ Stopped

Spec == Init /\ [][Next]_vars

\* Goroutines are scheduled and the flush loop keeps running; operations need
\* not be started and need not fail.
Fairness ==
    /\ \A p \in Procs : WF_vars(~fatal /\ Step(p))
    /\ WF_vars(~fatal /\ \E err \in BOOLEAN : SyncDone(err))

FairSpec == Spec /\ Fairness
-----------------------------------------------------------------------------
PCs == {"idle", "commitSem", "syncSem", "lock", "enqueue", "advance", "assign",
        "write", "spin", "directSem", "directWait", "apply", "publish", "load",
        "slot", "check", "cas", "clear", "ratchet", "ratchetCAS", "done",
        "wait", "syncWait", "acked", "failed", "syncFailed"}

\* The state is well formed.
TypeOK ==
    /\ pc \in [Procs -> PCs]
    /\ kind \in [Procs -> Kinds \cup {"plain"}]
    /\ count \in [Procs -> Nat] /\ seqNum \in [Procs -> Nat]
    /\ applied \in [Procs -> BOOLEAN] /\ commitErr \in [Procs -> BOOLEAN]
    /\ commitWG \in [Procs -> Int] /\ fsyncWG \in [Procs -> Int]
    /\ headTail \in [head : Nat, tail : Nat]
    /\ slots \in [0 .. SyncConcurrency - 1 -> Procs \cup {NoBatch}]
    /\ ptrs \in [Procs -> [head : Nat, tail : Nat]]
    /\ cand \in [Procs -> Procs \cup {NoBatch}]
    /\ cur \in [Procs -> Nat]
    /\ mu \in Procs \cup {NoBatch} /\ ingestSem \in Procs \cup {NoBatch}
    /\ commitQueueSem \subseteq Procs
    /\ logSyncQSem \subseteq Procs
    /\ logSeqNum \in Nat /\ visibleSeqNum \in Nat
    /\ wal \in Seq(Nat) /\ walPos \in [Procs -> Nat] /\ walSynced \in Nat
    /\ syncQ \in Seq(Procs)
    /\ issued \in Nat /\ fatal \in BOOLEAN

\* Sequenced, but not (or not yet) in the memtable.
Unapplied(p) ==
    pc[p] \in {"write", "spin", "directSem", "directWait", "apply", "failed"}

\* A reader at visibleSeqNum never sees part of the history: every operation
\* that is sequenced and not yet applied lies at or above visibleSeqNum,
\* whichever goroutine publishes for which (commit.go: "visibility in seqnum
\* order").
VisibleIsApplied ==
    /\ visibleSeqNum <= logSeqNum
    /\ \A p \in Procs : Unapplied(p) => visibleSeqNum <= seqNum[p]

\* "Upon successful return the batch's mutations will be visible for reading."
ReadYourWrites ==
    \A p \in Procs : pc[p] \in {"syncWait", "acked"}
                       => visibleSeqNum >= EndSeqNum(p)

\* A commit that was acknowledged as synced is on disk, and its error reported.
SyncAckIsDurable ==
    \A p \in Procs : /\ pc[p] = "acked"
                      /\ kind[p] \in {"sync", "noSyncWait"}
                      /\ ~commitErr[p]
                      => walPos[p] <= walSynced

\* The WAL holds the batches in the order of their sequence numbers.
WALInSeqNumOrder ==
    \A i, j \in 1 .. Len(wal) : i < j => wal[i] <= wal[j]

\* The "not reached" panic of enqueue and the one of syncQueue.push: the
\* semaphores reserve a place in each queue.
QueuesNeverOverflow ==
    /\ \A p \in Procs : pc[p] = "enqueue" => ~QueueFull
    /\ Len(syncQ) < SyncConcurrency

\* The prepare callback of an ingestion looks for overlap with the memtables: it
\* sees every write sequenced before it (a batch of LogData writes nothing).
IngestSeesEarlierWrites ==
    \A p, q \in Procs : /\ pc[p] \in {"directSem", "directWait"}
                         /\ q # p /\ Unapplied(q) /\ count[q] > 0
                         => seqNum[q] > seqNum[p]

\* visibleSeqNum only ratchets upwards.
VisibleRatchets == [][visibleSeqNum' >= visibleSeqNum]_vars

\* Every operation that was started completes, unless the process exits: nobody
\* waits forever for a semaphore, the lock, the spin loops, the publish or the
\* sync.
Completes == \A p \in Procs : (pc[p] # "idle") ~> (pc[p] = "idle" \/ fatal)
-----------------------------------------------------------------------------
(* The inductive invariant behind VisibleIsApplied and ReadYourWrites.       *)

\* The positions of the batches in the queue, and the batch at a position.
Window == headTail.tail .. headTail.head - 1
At(i) == slots[SlotOf(i)]
InQueue(p) == \E i \in Window : At(i) = p

\* q dequeued the batch cand[q] and has not finished publishing it.
Publishing(q) == pc[q] \in {"clear", "ratchet", "ratchetCAS", "done"}

\* The stages of publish, and the ones before it once the batch is enqueued.
InPublish(p) == pc[p] \in {"load", "slot", "check", "cas", "wait"} \/ Publishing(p)
BeforePublish(p) == pc[p] \in {"assign", "publish"} \/ Unapplied(p)

\* commitPipeline.mu is held from the enqueue to the write.
MuInv ==
    \A p \in Procs :
        pc[p] \in {"enqueue", "advance", "assign", "write", "spin", "directSem",
                  "directWait"} => mu = p

\* The ring: a position in the window has a batch of its own, the next one is
\* being filled by the producer, and the ones still being cleared are within
\* one lap of the head.
RingBounds ==
    /\ headTail.tail <= headTail.head
    /\ headTail.head <= headTail.tail + SyncConcurrency
RingEntries ==
    /\ \A i \in Window : At(i) \in Procs /\ (BeforePublish(At(i)) \/ InPublish(At(i)))
    /\ \A i, j \in Window : At(i) = At(j) => i = j
    /\ \A i \in Window : pc[At(i)] = "assign" => i = headTail.head - 1
RingProducer ==
    \A p \in Procs : pc[p] = "advance" =>
        /\ headTail.head < headTail.tail + SyncConcurrency
        /\ At(headTail.head) = p
        /\ \A q \in Procs : pc[q] = "clear" => headTail.head < ptrs[q].tail + SyncConcurrency
RingClearing ==
    /\ \A q \in Procs : pc[q] = "clear" =>
            /\ ptrs[q].tail < headTail.tail
            /\ headTail.head <= ptrs[q].tail + SyncConcurrency
            /\ At(ptrs[q].tail) = cand[q]
    /\ \A q, r \in Procs : /\ pc[q] = "clear" /\ pc[r] = "clear"
                            /\ ptrs[q].tail = ptrs[r].tail => q = r
RingInv == RingBounds /\ RingEntries /\ RingProducer /\ RingClearing

\* A consumer whose view of headTail is current has the batch at the tail.
CandidateInv ==
    \A q \in Procs :
        /\ pc[q] \in {"slot", "check", "cas"} =>
               /\ ptrs[q].tail < ptrs[q].head
               /\ ptrs[q].tail <= headTail.tail
               /\ ptrs[q].head <= headTail.head
        /\ pc[q] \in {"check", "cas"} =>
               /\ cand[q] \in Procs
               /\ ptrs[q].tail = headTail.tail => cand[q] = At(headTail.tail)
        /\ pc[q] = "cas" /\ ptrs[q].tail = headTail.tail => applied[cand[q]]

\* A batch between its dequeue and its publication has one publisher, and left
\* the queue applied.
PublisherInv ==
    /\ \A q \in Procs : Publishing(q) =>
            /\ cand[q] \in Procs
            /\ InPublish(cand[q])
            /\ ~InQueue(cand[q])
            /\ pc[q] = "done" => EndSeqNum(cand[q]) <= visibleSeqNum
            /\ pc[q] = "ratchetCAS" => cur[q] < EndSeqNum(cand[q])
    /\ \A q, r \in Procs : Publishing(q) /\ Publishing(r) /\ cand[q] = cand[r]
                            => q = r

\* applied is set by the owner in publish, reset on release; until it is set
\* the batch stays in the queue.
AppliedInv ==
    \A p \in Procs :
        /\ applied[p] <=> InPublish(p) \/ pc[p] \in {"syncWait", "acked", "syncFailed"}
        /\ BeforePublish(p) => InQueue(p)

\* Sequence numbers grow along the queue, after those of the batches that were
\* dequeued and those that are visible.
SeqNumInv ==
    /\ visibleSeqNum <= logSeqNum
    /\ \A i \in Window : pc[At(i)] # "assign" =>
            /\ visibleSeqNum <= seqNum[At(i)]
            /\ EndSeqNum(At(i)) <= logSeqNum
            /\ \A j \in Window : j < i => EndSeqNum(At(j)) <= seqNum[At(i)]
            /\ \A q \in Procs : Publishing(q) => EndSeqNum(cand[q]) <= seqNum[At(i)]
    /\ \A q \in Procs : Publishing(q) => EndSeqNum(cand[q]) <= logSeqNum

\* A batch that is on its way out was published.
Unpublished(p) == InQueue(p) \/ \E q \in Procs : Publishing(q) /\ cand[q] = p
PublishedInv ==
    \A p \in Procs :
        (InPublish(p) /\ ~Unpublished(p)) \/ pc[p] \in {"syncWait", "acked"}
        => EndSeqNum(p) <= visibleSeqNum

\* Batch.commit counts the publish and, for a sync commit, the sync.
AwaitsSync(p) == \E i \in 1 .. Len(syncQ) : syncQ[i] = p
SyncPending(p) ==
    kind[p] = "sync" /\ (pc[p] \in {"enqueue", "advance", "assign", "write"} \/ AwaitsSync(p))
PublishPending(p) == pc[p] \in {"enqueue", "advance"} \/ Unpublished(p)
WaitGroupInv ==
    \A p \in Procs :
        /\ pc[p] # "failed"
        /\ pc[p] \in {"enqueue", "advance"} \/ BeforePublish(p) \/ InPublish(p)
        => commitWG[p] = (IF PublishPending(p) THEN 1 ELSE 0)
                         + (IF SyncPending(p) THEN 1 ELSE 0)

\* An operation of kind "alloc" spins and may write directly; the others write.
KindInv ==
    \A p \in Procs :
        /\ pc[p] \in {"enqueue", "advance", "assign", "write"} /\ kind[p] = "noSyncWait"
             => fsyncWG[p] = 1
        /\ pc[p] = "write" => kind[p] # "alloc"
        /\ pc[p] \in {"spin", "directSem", "directWait"} => kind[p] = "alloc"

\* A batch in the sync queue is there once, and its owner cannot be done with it.
Written(p) == pc[p] \in {"apply", "publish", "failed"} \/ InPublish(p)
SyncWaiters ==
    \A p \in Procs : AwaitsSync(p) =>
        \/ kind[p] = "sync" /\ Written(p)
        \/ kind[p] = "noSyncWait" /\ (Written(p) \/ pc[p] = "syncWait") /\ fsyncWG[p] = 1
        \/ kind[p] = "alloc" /\ pc[p] = "directWait" /\ fsyncWG[p] = 1
SyncQDistinct == \A i, j \in 1 .. Len(syncQ) : syncQ[i] = syncQ[j] => i = j
SyncQueueInv == SyncWaiters /\ SyncQDistinct

PipelineInv ==
    /\ MuInv /\ RingInv /\ CandidateInv /\ PublisherInv /\ AppliedInv
    /\ SeqNumInv /\ PublishedInv /\ WaitGroupInv /\ KindInv /\ SyncQueueInv
-----------------------------------------------------------------------------
(* What the other properties rest on, given PipelineInv.                     *)

\* A token of commitQueueSem is kept until the batch left the queue, one of
\* logSyncQSem until the sync is answered: the channels bound both queues.
QueueToken(p) == pc[p] \notin {"idle", "commitSem", "syncWait", "acked", "syncFailed"}
SyncToken(p) ==
    \/ AwaitsSync(p)
    \/ /\ kind[p] \in {"sync", "noSyncWait"}
       /\ pc[p] \in {"lock", "enqueue", "advance", "assign", "write"}
Bounded(sem) == IsFiniteSet(sem) /\ Cardinality(sem) <= SyncConcurrency - 1
TokenInv ==
    /\ \A p \in Procs : QueueToken(p) => p \in commitQueueSem
    /\ \A p \in Procs : SyncToken(p) => p \in logSyncQSem
    /\ Bounded(commitQueueSem) /\ Bounded(logSyncQSem)

\* Who is to write next is not before what was written.
WALInv ==
    /\ \A i \in 1 .. Len(wal) : wal[i] <= logSeqNum
    /\ \A p \in Procs : pc[p] \in {"write", "spin", "directSem"} =>
            seqNum[p] <= logSeqNum /\ \A i \in 1 .. Len(wal) : wal[i] <= seqNum[p]

\* A written batch is in the sync queue, or durable, or has the error of its sync.
Committing(p) ==
    /\ kind[p] \in {"sync", "noSyncWait"}
    /\ pc[p] \in {"apply", "publish", "syncWait", "acked"} \/ InPublish(p)
DurableInv ==
    \A p \in Procs : Committing(p) /\ ~AwaitsSync(p) /\ ~commitErr[p] => walPos[p] <= walSynced

\* While an ingestion holds the lock, the operations that are not applied are
\* older ones, and once it waited for them, empty ones.
IngestInv ==
    \A p, q \in Procs : q # p /\ Unapplied(q) =>
        /\ pc[p] = "spin" => EndSeqNum(q) <= cur[p]
        /\ pc[p] \in {"directSem", "directWait"} => count[q] = 0

WritePathInv == TokenInv /\ WALInSeqNumOrder /\ WALInv /\ DurableInv /\ IngestInv
=============================================================================
