------------------------------ MODULE LogWriter ------------------------------
(***************************************************************************)
(* The WAL writer of record/log_writer.go.  One producer at a time (commit *)
(* pipeline mutex) appends records to the current block without a lock and *)
(* pushes its wait group on a lock-free single-producer single-consumer    *)
(* queue.  The flush loop, a goroutine of its own, writes queued and       *)
(* partial blocks, syncs the file and signals the wait groups.  A timer    *)
(* enforces the minimum interval between two syncs.                        *)
(*                                                                         *)
(* The bytes of the log are numbered in the order they are emitted; a block*)
(* holds BlockSize of them, so a block is an interval of numbers.          *)
(* The free list that recycles blocks is left out.  The 32-bit halves of   *)
(* headTail are numbers: a log ends long before 2^32 sync requests.        *)
(***************************************************************************)
EXTENDS Integers, Sequences

CONSTANTS MaxRecords,    \* bound: records written
          MaxLen,        \* bound: bytes of a record
          BlockSize,     \* bytes of a block
          Slots,         \* SyncConcurrency: slots of the sync queue
          MinSync,       \* whether WALMinSyncInterval is positive
          MayFail        \* whether WriteApproved and Sync may fail

ASSUME LogWriterAssumption ==
    /\ {MaxRecords, MaxLen, BlockSize, Slots} \subseteq Nat \ {0}
    /\ {MinSync, MayFail} \subseteq BOOLEAN

Records == 1 .. MaxRecords
NoRecord == 0
\* queueSemChan has room for one request less than the queue (newCommitPipeline).
SemCapacity == Slots - 1

VARIABLES
    emitted,        \* bytes stored in blocks: the written field of the current block
    blockStart,     \* bytes in the blocks before the current one: blockNum
    flushed,        \* bytes handed to the flush loop: the flushed field of the current block
    pending,        \* flusher.pending: intervals of bytes
    file, durable,  \* the bytes in the file, and how many of them are synced
    slots, head, tail, blocked,   \* syncQueue
    sem,            \* requests counted by queueSemChan
    wg,             \* the wait group of each record and the error it was given
    mutex,          \* holder of flusher.Mutex
    listed, notified,             \* sync.Cond: the flush loop is a waiter; it was signalled
    timer, ringing, \* the min-sync-interval timer is armed; callbacks yet to signal
    closing,        \* flusher.close
    fErr, wErr,     \* flusher.err and LogWriter.err
    fpc, fl,        \* the flush loop: where it is, its local variables
    ppc, pr         \* the producer: where it is, the record it writes

flusherVars == <<pending, mutex, listed, notified, timer, ringing, closing, fErr, fpc, fl>>
queueVars == <<slots, head, tail, blocked, sem, wg>>
fileVars == <<file, durable>>
blockVars == <<emitted, blockStart, flushed>>
producerVars == <<ppc, pr, wErr>>
vars == <<flusherVars, queueVars, fileVars, blockVars, producerVars>>

NoLocals == [pending |-> << >>, head |-> 0, tail |-> 0, data |-> << >>, err |-> FALSE, synced |-> FALSE,
             written |-> 0, popped |-> NoRecord]

Init ==
    /\ emitted = 0 /\ blockStart = 0 /\ flushed = 0
    /\ pending = << >>
    /\ file = << >> /\ durable = 0
    /\ slots = [i \in 0 .. Slots - 1 |-> NoRecord]
    /\ head = 0 /\ tail = 0
    /\ blocked = FALSE
    /\ sem = 0
    /\ wg = [r \in Records |-> "none"]
    /\ mutex = "flusher"
    /\ listed = FALSE /\ notified = FALSE
    /\ timer = FALSE /\ ringing = 0
    /\ closing = FALSE
    /\ fErr = FALSE /\ wErr = FALSE
    /\ fpc = "load" /\ fl = NoLocals
    /\ ppc = "idle" /\ pr = [record |-> 0, left |-> 0, sync |-> FALSE, ends |-> << >>]

\* The bytes from + 1 .. to.
Interval(from, to) == [i \in 1 .. to - from |-> from + i]

-----------------------------------------------------------------------------
(* syncQueue                                                               *)

\* load, and empty on top of it: nothing is to be synced while blocked.
LoadedHead == IF blocked THEN 0 ELSE head
LoadedTail == IF blocked THEN 0 ELSE tail
SyncQEmpty == LoadedHead = LoadedTail

QueueFull == head - tail = Slots
SlotOf(i) == i % Slots

\* Signal of the condition variable wakes the flush loop if it is a waiter.
Signal == notified' = (notified \/ listed)

-----------------------------------------------------------------------------
(* The producer: SyncRecord, emitFragment, queueBlock, Close               *)

SemFree == sem < SemCapacity

\* SyncRecord of the next record; a request to sync has its place in
\* queueSemChan.  A writer with an error refuses the record.
SyncRecord(len, sync) ==
    /\ ppc = "idle"
    /\ pr.record < MaxRecords
    /\ ~wErr
    /\ sync => SemFree
    /\ sem' = IF sync THEN sem + 1 ELSE sem
    /\ wg' = [wg EXCEPT ![pr.record + 1] = IF sync THEN "waiting" ELSE "none"]
    /\ pr' = [pr EXCEPT !.record = @ + 1, !.left = len, !.sync = sync]
    /\ ppc' = "emit"
    /\ UNCHANGED <<flusherVars, slots, head, tail, blocked, fileVars, blockVars, wErr>>

\* emitFragment: as much of the record as the current block has room for becomes
\* visible at once; a full block goes to queueBlock.
EmitFragment ==
    /\ ppc = "emit"
    /\ LET room == blockStart + BlockSize - emitted
           r == IF pr.left <= room THEN pr.left ELSE room
       IN  /\ emitted' = emitted + r
           /\ pr' = [pr EXCEPT !.left = @ - r, !.ends = IF pr.left = r THEN Append(@, emitted + r) ELSE @]
           /\ ppc' = IF r = room THEN "queue" ELSE "push"
    /\ UNCHANGED <<flusherVars, queueVars, fileVars, blockStart, flushed, wErr>>

WholeBlock == blockStart     \* mutant
QueuedFrom == flushed

\* queueBlock, under flusher.Mutex: the block goes to pending with the part of
\* it that is not flushed, and the writer learns of a flush error.
QueueBlock ==
    /\ ppc = "queue"
    /\ mutex = "none"
    /\ pending' = Append(pending, Interval(QueuedFrom, emitted))
    /\ blockStart' = emitted
    /\ flushed' = emitted
    /\ Signal
    /\ wErr' = fErr
    /\ ppc' = IF pr.left > 0 THEN "emit" ELSE "push"
    /\ UNCHANGED <<mutex, listed, timer, ringing, closing, fErr, fpc, fl, queueVars, fileVars, emitted, pr>>

\* syncQueue.push (panic when full); then the Signal.
Push ==
    /\ ppc = "push"
    /\ IF ~pr.sync THEN /\ ppc' = "idle"
                        /\ UNCHANGED <<slots, head>>
       ELSE IF QueueFull THEN /\ ppc' = "panic"
                              /\ UNCHANGED <<slots, head>>
       ELSE /\ slots' = [slots EXCEPT ![SlotOf(head)] = pr.record]
            /\ head' = head + 1
            /\ ppc' = "signal"
    /\ UNCHANGED <<flusherVars, tail, blocked, sem, wg, fileVars, blockVars, pr, wErr>>

SignalPush ==
    /\ ppc = "signal"
    /\ Signal
    /\ ppc' = "idle"
    /\ UNCHANGED <<pending, mutex, listed, timer, ringing, closing, fErr, fpc, fl, queueVars, fileVars, blockVars, pr, wErr>>

\* Close: tell the flush loop to stop, wait for it, sync what is not synced.
CloseBegin ==
    /\ ppc = "idle"
    /\ mutex = "none"
    /\ closing' = TRUE
    /\ Signal
    /\ ppc' = "closing"
    /\ UNCHANGED <<pending, mutex, listed, timer, ringing, fErr, fpc, fl, queueVars, fileVars, blockVars, pr, wErr>>

NotSynced == durable     \* mutant
SyncedByClose == Len(file)

CloseSync(ok) ==
    /\ ppc = "closing"
    /\ fpc = "exited"
    /\ ok \/ MayFail
    /\ durable' = IF ~fErr /\ ok THEN SyncedByClose ELSE durable
    /\ ppc' = IF ~fErr /\ ok THEN "closed" ELSE "failed"
    /\ wErr' = TRUE
    /\ UNCHANGED <<flusherVars, queueVars, file, blockVars, pr>>

-----------------------------------------------------------------------------
(* The timer armed after a sync: clearBlocked, then Signal                 *)
TimerFires ==
    /\ timer
    /\ timer' = FALSE
    /\ ringing' = ringing + 1
    /\ blocked' = FALSE
    /\ UNCHANGED <<pending, mutex, listed, notified, closing, fErr, fpc, fl, slots, head, tail, sem, wg, fileVars, blockVars, producerVars>>

TimerSignals ==
    /\ ringing > 0
    /\ ringing' = ringing - 1
    /\ Signal
    /\ UNCHANGED <<pending, mutex, listed, timer, closing, fErr, fpc, fl, queueVars, fileVars, blockVars, producerVars>>

-----------------------------------------------------------------------------
(* flushLoop                                                               *)

\* The inner loop reads block.written, then looks for work.
LoadWritten ==
    /\ fpc = "load"
    /\ fl' = [fl EXCEPT !.written = emitted]
    /\ fpc' = "test"
    /\ UNCHANGED <<pending, mutex, listed, notified, timer, ringing, closing, fErr, queueVars, fileVars, blockVars, producerVars>>

HasWork == pending # << >> \/ fl.written > flushed \/ ~SyncQEmpty

FindWork ==
    /\ fpc = "test"
    /\ HasWork
    /\ fpc' = "grab"
    /\ UNCHANGED <<pending, mutex, listed, notified, timer, ringing, closing, fErr, fl, queueVars, fileVars, blockVars, producerVars>>

\* Close ends the blocking of syncs and the loop once nothing is left.
FindClosed ==
    /\ fpc = "test"
    /\ ~HasWork
    /\ closing
    /\ blocked' = FALSE
    /\ IF head # tail
       THEN /\ fpc' = "grab"
            /\ UNCHANGED <<mutex, timer>>
       ELSE /\ fpc' = "exited"
            /\ mutex' = "none"
            /\ timer' = FALSE
    /\ UNCHANGED <<pending, listed, notified, ringing, closing, fErr, fl, slots, head, tail, sem, wg, fileVars, blockVars, producerVars>>

\* Nothing to do: the loop calls cond.Wait.
FindNothing ==
    /\ fpc = "test"
    /\ ~HasWork
    /\ ~closing
    /\ fpc' = "wait"
    /\ UNCHANGED <<pending, mutex, listed, notified, timer, ringing, closing, fErr, fl, queueVars, fileVars, blockVars, producerVars>>

\* cond.Wait: become a waiter, then flusherCond.Unlock, which releases the
\* mutex and signals if the queue is not empty, then park and lock again.
Wait ==
    /\ fpc = "wait"
    /\ listed' = TRUE
    /\ notified' = FALSE
    /\ fpc' = "unlock"
    /\ UNCHANGED <<pending, mutex, timer, ringing, closing, fErr, fl, queueVars, fileVars, blockVars, producerVars>>

WaitUnlock ==
    /\ fpc = "unlock"
    /\ mutex' = "none"
    /\ fpc' = "recheck"
    /\ UNCHANGED <<pending, listed, notified, timer, ringing, closing, fErr, fl, queueVars, fileVars, blockVars, producerVars>>

Forgotten == FALSE     \* mutant
MissedPush == ~SyncQEmpty

WaitRecheck ==
    /\ fpc = "recheck"
    /\ notified' = (notified \/ MissedPush)
    /\ fpc' = "parked"
    /\ UNCHANGED <<pending, mutex, listed, timer, ringing, closing, fErr, fl, queueVars, fileVars, blockVars, producerVars>>

Wake ==
    /\ fpc = "parked"
    /\ notified
    /\ mutex = "none"
    /\ mutex' = "flusher"
    /\ listed' = FALSE
    /\ notified' = FALSE
    /\ fpc' = "load"
    /\ UNCHANGED <<pending, timer, ringing, closing, fErr, fl, queueVars, fileVars, blockVars, producerVars>>

\* Take the pending blocks and the sync requests ...
Grab ==
    /\ fpc = "grab"
    /\ fl' = [fl EXCEPT !.pending = pending, !.head = LoadedHead, !.tail = LoadedTail]
    /\ pending' = << >>
    /\ fpc' = "grab data"
    /\ UNCHANGED <<mutex, listed, notified, timer, ringing, closing, fErr, queueVars, fileVars, blockVars, producerVars>>

WrittenBefore == fl.written     \* mutant
WrittenNow == emitted

\* ... and after them the data of the current block.  With an earlier error
\* the requests are answered at once; otherwise flushPending runs unlocked.
GrabData ==
    /\ fpc = "grab data"
    /\ flushed' = WrittenNow
    /\ fl' = [fl EXCEPT !.data = Interval(flushed, WrittenNow), !.err = fErr,
                          !.synced = fl.head # fl.tail]
    /\ IF fErr THEN /\ fpc' = "pop"
                    /\ UNCHANGED mutex
       ELSE /\ fpc' = "write"
            /\ mutex' = "none"
    /\ UNCHANGED <<pending, listed, notified, timer, ringing, closing, fErr, queueVars, fileVars, emitted, blockStart, producerVars>>

\* flushPending writes the pending blocks, one call of flushBlock each, then
\* the data of the current block; an error ends the writing.
ToWrite == IF fl.pending # << >> THEN Head(fl.pending) ELSE fl.data

WriteBlock ==
    /\ fpc = "write"
    /\ file' = file \o ToWrite
    /\ fl' = IF fl.pending # << >> THEN [fl EXCEPT !.pending = Tail(@)] ELSE [fl EXCEPT !.data = << >>]
    /\ fpc' = IF fl.pending # << >> THEN "write" ELSE "sync"
    /\ UNCHANGED <<pending, mutex, listed, notified, timer, ringing, closing, fErr, queueVars, durable, blockVars, producerVars>>

WriteFails ==
    /\ MayFail
    /\ fpc = "write"
    /\ ToWrite # << >>
    /\ \E n \in 0 .. Len(ToWrite) : file' = file \o SubSeq(ToWrite, 1, n)
    /\ fl' = [fl EXCEPT !.pending = << >>, !.data = << >>, !.err = TRUE]
    /\ fpc' = "sync"
    /\ UNCHANGED <<pending, mutex, listed, notified, timer, ringing, closing, fErr, queueVars, durable, blockVars, producerVars>>

\* Sync if requests were taken and the writes succeeded.
Sync(ok) ==
    /\ fpc = "sync"
    /\ ok \/ MayFail
    /\ LET syncs == fl.head # fl.tail /\ ~fl.err
       IN  /\ durable' = IF syncs /\ ok THEN Len(file) ELSE durable
           /\ fl' = [fl EXCEPT !.err = @ \/ (syncs /\ ~ok)]
           /\ fpc' = IF fl.head # fl.tail THEN "pop" ELSE "relock"
           /\ syncs \/ ok
    /\ UNCHANGED <<pending, mutex, listed, notified, timer, ringing, closing, fErr, queueVars, file, blockVars, producerVars>>

\* syncQueue.pop, one request: its slot is freed and the tail moved, then its
\* wait group and, after it, its place in queueSemChan.
PopSlot ==
    /\ fpc = "pop"
    /\ fl.tail # fl.head
    /\ LET r == slots[SlotOf(fl.tail)]
       IN  IF r = NoRecord
           THEN /\ fl' = [fl EXCEPT !.err = TRUE]
                /\ fpc' = "nil waiter"
                /\ UNCHANGED <<slots, tail>>
           ELSE /\ fl' = [fl EXCEPT !.tail = @ + 1, !.popped = r]
                /\ slots' = [slots EXCEPT ![SlotOf(fl.tail)] = NoRecord]
                /\ tail' = tail + 1
                /\ fpc' = "done"
    /\ UNCHANGED <<pending, mutex, listed, notified, timer, ringing, closing, fErr, head, blocked, sem, wg, fileVars, blockVars, producerVars>>

PopResult == IF fl.err THEN "error" ELSE "done"

PopDone ==
    /\ fpc = "done"
    /\ wg' = [wg EXCEPT ![fl.popped] = PopResult]
    /\ sem' = sem - 1
    /\ fpc' = "pop"
    /\ UNCHANGED <<pending, mutex, listed, notified, timer, ringing, closing, fErr, fl, slots, head, tail, blocked, fileVars, blockVars, producerVars>>

\* All requests are answered: flushPending returns, or the error path goes on.
PopEnd ==
    /\ fpc = "pop"
    /\ fl.tail = fl.head
    /\ fpc' = IF mutex = "flusher" THEN "load" ELSE "relock"
    /\ UNCHANGED <<pending, mutex, listed, notified, timer, ringing, closing, fErr, fl, queueVars, fileVars, blockVars, producerVars>>

KeptError == fl.err

\* Lock again and keep the error; after a sync, block syncing and arm the timer.
Relock ==
    /\ fpc = "relock"
    /\ mutex = "none"
    /\ mutex' = "flusher"
    /\ fErr' = KeptError
    /\ IF fl.err THEN /\ blocked' = FALSE
                      /\ UNCHANGED timer
       ELSE IF fl.synced /\ MinSync THEN /\ blocked' = TRUE
                                         /\ timer' = TRUE
       ELSE UNCHANGED <<blocked, timer>>
    /\ fpc' = "load"
    /\ UNCHANGED <<pending, listed, notified, ringing, closing, fl, slots, head, tail, sem, wg, fileVars, blockVars, producerVars>>

-----------------------------------------------------------------------------
\* Close returned: the writer is gone.
Closed == ppc \in {"closed", "failed"} /\ UNCHANGED vars

Producer ==
    \/ \E len \in 1 .. MaxLen, sync \in BOOLEAN : SyncRecord(len, sync)
    \/ EmitFragment \/ QueueBlock \/ Push \/ SignalPush \/ CloseBegin
    \/ \E ok \in BOOLEAN : CloseSync(ok)

FlushLoop ==
    \/ LoadWritten \/ FindWork \/ FindClosed \/ FindNothing
    \/ Wait \/ WaitUnlock \/ WaitRecheck \/ Wake
    \/ Grab \/ GrabData \/ WriteBlock \/ WriteFails
    \/ \E ok \in BOOLEAN : Sync(ok)
    \/ PopSlot \/ PopDone \/ PopEnd \/ Relock

Timer == TimerFires \/ TimerSignals

Next == Producer \/ FlushLoop \/ Timer \/ Closed

Spec == Init /\ [][Next]_vars

\* The flush loop is scheduled and its calls return, the timer fires, and a
\* producer inside SyncRecord or Close goes on.  No new record need arrive and
\* Close need not be called.
Fairness ==
    /\ WF_vars(FlushLoop)
    /\ WF_vars(TimerFires) /\ WF_vars(TimerSignals)
    /\ WF_vars(EmitFragment) /\ SF_vars(QueueBlock) /\ WF_vars(Push) /\ WF_vars(SignalPush)
    /\ WF_vars(CloseSync(TRUE))
FairSpec == Spec /\ Fairness

-----------------------------------------------------------------------------
BytesOK ==
    /\ emitted \in Nat /\ blockStart \in Nat /\ flushed \in Nat
    /\ pending \in Seq(Seq(Nat))
    /\ file \in Seq(Nat) /\ durable \in Nat
RequestsOK ==
    /\ slots \in [0 .. Slots - 1 -> Records \cup {NoRecord}]
    /\ head \in Nat /\ tail \in Nat /\ sem \in Nat
    /\ wg \in [Records -> {"none", "waiting", "done", "error"}]
LocalsOK ==
    /\ fl \in [pending : Seq(Seq(Nat)), head : Nat, tail : Nat, data : Seq(Nat), err : BOOLEAN,
               synced : BOOLEAN, written : Nat, popped : Records \cup {NoRecord}]
    /\ pr \in [record : 0 .. MaxRecords, left : Nat, sync : BOOLEAN, ends : Seq(Nat)]
ControlOK ==
    /\ fpc \in {"load", "test", "wait", "unlock", "recheck", "parked", "grab", "grab data", "write", "sync",
                "pop", "done", "nil waiter", "relock", "exited"}
    /\ ppc \in {"idle", "emit", "queue", "push", "signal", "panic", "closing", "closed", "failed"}
    /\ mutex \in {"none", "flusher"}
    /\ ringing \in Nat
    /\ {listed, notified, timer, closing, blocked, fErr, wErr} \subseteq BOOLEAN
TypeOK == BytesOK /\ RequestsOK /\ LocalsOK /\ ControlOK

-----------------------------------------------------------------------------
(* Why the properties below hold.                                          *)

\* The producer: its record ends in the current block or before it.
ProducerInv ==
    /\ blockStart <= flushed /\ flushed <= emitted /\ emitted <= blockStart + BlockSize
    /\ Len(pr.ends) = IF pr.left > 0 THEN pr.record - 1 ELSE pr.record
    /\ \A r \in 1 .. Len(pr.ends) : pr.ends[r] <= emitted
    /\ ppc = "emit" => pr.left > 0
    /\ pr.left > 0 => ppc \in {"emit", "queue"}
    /\ ppc \in {"emit", "queue", "push"} => pr.record > 0

\* The blocks of q are the bytes from + 1 .. to, in order.
Chain(q, from, to) ==
    \E c \in [0 .. Len(q) -> from .. to] :
       /\ c[0] = from /\ c[Len(q)] = to
       /\ \A i, j \in 0 .. Len(q) : i <= j => c[i] <= c[j]
       /\ \A i \in 1 .. Len(q) : q[i] = Interval(c[i - 1], c[i])

\* The requests that the flush loop took concern the first n bytes only.
TakenEndBy(n) == \A i \in fl.tail .. fl.head - 1 : pr.ends[slots[SlotOf(i)]] <= n

\* The flush loop: what is not in the file is with it, pending or in the
\* current block; what it took of the queue is written, then synced.
ErrorInv ==
    /\ fErr => fl.err
    /\ fl.err /\ ~fErr => fpc \in {"sync", "pop", "done", "relock"}
    /\ fpc = "write" => ~fl.err
    /\ mutex = "flusher" /\ fpc \in {"write", "sync", "pop", "done", "relock"} => fErr

WritingInv == fpc = "write" =>
    \E x, y \in 0 .. flushed :
       /\ Chain(fl.pending, Len(file), x)
       /\ x <= y /\ fl.data = Interval(x, y)
       /\ Chain(pending, y, flushed)
       /\ TakenEndBy(y)

WrittenInv == ~fl.err =>
    /\ fpc = "grab data" => pending = << >> /\ Chain(fl.pending, Len(file), flushed)
    /\ fpc \notin {"grab data", "write"} => Chain(pending, Len(file), flushed)

AnswerInv == ~fl.err =>
    /\ fpc = "sync" => TakenEndBy(Len(file))
    /\ fpc \in {"pop", "done"} => TakenEndBy(durable)
    /\ fpc = "done" => pr.ends[fl.popped] <= durable

DurableInv == durable <= Len(file)

FlushInv == ErrorInv /\ WritingInv /\ WrittenInv /\ AnswerInv /\ DurableInv

\* The sync queue: every position holds a record that was written, and every
\* request has its place in queueSemChan until it is answered.
PositionsInv == tail <= head /\ \A i \in tail .. head - 1 : slots[SlotOf(i)] \in 1 .. Len(pr.ends)

Requesting == pr.sync /\ ppc \in {"emit", "queue", "push"}

SemInv ==
    /\ sem = (head - tail) + (IF fpc = "done" THEN 1 ELSE 0) + (IF Requesting THEN 1 ELSE 0)
    /\ sem <= SemCapacity
    /\ ppc # "panic"

Taking == {"grab data", "write", "sync", "pop", "done"}

TakenInv ==
    /\ fpc \in Taking /\ fl.head # fl.tail => fl.tail = tail /\ tail < fl.head /\ fl.head <= head
    /\ fpc = "done" => fl.popped \in 1 .. Len(pr.ends)
    /\ fpc # "nil waiter"

WaitingInv == \A r \in Records : wg[r] = "waiting" =>
    \/ Requesting /\ r = pr.record
    \/ \E i \in tail .. head - 1 : slots[SlotOf(i)] = r
    \/ fpc = "done" /\ fl.popped = r

QueueInv == PositionsInv /\ SemInv /\ TakenInv /\ WaitingInv

\* Close waits for the flush loop, which leaves only with nothing to do.
CloseInv ==
    /\ fpc \in {"load", "test", "wait", "unlock", "grab", "grab data"} => mutex = "flusher"
    /\ closing <=> ppc \in {"closing", "closed", "failed"}
    /\ closing /\ fpc = "test" => fl.written = emitted
    /\ fpc = "exited" => closing /\ head = tail /\ (~fErr => Len(file) = emitted)
    /\ ppc \in {"closed", "failed"} => fpc = "exited"

-----------------------------------------------------------------------------
\* SyncRecord: "any record written to the LogWriter to this point will be
\* flushed to the OS and synced to disk".  A wait group is released without an
\* error only when its record and all before it are durable, whatever the
\* producer does while the flush loop gathers its work.
SyncedWhenDone ==
    \A r \in Records : wg[r] = "done" => r <= Len(pr.ends) /\ pr.ends[r] <= durable

\* Blocks and partial blocks reach the file in the order of their bytes,
\* none twice and none left out, also after a failed write.
FileInOrder == \A i \in 1 .. Len(file) : file[i] = i

\* Close returns nil only when everything written is durable and every wait
\* group was released.
CloseLosesNothing ==
    ppc = "closed" => durable = emitted /\ \A r \in Records : wg[r] # "waiting"

\* No byte is between the block and the file without an owner, no request
\* between the producer and its answer, and the queue never overflows.
LogWriterInv == TypeOK /\ ProducerInv /\ FlushInv /\ QueueInv /\ CloseInv

\* No wakeup is lost: every sync request is eventually answered, with a push
\* racing the flush loop on its way to sleep, blocked syncs and errors.
EveryRequestAnswered ==
    (\E r \in Records : wg[r] = "waiting") ~> (\A r \in Records : wg[r] # "waiting")
=============================================================================
