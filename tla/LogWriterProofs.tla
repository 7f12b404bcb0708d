-------------------------- MODULE LogWriterProofs --------------------------
(***************************************************************************)
(* Proofs about LogWriter for any block size, queue size and number and    *)
(* length of records.  The inductive invariant is LogWriterInv with the    *)
(* three properties; one lemma per conjunct says that every step keeps it. *)
(***************************************************************************)
EXTENDS LogWriter, SequenceTheorems, TLAPS

-----------------------------------------------------------------------------
(* Slots of the ring and intervals of bytes                                *)
LEMMA SlotOfType == \A i \in Nat : SlotOf(i) \in 0 .. Slots - 1
  BY LogWriterAssumption DEF SlotOf

\* Positions less than a lap apart have different slots.
LEMMA SlotOfInjective ==
    ASSUME NEW i \in Nat, NEW j \in Nat, i < j, j - i < Slots
    PROVE  SlotOf(i) # SlotOf(j)
<1> DEFINE qi == i \div Slots
           qj == j \div Slots
<1>0. Slots \in Nat \ {0}
  BY LogWriterAssumption
<1>1. i = Slots * qi + SlotOf(i) /\ qi \in Int
  BY <1>0 DEF SlotOf
<1>2. j = Slots * qj + SlotOf(j) /\ qj \in Int
  BY <1>0 DEF SlotOf
<1>3. SUFFICES ASSUME SlotOf(i) = SlotOf(j) PROVE FALSE
  OBVIOUS
<1> HIDE DEF qi, qj
<1>4. j - i = Slots * (qj - qi)
  BY <1>0, <1>1, <1>2, <1>3, SlotOfType
<1>5. qj - qi >= 1 \/ qj - qi <= 0
  BY <1>1, <1>2
<1>6. CASE qj - qi >= 1
  <2>1. Slots * (qj - qi) >= Slots
    BY <1>0, <1>1, <1>2, <1>6
  <2> QED BY <1>0, <1>4, <2>1
<1>7. CASE qj - qi <= 0
  <2>1. Slots * (qj - qi) <= 0
    BY <1>0, <1>1, <1>2, <1>7
  <2> QED BY <1>4, <2>1
<1> QED BY <1>5, <1>6, <1>7

LEMMA IntervalType ==
    ASSUME NEW a \in Nat, NEW b \in Nat, a <= b
    PROVE  /\ Interval(a, b) \in Seq(Nat) /\ Len(Interval(a, b)) = b - a
           /\ \A i \in 1 .. b - a : Interval(a, b)[i] = a + i
<1>1. b - a \in Nat
  OBVIOUS
<1> QED BY <1>1 DEF Interval

LEMMA ChainBounds ==
    ASSUME NEW q \in Seq(Seq(Nat)), NEW a \in Nat, NEW b \in Nat, Chain(q, a, b)
    PROVE  a <= b
<1>1. PICK c \in [0 .. Len(q) -> a .. b] : c[0] = a
  BY DEF Chain
<1>2. 0 \in 0 .. Len(q)
  OBVIOUS
<1> QED BY <1>1, <1>2

LEMMA ChainEmpty ==
    ASSUME NEW a \in Nat, NEW b \in Nat
    PROVE  Chain(<< >>, a, b) <=> a = b
<1>0. Len(<< >>) = 0
  OBVIOUS
<1>1. ASSUME Chain(<< >>, a, b) PROVE a = b
  BY <1>0, <1>1 DEF Chain
<1>2. ASSUME a = b PROVE Chain(<< >>, a, b)
  <2> DEFINE c == [i \in 0 .. 0 |-> a]
  <2>1. c \in [0 .. Len(<< >>) -> a .. b] /\ c[0] = a
    BY <1>0, <1>2
  <2> HIDE DEF c
  <2> QED BY <1>0, <1>2, <2>1 DEF Chain
<1> QED BY <1>1, <1>2

LEMMA ChainAppend ==
    ASSUME NEW q \in Seq(Seq(Nat)), NEW a \in Nat, NEW b \in Nat, NEW d \in Nat, Chain(q, a, b), b <= d
    PROVE  Chain(Append(q, Interval(b, d)), a, d)
<1> DEFINE n == Len(q)
           Q == Append(q, Interval(b, d))
<1>1. PICK c \in [0 .. n -> a .. b] :
         /\ c[0] = a /\ c[n] = b
         /\ \A i, j \in 0 .. n : i <= j => c[i] <= c[j]
         /\ \A i \in 1 .. n : q[i] = Interval(c[i - 1], c[i])
  BY DEF Chain
<1>2. n \in Nat /\ Len(Q) = n + 1 /\ Q[n + 1] = Interval(b, d) /\ \A i \in 1 .. n : Q[i] = q[i]
  OBVIOUS
<1> HIDE DEF Q, n
<1> DEFINE e == [i \in 0 .. n + 1 |-> IF i = n + 1 THEN d ELSE c[i]]
<1>3. \A i \in 0 .. n : i \in 0 .. n + 1 /\ i # n + 1 /\ e[i] = c[i] /\ c[i] \in a .. b
  BY <1>1, <1>2
<1>4. e[n + 1] = d /\ a <= b
  BY <1>1, <1>2
<1>5. e \in [0 .. Len(Q) -> a .. d]
  BY <1>1, <1>2, <1>3
<1>6. ASSUME NEW i \in 1 .. Len(Q)
      PROVE  Q[i] = Interval(e[i - 1], e[i])
  <2>1. CASE i = n + 1
    BY <1>1, <1>2, <1>3, <1>4, <2>1
  <2>2. CASE i \in 1 .. n
    <3>1. i - 1 \in 0 .. n /\ i \in 0 .. n
      BY <1>2, <2>2
    <3>2. e[i - 1] = c[i - 1] /\ e[i] = c[i]
      BY <1>3, <3>1
    <3> HIDE DEF e
    <3> QED BY <1>1, <1>2, <2>2, <3>2
  <2> QED BY <1>2, <2>1, <2>2
<1>7. \A i, j \in 0 .. Len(Q) : i <= j => e[i] <= e[j]
  BY <1>1, <1>2, <1>3, <1>4
<1>8. e[0] = a
  BY <1>1, <1>2, <1>3
<1> HIDE DEF e
<1>9. Chain(Q, a, d)
  BY Zenon, <1>2, <1>4, <1>5, <1>6, <1>7, <1>8 DEF Chain
<1> QED BY <1>9 DEF Q

LEMMA ChainTail ==
    ASSUME NEW q \in Seq(Seq(Nat)), NEW a \in Nat, NEW d \in Nat, Chain(q, a, d), q # << >>
    PROVE  \E b \in Nat : a <= b /\ b <= d /\ Head(q) = Interval(a, b) /\ Chain(Tail(q), b, d)
<1> DEFINE n == Len(q)
           Q == Tail(q)
<1>1. PICK c \in [0 .. n -> a .. d] :
         /\ c[0] = a /\ c[n] = d
         /\ \A i, j \in 0 .. n : i <= j => c[i] <= c[j]
         /\ \A i \in 1 .. n : q[i] = Interval(c[i - 1], c[i])
  BY Zenon DEF Chain
<1>2. /\ n \in Nat /\ n >= 1 /\ Len(Q) = n - 1 /\ Head(q) = q[1]
      /\ \A i \in 1 .. n - 1 : Q[i] = q[i + 1]
  BY EmptySeq
<1> HIDE DEF Q, n
<1> DEFINE e == [i \in 0 .. n - 1 |-> c[i + 1]]
<1>3. c[1] \in Nat /\ a <= c[1] /\ c[1] <= d /\ Head(q) = Interval(a, c[1])
  BY <1>1, <1>2
<1>4. \A i \in 0 .. n - 1 : i + 1 \in 0 .. n /\ e[i] = c[i + 1] /\ c[i + 1] \in c[1] .. d
  BY <1>1, <1>2
<1>5. e \in [0 .. Len(Q) -> c[1] .. d] /\ e[0] = c[1] /\ e[Len(Q)] = d
  BY <1>1, <1>2, <1>4
<1>6. \A i, j \in 0 .. Len(Q) : i <= j => e[i] <= e[j]
  BY <1>1, <1>2, <1>4
<1>7. ASSUME NEW i \in 1 .. Len(Q)
      PROVE  Q[i] = Interval(e[i - 1], e[i])
  <2>1. i - 1 \in 0 .. n - 1 /\ i \in 0 .. n - 1 /\ i + 1 \in 1 .. n
    BY <1>2
  <2>2. e[i - 1] = c[i] /\ e[i] = c[i + 1]
    BY <1>4, <2>1
  <2> HIDE DEF e
  <2> QED BY <1>1, <1>2, <2>1, <2>2
<1> HIDE DEF e
<1>8. Chain(Q, c[1], d)
  BY Zenon, <1>5, <1>6, <1>7 DEF Chain
<1> QED BY <1>3, <1>8 DEF Q

-----------------------------------------------------------------------------
LEMMA ConstantsOK ==
    /\ MaxRecords \in Nat /\ MaxLen \in Nat
    /\ BlockSize \in Nat /\ BlockSize > 0 /\ Slots \in Nat /\ Slots > 0
  BY LogWriterAssumption

\* Which actions write which variables.
SyncRecords == \E len \in 1 .. MaxLen, sync \in BOOLEAN : SyncRecord(len, sync)
Syncs == \E ok \in BOOLEAN : Sync(ok)
CloseSyncs == \E ok \in BOOLEAN : CloseSync(ok)

Writers ==
    /\ UNCHANGED fl \/ LoadWritten \/ Grab \/ GrabData \/ WriteBlock \/ WriteFails \/ Syncs \/ PopSlot
    /\ UNCHANGED pr \/ SyncRecords \/ EmitFragment
    /\ UNCHANGED emitted \/ EmitFragment
    /\ UNCHANGED <<blockStart, flushed, pending>> \/ QueueBlock \/ Grab \/ GrabData
    /\ UNCHANGED file \/ WriteBlock \/ WriteFails
    /\ UNCHANGED durable \/ Syncs \/ CloseSyncs
    /\ UNCHANGED <<slots, head, tail>> \/ Push \/ PopSlot
    /\ UNCHANGED <<sem, wg>> \/ SyncRecords \/ PopDone
    /\ UNCHANGED <<fpc, mutex, fErr>> \/ FlushLoop
    /\ UNCHANGED closing \/ CloseBegin
    /\ UNCHANGED ppc \/ Producer

LEMMA NextWriters ==
    ASSUME [Next]_vars
    PROVE  Writers
<1> USE DEF Writers, flusherVars, queueVars, fileVars, blockVars, producerVars
<1>1. CASE SyncRecords
  BY Zenon, <1>1 DEF SyncRecords, SyncRecord, Producer
<1>2. CASE EmitFragment
  BY <1>2 DEF EmitFragment, Producer
<1>3. CASE QueueBlock
  BY <1>3 DEF QueueBlock, Producer
<1>4. CASE Push
  BY <1>4 DEF Push, Producer
<1>5. CASE SignalPush
  BY <1>5 DEF SignalPush, Producer
<1>6. CASE CloseBegin
  BY <1>6 DEF CloseBegin, Producer
<1>7. CASE CloseSyncs
  BY <1>7 DEF CloseSyncs, CloseSync, Producer
<1>8. CASE LoadWritten \/ FindWork \/ FindClosed \/ FindNothing
  BY <1>8 DEF LoadWritten, FindWork, FindClosed, FindNothing, FlushLoop
<1>9. CASE Wait \/ WaitUnlock \/ WaitRecheck \/ Wake
  BY <1>9 DEF Wait, WaitUnlock, WaitRecheck, Wake, FlushLoop
<1>10. CASE Grab \/ GrabData
  BY Zenon, <1>10 DEF Grab, GrabData, FlushLoop
<1>11. CASE WriteBlock \/ WriteFails
  BY Zenon, <1>11 DEF WriteBlock, WriteFails, FlushLoop
<1>12. CASE Syncs
  BY <1>12 DEF Syncs, Sync, FlushLoop
<1>13. CASE PopSlot
  BY Zenon, <1>13 DEF PopSlot, FlushLoop
<1>14. CASE PopDone \/ PopEnd \/ Relock
  BY <1>14 DEF PopDone, PopEnd, Relock, FlushLoop
<1>15. CASE TimerFires \/ TimerSignals
  BY <1>15 DEF TimerFires, TimerSignals
<1>16. CASE UNCHANGED vars
  BY <1>16 DEF vars
<1> QED BY Zenon, <1>1, <1>2, <1>3, <1>4, <1>5, <1>6, <1>7, <1>8, <1>9, <1>10, <1>11, <1>12, <1>13, <1>14, <1>15, <1>16
        DEF Next, Producer, FlushLoop, Timer, Closed, SyncRecords, Syncs, CloseSyncs

LEMMA NextLocals ==
    ASSUME TypeOK, ProducerInv, [Next]_vars
    PROVE  LocalsOK'
<1> USE ConstantsOK DEF TypeOK, LocalsOK
<1>0. << >> \in Seq(Nat) /\ << >> \in Seq(Seq(Nat)) /\ TRUE \in BOOLEAN
  OBVIOUS
<1>1. CASE LoadWritten
  BY Zenon, <1>1 DEF LoadWritten, producerVars, BytesOK
<1>2. CASE Grab
  <2>1. LoadedHead \in Nat /\ LoadedTail \in Nat
    BY DEF LoadedHead, LoadedTail, RequestsOK
  <2> QED BY Zenon, <1>2, <2>1 DEF Grab, producerVars, BytesOK
<1>3. CASE GrabData
  <2>1. Interval(flushed, WrittenNow) \in Seq(Nat)
    BY IntervalType DEF BytesOK, ProducerInv, WrittenNow
  <2>2. (fl.head # fl.tail) \in BOOLEAN /\ fErr \in BOOLEAN
    BY Zenon DEF ControlOK
  <2> QED BY Zenon, <1>3, <2>1, <2>2 DEF GrabData, producerVars
<1>4. CASE WriteBlock
  <2>1. CASE fl.pending # << >>
    <3>1. Tail(fl.pending) \in Seq(Seq(Nat))
      BY <2>1
    <3> QED BY Zenon, <1>4, <2>1, <3>1 DEF WriteBlock, producerVars
  <2>2. CASE fl.pending = << >>
    BY Zenon, <1>0, <1>4, <2>2 DEF WriteBlock, producerVars
  <2> QED BY <2>1, <2>2
<1>5. CASE WriteFails
  <2>1. fl' = [fl EXCEPT !.pending = << >>, !.data = << >>, !.err = TRUE] /\ pr' = pr
    BY <1>5 DEF WriteFails, producerVars
  <2> QED BY Zenon, <1>0, <2>1
<1>6. ASSUME NEW ok \in BOOLEAN, Sync(ok) PROVE LocalsOK'
  BY Zenon, <1>6 DEF Sync, producerVars
<1>7. CASE PopSlot
  <2>1. slots[SlotOf(fl.tail)] \in Records \cup {NoRecord}
    BY Zenon, SlotOfType DEF RequestsOK
  <2>2. fl.tail + 1 \in Nat
    OBVIOUS
  <2>3. CASE fl' = [fl EXCEPT !.err = TRUE] /\ pr' = pr
    BY Zenon, <1>0, <2>3
  <2>4. CASE fl' = [fl EXCEPT !.tail = @ + 1, !.popped = slots[SlotOf(fl.tail)]] /\ pr' = pr
    BY Zenon, <2>1, <2>2, <2>4
  <2> QED BY Zenon, <1>7, <2>3, <2>4 DEF PopSlot, producerVars
<1>8. ASSUME NEW len \in 1 .. MaxLen, NEW sync \in BOOLEAN, SyncRecord(len, sync)
      PROVE  LocalsOK'
  <2>1. pr.record + 1 \in 0 .. MaxRecords /\ len \in Nat
    BY <1>8 DEF SyncRecord
  <2>2. pr' = [pr EXCEPT !.record = @ + 1, !.left = len, !.sync = sync] /\ fl' = fl
    BY <1>8 DEF SyncRecord, flusherVars
  <2> QED BY Zenon, <2>1, <2>2
<1>9. CASE EmitFragment
  <2> DEFINE room == blockStart + BlockSize - emitted
             r == IF pr.left <= room THEN pr.left ELSE room
  <2>0. room \in Nat /\ pr.left \in Nat /\ pr.ends \in Seq(Nat) /\ emitted \in Nat
    BY DEF BytesOK, ProducerInv
  <2>1. r \in Nat /\ pr.left - r \in Nat /\ Append(pr.ends, emitted + r) \in Seq(Nat)
    BY <2>0
  <2>2. /\ pr' = [pr EXCEPT !.left = @ - r, !.ends = IF pr.left = r THEN Append(@, emitted + r) ELSE @]
        /\ fl' = fl
    BY <1>9 DEF EmitFragment, flusherVars
  <2> HIDE DEF r
  <2> QED BY Zenon, <2>1, <2>2
<1>10. CASE UNCHANGED <<fl, pr>>
  BY <1>10
<1> QED BY <1>1, <1>2, <1>3, <1>4, <1>5, <1>6, <1>7, <1>8, <1>9, <1>10, NextWriters DEF Writers, SyncRecords, Syncs

LEMMA NextBytes ==
    ASSUME TypeOK, ProducerInv, [Next]_vars
    PROVE  BytesOK'
<1> USE ConstantsOK DEF TypeOK, BytesOK
<1>1. CASE EmitFragment
  <2> DEFINE room == blockStart + BlockSize - emitted
  <2>1. room \in Nat /\ pr.left \in Nat
    BY DEF ProducerInv, LocalsOK
  <2>2. emitted' = emitted + (IF pr.left <= room THEN pr.left ELSE room)
    BY <1>1 DEF EmitFragment
  <2> HIDE DEF room
  <2>3. emitted' \in Nat
    BY <2>1, <2>2
  <2> QED BY <1>1, <2>3 DEF EmitFragment, flusherVars, fileVars
<1>2. CASE QueueBlock
  <2>1. Interval(QueuedFrom, emitted) \in Seq(Nat)
    BY IntervalType DEF ProducerInv, QueuedFrom
  <2> QED BY <1>2, <2>1 DEF QueueBlock, fileVars
<1>3. ASSUME NEW ok \in BOOLEAN, CloseSync(ok) PROVE BytesOK'
  BY <1>3 DEF CloseSync, SyncedByClose, flusherVars, blockVars
<1>4. CASE Grab
  <2>1. << >> \in Seq(Seq(Nat))
    OBVIOUS
  <2> QED BY Zenon, <1>4, <2>1 DEF Grab, fileVars, blockVars
<1>5. CASE GrabData
  BY Zenon, <1>5 DEF GrabData, WrittenNow, fileVars
<1>6. ASSUME NEW ok \in BOOLEAN, Sync(ok) PROVE BytesOK'
  BY <1>6 DEF Sync, blockVars
<1>7. ToWrite \in Seq(Nat)
  BY HeadTailProperties DEF ToWrite, LocalsOK
<1>8. CASE WriteBlock
  <2>1. file' \in Seq(Nat)
    BY <1>7, <1>8 DEF WriteBlock
  <2> QED BY <1>8, <2>1 DEF WriteBlock, blockVars
<1>9. CASE WriteFails
  <2>1. PICK n \in 0 .. Len(ToWrite) : file' = file \o SubSeq(ToWrite, 1, n)
    BY Zenon, <1>9 DEF WriteFails
  <2>2. SubSeq(ToWrite, 1, n) \in Seq(Nat)
    BY <1>7, <2>1
  <2>3. file' \in Seq(Nat)
    BY <2>1, <2>2
  <2> QED BY <1>9, <2>3 DEF WriteFails, blockVars
<1>10. CASE UNCHANGED <<emitted, blockStart, flushed, pending, file, durable>>
  BY <1>10
<1> QED BY <1>1, <1>2, <1>3, <1>4, <1>5, <1>6, <1>8, <1>9, <1>10, NextWriters DEF Writers, Syncs, CloseSyncs

LEMMA NextRequests ==
    ASSUME TypeOK, ProducerInv, QueueInv, [Next]_vars
    PROVE  RequestsOK'
<1> USE ConstantsOK DEF TypeOK, RequestsOK
<1>1. ASSUME NEW len \in 1 .. MaxLen, NEW sync \in BOOLEAN, SyncRecord(len, sync)
      PROVE  RequestsOK'
  <2>1. sem' \in Nat
    BY <1>1 DEF SyncRecord
  <2>2. wg' \in [Records -> {"none", "waiting", "done", "error"}]
    BY Zenon, <1>1 DEF SyncRecord
  <2> QED BY <1>1, <2>1, <2>2 DEF SyncRecord
<1>2. CASE Push
  <2>1. pr.record \in Records
    BY <1>2 DEF Push, LocalsOK, Records, ProducerInv
  <2>2. slots' = slots \/ slots' = [slots EXCEPT ![SlotOf(head)] = pr.record]
    BY <1>2 DEF Push
  <2>3. slots' \in [0 .. Slots - 1 -> Records \cup {NoRecord}]
    BY <2>1, <2>2
  <2>4. head' \in Nat
    BY <1>2 DEF Push
  <2> QED BY <1>2, <2>3, <2>4 DEF Push
<1>3. CASE PopSlot
  <2>1. slots' = slots \/ slots' = [slots EXCEPT ![SlotOf(fl.tail)] = NoRecord]
    BY Zenon, <1>3 DEF PopSlot
  <2>2. slots' \in [0 .. Slots - 1 -> Records \cup {NoRecord}]
    BY <2>1
  <2>3. tail' = tail \/ tail' = tail + 1
    BY Zenon, <1>3 DEF PopSlot
  <2>4. tail' \in Nat
    BY <2>3
  <2> QED BY Zenon, <1>3, <2>2, <2>4 DEF PopSlot
<1>4. CASE PopDone
  <2>1. sem' \in Nat
    BY <1>4 DEF PopDone, QueueInv, SemInv, PositionsInv
  <2>2. wg' \in [Records -> {"none", "waiting", "done", "error"}]
    BY Zenon, <1>4 DEF PopDone, PopResult
  <2> QED BY <1>4, <2>1, <2>2 DEF PopDone
<1>5. CASE UNCHANGED <<slots, head, tail, sem, wg>>
  BY <1>5
<1> QED BY <1>1, <1>2, <1>3, <1>4, <1>5, NextWriters DEF Writers, SyncRecords

LEMMA NextControl ==
    ASSUME TypeOK, [Next]_vars
    PROVE  ControlOK'
<1> USE DEF TypeOK
<1>1. CASE UNCHANGED vars \/ Closed
  BY Zenon, <1>1 DEF Closed, vars, flusherVars, queueVars, producerVars, ControlOK
<1>2. ASSUME NEW len \in 1 .. MaxLen, NEW sync \in BOOLEAN, SyncRecord(len, sync) PROVE ControlOK'
  BY Zenon, <1>2 DEF SyncRecord, flusherVars, ControlOK
<1>3. CASE EmitFragment \/ Push
  <2>1. ppc' \in {"queue", "push", "idle", "panic", "signal"}
    BY <1>3 DEF EmitFragment, Push
  <2> QED BY Zenon, <1>3, <2>1 DEF EmitFragment, Push, flusherVars, queueVars, ControlOK
<1>4. CASE QueueBlock \/ SignalPush \/ CloseBegin
  <2>1. ppc' \in {"emit", "push", "idle", "closing"}
    BY <1>4 DEF QueueBlock, SignalPush, CloseBegin
  <2>2. notified' \in BOOLEAN /\ closing' \in BOOLEAN /\ wErr' \in BOOLEAN
    BY Zenon, <1>4 DEF QueueBlock, SignalPush, CloseBegin, Signal, ControlOK
  <2> QED BY Zenon, <1>4, <2>1, <2>2 DEF QueueBlock, SignalPush, CloseBegin, queueVars, ControlOK
<1>5. ASSUME NEW ok \in BOOLEAN, CloseSync(ok) PROVE ControlOK'
  <2>1. ppc' \in {"closed", "failed"} /\ wErr' \in BOOLEAN
    BY <1>5 DEF CloseSync
  <2> QED BY <1>5, <2>1 DEF CloseSync, flusherVars, queueVars, ControlOK
<1>6. CASE TimerFires \/ TimerSignals
  <2>1. ringing \in Nat /\ (ringing' = ringing + 1 \/ (ringing > 0 /\ ringing' = ringing - 1))
    BY Zenon, <1>6 DEF TimerFires, TimerSignals, ControlOK
  <2>2. ringing' \in Nat
    BY <2>1
  <2>3. notified' \in BOOLEAN /\ timer' \in BOOLEAN /\ blocked' \in BOOLEAN
    BY Zenon, <1>6 DEF TimerFires, TimerSignals, Signal, queueVars, ControlOK
  <2> QED BY Zenon, <1>6, <2>2, <2>3 DEF TimerFires, TimerSignals, producerVars, ControlOK
<1>7. CASE LoadWritten \/ FindWork \/ FindNothing \/ Grab \/ PopEnd
  BY Zenon, <1>7 DEF LoadWritten, FindWork, FindNothing, Grab, PopEnd, queueVars, producerVars, ControlOK
<1>8. CASE WriteBlock \/ WriteFails \/ PopSlot \/ PopDone
  BY Zenon, <1>8 DEF WriteBlock, WriteFails, PopSlot, PopDone, queueVars, producerVars, ControlOK
<1>9. ASSUME NEW ok \in BOOLEAN, Sync(ok) PROVE ControlOK'
  BY <1>9 DEF Sync, queueVars, producerVars, ControlOK
<1>10. CASE Wait \/ WaitUnlock \/ WaitRecheck \/ Wake
  <2>1. fpc' \in {"unlock", "recheck", "parked", "load"} /\ mutex' \in {"none", "flusher"}
    BY Zenon, <1>10 DEF Wait, WaitUnlock, WaitRecheck, Wake, ControlOK
  <2>2. notified' \in BOOLEAN /\ listed' \in BOOLEAN
    BY Zenon, <1>10 DEF Wait, WaitUnlock, WaitRecheck, Wake, ControlOK
  <2> QED BY Zenon, <1>10, <2>1, <2>2 DEF Wait, WaitUnlock, WaitRecheck, Wake, queueVars, producerVars, ControlOK
<1>11. CASE FindClosed \/ GrabData \/ Relock
  <2>1. fpc' \in {"grab", "exited", "pop", "write", "load"} /\ mutex' \in {"none", "flusher"}
    BY Zenon, <1>11 DEF FindClosed, GrabData, Relock, ControlOK
  <2>2. timer' \in BOOLEAN /\ blocked' \in BOOLEAN /\ fErr' \in BOOLEAN
    BY Zenon, <1>11 DEF FindClosed, GrabData, Relock, KeptError, LocalsOK, queueVars, ControlOK
  <2> QED BY Zenon, <1>11, <2>1, <2>2 DEF FindClosed, GrabData, Relock, producerVars, ControlOK
<1> QED BY <1>1, <1>2, <1>3, <1>4, <1>5, <1>6, <1>7, <1>8, <1>9, <1>10, <1>11 DEF Next, Producer, FlushLoop, Timer

-----------------------------------------------------------------------------
(* The producer                                                            *)
LEMMA Emitted ==
    ASSUME TypeOK, ProducerInv, EmitFragment
    PROVE  /\ pr.left > 0 /\ pr.record > 0
           /\ \E r \in Nat :
                 /\ emitted' = emitted + r /\ emitted' <= blockStart + BlockSize
                 /\ r <= pr.left /\ pr'.left = pr.left - r
                 /\ pr'.record = pr.record /\ pr'.sync = pr.sync
                 /\ pr'.ends = IF pr.left = r THEN Append(pr.ends, emitted') ELSE pr.ends
                 /\ ppc' \in {"queue", "push"} /\ (r < pr.left => ppc' = "queue")
<1> USE ConstantsOK DEF TypeOK
<1> DEFINE room == blockStart + BlockSize - emitted
           r == IF pr.left <= room THEN pr.left ELSE room
<1>1. room \in Nat /\ pr.left \in Nat /\ emitted \in Nat /\ blockStart \in Nat
  BY DEF BytesOK, LocalsOK, ProducerInv
<1>2. /\ emitted' = emitted + r
      /\ pr' = [pr EXCEPT !.left = @ - r, !.ends = IF pr.left = r THEN Append(@, emitted + r) ELSE @]
      /\ ppc' = IF r = room THEN "queue" ELSE "push"
  BY DEF EmitFragment
<1>3. r \in Nat /\ r <= pr.left /\ r <= room /\ (r < pr.left => r = room)
  BY <1>1
<1>4. emitted + room = blockStart + BlockSize
  BY <1>1
<1>5. pr.left > 0 /\ pr.record > 0
  BY DEF EmitFragment, ProducerInv
<1> HIDE DEF room, r
<1>6. /\ pr'.left = pr.left - r /\ pr'.record = pr.record /\ pr'.sync = pr.sync
      /\ pr'.ends = IF pr.left = r THEN Append(pr.ends, emitted + r) ELSE pr.ends
  BY <1>2 DEF LocalsOK
<1>7. emitted' <= blockStart + BlockSize
  BY <1>1, <1>2, <1>3, <1>4
<1>8. ppc' \in {"queue", "push"} /\ (r < pr.left => ppc' = "queue")
  BY <1>2, <1>3
<1> QED BY <1>2, <1>3, <1>5, <1>6, <1>7, <1>8

\* What a step may change of the blocks and the producer.
LEMMA ProducerSteps ==
    ASSUME [Next]_vars
    PROVE  \/ \E len \in 1 .. MaxLen, sync \in BOOLEAN : SyncRecord(len, sync)
           \/ EmitFragment \/ QueueBlock \/ Push \/ GrabData
           \/ /\ SignalPush \/ CloseBegin \/ \E ok \in BOOLEAN : CloseSync(ok)
              /\ UNCHANGED <<emitted, blockStart, flushed, pr>>
           \/ UNCHANGED <<emitted, blockStart, flushed, ppc, pr>>
  BY Zenon DEF Next, Producer, FlushLoop, Timer, SignalPush, CloseBegin, CloseSync, TimerFires, TimerSignals, LoadWritten,
         FindWork, FindClosed, FindNothing, Wait, WaitUnlock, WaitRecheck, Wake, Grab, WriteBlock, WriteFails, Sync,
         PopSlot, PopDone, PopEnd, Relock, Closed, vars, blockVars, producerVars

\* Where a record ended is never changed.
EndsKept ==
    /\ Len(pr.ends) <= Len(pr'.ends)
    /\ \A r \in 1 .. Len(pr.ends) : pr'.ends[r] = pr.ends[r]

LEMMA NextEnds ==
    ASSUME TypeOK, ProducerInv, [Next]_vars
    PROVE  EndsKept /\ pr.ends \in Seq(Nat) /\ Len(pr.ends) \in Nat /\ emitted <= emitted'
<1> USE DEF TypeOK
<1>1. pr.ends \in Seq(Nat) /\ Len(pr.ends) \in Nat /\ emitted \in Nat
  BY DEF LocalsOK, BytesOK
<1>2. ASSUME NEW len \in 1 .. MaxLen, NEW sync \in BOOLEAN, SyncRecord(len, sync)
      PROVE  pr'.ends = pr.ends /\ emitted' = emitted
  BY <1>2 DEF SyncRecord, LocalsOK, blockVars
<1>3. CASE EmitFragment
  <2>1. pr'.ends = pr.ends \/ pr'.ends = Append(pr.ends, emitted')
    BY Zenon, <1>3, Emitted
  <2>2. emitted <= emitted'
    BY <1>1, <1>3, Emitted
  <2> QED BY <1>1, <2>1, <2>2 DEF EndsKept
<1>4. CASE pr'.ends = pr.ends /\ emitted' = emitted
  BY <1>1, <1>4 DEF EndsKept
<1>5. CASE QueueBlock \/ Push \/ GrabData
  BY Zenon, <1>4, <1>5 DEF QueueBlock, Push, GrabData, blockVars, producerVars
<1> QED BY <1>2, <1>3, <1>4, <1>5, ProducerSteps

LEMMA NextProducer ==
    ASSUME TypeOK, ProducerInv, QueueInv, [Next]_vars
    PROVE  ProducerInv'
<1> USE ConstantsOK DEF TypeOK
<1>0. /\ emitted \in Nat /\ blockStart \in Nat /\ flushed \in Nat
      /\ pr.ends \in Seq(Nat) /\ pr.left \in Nat /\ pr.record \in Nat
  BY DEF BytesOK, LocalsOK
<1>1. ASSUME NEW len \in 1 .. MaxLen, NEW sync \in BOOLEAN, SyncRecord(len, sync)
      PROVE  ProducerInv'
  <2>1. /\ pr'.record = pr.record + 1 /\ pr'.left = len /\ pr'.ends = pr.ends /\ ppc' = "emit"
        /\ UNCHANGED <<emitted, blockStart, flushed>>
    BY <1>1 DEF SyncRecord, LocalsOK, blockVars
  <2>2. pr.left = 0
    BY <1>0, <1>1 DEF SyncRecord, ProducerInv
  <2> QED BY <1>0, <2>1, <2>2 DEF ProducerInv
<1>2. CASE EmitFragment
  <2>1. PICK r \in Nat :
           /\ emitted' = emitted + r /\ emitted' <= blockStart + BlockSize
           /\ r <= pr.left /\ pr'.left = pr.left - r /\ pr'.record = pr.record
           /\ pr'.ends = IF pr.left = r THEN Append(pr.ends, emitted') ELSE pr.ends
           /\ ppc' \in {"queue", "push"} /\ (r < pr.left => ppc' = "queue")
    BY <1>2, Emitted
  <2>2. pr.left > 0 /\ pr.record > 0 /\ UNCHANGED <<blockStart, flushed>>
    BY <1>2, Emitted DEF EmitFragment
  <2>3. Len(pr.ends) = pr.record - 1 /\ blockStart <= flushed /\ flushed <= emitted
        /\ \A k \in 1 .. Len(pr.ends) : pr.ends[k] <= emitted /\ pr.ends[k] \in Nat
    BY <1>0, <2>2 DEF ProducerInv
  <2>4. CASE pr.left = r
    <3>1. Len(pr'.ends) = pr.record /\ pr'.left = 0 /\ pr'.record = pr.record
      BY <1>0, <2>1, <2>3, <2>4
    <3>2. \A k \in 1 .. Len(pr'.ends) : pr'.ends[k] <= emitted'
      BY <1>0, <2>1, <2>3, <2>4
    <3> QED BY <1>0, <2>1, <2>2, <2>3, <3>1, <3>2 DEF ProducerInv
  <2>5. CASE pr.left # r
    <3>1. pr'.ends = pr.ends /\ pr'.left > 0 /\ ppc' = "queue" /\ pr'.record = pr.record
      BY <1>0, <2>1, <2>5
    <3>2. \A k \in 1 .. Len(pr'.ends) : pr'.ends[k] <= emitted'
      BY <1>0, <2>1, <2>3, <3>1
    <3> QED BY <1>0, <2>1, <2>2, <2>3, <3>1, <3>2 DEF ProducerInv
  <2> QED BY <2>4, <2>5
<1>3. CASE QueueBlock
  <2>1. blockStart' = emitted /\ flushed' = emitted /\ emitted' = emitted /\ pr' = pr
        /\ ppc = "queue" /\ ppc' = IF pr.left > 0 THEN "emit" ELSE "push"
    BY <1>3 DEF QueueBlock
  <2> QED BY <1>0, <2>1 DEF ProducerInv
<1>4. CASE Push
  <2>1. pr' = pr /\ ppc = "push" /\ ppc' \in {"idle", "panic", "signal"} /\ UNCHANGED <<emitted, blockStart, flushed>>
    BY <1>4 DEF Push, blockVars
  <2> QED BY <1>0, <2>1 DEF ProducerInv
<1>5. CASE GrabData
  <2>1. flushed' = emitted /\ UNCHANGED <<emitted, blockStart, pr, ppc>>
    BY Zenon, <1>5 DEF GrabData, WrittenNow, producerVars
  <2> QED BY <1>0, <2>1 DEF ProducerInv
<1>6. CASE UNCHANGED <<emitted, blockStart, flushed, ppc, pr>>
  BY <1>6 DEF ProducerInv
<1>7. CASE /\ SignalPush \/ CloseBegin \/ \E ok \in BOOLEAN : CloseSync(ok)
           /\ UNCHANGED <<emitted, blockStart, flushed, pr>>
  <2>1. ppc \in {"signal", "idle", "closing"} /\ ppc' \in {"idle", "closing", "closed", "failed"}
    BY <1>7 DEF SignalPush, CloseBegin, CloseSync
  <2> QED BY <1>0, <1>7, <2>1 DEF ProducerInv
<1> QED BY <1>1, <1>2, <1>3, <1>4, <1>5, <1>6, <1>7, ProducerSteps

-----------------------------------------------------------------------------
(* The sync queue                                                          *)
\* The step neither pushes nor pops.
QueueKept ==
    /\ UNCHANGED <<slots, head, tail, sem, wg>>
    /\ pr'.record = pr.record /\ (Requesting' <=> Requesting)
    /\ ppc' # "panic" /\ fpc' # "nil waiter"
    /\ fpc' = "done" <=> fpc = "done"
    /\ fpc' \in Taking => fpc \in Taking
    /\ fl'.head = fl.head /\ fl'.tail = fl.tail /\ fl'.popped = fl.popped

LEMMA QueueFrame ==
    ASSUME TypeOK, QueueInv, QueueKept, EndsKept
    PROVE  QueueInv'
<1>1. Len(pr.ends) \in Nat /\ Len(pr.ends) <= Len(pr'.ends)
  BY DEF TypeOK, LocalsOK, EndsKept
<1>2. \A n \in 1 .. Len(pr.ends) : n \in 1 .. Len(pr'.ends)
  BY <1>1
<1>3. PositionsInv'
  BY Zenon, <1>2 DEF QueueInv, QueueKept, PositionsInv
<1>4. SemInv'
  BY Zenon DEF QueueInv, QueueKept, SemInv
<1>5. TakenInv'
  BY Zenon, <1>2 DEF QueueInv, QueueKept, TakenInv
<1>6. WaitingInv'
  BY Zenon DEF QueueInv, QueueKept, WaitingInv
<1> QED BY <1>3, <1>4, <1>5, <1>6 DEF QueueInv

\* Where the queue stands.
LEMMA QueueFacts ==
    ASSUME TypeOK, QueueInv
    PROVE  /\ head \in Nat /\ tail \in Nat /\ sem \in Nat /\ tail <= head
           /\ sem <= Slots - 1 /\ head - tail <= sem /\ (Requesting => head - tail < sem)
           /\ fl.head \in Nat /\ fl.tail \in Nat
           /\ pr.record \in Nat /\ pr.left \in Nat /\ pr.ends \in Seq(Nat)
<1>1. head \in Nat /\ tail \in Nat /\ sem \in Nat
  BY DEF TypeOK, RequestsOK
<1>2. tail <= head
  BY DEF QueueInv, PositionsInv
<1>3. sem <= Slots - 1 /\ head - tail <= sem /\ (Requesting => head - tail < sem)
  BY <1>1, <1>2 DEF QueueInv, SemInv, SemCapacity
<1>4. /\ fl.head \in Nat /\ fl.tail \in Nat
      /\ pr.record \in Nat /\ pr.left \in Nat /\ pr.ends \in Seq(Nat)
  BY ConstantsOK DEF TypeOK, LocalsOK
<1> QED BY <1>1, <1>2, <1>3, <1>4

LEMMA SyncRecordQueue ==
    ASSUME TypeOK, ProducerInv, QueueInv, NEW len \in 1 .. MaxLen, NEW sync \in BOOLEAN, SyncRecord(len, sync)
    PROVE  QueueInv'
<1>1. /\ UNCHANGED <<slots, head, tail, fpc, fl>> /\ ~Requesting /\ (Requesting' <=> sync)
      /\ pr'.record = pr.record + 1 /\ pr'.ends = pr.ends /\ ppc' # "panic"
  BY DEF SyncRecord, TypeOK, LocalsOK, flusherVars, Requesting
<1>2. pr.record + 1 \in Records
  BY ConstantsOK DEF SyncRecord, TypeOK, LocalsOK, Records
<1>3. (sync => sem < SemCapacity) /\ sem' = IF sync THEN sem + 1 ELSE sem
  BY DEF SyncRecord, SemFree
<1>4. \A r \in Records : wg'[r] = IF r = pr.record + 1 THEN IF sync THEN "waiting" ELSE "none" ELSE wg[r]
  BY DEF SyncRecord, TypeOK, RequestsOK
<1>5. WaitingInv'
  BY <1>1, <1>4 DEF QueueInv, WaitingInv
<1>6. SemInv'
  <2>1. sem = (head - tail) + (IF fpc = "done" THEN 1 ELSE 0)
    BY <1>1, QueueFacts DEF QueueInv, SemInv
  <2>2. sem <= SemCapacity /\ SemCapacity \in Int
    BY ConstantsOK DEF QueueInv, SemInv, SemCapacity
  <2>3. sem' = (head - tail) + (IF fpc = "done" THEN 1 ELSE 0) + (IF sync THEN 1 ELSE 0) /\ sem' <= SemCapacity
    BY <1>3, <2>1, <2>2, QueueFacts
  <2> QED BY <1>1, <2>3 DEF SemInv
<1>7. PositionsInv' /\ TakenInv'
  BY Zenon, <1>1 DEF QueueInv, PositionsInv, TakenInv
<1> QED BY <1>5, <1>6, <1>7 DEF QueueInv

\* A request that is pushed leaves those before it alone.
LEMMA Pushed ==
    ASSUME TypeOK, ProducerInv, QueueInv, Push
    PROVE  /\ \A i \in tail .. head - 1 : slots'[SlotOf(i)] = slots[SlotOf(i)]
           /\ pr.sync => /\ Requesting /\ ppc = "push"
                         /\ slots' = [slots EXCEPT ![SlotOf(head)] = pr.record] /\ head' = head + 1 /\ ppc' = "signal"
                         /\ UNCHANGED <<tail, sem, wg, pr, fl, fpc>>
<1>0. head \in Nat /\ tail \in Nat /\ sem \in Nat /\ tail <= head /\ Slots \in Nat
  BY QueueFacts, ConstantsOK
<1>1. CASE ~pr.sync
  BY <1>1 DEF Push
<1>2. CASE pr.sync
  <2>1. Requesting /\ ppc = "push"
    BY <1>2 DEF Push, Requesting
  <2>2. head - tail < Slots - 1
    BY <1>0, <2>1, QueueFacts
  <2>3. ~QueueFull
    BY <1>0, <2>2 DEF QueueFull
  <2>4. /\ slots' = [slots EXCEPT ![SlotOf(head)] = pr.record] /\ head' = head + 1 /\ ppc' = "signal"
        /\ UNCHANGED <<tail, sem, wg, pr, fl, fpc>>
    BY <1>2, <2>3 DEF Push, flusherVars
  <2>5. ASSUME NEW i \in tail .. head - 1 PROVE slots'[SlotOf(i)] = slots[SlotOf(i)]
    <3>1. i \in Nat /\ i < head /\ head - i < Slots
      BY <1>0, <2>2
    <3>2. SlotOf(i) # SlotOf(head)
      BY <1>0, <3>1, SlotOfInjective
    <3> QED BY <2>4, <3>1, <3>2, SlotOfType DEF TypeOK, RequestsOK
  <2> QED BY <2>1, <2>4, <2>5
<1> QED BY <1>1, <1>2

LEMMA PushQueue ==
    ASSUME TypeOK, ProducerInv, QueueInv, Push
    PROVE  QueueInv'
<1> USE ConstantsOK
<1>0. /\ head \in Nat /\ tail \in Nat /\ sem \in Nat /\ tail <= head /\ Slots \in Nat
      /\ pr.record \in Nat /\ pr.ends \in Seq(Nat)
  BY QueueFacts
<1>1. CASE ~pr.sync
  <2>1. UNCHANGED <<slots, head, tail, sem, wg, pr, fl, fpc>> /\ ppc' = "idle"
    BY <1>1 DEF Push, flusherVars
  <2>2. ~Requesting /\ ~Requesting'
    BY <1>1, <2>1 DEF Requesting
  <2>3. EndsKept
    BY <1>0, <2>1 DEF EndsKept
  <2> QED BY Zenon, <2>1, <2>2, <2>3, QueueFrame DEF QueueKept, QueueInv, TakenInv
<1>2. CASE pr.sync
  <2>1. Requesting /\ ppc = "push"
    BY <1>2, Pushed
  <2>4. /\ slots' = [slots EXCEPT ![SlotOf(head)] = pr.record] /\ head' = head + 1 /\ ppc' = "signal"
        /\ UNCHANGED <<tail, sem, wg, pr, fl, fpc>>
    BY <1>2, Pushed
  <2>5. ~Requesting'
    BY <2>4 DEF Requesting
  <2>6. pr.record \in 1 .. Len(pr.ends)
    <3>1. pr.record > 0 /\ pr.left = 0
      BY <2>1, QueueFacts DEF ProducerInv
    <3>2. Len(pr.ends) = pr.record
      BY <3>1 DEF ProducerInv
    <3> QED BY <1>0, <3>1, <3>2
  <2>7. slots'[SlotOf(head)] = pr.record
    BY <1>0, <2>4, SlotOfType DEF TypeOK, RequestsOK
  <2>8. \A i \in tail .. head - 1 : slots'[SlotOf(i)] = slots[SlotOf(i)]
    BY Pushed
  <2>9. head \in tail' .. head' - 1 /\ \A i \in tail .. head - 1 : i \in tail' .. head' - 1
    BY <1>0, <2>4
  <2>10. \A i \in tail' .. head' - 1 : i = head \/ i \in tail .. head - 1
    BY <1>0, <2>4
  <2>11. PositionsInv'
    <3>1. \A i \in tail .. head - 1 : slots'[SlotOf(i)] \in 1 .. Len(pr'.ends)
      BY <2>4, <2>8 DEF QueueInv, PositionsInv
    <3>2. slots'[SlotOf(head)] \in 1 .. Len(pr'.ends)
      BY <2>4, <2>6, <2>7
    <3>3. tail' <= head'
      BY <1>0, <2>4
    <3> QED BY <2>10, <3>1, <3>2, <3>3 DEF PositionsInv
  <2>12. SemInv'
    <3>1. sem = (head - tail) + (IF fpc = "done" THEN 1 ELSE 0) + 1 /\ sem <= SemCapacity
      BY <1>0, <2>1 DEF QueueInv, SemInv
    <3>2. sem' = (head' - tail') + (IF fpc' = "done" THEN 1 ELSE 0)
      BY <1>0, <2>4, <3>1
    <3> QED BY <1>0, <2>4, <2>5, <3>1, <3>2 DEF SemInv
  <2>13. TakenInv'
    <3>1. fl.head <= head => fl.head <= head'
      BY <1>0, <2>4, QueueFacts
    <3> QED BY Zenon, <2>4, <3>1 DEF QueueInv, TakenInv
  <2>14. WaitingInv'
    <3> SUFFICES ASSUME NEW r \in Records, wg[r] = "waiting", ~(fpc = "done" /\ fl.popped = r)
                 PROVE  \E i \in tail' .. head' - 1 : slots'[SlotOf(i)] = r
      BY <2>4 DEF WaitingInv
    <3>1. r = pr.record \/ \E i \in tail .. head - 1 : slots[SlotOf(i)] = r
      BY DEF QueueInv, WaitingInv
    <3>2. CASE r = pr.record
      BY <2>7, <2>9, <3>2
    <3>3. CASE \E i \in tail .. head - 1 : slots[SlotOf(i)] = r
      BY <2>8, <2>9, <3>3
    <3> QED BY <3>1, <3>2, <3>3
  <2> QED BY <2>11, <2>12, <2>13, <2>14 DEF QueueInv
<1> QED BY <1>1, <1>2

\* The request that pop answers next is there.
LEMMA Popped ==
    ASSUME TypeOK, QueueInv, PopSlot
    PROVE  /\ fpc = "pop" /\ fl.tail = tail /\ tail < fl.head /\ fl.head <= head
           /\ slots[SlotOf(tail)] \in 1 .. Len(pr.ends)
           /\ fl'.tail = tail + 1 /\ fl'.head = fl.head /\ fl'.popped = slots[SlotOf(tail)] /\ fl'.err = fl.err
           /\ slots' = [slots EXCEPT ![SlotOf(tail)] = NoRecord]
           /\ tail' = tail + 1 /\ fpc' = "done" /\ UNCHANGED <<head, sem, wg, pr, ppc, pending, flushed, file, durable>>
           /\ \A i \in tail + 1 .. head - 1 : slots'[SlotOf(i)] = slots[SlotOf(i)]
<1>0. head \in Nat /\ tail \in Nat /\ sem \in Nat /\ tail <= head /\ head - tail <= sem /\ sem <= Slots - 1 /\ Slots \in Nat
      /\ fl.head \in Nat
  BY QueueFacts, ConstantsOK
<1>1. fpc = "pop" /\ fl.tail = tail /\ tail < fl.head /\ fl.head <= head
  BY Zenon DEF PopSlot, QueueInv, TakenInv, Taking
<1>2. tail \in tail .. head - 1
  BY <1>0, <1>1
<1>3. slots[SlotOf(tail)] \in 1 .. Len(pr.ends)
  BY <1>2 DEF QueueInv, PositionsInv
<1>4. slots[SlotOf(tail)] # NoRecord
  BY <1>3 DEF NoRecord
<1>5. /\ fl' = [fl EXCEPT !.tail = @ + 1, !.popped = slots[SlotOf(tail)]]
      /\ slots' = [slots EXCEPT ![SlotOf(tail)] = NoRecord]
      /\ tail' = tail + 1 /\ fpc' = "done" /\ UNCHANGED <<head, sem, wg, pr, ppc, pending, flushed, file, durable>>
  BY <1>1, <1>4 DEF PopSlot, producerVars, fileVars, blockVars
<1>6. fl'.tail = tail + 1 /\ fl'.head = fl.head /\ fl'.popped = slots[SlotOf(tail)] /\ fl'.err = fl.err
  BY <1>1, <1>5 DEF TypeOK, LocalsOK
<1>7. ASSUME NEW i \in tail + 1 .. head - 1 PROVE slots'[SlotOf(i)] = slots[SlotOf(i)]
  <2>1. i \in Nat /\ tail < i /\ i - tail < Slots
    BY <1>0
  <2>2. SlotOf(i) # SlotOf(tail)
    BY <1>0, <2>1, SlotOfInjective
  <2> QED BY <1>5, <2>1, <2>2, SlotOfType DEF TypeOK, RequestsOK
<1> QED BY <1>1, <1>3, <1>5, <1>6, <1>7

LEMMA PopSlotQueue ==
    ASSUME TypeOK, QueueInv, PopSlot
    PROVE  QueueInv'
<1>0. head \in Nat /\ tail \in Nat /\ sem \in Nat /\ tail <= head /\ fl.head \in Nat
  BY QueueFacts
<1> USE Popped
<1>1. \A i \in tail' .. head' - 1 : i \in tail .. head - 1 /\ slots'[SlotOf(i)] = slots[SlotOf(i)]
  BY <1>0
<1>2. \A i \in tail .. head - 1 : i = tail \/ i \in tail' .. head' - 1
  BY <1>0
<1>3. PositionsInv'
  <2>1. tail' <= head'
    BY <1>0
  <2>2. \A i \in tail' .. head' - 1 : slots'[SlotOf(i)] \in 1 .. Len(pr.ends)
    BY <1>1 DEF QueueInv, PositionsInv
  <2> QED BY <2>1, <2>2 DEF PositionsInv
<1>4. Requesting' <=> Requesting
  BY DEF Requesting
<1>5. SemInv'
  <2>1. sem = (head - tail) + (IF Requesting THEN 1 ELSE 0)
    BY <1>0 DEF QueueInv, SemInv
  <2>2. sem' = (head' - tail') + 1 + (IF Requesting' THEN 1 ELSE 0)
    BY <1>0, <1>4, <2>1
  <2> QED BY <1>0, <2>2 DEF QueueInv, SemInv
<1>6. TakenInv'
  <2>1. fl'.head # fl'.tail => fl'.tail = tail' /\ tail' < fl'.head /\ fl'.head <= head'
    BY <1>0
  <2> QED BY <2>1 DEF TakenInv
<1>7. WaitingInv'
  <2> SUFFICES ASSUME NEW r \in Records, wg[r] = "waiting", ~(Requesting' /\ r = pr'.record), fl'.popped # r
               PROVE  \E i \in tail' .. head' - 1 : slots'[SlotOf(i)] = r
    BY DEF WaitingInv
  <2>1. PICK i \in tail .. head - 1 : slots[SlotOf(i)] = r
    BY <1>4 DEF QueueInv, WaitingInv
  <2>2. i # tail
    BY <2>1
  <2> QED BY <1>1, <1>2, <2>1, <2>2
<1> QED BY <1>3, <1>5, <1>6, <1>7 DEF QueueInv

LEMMA PopDoneQueue ==
    ASSUME TypeOK, QueueInv, PopDone
    PROVE  QueueInv'
<1>0. head \in Nat /\ tail \in Nat /\ sem \in Nat /\ SemCapacity \in Int
  BY QueueFacts, ConstantsOK DEF SemCapacity
<1>1. /\ fpc = "done" /\ fpc' = "pop" /\ sem' = sem - 1 /\ UNCHANGED <<slots, head, tail, pr, ppc, fl>>
      /\ wg' = [wg EXCEPT ![fl.popped] = PopResult]
  BY DEF PopDone, producerVars
<1>2. Requesting' <=> Requesting
  BY <1>1 DEF Requesting
<1>3. \A r \in Records : wg'[r] = "waiting" => wg[r] = "waiting" /\ r # fl.popped
  BY <1>1 DEF TypeOK, RequestsOK, PopResult
<1>4. WaitingInv'
  BY <1>1, <1>2, <1>3 DEF QueueInv, WaitingInv
<1>5. SemInv'
  <2>1. sem = (head - tail) + 1 + (IF Requesting THEN 1 ELSE 0) /\ sem <= SemCapacity
    BY <1>1 DEF QueueInv, SemInv
  <2>2. sem' = (head' - tail') + (IF Requesting' THEN 1 ELSE 0) /\ sem' <= SemCapacity
    BY <1>0, <1>1, <1>2, <2>1
  <2>3. ppc' # "panic"
    BY <1>1 DEF QueueInv, SemInv
  <2> QED BY <1>0, <1>1, <2>2, <2>3 DEF SemInv
<1>6. PositionsInv' /\ TakenInv'
  BY <1>1 DEF QueueInv, PositionsInv, TakenInv, Taking
<1> QED BY <1>4, <1>5, <1>6 DEF QueueInv

LEMMA NextQueue ==
    ASSUME TypeOK, ProducerInv, QueueInv, [Next]_vars
    PROVE  QueueInv'
<1>0. EndsKept
  BY NextEnds
<1>1. ppc # "panic" /\ fpc # "nil waiter"
  BY Zenon DEF QueueInv, SemInv, TakenInv
<1>2. CASE EmitFragment
  <2>1. ppc = "emit" /\ ppc' \in {"queue", "push"} /\ pr'.record = pr.record /\ pr'.sync = pr.sync
    BY <1>2, Emitted DEF EmitFragment
  <2>2. UNCHANGED <<slots, head, tail, sem, wg, fl, fpc>>
    BY <1>2 DEF EmitFragment, flusherVars, queueVars
  <2> QED BY Zenon, <1>0, <1>1, <2>1, <2>2, QueueFrame DEF QueueKept, Requesting
<1>3. CASE Grab
  <2>1. /\ UNCHANGED <<slots, head, tail, sem, wg, pr, ppc>> /\ fpc = "grab" /\ fpc' = "grab data"
        /\ fl'.head = LoadedHead /\ fl'.tail = LoadedTail
    BY Zenon, <1>3 DEF Grab, TypeOK, LocalsOK, queueVars, producerVars
  <2>2. fl'.head # fl'.tail => fl'.tail = tail /\ tail < fl'.head /\ fl'.head <= head
    <3>1. (fl'.head = 0 /\ fl'.tail = 0) \/ (fl'.head = head /\ fl'.tail = tail)
      BY Zenon, <2>1 DEF LoadedHead, LoadedTail
    <3> QED BY <3>1, QueueFacts
  <2>3. TakenInv'
    BY Zenon, <2>1, <2>2 DEF TakenInv
  <2>4. PositionsInv' /\ SemInv' /\ WaitingInv'
    BY Zenon, <2>1 DEF QueueInv, PositionsInv, SemInv, WaitingInv, Requesting
  <2> QED BY <2>3, <2>4 DEF QueueInv
<1>4. CASE LoadWritten \/ GrabData \/ WriteBlock \/ WriteFails \/ \E ok \in BOOLEAN : Sync(ok)
  <2>1. fl'.head = fl.head /\ fl'.tail = fl.tail /\ fl'.popped = fl.popped
    BY Zenon, <1>4 DEF LoadWritten, GrabData, WriteBlock, WriteFails, Sync, TypeOK, LocalsOK
  <2>2. UNCHANGED <<slots, head, tail, sem, wg, pr, ppc>>
    BY Zenon, <1>4 DEF LoadWritten, GrabData, WriteBlock, WriteFails, Sync, queueVars, producerVars
  <2>3. /\ fpc \in {"load", "grab data", "write", "sync"} /\ fpc' \in {"test", "pop", "write", "sync", "relock"}
        /\ fpc = "load" => fpc' = "test"
    BY Zenon, <1>4 DEF LoadWritten, GrabData, WriteBlock, WriteFails, Sync
  <2> QED BY Zenon, <1>0, <1>1, <2>1, <2>2, <2>3, QueueFrame DEF QueueKept, Taking, Requesting
<1>5. CASE FindWork \/ FindClosed \/ FindNothing \/ Wait \/ WaitUnlock \/ WaitRecheck \/ Wake \/ PopEnd \/ Relock
  <2>1. UNCHANGED <<slots, head, tail, sem, wg, pr, ppc, fl>>
    BY Zenon, <1>5 DEF FindWork, FindClosed, FindNothing, Wait, WaitUnlock, WaitRecheck, Wake, PopEnd, Relock,
                queueVars, producerVars
  <2>2. fpc # "done" /\ fpc' \in {"grab", "exited", "wait", "unlock", "recheck", "parked", "load", "relock"}
    BY Zenon, <1>5 DEF FindWork, FindClosed, FindNothing, Wait, WaitUnlock, WaitRecheck, Wake, PopEnd, Relock
  <2> QED BY Zenon, <1>0, <1>1, <2>1, <2>2, QueueFrame DEF QueueKept, Taking, Requesting
<1>6. CASE QueueBlock \/ SignalPush \/ CloseBegin \/ \E ok \in BOOLEAN : CloseSync(ok)
  <2>1. UNCHANGED <<slots, head, tail, sem, wg, pr, fl, fpc>>
    BY <1>6 DEF QueueBlock, SignalPush, CloseBegin, CloseSync, queueVars, flusherVars
  <2>2. (Requesting' <=> Requesting) /\ ppc' # "panic"
    BY <1>6, <2>1 DEF QueueBlock, SignalPush, CloseBegin, CloseSync, Requesting
  <2> QED BY Zenon, <1>0, <1>1, <2>1, <2>2, QueueFrame DEF QueueKept
<1>7. CASE UNCHANGED vars \/ Closed \/ TimerFires \/ TimerSignals
  <2>1. UNCHANGED <<slots, head, tail, sem, wg, pr, ppc, fl, fpc>>
    BY <1>7 DEF TimerFires, TimerSignals, Closed, vars, flusherVars, queueVars, producerVars
  <2> QED BY Zenon, <1>0, <1>1, <2>1, QueueFrame DEF QueueKept, Requesting
<1> QED BY <1>2, <1>3, <1>4, <1>5, <1>6, <1>7, SyncRecordQueue, PushQueue, PopSlotQueue, PopDoneQueue
        DEF Next, Producer, FlushLoop, Timer

-----------------------------------------------------------------------------
(* The flush loop                                                          *)
LEMMA NextError ==
    ASSUME TypeOK, ErrorInv, QueueInv, [Next]_vars
    PROVE  ErrorInv'
<1> USE DEF ErrorInv
<1>1. CASE GrabData
  <2>1. fl'.err = fErr /\ fErr' = fErr /\ (fErr => fpc' = "pop") /\ (~fErr => mutex' = "none")
    BY Zenon, <1>1 DEF GrabData, TypeOK, LocalsOK
  <2> QED BY <2>1
<1>2. CASE WriteBlock
  <2>1. fl'.err = fl.err /\ fErr' = fErr /\ fpc = "write" /\ mutex' = mutex
    BY <1>2 DEF WriteBlock, TypeOK, LocalsOK
  <2> QED BY <2>1
<1>3. CASE WriteFails
  <2>1. fl'.err /\ fErr' = fErr /\ fpc = "write" /\ fpc' = "sync" /\ mutex' = mutex
    BY <1>3 DEF WriteFails, TypeOK, LocalsOK
  <2> QED BY <2>1
<1>4. ASSUME NEW ok \in BOOLEAN, Sync(ok) PROVE ErrorInv'
  <2>1. (fl.err => fl'.err) /\ fErr' = fErr /\ fpc = "sync" /\ fpc' \in {"pop", "relock"} /\ mutex' = mutex
    BY <1>4 DEF Sync, TypeOK, LocalsOK
  <2> QED BY <2>1
<1>5. CASE PopSlot
  <2>1. fl'.err = fl.err /\ fErr' = fErr /\ fpc = "pop" /\ fpc' = "done" /\ mutex' = mutex
    BY Zenon, <1>5, Popped DEF PopSlot
  <2> QED BY <2>1
<1>6. CASE LoadWritten \/ Grab
  <2>1. fl'.err = fl.err /\ fErr' = fErr /\ fpc \in {"load", "grab"} /\ fpc' \in {"test", "grab data"}
    BY Zenon, <1>6 DEF LoadWritten, Grab, TypeOK, LocalsOK
  <2> QED BY Zenon, <2>1
<1>7. CASE Relock
  <2>1. fl' = fl /\ fErr' = fl.err /\ fpc' = "load"
    BY <1>7 DEF Relock, KeptError
  <2> QED BY <2>1
<1>8. CASE PopDone
  <2>1. fl' = fl /\ fErr' = fErr /\ fpc = "done" /\ fpc' = "pop" /\ mutex' = mutex
    BY <1>8 DEF PopDone
  <2> QED BY <2>1
<1>9. CASE PopEnd
  <2>1. fl' = fl /\ fErr' = fErr /\ fpc = "pop" /\ mutex' = mutex /\ fpc' = IF mutex = "flusher" THEN "load" ELSE "relock"
    BY <1>9 DEF PopEnd
  <2> QED BY <2>1
<1>10. CASE FindWork \/ FindClosed \/ FindNothing \/ Wait \/ WaitUnlock \/ WaitRecheck \/ Wake
  <2>1. /\ fl' = fl /\ fErr' = fErr /\ fpc' \notin {"write", "sync", "pop", "done", "relock"}
        /\ fpc \notin {"sync", "pop", "done", "relock"}
    BY <1>10 DEF FindWork, FindClosed, FindNothing, Wait, WaitUnlock, WaitRecheck, Wake
  <2> QED BY <2>1
<1>11. CASE UNCHANGED <<fl, fErr, fpc, mutex>>
  BY <1>11
<1> QED BY Zenon, <1>1, <1>2, <1>3, <1>4, <1>5, <1>6, <1>7, <1>8, <1>9, <1>10, <1>11, NextWriters
        DEF Writers, FlushLoop, Syncs

\* A request keeps its slot until it is popped.
LEMMA SlotsKept ==
    ASSUME TypeOK, ProducerInv, QueueInv, [Next]_vars
    PROVE  \A i \in tail .. head - 1 : slots'[SlotOf(i)] = slots[SlotOf(i)] \/ (PopSlot /\ i = tail)
<1> SUFFICES ASSUME NEW i \in tail .. head - 1
             PROVE  slots'[SlotOf(i)] = slots[SlotOf(i)] \/ (PopSlot /\ i = tail)
  OBVIOUS
<1>0. head \in Nat /\ tail \in Nat /\ i \in Nat
  BY QueueFacts
<1>1. CASE Push
  BY <1>1, Pushed
<1>2. CASE PopSlot
  <2>1. i = tail \/ i \in tail + 1 .. head - 1
    BY <1>0
  <2> QED BY <1>2, <2>1, Popped
<1>3. CASE UNCHANGED slots
  BY <1>3
<1> QED BY <1>1, <1>2, <1>3, NextWriters DEF Writers

\* What the flush loop took is still to be answered, and ends where it did.
LEMMA TakenRequest ==
    ASSUME TypeOK, QueueInv, fpc \in Taking, NEW i \in fl.tail .. fl.head - 1
    PROVE  i \in tail .. head - 1 /\ fl.tail = tail /\ slots[SlotOf(i)] \in 1 .. Len(pr.ends)
<1>1. fl.tail \in Nat /\ fl.head \in Nat /\ head \in Nat /\ tail \in Nat
  BY QueueFacts
<1>2. fl.head # fl.tail
  BY <1>1
<1>3. fl.tail = tail /\ fl.head <= head
  BY Zenon, <1>2 DEF QueueInv, TakenInv
<1>4. i \in tail .. head - 1
  BY <1>1, <1>3
<1> QED BY <1>3, <1>4 DEF QueueInv, PositionsInv

LEMMA TakenKept ==
    ASSUME TypeOK, ProducerInv, QueueInv, [Next]_vars, fpc \in Taking
    PROVE  \A i \in fl'.tail .. fl'.head - 1 :
              i \in fl.tail .. fl.head - 1 /\ pr'.ends[slots'[SlotOf(i)]] = pr.ends[slots[SlotOf(i)]]
<1>0. EndsKept
  BY NextEnds
<1>1. fl'.head = fl.head /\ (fl'.tail = fl.tail \/ (PopSlot /\ fl'.tail = fl.tail + 1))
  <2>1. CASE PopSlot
    BY <2>1, Popped
  <2>2. CASE GrabData \/ WriteBlock \/ WriteFails \/ \E ok \in BOOLEAN : Sync(ok)
    BY Zenon, <2>2 DEF GrabData, WriteBlock, WriteFails, Sync, TypeOK, LocalsOK
  <2>3. CASE UNCHANGED fl
    BY <2>3
  <2> QED BY Zenon, <2>1, <2>2, <2>3, NextWriters DEF Writers, Syncs, LoadWritten, Grab, Taking
<1> SUFFICES ASSUME NEW i \in fl'.tail .. fl'.head - 1
             PROVE  i \in fl.tail .. fl.head - 1 /\ pr'.ends[slots'[SlotOf(i)]] = pr.ends[slots[SlotOf(i)]]
  OBVIOUS
<1>2. i \in fl.tail .. fl.head - 1 /\ (PopSlot => i # fl.tail)
  <2>1. fl.tail \in Nat /\ fl.head \in Nat
    BY QueueFacts
  <2>2. PopSlot => fl'.tail = fl.tail + 1
    BY Popped
  <2> QED BY <1>1, <2>1, <2>2
<1>3. i \in tail .. head - 1 /\ fl.tail = tail /\ slots[SlotOf(i)] \in 1 .. Len(pr.ends)
  BY <1>2, TakenRequest
<1>4. slots'[SlotOf(i)] = slots[SlotOf(i)]
  BY <1>2, <1>3, SlotsKept
<1> QED BY <1>0, <1>2, <1>3, <1>4 DEF EndsKept

\* flushBlock appends the bytes that come next in the file.
LEMMA NextToWrite ==
    ASSUME TypeOK, WritingInv, fpc = "write"
    PROVE  \E n \in Nat : Len(file) <= n /\ ToWrite = Interval(Len(file), n)
<1>1. PICK x \in 0 .. flushed, y \in 0 .. flushed :
          Chain(fl.pending, Len(file), x) /\ x <= y /\ fl.data = Interval(x, y)
  BY DEF WritingInv
<1>2. fl.pending \in Seq(Seq(Nat)) /\ Len(file) \in Nat /\ flushed \in Nat /\ x \in Nat /\ y \in Nat
  BY DEF TypeOK, BytesOK, LocalsOK
<1>3. CASE fl.pending # << >>
  <2>1. PICK b \in Nat : Len(file) <= b /\ Head(fl.pending) = Interval(Len(file), b)
    BY <1>1, <1>2, <1>3, ChainTail
  <2> QED BY <1>3, <2>1 DEF ToWrite
<1>4. CASE fl.pending = << >>
  <2>1. Len(file) = x
    BY <1>1, <1>2, <1>4, ChainEmpty
  <2> QED BY <1>1, <1>2, <1>4, <2>1 DEF ToWrite
<1> QED BY <1>3, <1>4

\* Steps that leave the flush loop, the blocks handed to it and the file alone.
LEMMA FlushFrame ==
    ASSUME TypeOK, ProducerInv, QueueInv, FlushInv, [Next]_vars,
           UNCHANGED <<fl, fpc, pending, flushed, file, durable>>
    PROVE  WritingInv' /\ WrittenInv' /\ AnswerInv'
<1>0. EndsKept
  BY NextEnds
<1>1. WritingInv'
  <2> SUFFICES ASSUME fpc = "write"
               PROVE  WritingInv'
    BY DEF WritingInv
  <2>1. PICK x \in 0 .. flushed, y \in 0 .. flushed :
           /\ Chain(fl.pending, Len(file), x) /\ x <= y /\ fl.data = Interval(x, y)
           /\ Chain(pending, y, flushed) /\ TakenEndBy(y)
    BY DEF FlushInv, WritingInv
  <2>2. TakenEndBy(y)'
    BY <2>1, TakenKept DEF TakenEndBy, Taking
  <2> QED BY Zenon, <2>1, <2>2 DEF WritingInv, Chain
<1>2. WrittenInv'
  BY Zenon DEF FlushInv, WrittenInv, Chain
<1>3. AnswerInv'
  <2> SUFFICES ASSUME fpc \in {"sync", "pop", "done"}, ~fl.err
               PROVE  AnswerInv'
    BY DEF AnswerInv
  <2>1. fpc = "sync" => TakenEndBy(Len(file))'
    BY TakenKept DEF FlushInv, AnswerInv, TakenEndBy, Taking
  <2>2. fpc \in {"pop", "done"} => TakenEndBy(durable)'
    BY Zenon, TakenKept DEF FlushInv, AnswerInv, TakenEndBy, Taking
  <2>3. fpc = "done" => pr'.ends[fl.popped] <= durable
    BY <1>0 DEF FlushInv, AnswerInv, QueueInv, TakenInv, EndsKept
  <2> QED BY <2>1, <2>2, <2>3 DEF AnswerInv
<1> QED BY <1>1, <1>2, <1>3

\* Steps of the flush loop that look for work or wait.
LEMMA FlushIdle ==
    ASSUME FlushInv, fl'.err = fl.err, UNCHANGED <<pending, flushed, file>>,
           fpc \notin {"grab data", "write"},
           fpc' \notin {"grab data", "write", "sync", "pop", "done"}
    PROVE  WritingInv' /\ WrittenInv' /\ AnswerInv'
  BY Zenon DEF FlushInv, WritingInv, WrittenInv, AnswerInv, Chain

LEMMA QueueBlockFlush ==
    ASSUME TypeOK, ProducerInv, QueueInv, FlushInv, CloseInv, [Next]_vars, QueueBlock
    PROVE  WritingInv' /\ WrittenInv' /\ AnswerInv'
<1>1. /\ UNCHANGED <<fl, fpc, file, durable, emitted, pr, slots>> /\ flushed' = emitted
      /\ pending' = Append(pending, Interval(flushed, emitted)) /\ mutex = "none"
  BY DEF QueueBlock, fileVars, queueVars, QueuedFrom
<1>2. /\ pending \in Seq(Seq(Nat)) /\ flushed \in Nat /\ emitted \in Nat /\ Len(file) \in Nat /\ flushed <= emitted
  BY DEF TypeOK, BytesOK, ProducerInv
<1>3. fpc # "grab data"
  BY Zenon, <1>1 DEF CloseInv
<1>4. \A a \in Nat : Chain(pending, a, flushed) => Chain(pending', a, flushed')
  BY <1>1, <1>2, ChainAppend
<1>5. WritingInv'
  <2> SUFFICES ASSUME fpc = "write" PROVE WritingInv'
    BY <1>1 DEF WritingInv
  <2>1. PICK x \in 0 .. flushed, y \in 0 .. flushed :
           /\ Chain(fl.pending, Len(file), x) /\ x <= y /\ fl.data = Interval(x, y)
           /\ Chain(pending, y, flushed) /\ TakenEndBy(y)
    BY DEF FlushInv, WritingInv
  <2>2. x \in 0 .. flushed' /\ y \in 0 .. flushed' /\ Chain(pending', y, flushed')
    BY <1>1, <1>2, <1>4, <2>1
  <2>3. TakenEndBy(y)'
    BY <1>1, <2>1 DEF TakenEndBy
  <2>4. Chain(fl'.pending, Len(file'), x) /\ fl'.data = Interval(x, y)
    BY <1>1, <2>1
  <2> QED BY <2>1, <2>2, <2>3, <2>4 DEF WritingInv
<1>6. WrittenInv'
  BY Zenon, <1>1, <1>2, <1>3, <1>4 DEF FlushInv, WrittenInv
<1>7. AnswerInv'
  BY <1>1 DEF FlushInv, AnswerInv, TakenEndBy
<1> QED BY <1>5, <1>6, <1>7

\* The requests were taken before the data, so their records are in the data
\* or before it.
LEMMA GrabDataFlush ==
    ASSUME TypeOK, ProducerInv, QueueInv, FlushInv, GrabData
    PROVE  WritingInv' /\ WrittenInv' /\ AnswerInv'
<1>1. /\ fpc = "grab data" /\ flushed' = emitted /\ fl'.data = Interval(flushed, emitted) /\ (fl'.err <=> fErr)
      /\ fl'.pending = fl.pending /\ fl'.head = fl.head /\ fl'.tail = fl.tail
      /\ UNCHANGED <<pending, file, durable, pr, slots, emitted>>
      /\ fpc' = IF fErr THEN "pop" ELSE "write"
  BY Zenon DEF GrabData, WrittenNow, TypeOK, LocalsOK, fileVars, producerVars, queueVars
<1>2. CASE fErr
  BY Zenon, <1>1, <1>2 DEF WritingInv, WrittenInv, AnswerInv
<1>3. CASE ~fErr
  <2>1. pending = << >> /\ Chain(fl.pending, Len(file), flushed)
    BY Zenon, <1>1, <1>3 DEF FlushInv, ErrorInv, WrittenInv
  <2>2. emitted \in Nat /\ flushed \in Nat /\ flushed <= emitted
    BY DEF TypeOK, BytesOK, ProducerInv
  <2>3. Chain(pending', emitted, flushed')
    BY Zenon, <1>1, <2>1, <2>2, ChainEmpty
  <2>4. TakenEndBy(emitted)'
    <3>1. \A i \in fl.tail .. fl.head - 1 : slots[SlotOf(i)] \in 1 .. Len(pr.ends)
      BY Zenon, <1>1, TakenRequest DEF Taking
    <3>2. \A i \in fl.tail .. fl.head - 1 : pr.ends[slots[SlotOf(i)]] <= emitted
      BY <3>1 DEF ProducerInv
    <3> QED BY Zenon, <1>1, <3>2 DEF TakenEndBy
  <2>5. Chain(fl'.pending, Len(file'), flushed)
    BY Zenon, <1>1, <2>1
  <2>6. flushed \in 0 .. flushed' /\ emitted \in 0 .. flushed'
    <3>1. flushed' = emitted
      BY Zenon, <1>1
    <3> QED BY <2>2, <3>1
  <2>7. WritingInv'
    BY Zenon, <1>1, <2>2, <2>3, <2>4, <2>5, <2>6 DEF WritingInv, TakenEndBy
  <2> QED BY Zenon, <1>1, <1>3, <2>7 DEF WrittenInv, AnswerInv
<1> QED BY <1>2, <1>3

LEMMA WriteBlockFlush ==
    ASSUME TypeOK, ProducerInv, QueueInv, FlushInv, [Next]_vars, WriteBlock
    PROVE  WritingInv' /\ WrittenInv' /\ AnswerInv'
<1>1. PICK x \in 0 .. flushed, y \in 0 .. flushed :
           /\ Chain(fl.pending, Len(file), x) /\ x <= y /\ fl.data = Interval(x, y)
           /\ Chain(pending, y, flushed) /\ TakenEndBy(y)
  BY DEF FlushInv, WritingInv, WriteBlock
<1>2. /\ fpc = "write" /\ file' = file \o ToWrite /\ UNCHANGED <<pending, flushed, durable>>
      /\ fpc' = IF fl.pending # << >> THEN "write" ELSE "sync"
  BY DEF WriteBlock, blockVars
<1>3. /\ fl.pending \in Seq(Seq(Nat)) /\ file \in Seq(Nat) /\ Len(file) \in Nat /\ flushed \in Nat
      /\ x \in Nat /\ y \in Nat
  BY DEF TypeOK, BytesOK, LocalsOK
<1>4. TakenEndBy(y)'
  BY <1>1, <1>2, TakenKept DEF TakenEndBy, Taking
<1>5. CASE fl.pending # << >>
  <2>1. fl'.pending = Tail(fl.pending) /\ fl'.data = fl.data
    BY <1>5 DEF WriteBlock, TypeOK, LocalsOK
  <2>2. PICK b \in Nat : /\ Len(file) <= b /\ Head(fl.pending) = Interval(Len(file), b)
                         /\ Chain(Tail(fl.pending), b, x)
    BY Zenon, <1>1, <1>3, <1>5, ChainTail
  <2>3. ToWrite = Interval(Len(file), b)
    BY <1>5, <2>2 DEF ToWrite
  <2>4. ToWrite \in Seq(Nat) /\ Len(ToWrite) = b - Len(file)
    BY Zenon, <1>3, <2>2, <2>3, IntervalType
  <2>5. Len(file') = b
    BY <1>2, <1>3, <2>2, <2>4
  <2>6. Chain(fl'.pending, Len(file'), x)
    BY <2>1, <2>2, <2>5
  <2>7. fpc' = "write"
    BY <1>2, <1>5
  <2>8. WritingInv'
    BY <1>1, <1>2, <1>4, <2>1, <2>6 DEF WritingInv
  <2> QED BY <2>7, <2>8 DEF WrittenInv, AnswerInv
<1>6. CASE fl.pending = << >>
  <2>1. Len(file) = x
    BY <1>1, <1>3, <1>6, ChainEmpty
  <2>2. ToWrite = Interval(x, y)
    BY <1>1, <1>6 DEF ToWrite
  <2>3. ToWrite \in Seq(Nat) /\ Len(ToWrite) = y - x
    BY Zenon, <1>1, <1>3, <2>2, IntervalType
  <2>4. Len(file') = y
    <3>1. Len(file \o ToWrite) = Len(file) + Len(ToWrite)
      BY Zenon, <1>3, <2>3, ConcatProperties
    <3>2. file' = file \o ToWrite
      BY <1>2
    <3> QED BY <1>3, <2>1, <2>3, <3>1, <3>2
  <2>5. fpc' = "sync"
    BY <1>2, <1>6
  <2>6. Chain(pending', Len(file'), flushed')
    BY <1>1, <1>2, <2>4
  <2>7. TakenEndBy(Len(file))'
    BY <1>4, <2>4 DEF TakenEndBy
  <2> QED BY <2>5, <2>6, <2>7 DEF WritingInv, WrittenInv, AnswerInv
<1> QED BY <1>5, <1>6

LEMMA NextDurable ==
    ASSUME TypeOK, WritingInv, DurableInv, [Next]_vars
    PROVE  DurableInv' /\ durable <= durable' /\ durable \in Nat
<1>0. file \in Seq(Nat) /\ Len(file) \in Nat /\ durable \in Nat /\ durable <= Len(file)
  BY DEF TypeOK, BytesOK, DurableInv
<1>1. CASE WriteBlock \/ WriteFails
  <2>1. PICK n \in Nat : Len(file) <= n /\ ToWrite = Interval(Len(file), n)
    BY <1>1, NextToWrite DEF WriteBlock, WriteFails
  <2>2. ToWrite \in Seq(Nat) /\ Len(ToWrite) \in Nat
    BY <1>0, <2>1, IntervalType, LenProperties
  <2>3. \A k \in 0 .. Len(ToWrite) : SubSeq(ToWrite, 1, k) \in Seq(Nat)
    BY <2>2
  <2>4. \E t \in Seq(Nat) : file' = file \o t
    BY Zenon, <1>1, <2>2, <2>3 DEF WriteBlock, WriteFails
  <2>5. PICK t \in Seq(Nat) : file' = file \o t
    BY <2>4
  <2>6. Len(file') = Len(file) + Len(t) /\ Len(t) \in Nat
    BY <1>0, <2>5, ConcatProperties
  <2>7. durable' = durable
    BY <1>1 DEF WriteBlock, WriteFails
  <2> QED BY <1>0, <2>6, <2>7 DEF DurableInv
<1>2. CASE file' = file /\ durable' \in {durable, Len(file)}
  BY <1>0, <1>2 DEF DurableInv
<1>3. ASSUME NEW ok \in BOOLEAN, Sync(ok) \/ CloseSync(ok)
      PROVE  file' = file /\ durable' \in {durable, Len(file)}
  BY <1>3 DEF Sync, CloseSync, SyncedByClose
<1>4. CASE UNCHANGED <<file, durable>>
  BY <1>2, <1>4
<1> QED BY <1>1, <1>2, <1>3, <1>4, NextWriters DEF Writers, Syncs, CloseSyncs

LEMMA NextFlush ==
    ASSUME TypeOK, ProducerInv, QueueInv, FlushInv, CloseInv, [Next]_vars
    PROVE  FlushInv'
<1>0. ErrorInv'
  BY NextError DEF FlushInv
<1> SUFFICES WritingInv' /\ WrittenInv' /\ AnswerInv'
  BY <1>0, NextDurable DEF FlushInv
<1>1. ASSUME NEW ok \in BOOLEAN, CloseSync(ok) PROVE WritingInv' /\ WrittenInv' /\ AnswerInv'
  BY <1>1, FlushIdle DEF CloseSync, flusherVars, blockVars
<1>2. CASE FindWork \/ FindClosed \/ FindNothing \/ Wait \/ WaitUnlock \/ WaitRecheck \/ Wake \/ PopEnd \/ Relock
  <2>1. UNCHANGED <<fl, pending, flushed, file>>
    BY Zenon, <1>2 DEF FindWork, FindClosed, FindNothing, Wait, WaitUnlock, WaitRecheck, Wake, PopEnd, Relock,
                fileVars, blockVars
  <2>2. /\ fpc \notin {"grab data", "write"}
        /\ fpc' \notin {"grab data", "write", "sync", "pop", "done"}
    BY Zenon, <1>2 DEF FindWork, FindClosed, FindNothing, Wait, WaitUnlock, WaitRecheck, Wake, PopEnd, Relock
  <2> QED BY Zenon, <2>1, <2>2, FlushIdle
<1>3. CASE LoadWritten
  <2>1. fl'.err = fl.err /\ UNCHANGED <<pending, flushed, file>> /\ fpc = "load" /\ fpc' = "test"
    BY <1>3 DEF LoadWritten, TypeOK, LocalsOK, fileVars, blockVars
  <2> QED BY Zenon, <2>1, FlushIdle
<1>4. CASE Grab
  <2>1. /\ fl'.err = fl.err /\ fl'.pending = pending /\ pending' = << >> /\ UNCHANGED <<flushed, file>>
        /\ fpc = "grab" /\ fpc' = "grab data"
    BY Zenon, <1>4 DEF Grab, TypeOK, LocalsOK, fileVars, blockVars
  <2> QED BY Zenon, <2>1 DEF FlushInv, WritingInv, WrittenInv, AnswerInv
<1>5. CASE WriteFails
  <2>1. fl'.err /\ fpc' = "sync"
    BY <1>5 DEF WriteFails, TypeOK, LocalsOK
  <2> QED BY <2>1 DEF WritingInv, WrittenInv, AnswerInv
<1>6. ASSUME NEW ok \in BOOLEAN, Sync(ok) PROVE WritingInv' /\ WrittenInv' /\ AnswerInv'
  <2>1. /\ fpc = "sync" /\ fpc' = (IF fl.head # fl.tail THEN "pop" ELSE "relock")
        /\ UNCHANGED <<pending, flushed, file>>
        /\ ~fl'.err => ~fl.err /\ (fl.head # fl.tail => durable' = Len(file))
    BY Zenon, <1>6 DEF Sync, TypeOK, LocalsOK, blockVars
  <2>2. WritingInv'
    BY <2>1 DEF WritingInv
  <2>3. WrittenInv'
    BY <2>1 DEF FlushInv, WrittenInv
  <2>4. ASSUME ~fl'.err, fpc' = "pop" PROVE TakenEndBy(durable)'
    <3>1. TakenEndBy(Len(file)) /\ durable' = Len(file)
      BY <2>1, <2>4 DEF FlushInv, AnswerInv
    <3> QED BY <2>1, <3>1, TakenKept DEF TakenEndBy, Taking
  <2>5. AnswerInv'
    BY <2>1, <2>4 DEF AnswerInv
  <2> QED BY <2>2, <2>3, <2>5
<1>7. CASE PopSlot
  <2>1. WritingInv' /\ WrittenInv'
    BY <1>7, Popped DEF FlushInv, WritingInv, WrittenInv
  <2>2. ASSUME ~fl'.err PROVE TakenEndBy(durable)' /\ pr'.ends[fl'.popped] <= durable'
    <3>1. TakenEndBy(durable) /\ fpc = "pop"
      BY <1>7, <2>2, Popped DEF FlushInv, AnswerInv
    <3>2. TakenEndBy(durable)'
      BY <1>7, <3>1, Popped, TakenKept DEF TakenEndBy, Taking
    <3>3. tail \in fl.tail .. fl.head - 1
      BY <1>7, Popped, QueueFacts
    <3> QED BY Zenon, <1>7, <3>1, <3>2, <3>3, Popped DEF TakenEndBy
  <2>3. AnswerInv'
    BY <1>7, <2>2, Popped DEF AnswerInv
  <2> QED BY <2>1, <2>3
<1>8. CASE PopDone
  <2>1. UNCHANGED <<fl, pending, flushed, file, durable, pr, slots>> /\ fpc = "done" /\ fpc' = "pop"
    BY <1>8 DEF PopDone, fileVars, blockVars, producerVars
  <2> QED BY Zenon, <2>1 DEF FlushInv, WritingInv, WrittenInv, AnswerInv, TakenEndBy
<1>9. CASE UNCHANGED <<fl, fpc, pending, flushed, file, durable>>
  BY <1>9, FlushFrame
<1> QED BY <1>1, <1>2, <1>3, <1>4, <1>5, <1>6, <1>7, <1>8, <1>9, QueueBlockFlush, GrabDataFlush, WriteBlockFlush,
        NextWriters DEF Writers, FlushLoop, Syncs, CloseSyncs

\* The file holds the bytes in order, also after part of a block was written.
LEMMA AppendInterval ==
    ASSUME NEW f \in Seq(Nat), NEW n \in Nat, Len(f) <= n, \A i \in 1 .. Len(f) : f[i] = i,
           NEW k \in 0 .. n - Len(f)
    PROVE  LET g == f \o SubSeq(Interval(Len(f), n), 1, k)
           IN  \A i \in 1 .. Len(g) : g[i] = i
<1> DEFINE w == Interval(Len(f), n)
<1> DEFINE v == SubSeq(w, 1, k)
<1>0. Len(f) \in Nat /\ k \in Nat
  OBVIOUS
<1>1. w \in Seq(Nat) /\ Len(w) = n - Len(f) /\ \A i \in 1 .. n - Len(f) : w[i] = Len(f) + i
  BY <1>0, IntervalType DEF Interval
<1>2. v \in Seq(Nat) /\ Len(v) = k /\ \A i \in 1 .. k : v[i] = w[i]
  <2> HIDE DEF w
  <2> QED BY <1>0, <1>1
<1>3. \A i \in 1 .. k : v[i] = Len(f) + i
  BY <1>0, <1>1, <1>2
<1> HIDE DEF v
<1>4. /\ Len(f \o v) = Len(f) + k
      /\ \A i \in 1 .. Len(f) + k : (f \o v)[i] = IF i <= Len(f) THEN f[i] ELSE v[i - Len(f)]
  BY Zenon, <1>2, ConcatProperties
<1>5. \A i \in 1 .. Len(f \o v) : (f \o v)[i] = i
  BY <1>0, <1>3, <1>4
<1> QED BY <1>5 DEF v

LEMMA NextFileInOrder ==
    ASSUME TypeOK, ProducerInv, QueueInv, FlushInv, FileInOrder, [Next]_vars
    PROVE  FileInOrder'
<1>0. file \in Seq(Nat) /\ Len(file) \in Nat
  BY DEF TypeOK, BytesOK
<1>1. CASE WriteBlock
  <2>1. PICK n \in Nat : Len(file) <= n /\ ToWrite = Interval(Len(file), n)
    BY <1>1, NextToWrite DEF WriteBlock, FlushInv
  <2>2. ToWrite \in Seq(Nat) /\ Len(ToWrite) = n - Len(file)
    BY Zenon, <1>0, <2>1, IntervalType
  <2>3. SubSeq(ToWrite, 1, n - Len(file)) = ToWrite
    BY <1>0, <2>1, <2>2
  <2>4. file' = file \o SubSeq(Interval(Len(file), n), 1, n - Len(file))
    BY <1>1, <2>1, <2>3 DEF WriteBlock
  <2>5. n - Len(file) \in 0 .. n - Len(file)
    BY <1>0, <2>1
  <2> QED BY Zenon, <1>0, <2>1, <2>4, <2>5, AppendInterval DEF FileInOrder
<1>2. CASE WriteFails
  <2>1. PICK n \in Nat : Len(file) <= n /\ ToWrite = Interval(Len(file), n)
    BY <1>2, NextToWrite DEF WriteFails, FlushInv
  <2>2. Len(ToWrite) = n - Len(file)
    BY Zenon, <1>0, <2>1, IntervalType
  <2>3. PICK k \in 0 .. Len(ToWrite) : file' = file \o SubSeq(ToWrite, 1, k)
    BY Zenon, <1>2 DEF WriteFails
  <2> QED BY Zenon, <1>0, <2>1, <2>2, <2>3, AppendInterval DEF FileInOrder
<1>3. CASE UNCHANGED file
  BY <1>3 DEF FileInOrder
<1> QED BY <1>1, <1>2, <1>3, NextWriters DEF Writers

\* A wait group changes when a record asks for a sync and when it is answered.
LEMMA NextSynced ==
    ASSUME TypeOK, ProducerInv, QueueInv, FlushInv, SyncedWhenDone, [Next]_vars
    PROVE  SyncedWhenDone'
<1>0. EndsKept /\ pr.ends \in Seq(Nat) /\ Len(pr.ends) \in Nat
  BY NextEnds
<1>1. durable <= durable' /\ durable \in Nat /\ durable' \in Nat
  BY NextDurable, NextBytes DEF FlushInv, BytesOK
<1>2. ASSUME NEW r \in Records, r <= Len(pr.ends), pr.ends[r] <= durable
      PROVE  r <= Len(pr'.ends) /\ pr'.ends[r] <= durable'
  <2>1. r \in 1 .. Len(pr.ends) /\ Len(pr'.ends) \in Nat
    BY <1>0, <1>2, NextLocals DEF Records, LocalsOK
  <2>2. pr.ends[r] \in Nat
    BY <1>0, <2>1
  <2> QED BY <1>0, <1>1, <1>2, <2>1, <2>2 DEF EndsKept, Records
<1>3. ASSUME NEW len \in 1 .. MaxLen, NEW sync \in BOOLEAN, SyncRecord(len, sync)
      PROVE  SyncedWhenDone'
  <2>1. \A r \in Records : wg'[r] = "done" => wg[r] = "done"
    BY <1>3 DEF SyncRecord, TypeOK, RequestsOK
  <2> QED BY <1>2, <2>1 DEF SyncedWhenDone
<1>4. CASE PopDone
  <2>1. fl.popped \in 1 .. Len(pr.ends)
    BY <1>4 DEF PopDone, QueueInv, TakenInv
  <2>2. ~fl.err => pr.ends[fl.popped] <= durable
    BY <1>4 DEF PopDone, FlushInv, AnswerInv
  <2>3. \A r \in Records : wg'[r] = "done" => wg[r] = "done" \/ (r = fl.popped /\ ~fl.err)
    BY <1>4 DEF PopDone, PopResult, TypeOK, RequestsOK
  <2>4. \A r \in Records : wg'[r] = "done" => r <= Len(pr.ends) /\ pr.ends[r] <= durable
    BY <1>0, <2>1, <2>2, <2>3 DEF SyncedWhenDone
  <2> QED BY <1>2, <2>4 DEF SyncedWhenDone
<1>5. CASE UNCHANGED wg
  BY <1>2, <1>5 DEF SyncedWhenDone
<1> QED BY <1>3, <1>4, <1>5, NextWriters DEF Writers, SyncRecords

\* Once the flush loop is told to stop, the producer only waits for it.
LEMMA ClosingStep ==
    ASSUME CloseInv, closing, [Next]_vars
    PROVE  closing' /\ UNCHANGED emitted
<1>1. ppc \in {"closing", "closed", "failed"}
  BY Zenon DEF CloseInv
<1> QED BY Zenon, <1>1, NextWriters DEF Writers, EmitFragment, CloseBegin

LEMMA LoopSteps ==
    ASSUME CloseInv, FlushLoop
    PROVE  /\ fpc # "exited"
           /\ fpc' = "test" => LoadWritten
           /\ fpc' = "exited" => FindClosed
           /\ fpc' \in {"load", "test", "wait", "unlock", "grab", "grab data"} => mutex' = "flusher"
<1> USE DEF CloseInv
<1>1. CASE LoadWritten
  BY <1>1 DEF LoadWritten
<1>2. CASE FindWork \/ FindNothing
  BY Zenon, <1>2 DEF FindWork, FindNothing
<1>3. CASE FindClosed
  BY Zenon, <1>3 DEF FindClosed
<1>4. CASE Wait \/ WaitUnlock \/ WaitRecheck \/ Wake
  BY Zenon, <1>4 DEF Wait, WaitUnlock, WaitRecheck, Wake
<1>5. CASE Grab \/ GrabData \/ WriteBlock \/ WriteFails
  BY Zenon, <1>5 DEF Grab, GrabData, WriteBlock, WriteFails
<1>6. CASE Syncs
  BY <1>6 DEF Syncs, Sync
<1>7. CASE PopSlot \/ PopDone \/ PopEnd \/ Relock
  BY Zenon, <1>7 DEF PopSlot, PopDone, PopEnd, Relock
<1> QED BY Zenon, <1>1, <1>2, <1>3, <1>4, <1>5, <1>6, <1>7 DEF FlushLoop, Syncs

\* Once the flush loop has left, nothing but Close moves.
LEMMA ExitedStep ==
    ASSUME CloseInv, fpc = "exited", [Next]_vars
    PROVE  UNCHANGED <<fpc, closing, head, tail, fErr, file, emitted, wg>>
<1>1. ppc \in {"closing", "closed", "failed"}
  BY DEF CloseInv
<1>2. ~FlushLoop
  BY LoopSteps
<1>3. ~SyncRecords /\ ~EmitFragment /\ ~QueueBlock /\ ~Push /\ ~CloseBegin
  BY Zenon, <1>1 DEF SyncRecords, SyncRecord, EmitFragment, QueueBlock, Push, CloseBegin
<1>4. ~(Grab \/ GrabData \/ WriteBlock \/ WriteFails \/ PopSlot \/ PopDone)
  BY <1>2 DEF FlushLoop
<1> QED BY <1>2, <1>3, <1>4, NextWriters DEF Writers

\* What the flush loop finds when it leaves: no work at all.
LEMMA NothingLeft ==
    ASSUME TypeOK, ProducerInv, FlushInv, CloseInv, FindClosed, fpc' = "exited"
    PROVE  closing' /\ head' = tail' /\ (~fErr' => Len(file') = emitted')
<1>1. /\ fpc = "test" /\ ~HasWork /\ closing /\ head = tail
      /\ UNCHANGED <<closing, head, tail, fErr, file, emitted>>
  BY DEF FindClosed, fileVars, blockVars
<1>2. pending = << >> /\ ~(fl.written > flushed) /\ fl.written = emitted
  BY <1>1 DEF HasWork, CloseInv
<1>3. emitted \in Nat /\ flushed \in Nat /\ Len(file) \in Nat /\ flushed <= emitted
  BY DEF TypeOK, BytesOK, ProducerInv
<1>4. flushed = emitted
  BY <1>2, <1>3
<1>5. ASSUME ~fErr PROVE Len(file) = emitted
  <2>1. ~fl.err
    BY <1>1, <1>5 DEF FlushInv, ErrorInv
  <2>2. Chain(pending, Len(file), flushed)
    BY <1>1, <2>1 DEF FlushInv, WrittenInv
  <2>3. Len(file) = flushed
    BY <1>2, <1>3, <2>2, ChainEmpty
  <2> QED BY <1>4, <2>3
<1> QED BY <1>1, <1>5

LEMMA NextClose ==
    ASSUME TypeOK, ProducerInv, FlushInv, CloseInv, [Next]_vars
    PROVE  CloseInv'
<1>1. fpc' \in {"load", "test", "wait", "unlock", "grab", "grab data"} => mutex' = "flusher"
  <2>1. CASE UNCHANGED <<fpc, mutex>>
    BY Zenon, <2>1 DEF CloseInv
  <2>2. CASE FlushLoop
    BY Zenon, <2>2, LoopSteps
  <2> QED BY Zenon, <2>1, <2>2, NextWriters DEF Writers
<1>2. closing' <=> ppc' \in {"closing", "closed", "failed"}
  <2>1. CASE UNCHANGED <<closing, ppc>>
    BY Zenon, <2>1 DEF CloseInv
  <2>2. CASE CloseBegin
    BY <2>2 DEF CloseBegin
  <2>3. ASSUME NEW ok \in BOOLEAN, CloseSync(ok)
        PROVE  closing' <=> ppc' \in {"closing", "closed", "failed"}
    BY <2>3 DEF CloseSync, CloseInv, flusherVars
  <2>4. CASE (\E len \in 1 .. MaxLen, sync \in BOOLEAN : SyncRecord(len, sync)) \/ EmitFragment \/ QueueBlock
             \/ Push \/ SignalPush
    <3>1. closing' = closing /\ {ppc, ppc'} \cap {"closing", "closed", "failed"} = {}
      BY Zenon, <2>4 DEF SyncRecord, EmitFragment, QueueBlock, Push, SignalPush, flusherVars
    <3> QED BY Zenon, <3>1 DEF CloseInv
  <2> QED BY <2>1, <2>2, <2>3, <2>4, NextWriters DEF Writers, Producer
<1>3. ASSUME closing', fpc' = "test" PROVE fl'.written = emitted'
  <2>1. CASE LoadWritten
    BY <2>1 DEF LoadWritten, TypeOK, LocalsOK, blockVars
  <2>2. CASE ~LoadWritten
    <3>1. fpc = "test" /\ fl' = fl
      BY Zenon, <1>3, <2>2, NextWriters, LoopSteps DEF Writers, Syncs, FlushLoop
    <3>2. mutex = "flusher"
      BY <3>1 DEF CloseInv
    <3>3. closing
      BY Zenon, <1>3, <3>2, NextWriters DEF Writers, CloseBegin
    <3>4. emitted' = emitted
      BY <3>3, ClosingStep
    <3> QED BY <3>1, <3>3, <3>4 DEF CloseInv
  <2> QED BY <2>1, <2>2
<1>4. ASSUME fpc' = "exited" PROVE closing' /\ head' = tail' /\ (~fErr' => Len(file') = emitted')
  <2>1. CASE fpc = "exited"
    BY Zenon, <2>1, ExitedStep DEF CloseInv
  <2>2. CASE FindClosed
    BY <1>4, <2>2, NothingLeft
  <2> QED BY <1>4, <2>1, <2>2, NextWriters, LoopSteps DEF Writers
<1>5. ASSUME ppc' \in {"closed", "failed"} PROVE fpc' = "exited"
  <2>1. CASE ppc \in {"closed", "failed"}
    BY Zenon, <2>1, ExitedStep DEF CloseInv
  <2>2. ASSUME NEW ok \in BOOLEAN, CloseSync(ok) PROVE fpc' = "exited"
    BY <2>2 DEF CloseSync, flusherVars
  <2> QED BY Zenon, <1>5, <2>1, <2>2, NextWriters DEF Writers, Producer, SyncRecord, EmitFragment, QueueBlock, Push,
            SignalPush, CloseBegin
<1> QED BY Zenon, <1>1, <1>2, <1>3, <1>4, <1>5 DEF CloseInv

LEMMA NextLosesNothing ==
    ASSUME TypeOK, QueueInv, CloseInv, CloseLosesNothing, [Next]_vars
    PROVE  CloseLosesNothing'
<1> SUFFICES ASSUME ppc' = "closed"
             PROVE  durable' = emitted' /\ \A r \in Records : wg'[r] # "waiting"
  BY DEF CloseLosesNothing
<1>1. CASE ppc = "closed"
  <2>1. fpc = "exited"
    BY <1>1 DEF CloseInv
  <2>2. durable' = durable
    BY <1>1, <2>1, NextWriters DEF Writers, Syncs, Sync, CloseSyncs, CloseSync
  <2> QED BY <1>1, <2>1, <2>2, ExitedStep DEF CloseLosesNothing
<1>2. ASSUME NEW ok \in BOOLEAN, CloseSync(ok)
      PROVE  durable' = emitted' /\ \A r \in Records : wg'[r] # "waiting"
  <2>1. fpc = "exited" /\ ppc = "closing" /\ ~fErr /\ durable' = Len(file)
    BY <1>2 DEF CloseSync, SyncedByClose
  <2>2. head = tail /\ Len(file) = emitted
    BY <2>1 DEF CloseInv
  <2>3. head \in Nat /\ tail \in Nat
    BY DEF TypeOK, RequestsOK
  <2>4. \A r \in Records : wg[r] # "waiting"
    <3>1. ~Requesting
      BY <2>1 DEF Requesting
    <3>2. tail .. head - 1 = {}
      BY <2>2, <2>3
    <3> QED BY <2>1, <3>1, <3>2 DEF QueueInv, WaitingInv
  <2> QED BY <2>1, <2>2, <2>4, ExitedStep
<1> QED BY <1>1, <1>2, NextWriters DEF Writers, Producer, SyncRecord, EmitFragment, QueueBlock, Push,
            SignalPush, CloseBegin

-----------------------------------------------------------------------------
IInv == LogWriterInv /\ FileInOrder /\ SyncedWhenDone /\ CloseLosesNothing

LEMMA InitInv == Init => IInv
<1> SUFFICES ASSUME Init PROVE IInv
  OBVIOUS
<1> USE DEF Init
<1>0. << >> \in Seq(Nat) /\ << >> \in Seq(Seq(Nat)) /\ Len(<< >>) = 0
  OBVIOUS
<1>1. BytesOK
  BY <1>0 DEF BytesOK
<1>2. RequestsOK
  BY DEF RequestsOK, NoRecord
<1>3. LocalsOK
  <2>1. 0 \in 0 .. MaxRecords /\ FALSE \in BOOLEAN /\ NoRecord \in Records \cup {NoRecord}
    BY ConstantsOK
  <2> QED BY Zenon, <1>0, <2>1 DEF LocalsOK, NoLocals
<1>4. ControlOK
  BY Zenon DEF ControlOK
<1>5. ProducerInv
  BY <1>0, ConstantsOK DEF ProducerInv
<1>6. ErrorInv /\ WritingInv /\ AnswerInv /\ DurableInv
  BY <1>0 DEF ErrorInv, WritingInv, AnswerInv, DurableInv, NoLocals
<1>7. WrittenInv
  <2>1. Chain(pending, Len(file), flushed)
    BY <1>0, ChainEmpty
  <2> QED BY <2>1 DEF WrittenInv
<1>8. QueueInv
  <2>1. ~Requesting
    BY DEF Requesting
  <2>2. PositionsInv /\ TakenInv /\ WaitingInv
    BY DEF PositionsInv, TakenInv, WaitingInv, Taking
  <2>3. SemInv
    BY <2>1, ConstantsOK DEF SemInv, SemCapacity
  <2> QED BY <2>2, <2>3 DEF QueueInv
<1>9. CloseInv
  BY DEF CloseInv
<1>10. FileInOrder /\ SyncedWhenDone /\ CloseLosesNothing
  BY <1>0 DEF FileInOrder, SyncedWhenDone, CloseLosesNothing
<1> QED BY <1>1, <1>2, <1>3, <1>4, <1>5, <1>6, <1>7, <1>8, <1>9, <1>10 DEF IInv, LogWriterInv, TypeOK, FlushInv

LEMMA NextInv == IInv /\ [Next]_vars => IInv'
<1> SUFFICES ASSUME IInv, [Next]_vars PROVE IInv'
  OBVIOUS
<1>0. /\ TypeOK /\ ProducerInv /\ FlushInv /\ QueueInv /\ CloseInv
      /\ FileInOrder /\ SyncedWhenDone /\ CloseLosesNothing
  BY DEF IInv, LogWriterInv
<1>1. TypeOK'
  BY <1>0, NextBytes, NextRequests, NextLocals, NextControl DEF TypeOK
<1>2. ProducerInv' /\ QueueInv' /\ FlushInv' /\ CloseInv'
  BY <1>0, NextProducer, NextQueue, NextFlush, NextClose
<1>3. FileInOrder' /\ SyncedWhenDone' /\ CloseLosesNothing'
  BY <1>0, NextFileInOrder, NextSynced, NextLosesNothing
<1> QED BY <1>1, <1>2, <1>3 DEF IInv, LogWriterInv

LEMMA Invariance == Spec => []IInv
  BY InitInv, NextInv, PTL DEF Spec

\* No byte is lost between the block, the pending queue and the file, no sync
\* request between push and pop: the flush loop of record/log_writer.go keeps
\* both, and syncQueue.push never finds the queue full (no panic), with any
\* block size, queue size, lengths of records, timer and errors.
THEOREM LogWriterInvariant == Spec => []LogWriterInv
  BY Invariance, PTL DEF IInv

\* flushPending and queueBlock write every byte once and in order, also when
\* a write fails half-way.
THEOREM FileIsInOrder == Spec => []FileInOrder
  BY Invariance, PTL DEF IInv

\* The wait group given to SyncRecord is released without an error only when
\* the record, and so every record before it, is synced.
THEOREM SyncedBeforeDone == Spec => []SyncedWhenDone
  BY Invariance, PTL DEF IInv

\* Close returns nil only when all that was written is synced and every wait
\* group is released.
THEOREM CloseKeepsAll == Spec => []CloseLosesNothing
  BY Invariance, PTL DEF IInv
=============================================================================
