------------------------- MODULE TransactionProofs -------------------------
(***************************************************************************)
(* Proofs about Transaction for any goroutines, counter values and number  *)
(* of copies put back.  The inductive invariant is TypeOK /\ CommitInv     *)
(* with the two invariants that the runs check; the two action properties  *)
(* follow from it step by step.                                            *)
(***************************************************************************)
EXTENDS Transaction, TLAPS

-----------------------------------------------------------------------------
(* The writer that has txLock is alone, and so is its write.               *)
LEMMA SoleWriter ==
    ASSUME TypeOK, LockInv, NEW p \in Procs, pc[p] \in Writing
    PROVE  /\ txLock = p
           /\ \A q \in Procs : q # p => pc[q] \notin Writing
  BY DEF LockInv

LEMMA WriterRuns ==
    ASSUME LockInv, NEW p \in Procs, pc[p] # "idle"
    PROVE  Running
  BY DEF LockInv

LEMMA NoWriteInFlight ==
    ASSUME TypeOK, LockInv, WriteInv, NEW p \in Procs,
           pc[p] \in {"locked", "active", "stored", "confirmed", "closing"}
    PROVE  store = durable /\ inflight = durable
<1>1. \A q \in Procs : pc[q] \notin {"setting", "committing"}
  BY SoleWriter DEF Writing
<1> QED BY <1>1 DEF WriteInv

LEMMA CounterWrite ==
    ASSUME TypeOK, WriteInv, NEW p \in Procs, pc[p] = "setting"
    PROVE  inflight.count = counter + 1 /\ inflight.txs = durable.txs
  BY DEF WriteInv, TypeOK, Stores

LEMMA BatchWrite ==
    ASSUME TypeOK, WriteInv, NEW p \in Procs, pc[p] = "committing"
    PROVE  /\ inflight.count = durable.count /\ inflight.txs = durable.txs \cup {counter}
           /\ source = counter
  BY DEF WriteInv, TypeOK, Stores

\* The write in flight adds to the store.
LEMMA WriteAdds ==
    ASSUME TypeOK, LockInv, WriteInv
    PROVE  durable.count <= inflight.count /\ durable.txs \subseteq inflight.txs
<1>1. durable \in Stores /\ durable.count \in Int
  BY DEF TypeOK, Stores, Counters
<1>2. CASE \A p \in Procs : pc[p] \notin {"setting", "committing"}
  BY <1>1, <1>2 DEF WriteInv
<1>3. ASSUME NEW p \in Procs, pc[p] = "setting"
      PROVE  durable.count <= inflight.count /\ durable.txs \subseteq inflight.txs
  <2>1. counter = durable.count
    BY <1>3, WriterRuns DEF WriteInv
  <2> QED BY <1>1, <1>3, <2>1, CounterWrite
<1>4. ASSUME NEW p \in Procs, pc[p] = "committing"
      PROVE  durable.count <= inflight.count /\ durable.txs \subseteq inflight.txs
  BY <1>1, <1>4, BatchWrite
<1> QED BY <1>2, <1>3, <1>4

-----------------------------------------------------------------------------
LEMMA NextType == TypeOK /\ LockInv /\ WriteInv /\ [Next]_vars => TypeOK'
<1> SUFFICES ASSUME TypeOK, LockInv, WriteInv, [Next]_vars PROVE TypeOK'
  OBVIOUS
<1> USE TransactionAssumption
<1>0. CASE UNCHANGED vars
  BY <1>0 DEF TypeOK, vars
<1>1. ASSUME NEW ro \in BOOLEAN, Open(ro) PROVE TypeOK'
  <2>1. OpenedCounter \in Counters
    BY DEF TypeOK, Stores, OpenedCounter
  <2> QED BY <1>1, <2>1 DEF Open, TypeOK
<1>2. CASE Stop
  BY <1>2 DEF Stop, TypeOK, Empty, Stores, Counters
<1>3. CASE Restore
  BY <1>3 DEF Restore, TypeOK
<1>4. CASE Publish
  BY <1>4 DEF Publish, TypeOK
<1>5. ASSUME NEW p \in Procs, NewReadTransaction(p) \/ NewWriteTransaction(p) \/ LockTx(p) \/ BeginWrite(p)
      PROVE  TypeOK'
  BY <1>5 DEF NewReadTransaction, NewWriteTransaction, LockTx, BeginWrite, TypeOK
<1>6. ASSUME NEW p \in Procs, CommitRefused(p) \/ Abort(p) \/ CloseUnlock(p)
      PROVE  TypeOK'
  BY <1>6 DEF CommitRefused, Abort, CloseUnlock, LockReleased, TypeOK
<1>7. ASSUME NEW p \in Procs, CloseSnapshot(p) PROVE TypeOK'
  BY <1>7 DEF CloseSnapshot, TypeOK, Empty, Stores, Counters
<1>8. ASSUME NEW p \in Procs, CommitCounter(p) PROVE TypeOK'
  <2>1. counter + 1 \in Counters
    BY <1>8 DEF CommitCounter, TypeOK, Counters
  <2>2. inflight' \in Stores
    BY <1>8, <2>1 DEF CommitCounter, TypeOK, Stores
  <2> QED BY <1>8, <2>2 DEF CommitCounter, TypeOK
<1>9. ASSUME NEW p \in Procs, CounterStored(p) PROVE TypeOK'
  <2>1. counter + 1 \in Counters
    BY <1>9, CounterWrite DEF CounterStored, TypeOK, Stores
  <2> QED BY <1>9, <2>1 DEF CounterStored, WriteReturns, Synced, TypeOK
<1>10. ASSUME NEW p \in Procs, RaiseSource(p) \/ RaiseSourceFails(p) PROVE TypeOK'
  <2>1. Raised(counter) \in Counters
    BY DEF Raised, TypeOK
  <2> QED BY <1>10, <2>1 DEF RaiseSource, RaiseSourceFails, ErrorReturned, TypeOK
<1>11. ASSUME NEW p \in Procs, CommitBatch(p) PROVE TypeOK'
  <2>1. inflight' \in Stores
    BY <1>11 DEF CommitBatch, TypeOK, Stores
  <2> QED BY <1>11, <2>1 DEF CommitBatch, TypeOK
<1>12. ASSUME NEW p \in Procs, BatchCommitted(p) PROVE TypeOK'
  BY <1>12 DEF BatchCommitted, WriteReturns, Synced, TypeOK
<1> QED BY <1>0, <1>1, <1>2, <1>3, <1>4, <1>5, <1>6, <1>7, <1>8, <1>9, <1>10, <1>11, <1>12 DEF Next, Step

-----------------------------------------------------------------------------
LEMMA NextLock == TypeOK /\ LockInv /\ [Next]_vars => LockInv'
<1> SUFFICES ASSUME TypeOK, LockInv, [Next]_vars PROVE LockInv'
  OBVIOUS
<1> USE TransactionAssumption
<1>0. CASE UNCHANGED vars
  BY <1>0 DEF LockInv, Running, vars
<1>1. ASSUME NEW ro \in BOOLEAN, Open(ro) PROVE LockInv'
  BY <1>1 DEF Open, LockInv, Running
<1>2. CASE Stop \/ Restore \/ Publish
  BY <1>2 DEF Stop, Restore, Publish, LockInv, Running, Writing
<1>3. ASSUME NEW p \in Procs, Step(p) PROVE LockInv'
  <2>1. Running
    BY <1>3, WriterRuns DEF Step, NewReadTransaction, NewWriteTransaction, LockTx, BeginWrite, CommitCounter,
          CommitRefused, CounterStored, RaiseSource, RaiseSourceFails, CommitBatch, BatchCommitted, Abort,
          CloseUnlock, CloseSnapshot, Running
  <2>2. Running'
    BY <1>3, <2>1 DEF Step, NewReadTransaction, NewWriteTransaction, LockTx, BeginWrite, CommitCounter,
          CommitRefused, CounterStored, RaiseSource, RaiseSourceFails, CommitBatch, BatchCommitted, Abort,
          CloseUnlock, CloseSnapshot, Running
  <2>3. CASE LockTx(p)
    BY <2>2, <2>3 DEF LockTx, TxLockFree, LockInv, TypeOK, Writing
  <2>4. CASE CloseUnlock(p)
    BY <2>2, <2>4, SoleWriter DEF CloseUnlock, LockReleased, LockInv, TypeOK, Writing
  <2>5. CASE ~LockTx(p) /\ ~CloseUnlock(p)
    <3>1. /\ txLock' = txLock
          /\ \E s \in Writing \cup {"idle", "reading", "waiting"} :
                /\ pc' = [pc EXCEPT ![p] = s]
                /\ s \in Writing <=> pc[p] \in Writing
      BY <1>3, <2>5 DEF Step, NewReadTransaction, NewWriteTransaction, BeginWrite, CommitCounter,
          CommitRefused, CounterStored, RaiseSource, RaiseSourceFails, CommitBatch, BatchCommitted, Abort,
          CloseSnapshot, ErrorReturned, TypeOK, Writing
    <3> QED BY <2>2, <3>1 DEF LockInv, TypeOK
  <2> QED BY <2>3, <2>4, <2>5
<1> QED BY <1>0, <1>1, <1>2, <1>3 DEF Next

-----------------------------------------------------------------------------
\* A step of p that writes nothing, seen from WriteInv.
LEMMA QuietStep ==
    ASSUME TypeOK, LockInv, WriteInv, NEW p \in Procs, NEW s,
           pc[p] \notin {"setting", "committing"}, s \notin {"setting", "committing"},
           pc' = [pc EXCEPT ![p] = s],
           UNCHANGED <<store, durable, inflight, counter, status>>,
           source' = source \/ pc[p] \in Writing,
           s = "confirmed" => source' = counter
    PROVE  WriteInv'
<1>1. \A q \in Procs : pc'[q] = IF q = p THEN s ELSE pc[q]
  BY DEF TypeOK
<1>2. (\A q \in Procs : pc'[q] \notin {"setting", "committing"})
        => \A q \in Procs : pc[q] \notin {"setting", "committing"}
  BY <1>1
<1>3. \A q \in Procs : pc'[q] \in {"confirmed", "committing"} => source' = counter
  <2>1. CASE source' = source
    BY <1>1, <2>1 DEF WriteInv
  <2>2. CASE pc[p] \in Writing
    BY <1>1, <2>2, SoleWriter DEF Writing
  <2> QED BY <2>1, <2>2
<1>4. \A q \in Procs : pc'[q] \in {"setting", "committing"} => pc[q] = pc'[q]
  BY <1>1
<1> QED BY <1>2, <1>3, <1>4 DEF WriteInv, Running

LEMMA NextWrite == TypeOK /\ LockInv /\ WriteInv /\ [Next]_vars => WriteInv'
<1> SUFFICES ASSUME TypeOK, LockInv, WriteInv, [Next]_vars PROVE WriteInv'
  OBVIOUS
<1>0. CASE UNCHANGED vars
  BY <1>0 DEF WriteInv, Running, vars
<1>1. ASSUME NEW ro \in BOOLEAN, Open(ro) PROVE WriteInv'
  <2>1. \A q \in Procs : pc'[q] = "idle" /\ pc[q] = "idle"
    BY <1>1 DEF Open, LockInv, Running
  <2> QED BY <1>1, <2>1 DEF Open, OpenedCounter, WriteInv, Running
<1>2. CASE Stop
  BY <1>2 DEF Stop, WriteInv, Running
<1>3. CASE Restore
  <2>1. \A q \in Procs : pc'[q] = "idle"
    BY <1>3 DEF Restore, LockInv, Running
  <2> QED BY <1>3, <2>1 DEF Restore, WriteInv, Running
<1>4. CASE Publish
  BY <1>4 DEF Publish, WriteInv, Running
<1>5. ASSUME NEW p \in Procs,
             \/ NewReadTransaction(p) \/ NewWriteTransaction(p) \/ LockTx(p) \/ BeginWrite(p)
             \/ CommitRefused(p) \/ Abort(p) \/ CloseUnlock(p) \/ CloseSnapshot(p)
      PROVE  WriteInv'
  <2>1. PICK s \in {"idle", "reading", "waiting", "locked", "active", "closing"} :
            pc' = [pc EXCEPT ![p] = s] /\ pc[p] \notin {"setting", "committing"}
    BY <1>5 DEF NewReadTransaction, NewWriteTransaction, LockTx, BeginWrite, CommitRefused, Abort,
          CloseUnlock, CloseSnapshot
  <2>2. UNCHANGED <<store, durable, inflight, counter, status, source>>
    BY <1>5 DEF NewReadTransaction, NewWriteTransaction, LockTx, BeginWrite, CommitRefused, Abort,
          CloseUnlock, CloseSnapshot
  <2> QED BY <2>1, <2>2, QuietStep
<1>6. ASSUME NEW p \in Procs, CommitCounter(p) PROVE WriteInv'
  <2>1. store = durable /\ pc[p] \in Writing
    BY <1>6, NoWriteInFlight DEF CommitCounter, Writing
  <2>2. pc'[p] = "setting" /\ \A q \in Procs : q # p => pc'[q] \notin Writing
    BY <1>6, <2>1, SoleWriter DEF CommitCounter, TypeOK
  <2> QED BY <1>6, <2>1, <2>2 DEF CommitCounter, WriteInv, Writing, Running
<1>7. ASSUME NEW p \in Procs, CounterStored(p) PROVE WriteInv'
  <2>1. pc'[p] = "stored" /\ \A q \in Procs : q # p => pc'[q] \notin Writing
    BY <1>7, SoleWriter DEF CounterStored, TypeOK, Writing
  <2>2. store' = durable' /\ inflight' = durable'
    BY <1>7 DEF CounterStored, WriteReturns, Synced
  <2>3. counter' = durable'.count
    BY <1>7, <2>2, CounterWrite DEF CounterStored
  <2> QED BY <2>1, <2>2, <2>3 DEF WriteInv, Writing
<1>8. ASSUME NEW p \in Procs, RaiseSource(p) PROVE WriteInv'
  <2>1. pc[p] = "stored" /\ pc[p] \in Writing /\ source' = Raised(counter)
        /\ UNCHANGED <<store, durable, inflight, counter>>
    BY <1>8 DEF RaiseSource, Writing
  <2>2. CASE source > counter - 1
    <3>1. \A q \in Procs : pc'[q] = pc[q] /\ pc[q] \notin {"confirmed", "setting", "committing"}
      BY <1>8, <2>1, <2>2, SoleWriter DEF RaiseSource, Writing
    <3> QED BY <1>8, <2>1, <2>2, <3>1, WriterRuns DEF RaiseSource, WriteInv
  <2>3. CASE ~(source > counter - 1)
    <3>1. source' = counter
      BY <2>1, <2>3 DEF Raised, TypeOK, Counters
    <3> QED BY <1>8, <2>1, <2>3, <3>1, QuietStep DEF RaiseSource
  <2> QED BY <2>2, <2>3
<1>9. ASSUME NEW p \in Procs, RaiseSourceFails(p) PROVE WriteInv'
  BY <1>9, QuietStep DEF RaiseSourceFails, ErrorReturned, Writing
<1>10. ASSUME NEW p \in Procs, CommitBatch(p) PROVE WriteInv'
  <2>1. store = durable /\ pc[p] \in Writing /\ source = counter
    BY <1>10, NoWriteInFlight DEF CommitBatch, Writing, WriteInv
  <2>2. pc'[p] = "committing" /\ \A q \in Procs : q # p => pc'[q] \notin Writing
    BY <1>10, <2>1, SoleWriter DEF CommitBatch, TypeOK
  <2> QED BY <1>10, <2>1, <2>2 DEF CommitBatch, WriteInv, Writing, Running
<1>11. ASSUME NEW p \in Procs, BatchCommitted(p) PROVE WriteInv'
  <2>1. pc'[p] = "closing" /\ \A q \in Procs : q # p => pc'[q] \notin Writing
    BY <1>11, SoleWriter DEF BatchCommitted, TypeOK, Writing
  <2>2. store' = durable' /\ inflight' = durable'
    BY <1>11 DEF BatchCommitted, WriteReturns, Synced
  <2>3. Running => counter' = durable'.count
    BY <1>11, <2>2, BatchWrite DEF BatchCommitted, WriteInv
  <2> QED BY <1>11, <2>1, <2>2, <2>3 DEF BatchCommitted, WriteInv, Writing, Running
<1> QED BY <1>0, <1>1, <1>2, <1>3, <1>4, <1>5, <1>6, <1>7, <1>8, <1>9, <1>10, <1>11 DEF Next, Step

-----------------------------------------------------------------------------
LEMMA RaisedSource ==
    ASSUME TypeOK
    PROVE  /\ Raised(counter) \in Counters /\ source <= Raised(counter) /\ counter <= Raised(counter)
           /\ Raised(counter) \in {source, counter}
  BY DEF TypeOK, Raised, Counters

LEMMA NextAccessible ==
    TypeOK /\ LockInv /\ WriteInv /\ StaysAccessible /\ [Next]_vars => StaysAccessible'
<1> SUFFICES ASSUME TypeOK, LockInv, WriteInv, StaysAccessible, [Next]_vars, restores' = 0
             PROVE  durable'.count >= source' /\ status' # "rollback"
  BY DEF StaysAccessible
<1>1. durable.count \in Int /\ inflight.count \in Int /\ source \in Int /\ counter \in Int /\ restores \in Nat
  BY TransactionAssumption DEF TypeOK, Stores, Counters
<1>2. ~Restore /\ restores = 0
  <2>1. ~Restore
    BY <1>1 DEF Restore
  <2> QED BY <2>1 DEF Next, Step, Open, Stop, Publish, NewReadTransaction, NewWriteTransaction, LockTx, BeginWrite,
        CommitCounter, CommitRefused, CounterStored, RaiseSource, RaiseSourceFails, CommitBatch, BatchCommitted,
        Abort, CloseUnlock, CloseSnapshot, vars
<1>3. durable.count >= source /\ status # "rollback"
  BY <1>2 DEF StaysAccessible
<1>4. ASSUME NEW ro \in BOOLEAN, Open(ro) PROVE durable'.count >= source' /\ status' # "rollback"
  BY <1>3, <1>4 DEF Open, Fresh
<1>5. CASE Stop
  BY <1>1, <1>3, <1>5, WriteAdds DEF Stop
<1>6. ASSUME NEW p \in Procs, CounterStored(p) \/ BatchCommitted(p)
      PROVE  durable'.count >= source' /\ status' # "rollback"
  BY <1>1, <1>3, <1>6, WriteAdds DEF CounterStored, BatchCommitted, WriteReturns, Synced
<1>7. ASSUME NEW p \in Procs, RaiseSource(p) \/ RaiseSourceFails(p)
      PROVE  durable'.count >= source' /\ status' # "rollback"
  <2>1. counter = durable.count
    BY <1>7, WriterRuns DEF WriteInv, RaiseSource, RaiseSourceFails
  <2>2. durable' = durable /\ source' \in {source, counter} /\ (status' = status \/ status' = "fatal")
    BY <1>7, RaisedSource DEF RaiseSource, RaiseSourceFails
  <2> QED BY <1>1, <1>3, <2>1, <2>2
<1>8. CASE UNCHANGED <<durable, source, status>>
  BY <1>3, <1>8
<1> QED BY <1>2, <1>4, <1>5, <1>6, <1>7, <1>8 DEF Next, Step, Publish, NewReadTransaction, NewWriteTransaction,
      LockTx, BeginWrite, CommitCounter, CommitRefused, CommitBatch, Abort, CloseUnlock, CloseSnapshot, vars

LEMMA NextHistory ==
    TypeOK /\ LockInv /\ WriteInv /\ HistoryInv /\ [Next]_vars => HistoryInv'
<1> SUFFICES ASSUME TypeOK, LockInv, WriteInv, HistoryInv, [Next]_vars PROVE HistoryInv'
  OBVIOUS
<1>1. /\ durable.count \in Int /\ inflight.count \in Int /\ source \in Int /\ counter \in Int
      /\ restores \in Nat /\ acked \subseteq Int
  BY TransactionAssumption DEF TypeOK, Stores, Counters
<1>2. ASSUME NEW ro \in BOOLEAN, Open(ro) PROVE HistoryInv'
  <2>1. UNCHANGED <<durable, source, acked, restores>> /\ (Running' => source <= durable.count)
    BY <1>1, <1>2 DEF Open, Fresh, Running
  <2> QED BY <2>1 DEF HistoryInv
<1>3. ASSUME durable' \in {durable, inflight}, UNCHANGED <<source, acked, restores>>, Running
      PROVE  HistoryInv'
  <2>1. durable.count <= durable'.count /\ durable.txs \subseteq durable'.txs /\ durable'.count \in Int
    BY <1>1, <1>3, WriteAdds
  <2> QED BY <1>1, <1>3, <2>1 DEF HistoryInv
<1>4. CASE Stop
  BY <1>3, <1>4 DEF Stop, Running
<1>5. CASE Restore
  BY <1>1, <1>5 DEF Restore, HistoryInv, Running
<1>6. ASSUME NEW p \in Procs, CounterStored(p) PROVE HistoryInv'
  BY <1>3, <1>6, WriterRuns DEF CounterStored, WriteReturns, Synced
<1>7. ASSUME NEW p \in Procs, RaiseSource(p) \/ RaiseSourceFails(p) PROVE HistoryInv'
  <2>1. UNCHANGED <<durable, acked, restores>> /\ source <= source' /\ source' \in {source, counter}
    BY <1>1, <1>7, RaisedSource DEF RaiseSource, RaiseSourceFails
  <2>2. Running /\ counter = durable.count
    BY <1>7, WriterRuns DEF RaiseSource, RaiseSourceFails, WriteInv
  <2>3. source' <= durable.count
    BY <1>1, <2>1, <2>2 DEF HistoryInv
  <2>4. \A t \in acked : t <= source'
    BY <1>1, <2>1 DEF HistoryInv
  <2> QED BY <2>1, <2>3, <2>4 DEF HistoryInv
<1>8. ASSUME NEW p \in Procs, BatchCommitted(p) PROVE HistoryInv'
  <2>1. /\ Running /\ counter = durable.count /\ source = counter
        /\ durable' = inflight /\ acked' = acked \cup {counter} /\ UNCHANGED <<source, restores>>
    BY <1>8, WriterRuns, BatchWrite DEF BatchCommitted, WriteReturns, Synced, WriteInv
  <2>2. inflight.count = counter /\ inflight.txs = durable.txs \cup {counter}
    BY <1>8, <2>1, BatchWrite DEF BatchCommitted
  <2> QED BY <1>1, <2>1, <2>2 DEF HistoryInv
<1>9. CASE UNCHANGED <<durable, source, status, acked, restores>>
  BY <1>9 DEF HistoryInv, Running
<1> QED BY <1>2, <1>4, <1>5, <1>6, <1>7, <1>8, <1>9 DEF Next, Step, Publish, NewReadTransaction,
      NewWriteTransaction, LockTx, BeginWrite, CommitCounter, CommitRefused, CommitBatch, Abort, CloseUnlock,
      CloseSnapshot, vars

LEMMA NextSnapshot ==
    TypeOK /\ LockInv /\ WriteInv /\ WriterReadsItsSnapshot /\ [Next]_vars => WriterReadsItsSnapshot'
<1> SUFFICES ASSUME TypeOK, LockInv, WriteInv, WriterReadsItsSnapshot, [Next]_vars, NEW p \in Procs, pc'[p] = "active"
             PROVE  snap'[p] = store'
  BY DEF WriterReadsItsSnapshot
<1>1. ASSUME NEW ro \in BOOLEAN, Open(ro) PROVE FALSE
  BY <1>1 DEF Open, LockInv, Running
<1>2. CASE Stop \/ Restore
  BY <1>2 DEF Stop, Restore, LockInv, Running
<1>3. CASE Publish
  BY <1>3, NoWriteInFlight DEF Publish
<1>4. ASSUME NEW q \in Procs, Step(q) PROVE snap'[p] = store'
  <2>1. store' = store
    BY <1>4 DEF Step, NewReadTransaction, NewWriteTransaction, LockTx, BeginWrite, CommitCounter,
          CommitRefused, CounterStored, RaiseSource, RaiseSourceFails, CommitBatch, BatchCommitted, Abort,
          CloseUnlock, CloseSnapshot
  <2>2. BeginWrite(q) \/ \E s \in Writing \cup {"idle", "reading", "waiting"} :
            s # "active" /\ pc' = [pc EXCEPT ![q] = s]
    BY <1>4 DEF Step, NewReadTransaction, NewWriteTransaction, LockTx, BeginWrite, CommitCounter,
          CommitRefused, CounterStored, RaiseSource, RaiseSourceFails, CommitBatch, BatchCommitted, Abort,
          CloseUnlock, CloseSnapshot, ErrorReturned, TypeOK, Writing
  <2>3. snap' = snap \/ \E s : snap' = [snap EXCEPT ![q] = s]
    BY <1>4 DEF Step, NewReadTransaction, NewWriteTransaction, LockTx, BeginWrite, CommitCounter,
          CommitRefused, CounterStored, RaiseSource, RaiseSourceFails, CommitBatch, BatchCommitted, Abort,
          CloseUnlock, CloseSnapshot
  <2>4. CASE BeginWrite(q) /\ q = p
    BY <2>4 DEF BeginWrite, TypeOK
  <2>5. CASE q # p
    BY <2>1, <2>2, <2>3, <2>5 DEF BeginWrite, TypeOK, WriterReadsItsSnapshot
  <2> QED BY <2>2, <2>4, <2>5 DEF TypeOK
<1>5. CASE UNCHANGED vars
  BY <1>5 DEF vars, WriterReadsItsSnapshot
<1> QED BY <1>1, <1>2, <1>3, <1>4, <1>5 DEF Next

-----------------------------------------------------------------------------
IInv == TypeOK /\ CommitInv /\ StaysAccessible /\ WriterReadsItsSnapshot

LEMMA InitInv == Init => IInv
<1> SUFFICES ASSUME Init PROVE IInv
  OBVIOUS
<1> USE TransactionAssumption
<1>1. Empty \in Stores /\ 0 \in Counters
  BY DEF Empty, Stores, Counters
<1>2. TypeOK
  <2>1. readOnly \in BOOLEAN
    BY Zenon DEF Init
  <2>2. restores \in 0 .. MaxRestores
    BY DEF Init
  <2> QED BY <1>1, <2>1, <2>2 DEF Init, TypeOK
<1>3. LockInv /\ WriteInv
  BY DEF Init, LockInv, WriteInv, Running, Writing
<1>4. HistoryInv
  <2>1. acked = {} /\ ~Running
    BY DEF Init, Running
  <2> QED BY <2>1 DEF HistoryInv
<1>5. StaysAccessible /\ WriterReadsItsSnapshot
  BY DEF Init, StaysAccessible, WriterReadsItsSnapshot, Empty
<1> QED BY <1>2, <1>3, <1>4, <1>5 DEF IInv, CommitInv

LEMMA NextInv == IInv /\ [Next]_vars => IInv'
  BY NextType, NextLock, NextWrite, NextHistory, NextAccessible, NextSnapshot DEF IInv, CommitInv

LEMMA Invariance == Spec => []IInv
  BY InitInv, NextInv, PTL DEF Spec

\* One write transaction at a time has txLock, through both writes of its
\* commit, and the history of the counters is the history of the batches.
THEOREM CommitInvariant == Spec => []CommitInv
<1>1. IInv => CommitInv
  BY DEF IInv
<1> QED BY <1>1, Invariance, PTL

\* As long as no older copy is put back, Open accepts the directory: no error,
\* crash or order of transactions leaves the store's counter behind the source's.
THEOREM StoreStaysAccessible == Spec => []StaysAccessible
<1>1. IInv => StaysAccessible
  BY DEF IInv
<1> QED BY <1>1, Invariance, PTL

\* A write transaction that has not begun its commit reads the same state
\* through its snapshot and through the store.
THEOREM WriterSeesItsSnapshot == Spec => []WriterReadsItsSnapshot
<1>1. IInv => WriterReadsItsSnapshot
  BY DEF IInv
<1> QED BY <1>1, Invariance, PTL

\* Commit returns nil only when memory, store, disk and source have the
\* transaction's counter value.
THEOREM CountersAgreeAtCommit == Spec => AckedCountersAgree
<1>1. IInv /\ [Next]_vars =>
        [acked' # acked => source' = counter' /\ store'.count = counter' /\ durable'.count = counter']_vars
  <2> SUFFICES ASSUME IInv, Next, acked' # acked
               PROVE  source' = counter' /\ store'.count = counter' /\ durable'.count = counter'
    OBVIOUS
  <2>1. PICK p \in Procs : BatchCommitted(p)
    BY DEF Next, Step, Open, Stop, Restore, Publish, NewReadTransaction, NewWriteTransaction, LockTx, BeginWrite,
        CommitCounter, CommitRefused, CounterStored, RaiseSource, RaiseSourceFails, CommitBatch,
        Abort, CloseUnlock, CloseSnapshot
  <2>2. counter = durable.count
    BY <2>1, WriterRuns DEF BatchCommitted, IInv, CommitInv, WriteInv
  <2>3. inflight.count = counter /\ source = counter
    BY <2>1, <2>2, BatchWrite DEF BatchCommitted, IInv, CommitInv
  <2> QED BY <2>1, <2>3 DEF BatchCommitted, WriteReturns, Synced
<1> QED BY <1>1, Invariance, PTL DEF Spec, AckedCountersAgree

\* What Commit acknowledged is in the store that Open accepts after any stops
\* and errors, and does not leave an open store; with any number of older copies
\* put back, a store that opens has the counter of every acknowledged transaction.
THEOREM CommittedIsKept == Spec => CommittedStaysCommitted
<1>1. IInv /\ [Next]_vars =>
        [status' = "open" =>
            /\ restores = 0 => acked \subseteq store'.txs
            /\ status = "open" => acked \cap store.txs \subseteq store'.txs
            /\ \A t \in acked : t <= store'.count]_vars
  <2> SUFFICES ASSUME IInv, Next, status' = "open"
               PROVE  /\ restores = 0 => acked \subseteq store'.txs
                      /\ status = "open" => acked \cap store.txs \subseteq store'.txs
                      /\ \A t \in acked : t <= store'.count
    OBVIOUS
  <2> USE DEF IInv, CommitInv
  <2>1. durable.count \in Int /\ inflight.count \in Int /\ source \in Int /\ acked \subseteq Int
    BY TransactionAssumption DEF TypeOK, Stores, Counters
  <2>2. \A t \in acked : t <= source
    BY DEF HistoryInv
  <2>3. ASSUME NEW ro \in BOOLEAN, Open(ro)
        PROVE  /\ restores = 0 => acked \subseteq store'.txs
               /\ status # "open"
               /\ \A t \in acked : t <= store'.count
    <3>1. store' = durable /\ source <= durable.count /\ status # "open"
      BY <2>1, <2>3 DEF Open, Fresh
    <3> QED BY <2>1, <2>2, <3>1 DEF HistoryInv
  <2>4. CASE Running /\ (store' = store \/ store' = inflight)
    <3>1. /\ store' \in {durable, inflight} /\ store \in {durable, inflight}
          /\ durable.count <= inflight.count /\ durable.txs \subseteq inflight.txs
      BY <2>4, WriteAdds DEF WriteInv
    <3>2. source <= durable.count
      BY <2>4 DEF HistoryInv
    <3>3. \A t \in acked : t <= store'.count
      BY <2>1, <2>2, <3>1, <3>2
    <3>4. restores = 0 => acked \subseteq store'.txs
      BY <3>1 DEF HistoryInv
    <3>5. store.txs \subseteq store'.txs
      BY <2>4, <3>1
    <3> QED BY <3>3, <3>4, <3>5
  <2>5. CASE Publish
    BY <2>4, <2>5 DEF Publish, Running
  <2>6. ASSUME NEW p \in Procs, Step(p) PROVE Running /\ store' = store
    BY <2>6, WriterRuns DEF Step, NewReadTransaction, NewWriteTransaction, LockTx, BeginWrite, CommitCounter,
          CommitRefused, CounterStored, RaiseSource, RaiseSourceFails, CommitBatch, BatchCommitted, Abort,
          CloseUnlock, CloseSnapshot, Running
  <2> QED BY <2>3, <2>4, <2>5, <2>6 DEF Next, Stop, Restore
<1> QED BY <1>1, Invariance, PTL DEF Spec, CommittedStaysCommitted
=============================================================================
