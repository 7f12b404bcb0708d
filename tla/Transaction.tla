----------------------------- MODULE Transaction -----------------------------
(***************************************************************************)
(* Transactions (transaction.go) and the freshness check (edg.go).  A write*)
(* transaction holds txLock from NewTransaction to Close.  Its Commit      *)
(* raises the counter kept in the store, then the counter of a trusted     *)
(* source, then commits its batch.  Open compares the two counters.        *)
(*                                                                         *)
(* The store is abstract: the value of the counter key and the set of      *)
(* transactions whose batches it contains, a transaction being named by    *)
(* the counter value it took.  A write of the store (Set or Batch.Commit   *)
(* with nil options, which syncs) is in flight, then visible, and returns  *)
(* once it is also durable; a crash keeps or drops the write in flight.    *)
(***************************************************************************)
EXTENDS Integers, FiniteSets

CONSTANTS Procs,        \* goroutines that use transactions
          NoProc,       \* nobody holds txLock
          MaxCounter,   \* bound: largest value of the store counter
          MaxRestores   \* bound: how often an older copy of the directory is put back

ASSUME TransactionAssumption ==
    /\ NoProc \notin Procs
    /\ MaxCounter \in Nat
    /\ MaxRestores \in Nat

VARIABLES
    store,      \* what new snapshots and iterators read
    durable,    \* what is on disk for certain
    inflight,   \* the store after the write in flight; = store when there is none
    source,     \* the trusted counter behind Options.SetMonotonicCounter
    counter,    \* DB.monotonicCounter
    status,     \* "closed", "open", "rollback" (Open failed) or "fatal" (Logger.Fatalf)
    readOnly,   \* Options.ReadOnly of this Open
    txLock,     \* holder of DB.txLock
    pc,         \* where each goroutine is in its transaction
    snap,       \* Transaction.snap
    acked,      \* history: transactions whose Commit returned nil
    past,       \* history: every durable state, a copy of which may exist
    restores    \* history: copies put back
vars == <<store, durable, inflight, source, counter, status, readOnly, txLock, pc, snap, acked, past, restores>>

Counters == 0 .. MaxCounter
Stores == [count : Counters, txs : SUBSET Counters]
Empty == [count |-> 0, txs |-> {}]

Init ==
    /\ store = Empty /\ durable = Empty /\ inflight = Empty
    /\ source = 0
    /\ counter = 0
    /\ status = "closed"
    /\ readOnly = FALSE
    /\ txLock = NoProc
    /\ pc = [p \in Procs |-> "idle"]
    /\ snap = [p \in Procs |-> Empty]
    /\ acked = {}
    /\ past = {Empty}
    /\ restores = 0


\* The contract of Options.SetMonotonicCounter: a greater value replaces the
\* counter, any other leaves it.
Raised(value) == IF value > source THEN value ELSE source

-----------------------------------------------------------------------------
(* edgVerifyFreshness at the end of Open                                   *)
AlwaysFresh == TRUE     \* mutant
Fresh == durable.count >= source

OpenedCounter == durable.count

Open(ro) ==
    /\ status \in {"closed", "rollback"}
    /\ IF Fresh
       THEN /\ status' = "open"
            /\ counter' = OpenedCounter
            /\ store' = durable /\ inflight' = durable
            /\ readOnly' = ro
       ELSE /\ status' = "rollback"
            /\ UNCHANGED <<counter, store, inflight, readOnly>>
    /\ UNCHANGED <<durable, source, txLock, pc, snap, acked, past, restores>>

-----------------------------------------------------------------------------
(* Transactions                                                            *)
NewReadTransaction(p) ==
    /\ status = "open"
    /\ pc[p] = "idle"
    /\ snap' = [snap EXCEPT ![p] = store]
    /\ pc' = [pc EXCEPT ![p] = "reading"]
    /\ UNCHANGED <<store, durable, inflight, source, counter, status, readOnly, txLock, acked, past, restores>>

\* NewTransaction(true) reaches txLock.Lock.
NewWriteTransaction(p) ==
    /\ status = "open"
    /\ pc[p] = "idle"
    /\ pc' = [pc EXCEPT ![p] = "waiting"]
    /\ UNCHANGED <<store, durable, inflight, source, counter, status, readOnly, txLock, snap, acked, past, restores>>

TxLockIgnored == TRUE     \* mutant
TxLockFree == txLock = NoProc

LockTx(p) ==
    /\ pc[p] = "waiting"
    /\ TxLockFree
    /\ txLock' = p
    /\ pc' = [pc EXCEPT ![p] = "locked"]
    /\ UNCHANGED <<store, durable, inflight, source, counter, status, readOnly, snap, acked, past, restores>>

\* NewIndexedBatch and NewSnapshot.
BeginWrite(p) ==
    /\ pc[p] = "locked"
    /\ snap' = [snap EXCEPT ![p] = store]
    /\ pc' = [pc EXCEPT ![p] = "active"]
    /\ UNCHANGED <<store, durable, inflight, source, counter, status, readOnly, txLock, acked, past, restores>>

\* Commit of a writable transaction starts edgSetMonotonicCounterOnStore.
CommitCounter(p) ==
    /\ pc[p] = "active"
    /\ ~readOnly
    /\ counter < MaxCounter
    /\ inflight' = [store EXCEPT !.count = counter + 1]
    /\ pc' = [pc EXCEPT ![p] = "setting"]
    /\ UNCHANGED <<store, durable, source, counter, status, readOnly, txLock, snap, acked, past, restores>>

\* The Set is refused (ErrReadOnly): Commit returns the error and closes.
CommitRefused(p) ==
    /\ pc[p] = "active"
    /\ readOnly
    /\ pc' = [pc EXCEPT ![p] = "closing"]
    /\ UNCHANGED <<store, durable, inflight, source, counter, status, readOnly, txLock, snap, acked, past, restores>>

\* The commit pipeline makes the write in flight visible.
Publish ==
    /\ status = "open"
    /\ store # inflight
    /\ store' = inflight
    /\ UNCHANGED <<durable, inflight, source, counter, status, readOnly, txLock, pc, snap, acked, past, restores>>

\* nil WriteOptions ask for a sync.
NoSync == durable     \* mutant
Synced == inflight

\* The write in flight returns: it is visible and synced.
WriteReturns ==
    /\ store = inflight
    /\ durable' = Synced
    /\ past' = past \cup {durable'}

\* Set returned: monotonicCounter is raised in memory.
CounterStored(p) ==
    /\ pc[p] = "setting"
    /\ WriteReturns
    /\ counter' = counter + 1
    /\ pc' = [pc EXCEPT ![p] = "stored"]
    /\ UNCHANGED <<store, inflight, source, status, readOnly, txLock, snap, acked, restores>>

\* SetMonotonicCounter returned the previous value of the source: greater than
\* the previous store counter is fatal.
RaiseSource(p) ==
    /\ pc[p] = "stored"
    /\ source' = Raised(counter)
    /\ IF source > counter - 1
       THEN /\ status' = "fatal"
            /\ UNCHANGED pc
       ELSE /\ pc' = [pc EXCEPT ![p] = "confirmed"]
            /\ UNCHANGED status
    /\ UNCHANGED <<store, durable, inflight, counter, readOnly, txLock, snap, acked, past, restores>>

CommittedAnyway == "confirmed"     \* mutant
ErrorReturned == "closing"

\* SetMonotonicCounter returned an error: the source may have moved or not.
RaiseSourceFails(p) ==
    /\ pc[p] = "stored"
    /\ source' \in {source, Raised(counter)}
    /\ pc' = [pc EXCEPT ![p] = ErrorReturned]
    /\ UNCHANGED <<store, durable, inflight, counter, status, readOnly, txLock, snap, acked, past, restores>>

\* Batch.Commit(nil).
CommitBatch(p) ==
    /\ pc[p] = "confirmed"
    /\ inflight' = [store EXCEPT !.txs = @ \cup {counter}]
    /\ pc' = [pc EXCEPT ![p] = "committing"]
    /\ UNCHANGED <<store, durable, source, counter, status, readOnly, txLock, snap, acked, past, restores>>

BatchCommitted(p) ==
    /\ pc[p] = "committing"
    /\ WriteReturns
    /\ acked' = acked \cup {counter}
    /\ pc' = [pc EXCEPT ![p] = "closing"]
    /\ UNCHANGED <<store, inflight, source, counter, status, readOnly, txLock, snap, restores>>

\* Close without Commit.
Abort(p) ==
    /\ pc[p] = "active"
    /\ pc' = [pc EXCEPT ![p] = "closing"]
    /\ UNCHANGED <<store, durable, inflight, source, counter, status, readOnly, txLock, snap, acked, past, restores>>

LockKept == txLock     \* mutant
LockReleased == NoProc

\* Close, deferred by Commit: txLock.Unlock comes before the batch and the
\* snapshot are closed, so that the next writer may start in between.
CloseUnlock(p) ==
    /\ pc[p] = "closing"
    /\ txLock' = LockReleased
    /\ pc' = [pc EXCEPT ![p] = "reading"]
    /\ UNCHANGED <<store, durable, inflight, source, counter, status, readOnly, snap, acked, past, restores>>

\* snap.Close, for readers (Commit and Close do only this) and writers.
CloseSnapshot(p) ==
    /\ pc[p] = "reading"
    /\ pc' = [pc EXCEPT ![p] = "idle"]
    /\ snap' = [snap EXCEPT ![p] = Empty]
    /\ UNCHANGED <<store, durable, inflight, source, counter, status, readOnly, txLock, acked, past, restores>>

-----------------------------------------------------------------------------
\* The process stops (Fatalf exits too), or DB.Close with no transaction: a write in flight is on
\* disk or it is not.
Stop ==
    /\ status \in {"open", "fatal"}
    /\ durable' \in {durable, inflight}
    /\ past' = past \cup {durable'}
    /\ store' = durable' /\ inflight' = durable'
    /\ status' = "closed"
    /\ txLock' = NoProc
    /\ pc' = [p \in Procs |-> "idle"]
    /\ snap' = [p \in Procs |-> Empty]
    /\ UNCHANGED <<source, counter, readOnly, acked, restores>>

\* The directory is replaced by a copy taken earlier (a backup is restored).
Restore ==
    /\ restores < MaxRestores
    /\ restores' = restores + 1
    /\ status \in {"closed", "rollback"}
    /\ durable' \in past
    /\ store' = durable' /\ inflight' = durable'
    /\ status' = "closed"
    /\ UNCHANGED <<source, counter, readOnly, txLock, pc, snap, acked, past>>

Step(p) ==
    \/ NewReadTransaction(p) \/ NewWriteTransaction(p) \/ LockTx(p) \/ BeginWrite(p)
    \/ CommitCounter(p) \/ CommitRefused(p) \/ CounterStored(p)
    \/ RaiseSource(p) \/ RaiseSourceFails(p)
    \/ CommitBatch(p) \/ BatchCommitted(p)
    \/ Abort(p) \/ CloseUnlock(p) \/ CloseSnapshot(p)

Next ==
    \/ \E ro \in BOOLEAN : Open(ro)
    \/ Stop \/ Restore \/ Publish
    \/ \E p \in Procs : Step(p)

Spec == Init /\ [][Next]_vars

\* A transaction that was started is eventually committed or closed by its
\* user, a commit eventually returns, and sync.Mutex starves no waiter.
Finishes(p) ==
    \/ BeginWrite(p) \/ CounterStored(p) \/ RaiseSource(p) \/ RaiseSourceFails(p)
    \/ CommitBatch(p) \/ BatchCommitted(p) \/ Abort(p) \/ CommitCounter(p) \/ CommitRefused(p)
    \/ CloseUnlock(p) \/ CloseSnapshot(p)
FairSpec ==
    /\ Spec
    /\ WF_vars(Publish)
    /\ \A p \in Procs : WF_vars(Finishes(p)) /\ SF_vars(LockTx(p))

-----------------------------------------------------------------------------
TypeOK ==
    /\ {store, durable, inflight} \subseteq Stores
    /\ past \subseteq Stores
    /\ {source, counter} \subseteq Counters
    /\ status \in {"closed", "open", "rollback", "fatal"}
    /\ readOnly \in BOOLEAN
    /\ txLock \in Procs \cup {NoProc}
    /\ pc \in [Procs -> {"idle", "reading", "waiting", "locked", "active", "setting", "stored",
                         "confirmed", "committing", "closing"}]
    /\ snap \in [Procs -> Stores]
    /\ acked \subseteq Counters
    /\ restores \in 0 .. MaxRestores

-----------------------------------------------------------------------------
(* Why the properties below hold, step by step.                            *)

Running == status \in {"open", "fatal"}
Writing == {"locked", "active", "setting", "stored", "confirmed", "committing", "closing"}

\* A write transaction has txLock from its start to its end.
LockInv ==
    /\ \A p \in Procs : pc[p] \in Writing <=> txLock = p
    /\ ~Running => \A p \in Procs : pc[p] = "idle"

\* The store changes only by the two writes of a commit, one after the other.
WriteInv ==
    /\ store \in {durable, inflight}
    /\ (\A p \in Procs : pc[p] \notin {"setting", "committing"}) => inflight = durable
    /\ \A p \in Procs :
          /\ pc[p] = "setting" => inflight = [durable EXCEPT !.count = counter + 1]
          /\ pc[p] = "committing" => inflight = [durable EXCEPT !.txs = @ \cup {counter}]
          /\ pc[p] \in {"confirmed", "committing"} => source = counter
    /\ Running => counter = durable.count

\* No transaction is acknowledged before the source has its counter, and a
\* store that runs is not behind the source.
HistoryInv ==
    /\ \A t \in acked : t <= source
    /\ Running => source <= durable.count
    /\ restores = 0 => acked \subseteq durable.txs

-----------------------------------------------------------------------------
\* "The order is important so that errors don't make the store inaccessible":
\* wherever a commit fails or the process stops, the counter on disk has
\* reached the source's, so Open accepts the directory the store left.
StaysAccessible == restores = 0 => durable.count >= source /\ status # "rollback"

\* What Commit acknowledged stays.  Whatever stops and errors came between,
\* the store that Open accepts has every acknowledged transaction, and none
\* leaves an open store.  However many older copies are put back, Open refuses
\* each one taken before the commit of an acknowledged transaction began: the
\* counter of an accepted one is no smaller than the transaction's.
CommittedStaysCommitted ==
    [][status' = "open" =>
          /\ restores = 0 => acked \subseteq store'.txs
          /\ status = "open" => acked \cap store.txs \subseteq store'.txs
          /\ \A t \in acked : t <= store'.count]_vars

\* Options.SetMonotonicCounter is to "provide rollback protection": no store
\* that Open accepts lacks a transaction whose Commit returned nil.  Open
\* compares counters, and Commit stores the counter before the batch.
RollbackDetected == status = "open" => acked \subseteq store.txs

\* Commit returns nil only with the store and the source at the same counter
\* value: a source that lagged behind after an error has caught up.
AckedCountersAgree ==
    [][acked' # acked => source' = counter' /\ store'.count = counter' /\ durable'.count = counter']_vars

\* Transaction.Get reads the snapshot and Transaction.NewIter of a writer reads
\* the current store: until its commit begins, both are the same state.
WriterReadsItsSnapshot == \A p \in Procs : pc[p] = "active" => snap[p] = store

\* txLock is held through both writes of a commit, which with the order of the
\* store's counter and the source's is what the properties rest on.
CommitInv == LockInv /\ WriteInv /\ HistoryInv

\* NewTransaction(true) blocks only until the current write transaction is
\* closed: every waiting writer gets its turn, also after failed commits.
WriterGetsTurn == \A p \in Procs : pc[p] = "waiting" ~> pc[p] # "waiting"
=============================================================================
