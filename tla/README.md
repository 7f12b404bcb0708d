# A TLA+ model of the store

`estore` is an embedded key-value store: an LSM tree (a fork of Pebble) whose
files are encrypted, whose file keys live in an authenticated chain of salts,
and whose transactions are bound to a trusted monotonic counter. This directory
holds TLA+ modules that model how it works, TLC configurations that check them
on small instances, and theorems that TLAPS proves for instances of any size.
`PROJECT.json` maps every definition to the lines of the source it stands for,
and lists the runs, the hazards, the theorems and, for each property, a small
change to the model (named `\* mutant` in the modules) that breaks it.

To check a run: `tlc -config MCRecovery.cfg MCRecovery`; to check the proofs of
a module: `tlapm KeyManagerProofs.tla`.

## The parts of the system and the modules

The write path. A batch (`Batch`) is committed by the commit pipeline
(`CommitPipeline`), which hands out sequence numbers, writes the record through
the WAL writer (`LogWriter`), applies the batch to the memtable (`Skiplist`)
and publishes it. Write transactions (`Transaction`) sit on top, one at a time,
and pair each commit with the trusted counter.

The life of the data. Memtables are flushed and tables compacted and ingested
(`Store`, `Ingest`, `CompactionPicker`, `L0Sublevels`, `CompactionIter`). The
MANIFEST records versions; a crash is followed by Open (`Recovery`). Every new
file takes a key from the key manager (`KeyManager`).

The read path. A user's iterator (`Iterator`) stands on a combined iterator of
points and range keys (`CombinedIter`), a merging iterator (`MergingIter`) over
level iterators (`LevelIter`), table iterators (`TableIter`) and block iterators
(`BlockIter`), and span iterators (`KeyspanIters`). `InternalKeys` has the keys.

| Module | Code | State and actions |
|---|---|---|
| `CommitPipeline` | `commit.go`, the sync queue of `record/log_writer.go` | One action per atomic operation or critical section of `Commit`, `AllocateSeqNum`, `directWrite`, `SyncWait`, `commitQueue` and the flush loop's release of waiters. Each goroutine has a program counter, a wait-group count and the values it loaded. |
| `LogWriter` | `record/log_writer.go` | The producer and the flush loop as two processes, `headTail` and the blocks they share, the condition variable, the min-sync timer, Close, failing writes and syncs. |
| `KeyManager` | `internal/edg/key.go` | Create in three steps (prepare, write, sync) by several goroutines under a mutex; errors of both I/O calls; process exit, power loss with torn blocks; reading the chain back. |
| `Transaction` | `transaction.go`, `edg.go` | NewTransaction, Commit with each early return, Close, Open with the freshness check, the trusted source and its failures, crashes, older copies of the directory. |
| `Recovery` | `db.go`, `compaction.go`, `version_set.go`, `open.go`, `vfs` | Files with their synced prefix and link; WAL rotation, flush, compaction, `logAndApply` and every stage of Open, each interruptible by a process crash or a power failure. |
| `Store`, `Ingest` | `compaction.go`, `ingest.go`, `version_set.go`, `table_stats.go`, `internal/manifest/version*.go` | Stretches of code that hold `DB.mu`: writes, flushes, picking, running, installing, cancelling of compactions, ingestions with excise and split, snapshots. |
| `CompactionPicker`, `L0Sublevels` | `compaction_picker.go`, `internal/manifest/l0_sublevels.go` | Operators: what may be picked in a version; sublevels built at once and file by file. |
| `CompactionIter` | `compaction_iter.go`, `compaction.go` | The compaction loop step by step: stripes, elision, splitters, outputs. |
| `Iterator` with contract `UserCursor` | `iterator.go` | One operator per positioning call. |
| `CombinedIter` with contract `CombinedCursor` | `range_keys.go`, `internal/rangekey`, `internal/keyspan/interleaving_iter.go` | Coalescing, interleaving, masking, lazy combined iteration. |
| `MergingIter`, `LevelIter`, `TableIter`, `BlockIter`, `Skiplist`, `Batch` with contract `OrderedCursor` | `merging_iter*.go`, `level_iter.go`, `sstable/*`, `internal/arenaskl`, `internal/batchskl`, `batch.go` | One operator per positioning call; the iterator is a record. |
| `KeyspanIters` with contract `FragmentCursor` | `internal/keyspan` | Fragmenter and fragment iterators. |

Sequential components are operators on records, and the MC modules turn every
allowed sequence of calls into a behaviour. Concurrent components are state
machines. A number a module bounds (records, salts, crashes, commits) is a
constant or a guard with a name; everything else is left as it is in the code.
Data is reduced to what a property can tell apart: a batch is its place in the
commit order, an HMAC is the sequence of pairs it authenticates, a table is the
set of keys or batches it holds.

## What the runs check

| Run | Shows |
|---|---|
| `commit` | All kinds of commits, ingestions included, on a ring that wraps around and with semaphores that run out of tokens: what is visible is applied, a commit that returned is visible, `visibleSeqNum` never goes down, an acknowledged sync is on disk, the WAL is in sequence-number order, no queue overflows, an ingestion sees the writes sequenced before it, every call returns; `PipelineInv` is the inductive invariant. |
| `log_writer` | A released waiter's record is synced, the file is in order, Close loses nothing, every request is answered; `LogWriterInv` is the inductive invariant. |
| `salt_chain` | Keys that Create returned are durable and found again; without errors the chain verifies; `SaltChainInv` is the inductive invariant. |
| `salt_chain_after_sync_error` | Expected to fail, see Findings. |
| `transactions` | The store can always be opened unless an older copy was put back, a writer's two ways of reading agree, counters agree at an acknowledged commit, waiting writers get their turn. `CommittedStaysCommitted`: after stops and errors alone, an Open that succeeds has every acknowledged transaction; after an older copy was put back, it has at least the counter of each of them. |
| `transactions_copy_inside_commit` | Expected to fail, see Findings: with the counter, the batch need not be there. |
| `recovery` | Acknowledged batches survive, recovery yields a prefix, the MANIFEST only names durable tables, Open fails only on a torn tail, no file number is used twice. `LogsReclaimed`: a log whose memtables are flushed, or due for a flush, is removed; those below the flush threshold may wait. |
| `recovery_log_key` | Expected to fail, see Findings. |
| `store` | Gets at the visible sequence number and at snapshots find the newest write, levels stay ordered, running compactions do not meet, incremental sublevels are those rebuilt. |
| `store_snapshot` | Expected to fail, see Findings. |
| `iterators` | Every internal iterator implements its contract (three refinements) on tables, levels and batches made to hit boundaries. |
| `reads` | The user's iterator implements its contract; a compaction keeps what each snapshot reads, its outputs are disjoint, its loop comes to an end. |

The three `Iterates...` properties and `IteratesUserKeys` are refinements: the
contract module is instantiated with the implementation's state mapped to the
contract's (`INSTANCE ... WITH`), and its specification is the property.

### Bounds

- Commit pipeline: three goroutines, `SyncConcurrency` 3, hence two tokens of
  each semaphore, and a ring of three slots. Three goroutines are more than the
  tokens and the least with a producer, a publisher that is overtaken and a
  third party that takes over. Four scenarios: an ingestion that waits for a
  token inside `directWrite`, holding the mutex, while two commits have both;
  four commits, which lap the ring; two operations of any kinds whose writes,
  applications and syncs may fail; empty batches. Liveness is checked in all.
  The sync queue of the log has room for every holder of a token, so a full one
  shows as a goroutine that waits for `logSyncQSem`, never as a failing `push`.
- `LogWriter`: blocks of two bytes and records of up to two: records that fill,
  straddle and share blocks. Two slots in the queue, so that it can be full.
- `KeyManager`: two goroutines, two files, four salts: a file whose key is
  created twice, and two calls in each other's way, before and after a crash.
- `Transaction`: two goroutines, counter up to 3, two restores: a commit before
  and one after each restored copy.
- `Recovery`: memtables grow from 1 to `MemTableSize` 4, doubling as in
  `newMemTable`, and writes stall above `MemTableStopWritesThreshold` 1 times
  that size. Scenarios: every job, a large batch and one crash; two crashes (the
  second may be inside Open); three rotations, forced, for want of room or by a
  large batch. In the last, memtables wait below the flush threshold, are
  flushed several at a time, and stall the writers.
- `Store`: eight scenarios, each a starting version with a short script, and one
  for the expected failure. A flush may begin before the writes it merges are
  published, as in the code. `ReadsSeeNewest` makes two exceptions: reads that
  such a merge took a key from (`early` records exactly these; they are the
  finding of `store_snapshot`), and keys removed by an excise, which takes them
  from older snapshots as well: `ingest.go:1141` says that it removes "any
  existing keys" of the span.
- Iterators: four or five user keys, at most three levels; every sequence of
  calls the contract allows. The thresholds 3 and 16 of the block iterator, 5 of
  the skiplist are smaller, so that the paths behind them are taken.

Some constants of the MC modules are operators (`Call`, `StepOf`, `PointsCall`,
`PickerAuto`, ...). The configurations give them the project's definitions;
they exist because TLC evaluates an operator given this way as one unit.

### Fairness

Fairness is assumed for steps inside an operation that was begun and for the
work the store schedules by itself. It is never assumed that the user begins
a call (a write, a forced flush, a compaction, a transaction), nor of failures
or crashes.

- `CommitPipeline`: weak fairness of each goroutine's next step (the scheduler)
  and of the flush loop's answer. With the bounded number of operations no
  fairness of the mutex or of the channels is needed.
- `LogWriter`: weak fairness of the flush loop, of the timer and of the steps
  of a producer inside `SyncRecord` and `Close`; strong fairness of taking
  `flusher.Mutex` in `queueBlock`, which the flush loop takes again and again
  (`sync.Mutex` hands itself to a waiter after a millisecond).
- `Transaction`: a transaction that was started is closed by its user, a store
  write in flight becomes visible; strong fairness of `txLock`, as above.
- `Recovery`: weak fairness of the rotation, of each job, of Open, of the
  cleaner and of log syncs, and of beginning a flush that is due: the code calls
  `maybeScheduleFlush` whenever it may have become due (after a rotation, when
  the last writer leaves a memtable, for a forced flush, after each flush and at
  the end of Open), and it starts one only past the threshold of
  `passedFlushThreshold`, which is the guard of `FlushBegin`. Strong fairness for a flush that competes with a
  compaction for the manifest lock (`versionSet.logLock` waits on a condition
  variable that wakes its waiters in order).

## What is proved

The theorems hold for every value of the constants that satisfies the named
assumptions of the modules: any number of goroutines, slots, blocks, records,
files, salts, transactions and crashes.

| Module | Theorems |
|---|---|
| `CommitPipelineProofs` | `PipelineInvariant`, `VisibilityInOrder`, `CommitIsVisible`, `VisibleNeverDecreases` |
| `CommitWriteProofs` | `WritePathInvariant`, `SyncIsDurable`, `WALIsInOrder`, `QueuesAreBounded`, `IngestSeesWrites` |
| `KeyManagerProofs` | `SaltChainInvariant`, `KeysAreDurable`, `KeysSurvive`, `SaltsAreChained`, `SyncedIsAppendOnly` |
| `TransactionProofs` | `CommitInvariant`, `StoreStaysAccessible`, `WriterSeesItsSnapshot`, `CountersAgreeAtCommit`, `CommittedIsKept` |
| `LogWriterProofs` | `LogWriterInvariant`, `FileIsInOrder`, `SyncedBeforeDone`, `CloseKeepsAll` |

`CommitControlProofs`, `CommitQueueProofs` and `CommitDequeueProofs` hold lemmas.

The commit pipeline. `VisibleIsApplied` is not inductive: whether a publisher
may ratchet `visibleSeqNum` depends on what it read from the ring some steps
ago. `PipelineInv` says, of every goroutine between two atomic operations, what
its loaded `headTail`, slot and candidate are still worth: the window of the
ring holds each batch once and in sequence-number order, a slot that is still to
be cleared is less than a lap behind the producer, a candidate whose position is
still the tail is the batch there, at most one goroutine publishes a batch, and
the wait group counts what is pending. The proof has one lemma per group of
actions (`CommitQueueProofs`: the producer; `CommitDequeueProofs`: the
consumers; `CommitControlProofs`: the rest leaves the ring alone) and per
conjunct. `WritePathInv` adds what the WAL path needs: a goroutine keeps its
token of `commitQueueSem` as long as its batch is in the queue and that of
`logSyncQSem` until the sync is answered, records and sync requests are in
order, what a released waiter wrote is below the synced mark, and an ingestion
that spins waits for all writes below its number. `SyncConcurrency >= 2` is
assumed: with 1 the ring has no spare slot.

The key manager. `SaltChainInv`: the mutex is held from the write to the end of
Sync; nothing is written behind a block in between; the block of the latest key
answered for a file is in the synced prefix and whatever follows it for the same
file was never answered. From it follow `AckedKeysDurable` and, with a lemma on
reading the chain, `AckedKeysSurvive`; `ChainIsLinked` needs that a failed call
is the only way to leave a block that `lastMAC` does not cover.

Transactions. `CommitInv`: one goroutine has `txLock` through both store writes
of its commit; the write in flight is the counter or the batch of that
transaction; and every state the disk may fall back to has counters that an
earlier commit or the running one wrote. The freshness check and the order
"store counter, source, batch" do the rest. `CommittedIsKept` says of older
copies only that Open accepts none whose counter is behind an acknowledged
transaction; that the transaction itself is there it says where no copy was put
back, and `transactions_copy_inside_commit` shows why not elsewhere.

The log writer. `LogWriterInv`: the bytes in the file, in the hands of the flush
loop, in the queued blocks and in the current block are consecutive intervals;
a request the flush loop saw ends by the bytes it took; the two counters of the
lock-free queue delimit exactly the requests not answered; the semaphore keeps
their number below the number of slots, so `push` never panics.

Only model-checked: the liveness properties (fairness and ENABLED are beyond
the prover), everything in `Recovery`, and everything about the recursive
operators of the read path and of `Store` (induction over their data is out of
reach, and the prover loses its SMT backend where RECURSIVE is declared).
`WriterGetsTurn`, `Completes`, `EveryRequestAnswered`, `LogsReclaimed` and the
refinements of the iterators are therefore shown on the instances above.

## Findings

- `salt_chain_after_sync_error`: when `Sync` of SALTCHAIN fails, the block stays
  in the file but `lastMAC` is not advanced; the next Create makes a chain that
  the next Open rejects. In this run `Sync` is the only call that fails.
- `transactions_copy_inside_commit`: `Commit` stores the counter, raises the
  trusted source and then commits the batch. A copy of the directory taken
  between the two writes has the counter without the batch; put back after the
  commit was acknowledged, it passes the freshness check although it lacks the
  transaction. `options.go:473` promises rollback protection.
- `store_snapshot`: a memtable may be flushed as soon as no writer refers to it,
  which is before its last batch is published. A snapshot that is opened after
  the flush has listed the snapshots and before the publication loses the
  version of a key that the unpublished batch overwrites. `db.go:1511` calls a
  snapshot "a point-in-time view of the current DB state".
- `recovery_log_key`: `rotateWAL` links the new log before its key is persisted;
  a crash in between leaves a log that Open cannot decrypt, and Open fails for
  good although the log is empty.

Smaller disagreements that were met and are not checked by a run:

- `newFlushableBatch` keeps LogData records as points, `memTable.apply` skips
  them; `Batch.Apply` indexes LogData.
- `InterleavingIter` accepts a seek to a bound inside a span, which the contract
  in `internal/base/iterator.go` does not provide for.
- The level, arena and batch iterators differ in what a relative call after
  exhaustion does; the models follow each and the runs stay within the contract.
- `ingestApply` returns errors without `logUnlock`, whose comment says that
  `logAndApply` has unlocked.

## What is not modelled

Within modelled parts: in iterators, read errors, statistics, sampling, Clone
and Close, block-property filters as masks, relative seeks under lazy combined
iteration; in compactions, writer properties and the truncation of range
deletions to sentinel bounds; in the picker, scores, debt and the concurrency
limit (any choice is allowed); in ingestion, shared and external tables, file
loading and linking, error returns; in the log writer, the recycling of blocks.
In `Iterator`, a merged value that deletes itself at the first key of a reverse
scan, and in `CompactionIter` self-deleting merges behind other operands.

Whole parts, with reasons, are listed under `components` in `PROJECT.json` with
status `not_modelled`: byte formats (sstable writer and reader, version edits),
the block cache, the B-tree behind levels, file systems, object storage, scans
built on the modelled iterators, checkpoints, options, metrics, tools and tests.
