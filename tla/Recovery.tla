------------------------------ MODULE Recovery ------------------------------
(***************************************************************************)
(* How a database survives crashes: the write-ahead logs, the flush of     *)
(* memtables to tables, compactions, the MANIFEST that says which tables   *)
(* and logs count, the keys of the files, and Open, which puts it all      *)
(* together again (db.go, compaction.go, version_set.go, open.go).         *)
(*                                                                         *)
(* A file has records, of which the first `synced' are durable, and a link *)
(* in the directory: "new" (not durable), "dir" (durable) or "gone"        *)
(* (removed, not durably).  A crash of the process keeps the directory and *)
(* what the writers handed to the file system; a power failure falls back  *)
(* to what is durable (vfs.NewStrictMem).  Either may cut a file in the    *)
(* middle of a record: the reader of package record reports it, and Open   *)
(* fails ("we don't support recovery").  The salt chain is module          *)
(* KeyManager; here keys is the set of files whose key is durable.         *)
(* Batches are numbered in commit order.  Tables and batches hold what the *)
(* properties tell apart: the batches they contain.                        *)
(***************************************************************************)
EXTENDS Naturals, Sequences, FiniteSets, SequencesExt, FiniteSetsExt

CONSTANTS MaxBatches,  \* bound: batches committed
          MemTableSize, \* Options.MemTableSize, in units of the initial memtable size
          MemTableStopWritesThreshold,
          Bounds       \* the bounds of each scenario: memtable and WAL rotations,
                       \* forced flushes of immutable memtables, compactions, MANIFEST
                       \* rotations because of its size, crashes; and large, the batches
                       \* that exceed largeBatchThreshold

ASSUME RecoveryAssumption ==
    /\ MaxBatches \in Nat /\ {MemTableSize, MemTableStopWritesThreshold} \subseteq Nat \ {0}
    /\ \A b \in Bounds : {b.rot, b.force, b.comp, b.man, b.crash} \subseteq Nat /\ b.large \subseteq 1 .. MaxBatches

VARIABLES
    fs,        \* the files of the directory, by type and number
    marker,    \* the MANIFEST the marker file names, 0 when there is none
    keys,      \* numbers of the files that have a key
    phase,     \* of the process: closed, the steps of Open, open, failed, panic
    cause,     \* why Open failed
    db,        \* DB.mu: memtable queue, version, versionSet counters, log queue
    wal,       \* makeRoomForWrite and rotateWAL: where they are, new log, large batch
    job,       \* the jobs that build tables: flush, compaction, replay
    mw,        \* logAndApply: who holds the manifest lock, its edit, the new MANIFEST
    trash,     \* files enqueued at the cleanup manager
    acked,     \* batches whose sync was acknowledged
    budget     \* what is left of the bounds

diskVars == <<fs, marker, keys>>
vars == <<fs, marker, keys, phase, cause, db, wal, job, mw, trash, acked, budget>>

Batches == 1 .. MaxBatches
Workers == {"flush", "compact", "open"}

\* mem.nextSize: memtables start small and double until they have MemTableSize.
InitialMemTableSize == 1
Doubled(size) == Min({2 * size, MemTableSize})

NoDB == [queue |-> << >>, nextSize |-> Doubled(InitialMemTableSize), ver |-> {}, minLog |-> 0, next |-> 1, logq |-> << >>, man |-> 0, written |-> 0,
         obsoleteManifests |-> {}, writer |-> FALSE]
IdleWal == [pc |-> "idle", log |-> 0, large |-> 0, force |-> FALSE]
IdleJob == [pc |-> "idle", n |-> 0, data |-> {}, add |-> {}, del |-> {}, min |-> 0]
IdleMW == [by |-> "none", pc |-> "idle", edit |-> << >>, rot |-> 0]
IdleJobs == [j \in Workers |-> IdleJob]

Init ==
    /\ fs = << >> /\ marker = 0 /\ keys = {}
    /\ phase = "closed" /\ cause = "none"
    /\ db = NoDB /\ wal = IdleWal /\ job = IdleJobs /\ mw = IdleMW
    /\ trash = << >> /\ acked = {}
    /\ budget \in Bounds

-----------------------------------------------------------------------------
(* The file system                                                         *)

Put(F, f, file) == [g \in DOMAIN F \cup {f} |-> IF g = f THEN file ELSE F[g]]
NewFile == [link |-> "new", recs |-> << >>, synced |-> 0, torn |-> FALSE]
Create(F, f) == Put(F, f, NewFile)
Write(F, f, recs) == [F EXCEPT ![f].recs = @ \o recs]
Fsync(F, f) == [F EXCEPT ![f].synced = Len(F[f].recs)]
SyncDir(F) == [f \in {g \in DOMAIN F : F[g].link # "gone"} |-> [F[f] EXCEPT !.link = "dir"]]
Present == {f \in DOMAIN fs : fs[f].link # "gone"}
Numbers(type) == {f[2] : f \in {g \in Present : g[1] = type}}

-----------------------------------------------------------------------------
(* The MANIFEST                                                            *)

Edit(add, del, min, next) == [add |-> add, del |-> del, min |-> min, next |-> next]

\* versionSet.load: the edits in order; a zero field leaves the value alone.
ApplyEdit(v, e) == [ver |-> (v.ver \cup e.add) \ e.del,
                    minLog |-> IF e.min # 0 THEN e.min ELSE v.minLog,
                    next |-> IF e.next # 0 THEN e.next ELSE v.next]
Loaded(edits) == FoldLeft(ApplyEdit, [ver |-> {}, minLog |-> 0, next |-> 1], edits)
MarkUsed(next, n) == IF next <= n THEN n + 1 ELSE next

\* What can be read: the tables of the version and the memtables.
TableData(t) == fs[<<"table", t>>].recs[1]
Readable == UNION {TableData(t) : t \in db.ver} \cup UNION {db.queue[i].data : i \in 1 .. Len(db.queue)}
Pending == UNION {db.queue[i].pending : i \in 1 .. Len(db.queue)}

CurrentLog == Last(db.logq)
Mutable == Len(db.queue)

-----------------------------------------------------------------------------
(* The write path                                                          *)

\* commitWrite of a batch that fits: prepare reserves its place in the mutable
\* memtable, SyncRecord gives it to the log writer.  commitApply comes later.
CommitWrite(b) ==
    /\ phase = "open" /\ wal.pc = "idle"
    /\ b = db.written + 1 /\ b \notin budget.large
    /\ db' = [db EXCEPT !.written = b, !.queue[Mutable].pending = @ \cup {b}]
    /\ fs' = Write(fs, <<"log", CurrentLog>>, <<b>>)
    /\ UNCHANGED <<marker, keys, phase, cause, wal, job, mw, trash, acked, budget>>

\* commitApply: the batch is in the memtable, the writer's reference is dropped.
CommitApply(b, i) ==
    /\ phase = "open"
    /\ b \in db.queue[i].pending
    /\ db' = [db EXCEPT !.queue[i].pending = @ \ {b}, !.queue[i].data = @ \cup {b}]
    /\ UNCHANGED <<diskVars, phase, cause, wal, job, mw, trash, acked, budget>>

\* The flush loop of the log writer synced the log and released the waiters.
SyncWAL ==
    /\ phase = "open"
    /\ wal.pc \in {"idle", "close"}
    /\ LET f == <<"log", CurrentLog>>
       IN  /\ fs[f].synced < Len(fs[f].recs)
           /\ fs' = Fsync(fs, f)
           /\ acked' = acked \cup Range(fs[f].recs)
    /\ UNCHANGED <<marker, keys, phase, cause, db, wal, job, mw, trash, budget>>

\* totalBytes of the first n flushables.
TotalBytes(n) == FoldLeft(LAMBDA sum, e : sum + e.size, 0, SubSeq(db.queue, 1, n))
\* makeRoomForWrite: the next batch does not fit the memtable, a flush is forced
\* (b = 0), or commitWrite has a large batch, whose record goes to the old log first.
\* It waits while the memtables are too many; rotateWAL takes a file number and
\* releases DB.mu.
StartRotation(b) ==
    /\ phase = "open" /\ wal.pc = "idle" /\ budget.rot > 0
    /\ TotalBytes(Len(db.queue)) < MemTableStopWritesThreshold * MemTableSize
    /\ b \in {0, db.written + 1}
    /\ LET large == b \in budget.large
       IN  /\ fs' = IF large THEN Write(fs, <<"log", CurrentLog>>, <<b>>) ELSE fs
           /\ wal' = [pc |-> "close", log |-> db.next, large |-> IF large THEN b ELSE 0, force |-> b = 0]
           /\ db' = [db EXCEPT !.next = @ + 1, !.written = IF large THEN b ELSE @]
    /\ budget' = [budget EXCEPT !.rot = @ - 1]
    /\ UNCHANGED <<marker, keys, phase, cause, job, mw, trash, acked>>

\* Close of the previous log syncs it and answers its waiters ...
LeftOpen == fs     \* mutant
ClosedLog == Fsync(fs, <<"log", CurrentLog>>)

RotateClose ==
    /\ wal.pc = "close"
    /\ fs' = ClosedLog
    /\ acked' = acked \cup {fs'[<<"log", CurrentLog>>].recs[i] : i \in 1 .. fs'[<<"log", CurrentLog>>].synced}
    /\ wal' = [wal EXCEPT !.pc = "create"]
    /\ UNCHANGED <<marker, keys, phase, cause, db, job, mw, trash, budget>>

\* ... then the new log is created,
RotateCreate ==
    /\ wal.pc = "create"
    /\ fs' = Create(fs, <<"log", wal.log>>)
    /\ wal' = [wal EXCEPT !.pc = "dirsync"]
    /\ UNCHANGED <<marker, keys, phase, cause, db, job, mw, trash, acked, budget>>

\* the directory synced,
RotateDirSync ==
    /\ wal.pc = "dirsync"
    /\ fs' = SyncDir(fs)
    /\ wal' = [wal EXCEPT !.pc = "key"]
    /\ UNCHANGED <<marker, keys, phase, cause, db, job, mw, trash, acked, budget>>

\* and, last, the key of the log created.
RotateKey ==
    /\ wal.pc = "key"
    /\ keys' = keys \cup {wal.log}
    /\ wal' = [wal EXCEPT !.pc = "done"]
    /\ UNCHANGED <<fs, marker, phase, cause, db, job, mw, trash, acked, budget>>

Entry(log, data, size) == [log |-> log, data |-> data, pending |-> {}, size |-> size, forced |-> FALSE]

\* The flushable batch belongs to the log of the memtable before it.  Its size is that
\* of its encoding: many small entries may take little.
LargeEntries ==
    IF wal.large = 0 THEN {<< >>}
    ELSE {<<Entry(db.queue[Mutable].log, {wal.large}, size)>> : size \in {0, MemTableSize \div 2}}

\* A forced flush of a memtable that is less than half full keeps the next one small.
NextSizes ==
    LET imm == db.queue[Mutable]
    IN  (IF wal.force THEN {imm.size} ELSE {})
        \cup (IF wal.force /\ imm.data \cup imm.pending = {} THEN {} ELSE {db.nextSize})

\* Back under DB.mu: the log joins the queue of logs, a large batch and the new
\* memtable join the queue of flushables (rotateMemtable).
RotateMemtable ==
    /\ wal.pc = "done"
    /\ \E large \in LargeEntries, size \in NextSizes :
         db' = [db EXCEPT !.logq = Append(@, wal.log), !.nextSize = Doubled(size),
                          !.queue = [@ EXCEPT ![Mutable].forced = @ \/ wal.force]
                                    \o large \o <<Entry(wal.log, {}, size)>>]
    /\ wal' = IdleWal
    /\ UNCHANGED <<diskVars, phase, cause, job, mw, trash, acked, budget>>

\* Compact, an ingestion or a delayed flush cannot wait for a memtable to be flushed.
ForceFlush(i) ==
    /\ phase = "open" /\ i < Len(db.queue) /\ ~db.queue[i].forced /\ budget.force > 0
    /\ db' = [db EXCEPT !.queue[i].forced = TRUE]
    /\ budget' = [budget EXCEPT !.force = @ - 1]
    /\ UNCHANGED <<diskVars, phase, cause, wal, job, mw, trash, acked>>

-----------------------------------------------------------------------------
(* Building tables: flush, compaction, replay                              *)

IgnoreWriters(i) == TRUE     \* mutant
\* readyForFlush: no writer holds a reference; always true for a large batch.
ReadyForFlush(i) == db.queue[i].pending = {}

\* flush1: the longest prefix of the immutable flushables that is ready.
FlushCount == Max({n \in 0 .. Len(db.queue) - 1 : \A i \in 1 .. n : ReadyForFlush(i)})

\* passedFlushThreshold: flushables that are together smaller than half of MemTableSize
\* stay in memory; a forced one counts as MemTableSize.
FlushSize(n) ==
    FoldLeft(LAMBDA sum, e : sum + (IF e.forced THEN MemTableSize ELSE e.size), 0, SubSeq(db.queue, 1, n))
PassedFlushThreshold(n) == n > 0 /\ FlushSize(n) >= MemTableSize \div 2

MinUnflushed(n) == db.queue[n + 1].log

\* maybeScheduleFlush, called wherever a flushable becomes ready or forced and after each
\* flush, and flush1 up to runCompaction; "logNum invariant violated" is a panic.
FlushBegin ==
    /\ phase = "open" /\ job["flush"].pc = "idle"
    /\ LET n == FlushCount
           data == UNION {db.queue[i].data : i \in 1 .. n}
       IN  /\ PassedFlushThreshold(n)
           /\ IF \E i \in 1 .. n : db.queue[i].log >= MinUnflushed(n)
              THEN phase' = "panic" /\ UNCHANGED job
              ELSE /\ job' = [job EXCEPT !["flush"] = [IdleJob EXCEPT
                                  !.pc = IF data = {} THEN "edit" ELSE "create",
                                  !.n = n, !.data = data, !.min = MinUnflushed(n)]]
                   /\ UNCHANGED phase
    /\ UNCHANGED <<diskVars, cause, db, wal, mw, trash, acked, budget>>

\* A compaction of some tables into one.
CompactBegin(inputs) ==
    /\ phase = "open" /\ job["compact"].pc = "idle" /\ budget.comp > 0
    /\ inputs # {}
    /\ job' = [job EXCEPT !["compact"] = [IdleJob EXCEPT !.pc = "create", !.del = inputs,
                              !.data = UNION {TableData(t) : t \in inputs}]]
    /\ budget' = [budget EXCEPT !.comp = @ - 1]
    /\ UNCHANGED <<diskVars, phase, cause, db, wal, mw, trash, acked>>

\* runCompaction: newOutput takes a number and creates the object ...
CreateOutput(j) ==
    /\ job[j].pc = "create"
    /\ fs' = Create(fs, <<"table", db.next>>)
    /\ db' = [db EXCEPT !.next = @ + 1]
    /\ job' = [job EXCEPT ![j].pc = "finish", ![j].add = @ \cup {db.next}]
    /\ UNCHANGED <<marker, keys, phase, cause, wal, mw, trash, acked, budget>>

NotSyncedDir(F) == F     \* mutant
\* objProvider.Sync
SyncedOutputs(F) == SyncDir(F)

\* ... then its key; the table is written, synced, and its directory synced.
FinishOutput(j) ==
    /\ job[j].pc = "finish"
    /\ LET t == Max(job[j].add)
           f == <<"table", t>>
       IN  /\ keys' = keys \cup {t}
           /\ fs' = SyncedOutputs(Fsync(Write(fs, f, <<job[j].data>>), f))
    /\ job' = [job EXCEPT ![j].pc = IF j = "open" THEN "idle" ELSE "edit"]
    /\ UNCHANGED <<marker, phase, cause, db, wal, mw, trash, acked, budget>>

-----------------------------------------------------------------------------
(* logAndApply                                                             *)

Inconsistent(min) == min # 0 /\ (min < db.minLog \/ db.next <= min)

\* With the manifest lock: the edit gets NextFileNum before a new MANIFEST
\* takes a number.  The MANIFEST is rotated when there is none or it is large.
Log(j, add, del, min, rotate) ==
    /\ mw.by = "none"
    /\ IF Inconsistent(min)
       THEN phase' = "panic" /\ UNCHANGED <<db, mw>>
       ELSE /\ mw' = [by |-> j, pc |-> IF rotate THEN "key" ELSE "write",
                      edit |-> <<Edit(add, del, min, db.next)>>, rot |-> IF rotate THEN db.next ELSE 0]
            /\ db' = [db EXCEPT !.next = IF rotate THEN @ + 1 ELSE @]
            /\ UNCHANGED phase

LogJob(j, rotate) ==
    /\ job[j].pc = "edit"
    /\ rotate => budget.man > 0
    /\ Log(j, job[j].add, job[j].del, job[j].min, rotate)
    /\ job' = [job EXCEPT ![j].pc = "logging"]
    /\ budget' = [budget EXCEPT !.man = IF rotate THEN @ - 1 ELSE @]
    /\ UNCHANGED <<diskVars, cause, wal, trash, acked>>

\* createManifest: the key, then the file, then a snapshot of the version.
ManifestKey ==
    /\ mw.pc = "key"
    /\ keys' = keys \cup {mw.rot}
    /\ mw' = [mw EXCEPT !.pc = "create"]
    /\ UNCHANGED <<fs, marker, phase, cause, db, wal, job, trash, acked, budget>>

\* The snapshot takes NextFileNum after the MANIFEST took its number.
Snapshot == Edit(db.ver, {}, db.minLog, mw.rot + 1)

ManifestCreate ==
    /\ mw.pc = "create"
    /\ fs' = Write(Create(fs, <<"manifest", mw.rot>>), <<"manifest", mw.rot>>, <<Snapshot>>)
    /\ mw' = [mw EXCEPT !.pc = "write"]
    /\ UNCHANGED <<marker, keys, phase, cause, db, wal, job, trash, acked, budget>>

Manifest == <<"manifest", IF mw.rot # 0 THEN mw.rot ELSE db.man>>

ManifestWrite ==
    /\ mw.pc = "write"
    /\ fs' = Write(fs, Manifest, mw.edit)
    /\ mw' = [mw EXCEPT !.pc = "sync"]
    /\ UNCHANGED <<marker, keys, phase, cause, db, wal, job, trash, acked, budget>>

EditNotSynced == fs     \* mutant
EditSynced == Fsync(fs, Manifest)

ManifestSync ==
    /\ mw.pc = "sync"
    /\ fs' = EditSynced
    /\ mw' = [mw EXCEPT !.pc = IF mw.rot # 0 THEN "current" ELSE "install"]
    /\ UNCHANGED <<marker, keys, phase, cause, db, wal, job, trash, acked, budget>>

\* setCurrent moves the marker and syncs the directory.
SetCurrent ==
    /\ mw.pc = "current"
    /\ marker' = mw.rot
    /\ fs' = SyncDir(fs)
    /\ mw' = [mw EXCEPT !.pc = "install"]
    /\ UNCHANGED <<keys, phase, cause, db, wal, job, trash, acked, budget>>

\* The rest of logAndApply, under DB.mu.
Installed == [db EXCEPT
    !.ver = IF mw.edit = << >> THEN @ ELSE (@ \cup mw.edit[1].add) \ mw.edit[1].del,
    !.minLog = IF mw.edit = << >> \/ mw.edit[1].min = 0 THEN @ ELSE mw.edit[1].min,
    !.man = IF mw.rot # 0 THEN mw.rot ELSE @,
    !.writer = TRUE,
    !.obsoleteManifests = IF mw.rot # 0 /\ db.man # 0 THEN @ \cup {db.man} ELSE @]

\* deleteObsoleteFiles: the prefix of the log queue below minUnflushedLogNum, the
\* tables nothing refers to, all obsolete MANIFESTs but the newest.
NoLogs(d) == {}     \* mutant
ObsoleteLogs(d) == {l \in Range(d.logq) : l < d.minLog}
DeletedManifests(d) == {m \in d.obsoleteManifests : \E k \in d.obsoleteManifests : m < k}
Sorted(type, nums) == [i \in 1 .. Cardinality(nums) |-> <<type, SetToSortSeq(nums, <)[i]>>]
Trash(d, tables, options) == Sorted("log", ObsoleteLogs(d)) \o Sorted("table", tables)
                             \o Sorted("manifest", DeletedManifests(d)) \o Sorted("options", options)
Swept(d) == [d EXCEPT !.logq = SelectSeq(@, LAMBDA l : l >= d.minLog),
                      !.obsoleteManifests = @ \ DeletedManifests(d)]

\* flush1 and compact1 after logAndApply: the flushables leave the queue, the
\* obsolete files go to the cleanup manager.
InstallJob(j) ==
    /\ mw.pc = "install" /\ mw.by = j /\ j \in {"flush", "compact"}
    /\ LET d == [Installed EXCEPT !.queue = SubSeq(@, job[j].n + 1, Len(@))]
       IN  db' = Swept(d) /\ trash' = trash \o Trash(d, job[j].del, {})
    /\ job' = [job EXCEPT ![j] = IdleJob]
    /\ mw' = IdleMW
    /\ UNCHANGED <<diskVars, phase, cause, wal, acked, budget>>

\* The cleanup manager removes the files in the order they were enqueued.
Clean ==
    /\ phase = "open"
    /\ trash # << >>
    /\ trash' = Tail(trash)
    /\ fs' = IF Head(trash) \in DOMAIN fs THEN [fs EXCEPT ![Head(trash)].link = "gone"] ELSE fs
    /\ UNCHANGED <<marker, keys, phase, cause, db, wal, job, mw, acked, budget>>

-----------------------------------------------------------------------------
(* Open                                                                    *)

Fail(why) ==
    /\ phase' = "failed"
    /\ cause' = why
    /\ UNCHANGED <<diskVars, db, wal, job, mw, trash, acked, budget>>

\* versionSet.create of a new database: number, key, file, snapshot, marker.
OpenNew ==
    /\ phase = "closed" /\ marker = 0
    /\ phase' = "create"
    /\ db' = [NoDB EXCEPT !.next = 2]
    /\ mw' = [by |-> "create", pc |-> "key", edit |-> << >>, rot |-> 1]
    /\ UNCHANGED <<diskVars, cause, wal, job, trash, acked, budget>>

AsInManifest(next) == next     \* mutant
\* No number of a file in the directory is used again.
PastAllFiles(next) == Max({next} \cup {f[2] + 1 : f \in Present})

Created ==
    /\ mw.pc = "install" /\ mw.by = "create"
    /\ phase' = "replay"
    /\ db' = [Installed EXCEPT !.next = PastAllFiles(@)]
    /\ mw' = IdleMW
    /\ UNCHANGED <<diskVars, cause, wal, job, trash, acked, budget>>

\* versionSet.load, checkConsistency, the scan of the directory, checkOptions.
OpenLoad ==
    /\ phase = "closed" /\ marker # 0
    /\ LET f == <<"manifest", marker>>
           v == Loaded(fs[f].recs)
           options == Numbers("options")
       IN  IF f \notin Present \/ marker \notin keys THEN Fail("manifest")
           ELSE IF fs[f].torn THEN Fail("torn")
           ELSE IF ~ v.ver \subseteq Numbers("table") THEN Fail("table")
           ELSE IF options # {} /\ Max(options) \notin keys THEN Fail("options")
           ELSE /\ phase' = "replay"
                /\ db' = [NoDB EXCEPT !.ver = v.ver, !.minLog = v.minLog, !.man = marker,
                                      !.next = PastAllFiles(MarkUsed(v.next, v.minLog))]
                /\ UNCHANGED <<diskVars, cause, wal, job, mw, trash, acked, budget>>

\* replayWAL of the oldest log that is left, in n the last one replayed.  Batches that
\* are not large go through a memtable.
LogsToReplay == {l \in Numbers("log") : l >= db.minLog /\ l > job["open"].n}

ReplayWAL ==
    /\ phase = "replay" /\ job["open"].pc = "idle" /\ LogsToReplay # {}
    /\ LET l == Min(LogsToReplay)
           f == <<"log", l>>
       IN  IF l \notin keys THEN Fail("log key")
           ELSE IF fs[f].torn THEN Fail("torn")
           ELSE /\ job' = [job EXCEPT !["open"] = [@ EXCEPT !.n = l, !.data = Range(fs[f].recs),
                                                   !.pc = IF fs[f].recs = << >> THEN "idle" ELSE "create"]]
                /\ db' = [db EXCEPT !.nextSize = IF Range(fs[f].recs) \subseteq budget.large THEN @ ELSE Doubled(@)]
                /\ UNCHANGED <<diskVars, phase, cause, wal, mw, trash, acked, budget>>

\* All logs are replayed: the number and the key of the new log, then the edit
\* that ends the old ones.
OpenLog ==
    /\ phase = "replay" /\ job["open"].pc = "idle" /\ LogsToReplay = {}
    /\ keys' = keys \cup {db.next}
    /\ wal' = [IdleWal EXCEPT !.log = db.next]
    /\ db' = [db EXCEPT !.next = @ + 1]
    /\ phase' = "log"
    /\ UNCHANGED <<fs, marker, cause, job, mw, trash, acked, budget>>

\* A database just created goes on with its MANIFEST, a loaded one gets a new one.
OpenEdit ==
    /\ phase = "log" /\ mw.by = "none"
    /\ Log("open", job["open"].add, {}, wal.log, ~db.writer)
    /\ UNCHANGED <<diskVars, cause, wal, job, trash, acked, budget>>

OpenInstall ==
    /\ mw.pc = "install" /\ mw.by = "open"
    /\ db' = Installed
    /\ mw' = IdleMW
    /\ phase' = "mklog"
    /\ UNCHANGED <<diskVars, cause, wal, job, trash, acked, budget>>

OpenCreateLog ==
    /\ phase = "mklog"
    /\ fs' = Create(fs, <<"log", wal.log>>)
    /\ phase' = "sync log"
    /\ UNCHANGED <<marker, keys, cause, db, wal, job, mw, trash, acked, budget>>

OpenSyncLog ==
    /\ phase = "sync log"
    /\ fs' = SyncDir(fs)
    /\ phase' = "options"
    /\ UNCHANGED <<marker, keys, cause, db, wal, job, mw, trash, acked, budget>>

\* The OPTIONS file: a temporary file with its key, synced (not modelled: it is
\* removed by the next Open), then renamed.
OpenOptions ==
    /\ phase = "options"
    /\ keys' = keys \cup {db.next}
    /\ fs' = Create(fs, <<"options", db.next>>)
    /\ db' = [db EXCEPT !.next = @ + 1]
    /\ phase' = "scan"
    /\ UNCHANGED <<marker, cause, wal, job, mw, trash, acked, budget>>

\* The directory is synced, scanObsoleteFiles, deleteObsoleteFiles, and Open returns.
ScanObsoleteFiles ==
    LET d == [db EXCEPT !.queue = <<Entry(wal.log, {}, InitialMemTableSize)>>,
                        !.logq = SetToSortSeq({l \in Numbers("log") : l <= wal.log}, <),
                        !.obsoleteManifests = {m \in Numbers("manifest") : m < db.man},
                        !.written = Max({0} \cup Readable)]
    IN  /\ db' = Swept(d)
        /\ trash' = Trash(d, Numbers("table") \ db.ver, {o \in Numbers("options") : o < db.next - 1})

OpenDone ==
    /\ phase = "scan"
    /\ fs' = SyncDir(fs)
    /\ ScanObsoleteFiles
    /\ phase' = "open"
    /\ wal' = IdleWal /\ job' = IdleJobs
    /\ UNCHANGED <<marker, keys, cause, mw, acked, budget>>

-----------------------------------------------------------------------------
(* Crashes                                                                 *)

\* What is left of a file: at least the synced records, in a process crash and
\* in a power failure; the rest may be cut in the middle of a record.
Cut(file, n, torn) == [file EXCEPT !.recs = SubSeq(@, 1, n), !.torn = torn /\ n < Len(file.recs)]
Unsynced == {f \in DOMAIN fs : fs[f].synced < Len(fs[f].recs)}

\* A power failure undoes what the directory was not synced after.
Lost(F) == [f \in {g \in DOMAIN F : F[g].link # "new"} |->
               [F[f] EXCEPT !.link = "dir", !.synced = Len(F[f].recs)]]

Crash(power, torn, left) ==
    /\ phase \notin {"closed", "failed", "panic"} /\ budget.crash > 0
    /\ LET F == [f \in DOMAIN fs |-> IF f \in Unsynced THEN Cut(fs[f], left[f], torn) ELSE fs[f]]
       IN  fs' = IF power THEN Lost(F) ELSE F
    /\ phase' = "closed"
    /\ db' = NoDB /\ wal' = IdleWal /\ job' = IdleJobs /\ mw' = IdleMW /\ trash' = << >>
    /\ budget' = [budget EXCEPT !.crash = @ - 1]
    /\ UNCHANGED <<marker, keys, cause, acked>>

\* The records that may be left of the unsynced files.
Leftovers == {left \in [Unsynced -> 0 .. MaxBatches + 2] :
                 \A f \in Unsynced : left[f] \in fs[f].synced .. Len(fs[f].recs)}

\* An open database may idle; after a failed Open or a panic nothing follows.
Idle == phase \in {"open", "failed", "panic"} /\ UNCHANGED vars

Rotation == RotateClose \/ RotateCreate \/ RotateDirSync \/ RotateKey \/ RotateMemtable
Tables == \E j \in Workers : CreateOutput(j) \/ FinishOutput(j)
LogAndApply ==
    \/ \E j \in {"flush", "compact"} : (\E rotate \in BOOLEAN : LogJob(j, rotate)) \/ InstallJob(j)
    \/ ManifestKey \/ ManifestCreate \/ ManifestWrite \/ ManifestSync \/ SetCurrent
Open ==
    \/ OpenNew \/ Created \/ OpenLoad \/ ReplayWAL \/ OpenLog \/ OpenEdit \/ OpenInstall
    \/ OpenCreateLog \/ OpenSyncLog \/ OpenOptions \/ OpenDone
Commit ==
    \/ \E b \in Batches : CommitWrite(b)
    \/ \E i \in 1 .. Len(db.queue) : \E b \in db.queue[i].pending : CommitApply(b, i)
    \/ \E b \in Batches \cup {0} : StartRotation(b)
    \/ \E i \in 1 .. Len(db.queue) : ForceFlush(i)

Next ==
    \/ Commit \/ SyncWAL \/ Rotation
    \/ FlushBegin \/ (\E inputs \in SUBSET db.ver : CompactBegin(inputs))
    \/ Tables \/ LogAndApply
    \/ Clean
    \/ Open
    \/ (\E power, torn \in BOOLEAN : \E left \in Leftovers : Crash(power, torn, left))
    \/ Idle

Spec == Init /\ [][Next]_vars

\* A job that can go on does, the log and its rotation too, and a flush that is due
\* begins.  Nobody need write, and no compaction need begin.
Fairness ==
    /\ WF_vars(Rotation) /\ WF_vars(Open) /\ WF_vars(FlushBegin) /\ WF_vars(SyncWAL)
    /\ \A b \in Batches : WF_vars(\E i \in 1 .. Len(db.queue) : CommitApply(b, i))
    /\ \A j \in Workers : WF_vars(CreateOutput(j) \/ FinishOutput(j) \/ InstallJob(j))
    /\ SF_vars(\E rotate \in BOOLEAN : LogJob("flush", rotate))
    /\ WF_vars(ManifestKey \/ ManifestCreate \/ ManifestWrite \/ ManifestSync \/ SetCurrent)
    /\ WF_vars(Clean)
FairSpec == Spec /\ Fairness

-----------------------------------------------------------------------------
Files == {"log", "table", "manifest", "options"} \X Nat

TypeOK ==
    /\ DOMAIN fs \subseteq Files
    /\ \A f \in DOMAIN fs : fs[f].synced \in 0 .. Len(fs[f].recs) /\ fs[f].link \in {"new", "dir", "gone"}
    /\ marker \in Nat /\ keys \subseteq Nat
    /\ phase \in {"closed", "create", "replay", "log", "mklog", "sync log", "options", "scan", "open", "failed", "panic"}
    /\ Range(trash) \subseteq Files
    /\ acked \subseteq Batches
    /\ phase = "open" => db.logq # << >> /\ db.queue # << >>
    /\ mw.by \in Workers \cup {"none", "create"}

\* Batches on their way into a memtable.
InFlight == Pending \cup ({wal.large} \ {0})

\* A batch whose sync was acknowledged is never lost, whatever crashes, flushes,
\* compactions, rotations of logs and MANIFESTs came since, also inside Open.
AckedSurvive == phase = "open" => acked \subseteq Readable \cup InFlight

\* Recovery yields a prefix of the commit order: a batch is only there with all
\* batches committed before it.  It rests on closing a log before the next is
\* linked (rotateWAL).
NoHoles == phase = "open" => Readable \cup InFlight = 1 .. db.written

\* At every moment, whatever part of the MANIFEST a crash leaves, the tables it
\* refers to are durable and have keys, and so has the MANIFEST itself.
ManifestTablesDurable ==
    marker # 0 =>
        LET man == fs[<<"manifest", marker>>]
        IN  /\ marker \in keys /\ man.link = "dir" /\ man.synced > 0
            /\ \A n \in man.synced .. Len(man.recs) : \A t \in Loaded(SubSeq(man.recs, 1, n)).ver :
                   LET f == <<"table", t>>
                   IN  f \in DOMAIN fs /\ fs[f].link = "dir" /\ fs[f].synced = 1 /\ t \in keys

\* The file number a new file gets is larger than that of any file in the
\* directory, obsolete files and leftovers of a crash included.
FreshNumbers == phase \notin {"closed", "failed", "panic"} => \A f \in Present : f[2] < db.next

\* The process never panics (the logNum invariant of flush1, logAndApply's
\* checks).  Open fails on the tail of a file a crash cut, never for want of a
\* table, of the MANIFEST or of the OPTIONS; a log without a key holds no batch.
FailsOnlyAtTheTail ==
    /\ phase # "panic"
    /\ cause \in {"none", "torn", "log key"}
    /\ \A l \in Numbers("log") \ keys : fs[<<"log", l>>].recs = << >>

\* Key creation and file creation are ordered so that a crash between them is
\* recovered from: Open finds the key of every log it replays.
OpenFindsLogKeys == cause # "log key"

\* Once the immutable memtables have together half of MemTableSize, or a flush is
\* forced, they are flushed and every log before that of the mutable memtable is
\* removed, unless the process stops: a log that no flush needs is not kept.
LogsReclaimed ==
    LET Due == phase = "open" /\ \E l \in Numbers("log") :
                  \/ l < db.minLog
                  \/ l < db.queue[Mutable].log /\ PassedFlushThreshold(Mutable - 1)
    IN  Due ~> ~Due
=============================================================================
