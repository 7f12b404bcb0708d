------------------------------ MODULE FileRefs ------------------------------
(***************************************************************************)
(* How long tables and memtables live.  Versions, read states and memtables*)
(* are reference counted; a table that no version lists any more becomes   *)
(* obsolete, deleteObsoleteFiles evicts it from the table cache and hands  *)
(* it to the cleanup manager, whose goroutine deletes it.  A checkpoint    *)
(* disables deletions and then reads the tables of the current version     *)
(* without a reference.                                                    *)
(*                                                                         *)
(* A step is a critical section of DB.mu or one operation on an atomic     *)
(* counter.  Installing a version takes several steps with DB.mu held:     *)
(* loading and unreferencing a read state needs no mutex.  Identifiers of  *)
(* versions, read states and memtables are taken again once they are       *)
(* garbage; a table's number is used once.  Files are physical: the        *)
(* tables of an ingested flushable and virtual tables are left out, and so *)
(* is zombieTables, which metrics and an assertion read.                   *)
(***************************************************************************)
EXTENDS Integers, Sequences, FiniteSets

CONSTANTS Readers,          \* iterators, compactions, snapshots and the like
          Files, Versions, ReadStates, Mems, Checkpoints,
          NoReadState, NoVersion,
          jobsQueueDepth

ASSUME FileRefsAssumption ==
    /\ IsFiniteSet(Readers) /\ IsFiniteSet(ReadStates) /\ IsFiniteSet(Checkpoints)
    /\ NoReadState \notin ReadStates /\ NoVersion \notin Versions
    /\ jobsQueueDepth \in Nat \ {0}

VARIABLES
    linked, tablesOf, vrefs, current,     \* the version list, and each version's tables and references
    rsVersion, rsMems, rsRefs, readState, \* read states, and DB.readState.val
    mutable, immutable, mrefs,            \* DB.mu.mem.queue, and the readerRefs of each memtable
    created, obsolete,                    \* tables: numbers used, obsoleteTables
    section,                              \* the holder of DB.mu that installs a version or a read state
    rpc, rs, ver,                         \* each reader, with the read state and the version it refers to
    deleters,                             \* calls of deleteObsoleteFiles that have released DB.mu
    jobs, cleaning, busy, deleted,        \* jobsCh, the tables left in the job being done, the objects removed
    totalJobs, completedJobs,
    disabled, checkpoint                  \* disableFileDeletions, and each call of Checkpoint

versionVars == <<linked, tablesOf, vrefs, current>>
readStateVars == <<rsVersion, rsMems, rsRefs, readState>>
memVars == <<mutable, immutable, mrefs>>
tableVars == <<created, obsolete>>
readerVars == <<rpc, rs, ver>>
cleanupVars == <<jobs, cleaning, busy, deleted, totalJobs, completedJobs>>
checkpointVars == <<disabled, checkpoint>>
refVars == <<versionVars, readStateVars, memVars, tableVars, section, readerVars, deleters, cleanupVars, checkpointVars>>

DBMutexFree == section.at = "none"
Outside == [at |-> "none", old |-> NoReadState, flushed |-> {}, deletes |-> FALSE]
NoCheckpoint == [at |-> "none", jobs |-> 0, tables |-> {}]

\* An unused identifier: which one it is makes no difference.
New(S) == CHOOSE x \in S : TRUE

\* An empty store: one version, one read state, one memtable.
RefsInit ==
    LET v == New(Versions)
        r == New(ReadStates)
        m == New(Mems)
    IN /\ linked = {v} /\ current = v
       /\ tablesOf = [w \in Versions |-> {}]
       /\ vrefs = [w \in Versions |-> IF w = v THEN 2 ELSE 0]
       /\ rsVersion = [s \in ReadStates |-> IF s = r THEN v ELSE NoVersion]
       /\ rsMems = [s \in ReadStates |-> IF s = r THEN {m} ELSE {}]
       /\ rsRefs = [s \in ReadStates |-> IF s = r THEN 1 ELSE 0]
       /\ readState = r
       /\ mutable = m /\ immutable = {}
       /\ mrefs = [n \in Mems |-> IF n = m THEN 2 ELSE 0]
       /\ created = {} /\ obsolete = {}
       /\ section = Outside
       /\ rpc = [p \in Readers |-> "idle"] /\ rs = [p \in Readers |-> NoReadState] /\ ver = [p \in Readers |-> NoVersion]
       /\ deleters = {}
       /\ jobs = << >> /\ cleaning = {} /\ busy = FALSE /\ deleted = {}
       /\ totalJobs = 0 /\ completedJobs = 0
       /\ disabled = 0 /\ checkpoint = [c \in Checkpoints |-> NoCheckpoint]

-----------------------------------------------------------------------------
AllOfIts(v, list, tables) == tables[v]     \* mutant
\* Version.unrefFiles: the tables that no other version of the list has.
UnrefFiles(v, list, tables) == tables[v] \ UNION {tables[w] : w \in list \ {v}}

NeverDisabled(n) == FALSE     \* mutant
DeletionsDisabled(n) == n > 0

\* deleteObsoleteFiles until it releases DB.mu: it takes the list.
TakeObsolete(disabledNow) ==
    IF DeletionsDisabled(disabledNow) \/ obsolete = {}
    THEN UNCHANGED <<obsolete, deleters>>
    ELSE /\ deleters' = deleters \cup {[tables |-> obsolete, counted |-> FALSE]}
         /\ obsolete' = {}

\* The read states that are garbage.
FreeReadStates == {r \in ReadStates : rsRefs[r] = 0 /\ \A p \in Readers : rs[p] # r}

\* The end of versionSet.logAndApply: the new version is appended, the list's reference
\* to the previous one is dropped.  An edit without a table, of a flush that had nothing to
\* write, is left out.
LogAndApply(add, del, flushed) ==
    LET v == New(Versions \ linked)
        tables == [tablesOf EXCEPT ![v] = (tablesOf[current] \ del) \cup add]
        last == vrefs[current] = 1
    IN  /\ DBMutexFree
        /\ Versions \ linked # {} /\ FreeReadStates # {}
        /\ add \subseteq Files \ created /\ del \subseteq tablesOf[current] /\ flushed \subseteq immutable
        /\ add \cup del # {}
        /\ tablesOf' = IF last THEN [tables EXCEPT ![current] = {}] ELSE tables
        /\ linked' = (IF last THEN linked \ {current} ELSE linked) \cup {v}
        /\ vrefs' = [vrefs EXCEPT ![current] = @ - 1, ![v] = 1]
        /\ obsolete' = IF last THEN obsolete \cup UnrefFiles(current, linked \cup {v}, tables) ELSE obsolete
        /\ current' = v
        /\ created' = created \cup add
        /\ immutable' = immutable \ flushed
        /\ section' = [at |-> "applied", old |-> readState, flushed |-> flushed, deletes |-> TRUE]
        /\ UNCHANGED <<readStateVars, mutable, mrefs, readerVars, deleters, cleanupVars, checkpointVars>>

\* logAndApply fails: the outputs become obsolete at once.
LogAndApplyFails(add) ==
    /\ DBMutexFree
    /\ add \subseteq Files \ created /\ add # {}
    /\ created' = created \cup add
    /\ obsolete' = obsolete \cup add
    /\ section' = [Outside EXCEPT !.at = "dropped", !.deletes = TRUE]
    /\ UNCHANGED <<versionVars, readStateVars, memVars, readerVars, deleters, cleanupVars, checkpointVars>>

\* rotateMemtable: a new mutable memtable, and a read state that has it.
RotateMemtable ==
    LET free == {n \in Mems : mrefs[n] = 0}
        m == New(free)
    IN  /\ DBMutexFree
        /\ free # {} /\ FreeReadStates # {}
        /\ mutable' = m
        /\ immutable' = immutable \cup {mutable}
        /\ mrefs' = [mrefs EXCEPT ![m] = 1]
        /\ section' = [Outside EXCEPT !.at = "applied", !.old = readState]
        /\ UNCHANGED <<versionVars, readStateVars, tableVars, readerVars, deleters, cleanupVars, checkpointVars>>

\* updateReadStateLocked, until the new read state is installed.
SwapReadState ==
    LET r == New(FreeReadStates)
        mems == immutable \cup {mutable}
    IN  /\ section.at = "applied"
        /\ rsVersion' = [rsVersion EXCEPT ![r] = current]
        /\ rsMems' = [rsMems EXCEPT ![r] = mems]
        /\ rsRefs' = [rsRefs EXCEPT ![r] = 1]
        /\ vrefs' = [vrefs EXCEPT ![current] = @ + 1]
        /\ mrefs' = [m \in Mems |-> IF m \in mems THEN mrefs[m] + 1 ELSE mrefs[m]]
        /\ readState' = r
        /\ section' = [section EXCEPT !.at = "swapped"]
        /\ UNCHANGED <<linked, tablesOf, current, mutable, immutable, tableVars, readerVars, deleters, cleanupVars,
                       checkpointVars>>

\* old.unrefLocked, and the queue's references to the memtables that were flushed.
DropReadState ==
    LET r == section.old
        v == rsVersion[r]
        lastState == rsRefs[r] = 1
        lastVersion == lastState /\ vrefs[v] = 1
    IN  /\ section.at = "swapped"
        /\ rsRefs' = [rsRefs EXCEPT ![r] = @ - 1]
        /\ vrefs' = IF lastState THEN [vrefs EXCEPT ![v] = @ - 1] ELSE vrefs
        /\ linked' = IF lastVersion THEN linked \ {v} ELSE linked
        /\ tablesOf' = IF lastVersion THEN [tablesOf EXCEPT ![v] = {}] ELSE tablesOf
        /\ rsVersion' = IF lastState THEN [rsVersion EXCEPT ![r] = NoVersion] ELSE rsVersion
        /\ rsMems' = IF lastState THEN [rsMems EXCEPT ![r] = {}] ELSE rsMems
        /\ obsolete' = IF lastVersion THEN obsolete \cup UnrefFiles(v, linked, tablesOf) ELSE obsolete
        /\ mrefs' = [m \in Mems |-> mrefs[m] - (IF lastState /\ m \in rsMems[r] THEN 1 ELSE 0)
                                             - (IF m \in section.flushed THEN 1 ELSE 0)]
        /\ section' = [Outside EXCEPT !.at = "dropped", !.deletes = section.deletes]
        /\ UNCHANGED <<current, readState, mutable, immutable, created, readerVars, deleters, cleanupVars, checkpointVars>>

\* A flush and a compaction end with deleteObsoleteFiles, a rotation does not.
EndSection ==
    /\ section.at = "dropped"
    /\ IF section.deletes THEN TakeObsolete(disabled) ELSE UNCHANGED <<obsolete, deleters>>
    /\ section' = Outside
    /\ UNCHANGED <<versionVars, readStateVars, memVars, created, readerVars, cleanupVars, checkpointVars>>

-----------------------------------------------------------------------------
\* Reader p goes on at label, with read state r and version v.
Become(p, label, r, v) ==
    /\ rpc' = [rpc EXCEPT ![p] = label]
    /\ rs' = [rs EXCEPT ![p] = r]
    /\ ver' = [ver EXCEPT ![p] = v]
MoveTo(p, label) == Become(p, label, rs[p], ver[p])
Finish(p) == Become(p, "idle", NoReadState, NoVersion)

\* loadReadState.
LoadReadState(p) ==
    /\ rpc[p] = "idle"
    /\ rsRefs' = [rsRefs EXCEPT ![readState] = @ + 1]
    /\ Become(p, "reading", readState, rsVersion[readState])
    /\ UNCHANGED <<versionVars, rsVersion, rsMems, readState, memVars, tableVars, section, deleters, cleanupVars,
                   checkpointVars>>

\* A compaction or an eventually-file-only snapshot refers to the current version.
RefVersion(p) ==
    /\ rpc[p] = "idle"
    /\ DBMutexFree
    /\ vrefs' = [vrefs EXCEPT ![current] = @ + 1]
    /\ Become(p, "reading", NoReadState, current)
    /\ UNCHANGED <<linked, tablesOf, current, readStateVars, memVars, tableVars, section, deleters, cleanupVars,
                   checkpointVars>>

\* Iterator.Clone, and an iterator over a snapshot's version: q holds the reference meanwhile.
CloneReader(p, q) ==
    /\ rpc[p] = "idle" /\ rpc[q] = "reading"
    /\ IF rs[q] = NoReadState
       THEN vrefs' = [vrefs EXCEPT ![ver[q]] = @ + 1] /\ UNCHANGED rsRefs
       ELSE rsRefs' = [rsRefs EXCEPT ![rs[q]] = @ + 1] /\ UNCHANGED vrefs
    /\ Become(p, "reading", rs[q], ver[q])
    /\ UNCHANGED <<linked, tablesOf, current, rsVersion, rsMems, readState, memVars, tableVars, section, deleters,
                   cleanupVars, checkpointVars>>

\* Iterator.Close: readState.unref counts down, or a version's reference remains to be dropped.
CloseReader(p) ==
    /\ rpc[p] = "reading"
    /\ IF rs[p] = NoReadState THEN UNCHANGED rsRefs ELSE rsRefs' = [rsRefs EXCEPT ![rs[p]] = @ - 1]
    /\ IF rs[p] # NoReadState /\ rsRefs[rs[p]] # 1 THEN Finish(p) ELSE MoveTo(p, "unref")
    /\ UNCHANGED <<versionVars, rsVersion, rsMems, readState, memVars, tableVars, section, deleters, cleanupVars,
                   checkpointVars>>

AfterVersion(p) == IF rs[p] = NoReadState THEN Finish(p) ELSE Become(p, "mems", rs[p], NoVersion)

\* Version.Unref counts down without the mutex.
UnrefVersion(p) ==
    /\ rpc[p] = "unref"
    /\ vrefs' = [vrefs EXCEPT ![ver[p]] = @ - 1]
    /\ IF vrefs[ver[p]] = 1 THEN MoveTo(p, "dead") ELSE AfterVersion(p)
    /\ UNCHANGED <<linked, tablesOf, current, readStateVars, memVars, tableVars, section, deleters, cleanupVars,
                   checkpointVars>>

\* It takes the mutex to remove the version from the list.
RemoveVersion(p) ==
    /\ rpc[p] = "dead"
    /\ DBMutexFree
    /\ linked' = linked \ {ver[p]}
    /\ tablesOf' = [tablesOf EXCEPT ![ver[p]] = {}]
    /\ obsolete' = obsolete \cup UnrefFiles(ver[p], linked, tablesOf)
    /\ AfterVersion(p)
    /\ UNCHANGED <<vrefs, current, readStateVars, memVars, created, section, deleters, cleanupVars,
                   checkpointVars>>

\* readerUnref of the read state's memtables.
UnrefMems(p) ==
    /\ rpc[p] = "mems"
    /\ mrefs' = [m \in Mems |-> IF m \in rsMems[rs[p]] THEN mrefs[m] - 1 ELSE mrefs[m]]
    /\ rsVersion' = [rsVersion EXCEPT ![rs[p]] = NoVersion]
    /\ rsMems' = [rsMems EXCEPT ![rs[p]] = {}]
    /\ Become(p, "schedule", NoReadState, NoVersion)
    /\ UNCHANGED <<versionVars, rsRefs, readState, mutable, immutable, tableVars, section, deleters, cleanupVars,
                   checkpointVars>>

\* maybeScheduleObsoleteTableDeletion.
ScheduleDeletion(p) ==
    /\ rpc[p] = "schedule"
    /\ DBMutexFree
    /\ TakeObsolete(disabled)
    /\ Finish(p)
    /\ UNCHANGED <<versionVars, readStateVars, memVars, created, section, cleanupVars, checkpointVars>>

-----------------------------------------------------------------------------
\* deleteObsoleteFiles after it released DB.mu: it evicts the tables (TableCache's Evict), and
\* EnqueueJob counts the job and then sends it; the send waits for room.
CountJob(d) ==
    /\ d \in deleters /\ ~d.counted
    /\ deleters' = (deleters \ {d}) \cup {[d EXCEPT !.counted = TRUE]}
    /\ totalJobs' = totalJobs + 1
    /\ UNCHANGED <<versionVars, readStateVars, memVars, tableVars, section, readerVars, jobs, cleaning, busy, deleted,
                   completedJobs, checkpointVars>>
SendJob(d) ==
    /\ d \in deleters /\ d.counted
    /\ Len(jobs) < jobsQueueDepth
    /\ jobs' = Append(jobs, d.tables)
    /\ deleters' = deleters \ {d}
    /\ UNCHANGED <<versionVars, readStateVars, memVars, tableVars, section, readerVars, cleaning, busy, deleted, totalJobs,
                   completedJobs, checkpointVars>>

\* mainLoop: a job, each of its tables, the count.  onTableDeleteFn takes DB.mu.
StartJob ==
    /\ ~busy /\ jobs # << >>
    /\ cleaning' = Head(jobs) /\ jobs' = Tail(jobs) /\ busy' = TRUE
    /\ UNCHANGED <<versionVars, readStateVars, memVars, tableVars, section, readerVars, deleters, deleted, totalJobs,
                   completedJobs, checkpointVars>>
DeleteTable(t) ==
    /\ t \in cleaning
    /\ DBMutexFree
    /\ cleaning' = cleaning \ {t}
    /\ deleted' = deleted \cup {t}
    /\ UNCHANGED <<versionVars, readStateVars, memVars, tableVars, section, readerVars, deleters, jobs, busy, totalJobs,
                   completedJobs, checkpointVars>>
FinishJob ==
    /\ busy /\ cleaning = {}
    /\ busy' = FALSE
    /\ completedJobs' = completedJobs + 1
    /\ UNCHANGED <<versionVars, readStateVars, memVars, tableVars, section, readerVars, deleters, jobs, cleaning, deleted,
                   totalJobs, checkpointVars>>

-----------------------------------------------------------------------------
\* Checkpoint: disableFileDeletions counts under DB.mu and then waits without it.
Disable(c) ==
    /\ checkpoint[c].at = "none"
    /\ DBMutexFree
    /\ disabled' = disabled + 1
    /\ checkpoint' = [checkpoint EXCEPT ![c].at = "disabled"]
    /\ UNCHANGED <<versionVars, readStateVars, memVars, tableVars, section, readerVars, deleters, cleanupVars>>
\* cleanupManager.WaitForCleanup: it waits for as many jobs as were counted when it was called.
WaitForCleanup(c) ==
    /\ checkpoint[c].at = "disabled"
    /\ checkpoint' = [checkpoint EXCEPT ![c].at = "waiting", ![c].jobs = totalJobs]
    /\ UNCHANGED <<versionVars, readStateVars, memVars, tableVars, section, readerVars, deleters, cleanupVars, disabled>>
\* The tables it copies are those of the current version, to which it takes no reference.
Capture(c) ==
    /\ checkpoint[c].at = "waiting"
    /\ completedJobs >= checkpoint[c].jobs
    /\ DBMutexFree
    /\ checkpoint' = [checkpoint EXCEPT ![c].at = "copying", ![c].tables = tablesOf[current]]
    /\ UNCHANGED <<versionVars, readStateVars, memVars, tableVars, section, readerVars, deleters, cleanupVars, disabled>>
\* enableFileDeletions, on every return; the last one deletes what became obsolete meanwhile.
Enable(c) ==
    /\ checkpoint[c].at = "copying"
    /\ DBMutexFree
    /\ disabled' = disabled - 1
    /\ checkpoint' = [checkpoint EXCEPT ![c] = NoCheckpoint]
    /\ TakeObsolete(disabled')
    /\ UNCHANGED <<versionVars, readStateVars, memVars, created, section, readerVars, cleanupVars>>

-----------------------------------------------------------------------------
Install ==
    \/ \E add, del \in SUBSET Files, flushed \in SUBSET Mems : LogAndApply(add, del, flushed)
    \/ \E add \in SUBSET Files : LogAndApplyFails(add)
    \/ RotateMemtable
    \/ SwapReadState
    \/ DropReadState
    \/ EndSection
ReaderStep(p) ==
    \/ LoadReadState(p) \/ RefVersion(p) \/ (\E q \in Readers : CloneReader(p, q))
    \/ CloseReader(p) \/ UnrefVersion(p) \/ RemoveVersion(p) \/ UnrefMems(p) \/ ScheduleDeletion(p)
CleanUp ==
    \/ \E d \in deleters : CountJob(d) \/ SendJob(d)
    \/ StartJob \/ (\E t \in cleaning : DeleteTable(t)) \/ FinishJob
CheckpointStep(c) == Disable(c) \/ WaitForCleanup(c) \/ Capture(c) \/ Enable(c)
RefsNext == Install \/ (\E p \in Readers : ReaderStep(p)) \/ CleanUp \/ (\E c \in Checkpoints : CheckpointStep(c))
RefsSpec == RefsInit /\ [][RefsNext]_refVars

-----------------------------------------------------------------------------
\* The tables that are on their way to be deleted.
Taken == UNION {d.tables : d \in deleters}
Queued == UNION {jobs[i] : i \in DOMAIN jobs}
Doomed == Taken \cup Queued \cup cleaning \cup deleted

\* What is in use is kept.  A table of the current version is neither obsolete nor being
\* deleted, and the tables that a checkpoint copies, from a version to which it has no reference,
\* are not deleted: deletions are disabled meanwhile.  The memtables of a read state that
\* somebody reads are not released: their memory is not taken for a new one.
InUseIsKept ==
    /\ tablesOf[current] \cap (obsolete \cup Doomed) = {}
    /\ \A c \in Checkpoints : checkpoint[c].at = "copying" => checkpoint[c].tables \cap Doomed = {}
    /\ \A p \in Readers : rpc[p] = "reading" /\ rs[p] # NoReadState => \A m \in rsMems[rs[p]] : mrefs[m] > 0

\* Whoever opens tables may rely on TablePins: a table of a version that somebody reads does not
\* become obsolete, and what is obsolete, and so evicted from the table cache, is in no version
\* that anybody begins to read (Version.Unref, unrefFiles, loadReadState, deleteObsoleteFiles).
PinnedTables == [p \in Readers |-> IF rpc[p] = "reading" THEN tablesOf[ver[p]] ELSE {}]
Pins == INSTANCE TablePins WITH Users <- Readers, Tables <- Files, pinned <- PinnedTables, dropped <- obsolete \cup Doomed
KeepsPins == Pins!PinsSpec
=============================================================================
