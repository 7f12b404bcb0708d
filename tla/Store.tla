------------------------------- MODULE Store -------------------------------
(***************************************************************************)
(* The life of the data of an open store: memtables are flushed to L0,     *)
(* compactions are scheduled, run and installed, versions follow each      *)
(* other (compaction.go, version_set.go, internal/manifest/version_edit.go *)
(* and table_stats.go).  The n-th write has sequence number n and hist     *)
(* records it.  A point in a memtable or table is [u, s, k, w]: its user   *)
(* key, sequence number and kind, and the write it comes from (zeroing the *)
(* sequence number leaves w); a range deletion is [a, b, s].  Each action  *)
(* is a stretch of code that runs with DB.mu held.                         *)
(***************************************************************************)
EXTENDS CompactionPicker
LOCAL INSTANCE SequencesExt
LOCAL INSTANCE FiniteSetsExt
LOCAL INSTANCE Functions
LOCAL INSTANCE TLC

CONSTANTS Keys,               \* user keys: 1 .. n
          MaxConcurrent,      \* MaxConcurrentCompactions
          FlushSplitBytes
\* versions.picker, through its interface compactionPicker (module CompactionPicker).
CONSTANTS PickerAuto(_, _, _, _), PickerManual(_, _, _, _)

VARIABLES v,        \* the current version
          base,     \* the picker's base level
          mem,      \* the flushables, oldest first; the last one is mutable
          hist,     \* the writes, in the order of their sequence numbers
          vis,      \* visibleSeqNum
          snap,     \* the sequence numbers of the open snapshots
          run,      \* compact.inProgress, without flushes
          flush,    \* the running flush: how many flushables, its snapshots, its edit
          lock,     \* the holder of the manifest lock
          fn,       \* the next file number
          stats,    \* tableStats: the pending files, and the hints of the running job
          hints,    \* compact.deletionHints
          manual,   \* compact.manual: at most one request
          ing       \* the ingestion that is between its sequence number and its end
vars == <<v, base, mem, hist, vis, snap, run, flush, lock, fn, stats, hints, manual, ing>>

Unlocked == "unlocked"
NoFlush == [n |-> 0, snaps |-> {}, edit |-> Nil]
LogSeqNum == Len(hist) + 1

-----------------------------------------------------------------------------
\* Tables.

PointKey(p) == MakeInternalKey(p.u, p.s, p.k)
MakeFile(n, pts, rd) ==
    LET starts == {PointKey(p) : p \in pts} \cup {MakeInternalKey(r.a, r.s, RangeDelete) : r \in rd}
        ends == {PointKey(p) : p \in pts} \cup {RangeDeleteSentinel(r.b) : r \in rd}
        sm == CHOOSE k \in starts : \A j \in starts : ~Before(j, k)
        la == CHOOSE k \in ends : \A j \in ends : ~Before(k, j)
        seqs == {p.s : p \in pts} \cup {r.s : r \in rd}
    IN  [n |-> n, bk |-> n, sm |-> sm, la |-> la, lo |-> sm.u, hi |-> la.u, excl |-> IsExclusiveSentinel(la),
         seq |-> Greatest(seqs), low |-> Least(seqs), size |-> Cardinality(pts) + Cardinality(rd),
         dels |-> Cardinality({p \in pts : p.k = Delete}) + Cardinality(rd),
         comp |-> "no", marked |-> FALSE, pts |-> pts, rd |-> rd]
\* What lies in [from, to) of some points and range deletions.
Cut(d, from, to) ==
    LET clip(r) == [r EXCEPT !.a = Greatest({@, from}), !.b = Least({@, to})]
    IN  [pts |-> {p \in d.pts : from <= p.u /\ p.u < to},
         rd |-> {r \in {clip(x) : x \in d.rd} : r.a < r.b}]
NoData(d) == d.pts = {} /\ d.rd = {}
Together(S) == [pts |-> UNION {d.pts : d \in S}, rd |-> UNION {d.rd : d \in S}]
EndOfKeys == Greatest(Keys) + 1
\* An output is one table, or two that meet at a user key (split 0: it is not split).
Tables(d, split, n) ==
    LET parts == SelectSeq(<<Cut(d, 0, split), Cut(d, split, EndOfKeys)>>, LAMBDA x : ~NoData(x))
    IN  {MakeFile(n + i - 1, parts[i].pts, parts[i].rd) : i \in DOMAIN parts}

-----------------------------------------------------------------------------
\* A version edit: files that go (by level and number) and files that come.

Bare(f) == [x \in DOMAIN f \ {"min", "max", "sub", "idx"} |-> f[x]]
OlderL0(f, g) == \/ f.seq < g.seq
                 \/ f.seq = g.seq /\ (f.low < g.low \/ (f.low = g.low /\ f.n < g.n))
BySeqNum(fs) == Ranked(fs, OlderL0)
\* BulkVersionEdit.Apply: L0 is rebuilt unless files are only added to its top.
RebuiltIfInvalid(added, rebuilt) == IF added = InvalidOpt THEN rebuilt ELSE added
ApplyL0(old, del, new) ==
    LET kept == {Bare(old.file[n]) : n \in DOMAIN old.file \ del}
        rebuilt == NewL0Sublevels(BySeqNum(kept \cup new), FlushSplitBytes)
    IN  IF del = {} /\ new = {} THEN old
        ELSE IF del # {} THEN rebuilt
        ELSE RebuiltIfInvalid(AddL0Files(old, BySeqNum(new), FlushSplitBytes), rebuilt)
ApplyEdit(ver, edit) ==
    LET del(l) == {d.n : d \in {x \in edit.del : x.level = l}}
        new(l) == {a.file : a \in {x \in edit.new : x.level = l}}
        at(l) == {ver.f[n] : n \in ToSet(ver.lv[l]) \ del(l)} \cup {Bare(f) : f \in new(l)}
        files == UNION {at(l) : l \in 1 .. LastLevel}
    IN  [l0 |-> ApplyL0(ver.l0, del(0), {Bare(f) : f \in new(0)}),
         lv |-> [l \in 1 .. LastLevel |->
                   LET order == Ranked(at(l), LAMBDA f, g : Before(f.sm, g.sm))
                   IN  [i \in DOMAIN order |-> order[i].n]],
         f |-> [n \in {f.n : f \in files} |-> CHOOSE f \in files : f.n = n]]

SetComp(ver, ns, comp) ==
    [ver EXCEPT !.l0.file = [n \in DOMAIN @ |-> IF n \in ns THEN [@[n] EXCEPT !.comp = comp] ELSE @[n]],
                !.f = [n \in DOMAIN @ |-> IF n \in ns THEN [@[n] EXCEPT !.comp = comp] ELSE @[n]]]

\* inProgressL0Compactions, as L0Sublevels wants them.
InProgressL0(cs) ==
    {[lo |-> c.sm.u, hi |-> c.la.u, excl |-> IsExclusiveSentinel(c.la), intra |-> c.out = 0] :
       c \in {d \in cs : d.st \notin {"failed", "done"} /\ \E i \in DOMAIN d.inputs : d.inputs[i].level = 0}}
\* The end of logAndApply, with DB.mu held again: the version is appended, and its
\* picker made; others are the running compactions but the one that finishes.
Install(ver, others) ==
    /\ v' = [ver EXCEPT !.l0 = InitCompactingFileInfo(@, InProgressL0(others))]
    /\ base' = BaseLevel(ver, others)
PendingStats(new) ==
    stats' = [stats EXCEPT !.pending = @ \cup {[level |-> a.level, n |-> a.file.n] : a \in {x \in new : x.file.rd # {}}}]

-----------------------------------------------------------------------------
\* Reading (getIter): the sources from the newest to the oldest, and what the key u
\* has at a snapshot: the write that set it, or 0.

Sources(ms, ver) ==
    [i \in DOMAIN ms |-> ms[Len(ms) + 1 - i].data]
    \o [i \in DOMAIN ver.l0.lv |->
          Together({ver.l0.file[n] : n \in ToSet(ver.l0.lv[Len(ver.l0.lv) + 1 - i])})]
    \o [l \in 1 .. LastLevel |-> Together({ver.f[n] : n \in ToSet(ver.lv[l])})]
RECURSIVE GetFrom(_, _, _)
GetFrom(sources, u, snapshot) ==
    IF sources = << >> THEN 0
    ELSE LET d == Head(sources)
             seen == {p \in d.pts : p.u = u /\ p.s < snapshot}
             first == CHOOSE p \in seen : \A q \in seen : q.s <= p.s
             over == {r.s : r \in {x \in d.rd : x.s < snapshot /\ x.a <= u /\ u < x.b}}
         IN  IF seen # {} /\ \A s \in over : s <= first.s
             THEN IF first.k = Delete THEN 0 ELSE first.w
             ELSE IF over # {} THEN 0
             ELSE GetFrom(Tail(sources), u, snapshot)
\* getInternal: memtables that began at the snapshot or later are not looked at.
Stripped(ms, snapshot) == SubSeq(ms, 1, Greatest({0} \cup {i \in DOMAIN ms : ms[i].log < snapshot}))
Get(u, snapshot) == GetFrom(Sources(Stripped(mem, snapshot), v), u, snapshot)

-----------------------------------------------------------------------------
\* Writes, memtables, snapshots.

\* A flushable: files are the tables of an ingested one, held says that an ingestion
\* has a writer reference to the memtable.
EmptyMem(log) == [log |-> log, data |-> [pts |-> {}, rd |-> {}], files |-> << >>, held |-> FALSE]
Allocated == IF ing = Nil THEN vis ELSE ing.end
\* A write is in the memtable before it is visible (module CommitPipeline), and it
\* is not visible before an ingestion that has an older sequence number.
Apply(op, data) ==
    /\ Allocated = LogSeqNum
    /\ hist' = Append(hist, op)
    /\ mem' = [mem EXCEPT ![Len(mem)].data = Together({@, data})]
    /\ UNCHANGED <<v, base, vis, snap, run, flush, lock, fn, stats, hints, manual, ing>>
SetKey(u) == Apply([k |-> "set", u |-> u], [pts |-> {[u |-> u, s |-> LogSeqNum, k |-> Set, w |-> LogSeqNum]}, rd |-> {}])
DeleteKey(u) == Apply([k |-> "del", u |-> u], [pts |-> {[u |-> u, s |-> LogSeqNum, k |-> Delete, w |-> 0]}, rd |-> {}])
DeleteRange(a, b) == Apply([k |-> "rdel", a |-> a, b |-> b], [pts |-> {}, rd |-> {[a |-> a, b |-> b, s |-> LogSeqNum]}])
Publish ==
    /\ ing = Nil
    /\ vis # LogSeqNum
    /\ vis' = LogSeqNum
    /\ UNCHANGED <<v, base, mem, hist, snap, run, flush, lock, fn, stats, hints, manual, ing>>
Rotate ==
    /\ ~NoData(Last(mem).data)
    /\ mem' = Append(mem, EmptyMem(LogSeqNum))
    /\ UNCHANGED <<v, base, hist, vis, snap, run, flush, lock, fn, stats, hints, manual, ing>>
OpenSnapshot ==
    /\ snap' = snap \cup {vis}
    /\ UNCHANGED <<v, base, mem, hist, vis, run, flush, lock, fn, stats, hints, manual, ing>>
CloseSnapshot(s) ==
    /\ s \in snap
    /\ snap' = snap \ {s}
    /\ UNCHANGED <<v, base, mem, hist, vis, run, flush, lock, fn, stats, hints, manual, ing>>

-----------------------------------------------------------------------------
\* What a compaction keeps (CompactionIter shows how): the newest point of a key in
\* each snapshot stripe, unless a range deletion of the stripe covers it.

Stripe(s, snaps) == Cardinality({x \in snaps : x <= s})
Fragments(rd, split, snaps) ==
    LET ends == Ascending({r.a : r \in rd} \cup {r.b : r \in rd} \cup {split})
        over(i) == {r \in rd : r.a <= ends[i] /\ ends[i + 1] <= r.b}
        newest(i) == {r \in over(i) : \A q \in over(i) : Stripe(q.s, snaps) = Stripe(r.s, snaps) => q.s <= r.s}
    IN  UNION {{[r EXCEPT !.a = ends[i], !.b = ends[i + 1]] : r \in newest(i)} : i \in 1 .. Len(ends) - 1}
Compacted(d, snaps, split, ElideKey(_), ElideRange(_, _), zero) ==
    LET same(s, t) == Stripe(s, snaps) = Stripe(t, snaps)
        oldest(s) == Stripe(s, snaps) = 0
        kept == {p \in d.pts : /\ \A q \in d.pts : q.u = p.u /\ q.s > p.s => ~same(p.s, q.s)
                               /\ \A r \in d.rd : r.a <= p.u /\ p.u < r.b /\ r.s > p.s => ~same(p.s, r.s)
                               /\ ~(p.k = Delete /\ oldest(p.s) /\ ElideKey(p.u))}
    IN  [pts |-> {IF zero /\ oldest(p.s) /\ p.k = Set THEN [p EXCEPT !.s = 0] ELSE p : p \in kept},
         rd |-> {r \in Fragments(d.rd, split, snaps) : ~(oldest(r.s) /\ ElideRange(r.a, r.b))}]

\* calculateInuseKeyRanges: where the levels below the output have keys (merging the
\* ranges does not change which keys they hold).
InUse(ver, level, smallest, largest) ==
    (IF level = 0 THEN ToSet(InUseKeyRanges(ver.l0, smallest, largest)) ELSE {})
    \cup UNION {{[start |-> ver.f[n].lo, end |-> ver.f[n].hi] : n \in Overlaps(ver, l, smallest, largest, FALSE)} :
                  l \in Greatest({level, 1}) .. LastLevel}
ElideTombstone(c, u) == \A r \in c.inuse : ~(r.start <= u /\ u <= r.end)
ElideRangeTombstone(c, a, b) == \A r \in c.inuse : r.end < a \/ r.start > b
AllowZeroSeqNum(c) == ElideRangeTombstone(c, c.sm.u, c.la.u)

\* newCompaction: a single file with nothing to merge it with is moved.
NewCompaction(ver, pc) ==
    LET grand == IF pc.out = LastLevel THEN {} ELSE OverlapsKeys(ver, pc.out + 1, pc)
        first(ns) == Least({File(ver, n).lo : n \in ns})
        last(ns) == Greatest({File(ver, n).hi : n \in ns})
        move == /\ pc.kind = "default"
                /\ \A i \in 2 .. Len(pc.inputs) : pc.inputs[i].files = {}
                /\ Cardinality(pc.inputs[1].files) = 1
                /\ SizeSum(ver, grand) <= MaxGrandparentOverlapBytes
    IN  [kind |-> IF move THEN "move" ELSE pc.kind, out |-> pc.out, sm |-> pc.sm, la |-> pc.la,
         inputs |-> [i \in DOMAIN pc.inputs |->
                       LET ns == pc.inputs[i].files
                       IN  IF ns = {} THEN [level |-> pc.inputs[i].level, files |-> ns]
                           ELSE [level |-> pc.inputs[i].level, files |-> ns, first |-> first(ns), last |-> last(ns)]],
         inuse |-> InUse(ver, IF pc.out = 0 THEN 0 ELSE pc.out + 1, pc.sm.u, pc.la.u),
         snaps |-> {}, zero |-> FALSE, cancel |-> FALSE, st |-> "picked", stale |-> {}]
\* addInProgressCompaction.
AddInProgress(s, c) ==
    LET marked == SetComp(s.v, InputFiles(c), IF c.inputs[1].level = 0 /\ c.out = 0 THEN "intra" ELSE "base")
    IN  [s EXCEPT !.run = @ \cup {c},
                  !.v = IF c.inputs[1].level # 0 THEN marked
                        ELSE [marked EXCEPT !.l0 = UpdateStateForStartedCompaction(@, 
                                c.inputs[1].files \cup (IF c.out = 0 THEN OutputFiles(c) ELSE {}), c.out # 0)]]

-----------------------------------------------------------------------------
\* Hints for delete-only compactions (table_stats.go).

\* The range deletions of a file, merged where they meet: the parts of the keys
\* they cover that are connected, with the sequence numbers found there.
CombinedDeletions(rd) ==
    LET covered(u) == \E r \in rd : r.a <= u /\ u < r.b
        begins == {u \in Keys : covered(u) /\ ~covered(u - 1)}
        end(u) == Least({x \in u .. EndOfKeys : ~covered(x)})
        seqs(u) == {r.s : r \in {x \in rd : u <= x.a /\ x.b <= end(u)}}
    IN  {[start |-> u, end |-> end(u), tombLa |-> Greatest(seqs(u)), tombSm |-> Least(seqs(u))] : u \in begins}
\* loadTableRangeDelStats: fileSm is the oldest sequence number of a file below that
\* the range contains.
HintsOf(ver, level, n) ==
    LET f == File(ver, n)
        below(d) == {m \in UNION {Overlaps(ver, l, d.start, d.end, TRUE) : l \in level + 1 .. LastLevel} :
                       LET g == ver.f[m] IN d.start <= g.lo /\ (g.hi < d.end \/ (g.hi = d.end /\ g.excl))}
        inFile(d) == level = LastLevel /\ f.low < d.tombLa
    IN  {d @@ [level |-> level, n |-> n, fileSm |-> Least({ver.f[m].low : m \in below(d)})] :
           d \in {x \in CombinedDeletions(f.rd) : ~inFile(x) /\ below(x) # {}}}
Holds(ver, level, n) == n \in FilesAt(ver, level)

\* collectTableStats looks at the version of its read state without DB.mu, and adds
\* the hints of files that are still where they were.
StatsBegin ==
    LET live == {p \in stats.pending : Holds(v, p.level, p.n)}
    IN  /\ ~stats.loading /\ stats.pending # {}
        /\ stats' = [pending |-> {}, loading |-> TRUE, found |-> UNION {HintsOf(v, p.level, p.n) : p \in live}]
        /\ UNCHANGED <<v, base, mem, hist, vis, snap, run, flush, lock, fn, hints, manual, ing>>
StatsEnd ==
    /\ stats.loading
    /\ hints' = hints \cup {h \in stats.found : Holds(v, h.level, h.n)}
    /\ stats' = [stats EXCEPT !.loading = FALSE, !.found = {}]
    /\ UNCHANGED <<v, base, mem, hist, vis, snap, run, flush, lock, fn, manual, ing>>

CanDelete(h, f, snaps) ==
    /\ f.seq < h.tombSm /\ f.low >= h.fileSm
    /\ Stripe(h.tombLa, snaps) = Stripe(f.low, snaps)
    /\ h.start <= f.lo /\ f.hi < h.end
KeepsAllHints(c, hs, ver) == hs     \* mutant
\* A compaction that may zero sequence numbers drops the hints that it could confuse.
UpdatedHints(c, hs, ver) ==
    {h \in hs : \/ ~c.zero
                \/ h.end < c.sm.u \/ h.start > c.la.u
                \/ \A n \in InputFiles(c) : File(ver, n).seq < h.tombSm}
\* checkDeleteCompactionHints: the hints that can be resolved, and their files.
Resolvable(h) == Stripe(h.tombLa, snap) = Stripe(h.fileSm, snap)
DeleteOnlyFiles(ver, hs) ==
    [l \in 1 .. LastLevel |->
       {n \in FilesAt(ver, l) : /\ ~IsCompacting(ver.f[n])
                                /\ \E h \in hs : /\ l > h.level
                                                 /\ n \in Overlaps(ver, l, h.start, h.end, TRUE)
                                                 /\ CanDelete(h, ver.f[n], snap)}]
DeleteOnlyCompaction(ver, files) ==
    LET levels == Ascending({l \in DOMAIN files : files[l] # {}})
        r == KeyRange(ver, UNION Range(files))
        ns(i) == files[levels[i]]
    IN  [kind |-> "deleteOnly", out |-> -1, sm |-> r.sm, la |-> r.la,
         inputs |-> [i \in DOMAIN levels |->
                       [level |-> levels[i], files |-> ns(i), first |-> Least({ver.f[n].lo : n \in ns(i)}),
                        last |-> Greatest({ver.f[n].hi : n \in ns(i)})]],
         inuse |-> {}, snaps |-> {}, zero |-> FALSE, cancel |-> FALSE, st |-> "picked", stale |-> {}]

-----------------------------------------------------------------------------
\* maybeScheduleCompactionPicker: hints, then the manual compaction, then automatic
\* ones.  A stage takes and gives [v, run, hints, manual].

Room(s) == Cardinality(s.run) < MaxConcurrent
ScheduleHints(s) ==
    LET ready == {h \in s.hints : Resolvable(h)}
        files == DeleteOnlyFiles(s.v, ready)
        left == [s EXCEPT !.hints = @ \ ready]
    IN  IF \A l \in DOMAIN files : files[l] = {} THEN left
        ELSE AddInProgress(left, DeleteOnlyCompaction(s.v, files))
ScheduleManual(s) ==
    LET picked == PickerManual(s.v, s.manual, base, s.run)
    IN  IF s.manual = Nil \/ ~Room(s) \/ picked.retryLater THEN s
        ELSE IF picked.pc = Nil THEN [s EXCEPT !.manual = Nil]
        ELSE AddInProgress([s EXCEPT !.manual = Nil], NewCompaction(s.v, picked.pc))
\* sampleRead: the files that iterators came to with another file below (a file that
\* has since left its level is passed over by the picker).
Sampled(ver) ==
    LET under(l, f) == UNION {Overlaps(ver, m, f.lo, f.hi, f.excl) : m \in l + 1 .. LastLevel}
    IN  UNION {{[level |-> l, n |-> n, start |-> File(ver, n).lo, end |-> File(ver, n).hi] :
                  n \in {x \in FilesAt(ver, l) : under(l, File(ver, x)) # {}}} : l \in 0 .. LastLevel - 1}
Environment(reads) ==
    [unflushed |-> mem[1].log, earliestSnapshot |-> Least(snap \cup {SeqNumMax}), reads |-> IF flush = NoFlush THEN reads ELSE {}]
RECURSIVE ScheduleAuto(_, _)
ScheduleAuto(s, env) ==
    {s} \cup (IF ~Room(s) THEN {}
              ELSE UNION {ScheduleAuto(AddInProgress(s, NewCompaction(s.v, pc)), env) :
                            pc \in PickerAuto(s.v, base, s.run, env)})
\* An action of its own: maybeScheduleCompaction is called after every flush, compaction
\* and ingestion, but waits for the manifest lock first.
Schedule(reads) ==
    LET s == [v |-> v, run |-> run, hints |-> hints, manual |-> manual]
    IN  /\ lock = Unlocked
        /\ Room(s)
        /\ \E t \in ScheduleAuto(ScheduleManual(ScheduleHints(s)), Environment(reads)) :
             /\ t # s
             /\ v' = t.v /\ run' = t.run /\ hints' = t.hints /\ manual' = t.manual
        /\ UNCHANGED <<base, mem, hist, vis, snap, flush, lock, fn, stats, ing>>
RequestManual(level, a, b) ==
    /\ manual = Nil
    /\ manual' = [level |-> level, start |-> a, end |-> b]
    /\ UNCHANGED <<v, base, mem, hist, vis, snap, run, flush, lock, fn, stats, hints, ing>>

-----------------------------------------------------------------------------
\* compact1: run, then install or roll back.

With(c, d) == (run \ {c}) \cup {d}
\* runCompaction reads the open snapshots before it lets go of DB.mu; what it merges
\* may not be published yet.
Start(c) ==
    /\ c \in run /\ c.st = "picked"
    /\ c.kind \in {"move", "deleteOnly"} \/ ~c.cancel
    /\ run' = With(c, [c EXCEPT !.st = "running", !.snaps = IF c.kind \in {"move", "deleteOnly"} THEN {} ELSE snap,
                                !.zero = c.kind \notin {"move", "deleteOnly"} /\ AllowZeroSeqNum(c)])
    /\ UNCHANGED <<v, base, mem, hist, vis, snap, flush, lock, fn, stats, hints, manual, ing>>
\* It has run: the manifest lock is taken, and the edit written without DB.mu.
ApplyBegin(c) ==
    /\ c \in run /\ c.st = "running" /\ ~c.cancel
    /\ lock = Unlocked
    /\ lock' = "compaction"
    /\ run' = With(c, [c EXCEPT !.st = "applying"])
    /\ UNCHANGED <<v, base, mem, hist, vis, snap, flush, fn, stats, hints, manual, ing>>

CompactionEdit(c, split) ==
    LET del == UNION {{[level |-> c.inputs[i].level, n |-> n] : n \in c.inputs[i].files} : i \in DOMAIN c.inputs}
        d == Compacted(Together({File(v, n) : n \in InputFiles(c)}), c.snaps, split,
                       LAMBDA u : ElideTombstone(c, u), LAMBDA a, b : ElideRangeTombstone(c, a, b), c.zero)
        new == CASE c.kind = "deleteOnly" -> {}
                 [] c.kind = "move" -> {[File(v, n) EXCEPT !.comp = "no"] : n \in InputFiles(c)}
                 [] OTHER -> Tables(d, split, fn)
    IN  [del |-> del, new |-> {[level |-> c.out, file |-> f] : f \in new}]
\* logAndApply returns with the manifest lock released and DB.mu held, and compact1 keeps
\* DB.mu to its end: the lock is free when clearCompactingState takes it once more, it
\* finds the compactions that Install was given, and the read state follows at once.
ApplyEnd(c, split) ==
    LET edit == CompactionEdit(c, split)
    IN  /\ c \in run /\ c.st = "applying"
        /\ split # 0 => Cardinality(edit.new) = 2
        /\ Install(ApplyEdit(v, edit), run \ {c})
        /\ run' = With(c, [c EXCEPT !.st = "done"])
        /\ lock' = Unlocked
        /\ fn' = IF c.kind \in {"move", "deleteOnly"} THEN fn ELSE fn + Cardinality(edit.new)
        /\ hints' = UpdatedHints(c, hints, v)
        /\ PendingStats(edit.new)
        /\ UNCHANGED <<mem, hist, vis, snap, flush, manual, ing>>
\* The compaction failed or was cancelled: clearCompactingState may have to wait.  Its files are free at once, but L0Sublevels
\* is told only with the manifest lock held, of the compactions that ran before the wait.
RolledBack(c, status) ==
    /\ v' = SetComp(v, InputFiles(c), "no")
    /\ run' = With(c, [c EXCEPT !.st = status, !.stale = InProgressL0(run \ {c})])
Fail(c) ==
    /\ c \in run /\ c.st \in {"picked", "running"} 
    /\ lock # Unlocked
    /\ RolledBack(c, "failed")
    /\ UNCHANGED <<base, mem, hist, vis, snap, flush, lock, fn, stats, hints, manual, ing>>
FailAtOnce(c) ==
    LET freed == SetComp(v, InputFiles(c), "no")
    IN  /\ c \in run /\ c.st \in {"picked", "running"}
        /\ lock = Unlocked
        /\ v' = [freed EXCEPT !.l0 = InitCompactingFileInfo(@, InProgressL0(run \ {c}))]
        /\ run' = With(c, [c EXCEPT !.st = "done"])
        /\ UNCHANGED <<base, mem, hist, vis, snap, flush, lock, fn, stats, hints, manual, ing>>
FailEnd(c) ==
    /\ c \in run /\ c.st = "failed"
    /\ lock = Unlocked
    /\ v' = [v EXCEPT !.l0 = InitCompactingFileInfo(@, c.stale)]
    /\ run' = With(c, [c EXCEPT !.st = "done", !.stale = {}])
    /\ UNCHANGED <<base, mem, hist, vis, snap, flush, lock, fn, stats, hints, manual, ing>>
\* compact: the compaction leaves inProgress after its obsolete files were seen to.
Finish(c) ==
    /\ c \in run /\ c.st = "done"
    /\ run' = run \ {c}
    /\ UNCHANGED <<v, base, mem, hist, vis, snap, flush, lock, fn, stats, hints, manual, ing>>

-----------------------------------------------------------------------------
\* flush1: memtables of the front of the queue, never the mutable one; nothing is
\* elided or zeroed.  (Ingested flushables are flushed one by one: module Ingest.)
\* A memtable is ready once no writer refers to it, even if not all of it is published.
ReadyForFlush(m) == m.files = << >> /\ ~m.held
FlushBegin ==
    LET n == Greatest({0} \cup {i \in 1 .. Len(mem) - 1 : \A j \in 1 .. i : ReadyForFlush(mem[j])})
    IN  /\ flush = NoFlush /\ n > 0
        /\ flush' = [NoFlush EXCEPT !.n = n, !.snaps = snap]
        /\ UNCHANGED <<v, base, mem, hist, vis, snap, run, lock, fn, stats, hints, manual, ing>>
FlushApplyBegin(split) ==
    LET d == Compacted(Together({mem[i].data : i \in 1 .. flush.n}), flush.snaps, split,
                       LAMBDA u : FALSE, LAMBDA a, b : FALSE, FALSE)
        new == {[level |-> 0, file |-> f] : f \in Tables(d, split, fn)}
    IN  /\ flush.n > 0 /\ flush.edit = Nil /\ mem[1].files = << >>
        /\ lock = Unlocked
        /\ split # 0 => Cardinality(new) = 2
        /\ lock' = "flush"
        /\ flush' = [flush EXCEPT !.edit = [del |-> {}, new |-> new]]
        /\ fn' = fn + Cardinality(new)
        /\ UNCHANGED <<v, base, mem, hist, vis, snap, run, stats, hints, manual, ing>>
\* As in ApplyEnd, DB.mu is held from the installed version to the end of flush1: no one
\* sees the new version with the flushed memtables still in the queue.
FlushApplyEnd ==
    /\ flush.edit # Nil
    /\ Install(ApplyEdit(v, flush.edit), run)
    /\ mem' = SubSeq(mem, flush.n + 1, Len(mem))
    /\ flush' = NoFlush
    /\ lock' = Unlocked
    /\ PendingStats(flush.edit.new)
    /\ UNCHANGED <<hist, vis, snap, run, fn, hints, manual, ing>>
=============================================================================
