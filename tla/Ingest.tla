------------------------------- MODULE Ingest -------------------------------
(***************************************************************************)
(* Ingestion of tables into an open store, with or without a span of keys  *)
(* that is excised (ingest.go, and runIngestFlush in compaction.go).  A    *)
(* table to ingest is what it holds: points [u, k] and range deletions     *)
(* [a, b]; it gets one sequence number for all of it.  The data overlap of *)
(* a table with a flushable or a level, and its boundary overlap with the  *)
(* files of a level, decide where it goes.                                 *)
(***************************************************************************)
EXTENDS Store
LOCAL INSTANCE SequencesExt
LOCAL INSTANCE FiniteSetsExt
LOCAL INSTANCE Functions
LOCAL INSTANCE TLC

\* A span [start, end) of user keys and internal keys.
SpanHolds(span, key) ==
    /\ span.start <= key.u
    /\ key.u < span.end \/ (key.u = span.end /\ IsExclusiveSentinel(key))
SpanMeets(span, sm, la) ==
    /\ span.start < la.u \/ (span.start = la.u /\ ~IsExclusiveSentinel(la))
    /\ sm.u < span.end

\* ingestUpdateSeqNum: the i-th table has the sequence number seq + i - 1.
IngestUpdateSeqNum(tables, n, seq) ==
    [i \in DOMAIN tables |->
       LET s == seq + i - 1
       IN  MakeFile(n + i - 1,
             {[u |-> p.u, s |-> s, k |-> p.k, w |-> IF p.k = Set THEN s ELSE 0] : p \in tables[i].pts},
             {[a |-> r.a, b |-> r.b, s |-> s] : r \in tables[i].rd})]
\* ingestSortAndVerify, for local tables.
IngestSortAndVerify(files) ==
    \A i \in 1 .. Len(files) - 1 :
       /\ files[i].lo < files[i + 1].lo
       /\ SSTableBefore(files[i].la, files[i + 1].sm)

\* overlapWithIterator: a point or a range deletion of d within the bounds.
OverlapWithIterator(d, sm, la) ==
    LET upTo(u) == u < la.u \/ (u = la.u /\ ~IsExclusiveSentinel(la))
    IN  \/ \E p \in d.pts : sm.u <= p.u /\ upTo(p.u)
        \/ \E r \in d.rd : sm.u < r.b /\ upTo(r.a)
DataOverlap(ns, ver, f) == \E n \in ns : OverlapWithIterator(File(ver, n), f.sm, f.la)

\* A running compaction writes to the keys of f in the level.
NotWritten(cs, level, f) == FALSE     \* mutant
BeingWritten(cs, level, f) == \E c \in cs : c.out = level /\ f.lo <= c.la.u /\ f.hi >= c.sm.u
\* ingestTargetLevel, from a level on: the lowest level that can take f, and the file
\* to split there.
RECURSIVE TargetFrom(_, _, _, _, _, _)
TargetFrom(ver, cs, f, suggestSplit, level, best) ==
    LET bounds == Overlaps(ver, level, f.lo, f.hi, f.excl)
        filled == bounds # {} /\ ~(suggestSplit /\ Cardinality(bounds) = 1)
        here == [level |-> level, split |-> bounds]
    IN  IF level > LastLevel \/ DataOverlap(FilesAt(ver, level), ver, f) THEN best
        ELSE TargetFrom(ver, cs, f, suggestSplit, level + 1, IF filled \/ BeingWritten(cs, level, f) THEN best ELSE here)
IngestTargetLevel(ver, baseLevel, cs, f, suggestSplit) ==
    LET top == [level |-> 0, split |-> {}]
    IN  IF DataOverlap(DOMAIN ver.l0.file, ver, f) THEN top
        ELSE TargetFrom(ver, cs, f, suggestSplit, baseLevel, top)

-----------------------------------------------------------------------------
\* An edit under construction: the files that go and come, what each file that went
\* was replaced by, and the next file number.

NewEdit(n) == [del |-> {}, new |-> {}, replaced |-> << >>, fn |-> n]
\* A virtual table on what f holds in [from, to); its sequence numbers are loose.
VirtualFile(f, n, d) == [MakeFile(n, d.pts, d.rd) EXCEPT !.seq = f.seq, !.low = f.low, !.bk = f.bk]
\* excise: the file is replaced by what is left of it on each side of the span.
Excise(e, span, f, level) ==
    LET left == Cut(f, 0, span.start)
        right == Cut(f, span.end, EndOfKeys)
        tryLeft == f.lo < span.start
        tryRight == ~SpanHolds(span, f.la)
        inside == SpanHolds(span, f.sm) /\ SpanHolds(span, f.la)
        rightNum == IF tryLeft THEN e.fn + 1 ELSE e.fn
        made == (IF tryLeft /\ ~NoData(left) THEN {VirtualFile(f, e.fn, left)} ELSE {})
                \cup (IF tryRight /\ ~NoData(right) THEN {VirtualFile(f, rightNum, right)} ELSE {})
        by == IF inside THEN {} ELSE made
    IN  IF ~SpanMeets(span, f.sm, f.la) THEN e
        ELSE [del |-> e.del \cup {[level |-> level, n |-> f.n]},
              new |-> e.new \cup {[level |-> level, file |-> g] : g \in by},
              replaced |-> (f.n :> by) @@ e.replaced,
              fn |-> IF inside THEN e.fn ELSE IF tryRight THEN rightNum + 1 ELSE rightNum]
ExciseAll(e, ver, span) ==
    LET hit == UNION {{[level |-> l, n |-> n] : n \in Overlaps(ver, l, span.start, span.end, TRUE)} : l \in 0 .. LastLevel}
    IN  FoldSet(LAMBDA h, acc : Excise(acc, span, File(ver, h.n), h.level), e, hit)
\* ingestSplit: the file to split may itself have been replaced, and the one that
\* replaced it may leave room already.
RECURSIVE StillToSplit(_, _, _)
StillToSplit(e, f, g) ==
    LET meets == {h \in e.replaced[f.n] : FileOverlaps(h, g.lo, g.hi, g.excl)}
    IN  IF f.n \notin DOMAIN e.replaced THEN {f}
        ELSE UNION {StillToSplit(e, h, g) : h \in meets}
IngestSplit(e, ver, splits) ==
    LET one(acc, s) ==
          LET fs == StillToSplit(acc, File(ver, s.n), s.file)
          IN  IF fs = {} THEN acc
              ELSE Excise(acc, [start |-> s.file.lo, end |-> s.file.hi], CHOOSE f \in fs : TRUE, s.level)
    IN  FoldLeft(one, e, splits)
\* The edit without the files that it both makes and deletes.
Flattened(e) ==
    LET both == {[level |-> a.level, n |-> a.file.n] : a \in e.new} \cap e.del
    IN  [del |-> e.del \ both, new |-> {a \in e.new : [level |-> a.level, n |-> a.file.n] \notin both}]

\* The edit that places some tables, in their order.
Summary(done, ver, splits) ==
    [edit |-> Flattened(done), fn |-> done.fn, replaced |-> DOMAIN done.replaced,
     compacting |-> \E i \in DOMAIN splits : IsCompacting(File(ver, splits[i].n)), splits |-> Len(splits)]
Placed(ver, files, targets, span, n) ==
    LET split(i) == targets[i].split
        splits == SelectSeq([i \in DOMAIN files |->
                               [file |-> files[i], level |-> targets[i].level,
                                n |-> IF split(i) = {} THEN 0 ELSE CHOOSE m \in split(i) : TRUE]],
                            LAMBDA s : s.n # 0)
        placed == [NewEdit(n) EXCEPT !.new = {[level |-> targets[i].level, file |-> files[i]] : i \in DOMAIN files}]
        excised == IF span = Nil THEN placed ELSE ExciseAll(placed, ver, span)
    IN  Summary(IngestSplit(excised, ver, splits), ver, splits)

-----------------------------------------------------------------------------
\* ingest.

\* A reader's view of the flushable that the i-th element of the queue is.
MemOverlaps(m, f) == OverlapWithIterator(m.data, f.sm, f.la)
SpanOverlaps(m, span) ==
    OverlapWithIterator(m.data, MakeSearchKey(span.start), RangeDeleteSentinel(span.end))
Rotated(q, log) == Append(q, EmptyMem(log))
Hold(q) == [q EXCEPT ![Len(q)].held = TRUE]
IngestedFlushable(files, log) ==
    [log |-> log, data |-> Together(ToSet(files)), files |-> files, held |-> FALSE]

\* prepare, with commitPipeline.mu and DB.mu held, after all older writes are visible.
\* A table that overlaps no flushable goes into the levels at once; another one waits
\* for the flush of the newest flushable it overlaps, or becomes a flushable itself.
\* In the first two cases newer writes must not be flushed before it.
IngestPrepare(tables, span, ops, suggestSplit, asFlushable) ==
    LET seq == LogSeqNum
        end == seq + Len(tables)
        files == IngestUpdateSeqNum(tables, fn, seq)
        meets(m) == (\E i \in DOMAIN files : MemOverlaps(m, files[i])) \/ (span # Nil /\ SpanOverlaps(m, span))
        hit == Greatest({0} \cup {i \in DOMAIN mem : meets(mem[i])})
        queue == IF hit = Len(mem) THEN Rotated(mem, end) ELSE mem
        started(wait) == [st |-> "waiting", files |-> files, span |-> span, end |-> end, wait |-> wait,
                          split |-> suggestSplit, edit |-> Nil]
    IN  /\ ing = Nil
        /\ vis = LogSeqNum
        /\ IngestSortAndVerify(files)
        /\ hist' = hist \o ops
        /\ fn' = fn + Len(files)
        /\ \/ /\ hit = 0 /\ ~asFlushable
              /\ mem' = Hold(mem)
              /\ ing' = started(0)
           \/ /\ hit # 0 /\ ~asFlushable
              /\ mem' = Hold(queue)
              /\ ing' = started(mem[hit].log)
           \/ /\ hit # 0 /\ asFlushable /\ span = Nil
              /\ mem' = Rotated(Append(mem, IngestedFlushable(files, seq)), end)
              /\ UNCHANGED ing
        /\ UNCHANGED <<v, base, vis, snap, run, flush, lock, stats, hints, manual>>

\* Compactions that the edit takes files away from, or whose output could lie in the
\* excised span, are told to stop.
Cancelled(cs, stopped) == {[c EXCEPT !.cancel = @ \/ c \in stopped] : c \in cs}
Unheld(q) == [i \in DOMAIN q |-> [q[i] EXCEPT !.held = FALSE]]
Flushed(log) == \A i \in DOMAIN mem : mem[i].log # log
\* ingestApply, up to logAndApply's letting go of DB.mu.
IngestTargets ==
    LET span == ing.span
        within(f) == span # Nil /\ SpanHolds(span, f.sm) /\ SpanHolds(span, f.la)
    IN  [i \in DOMAIN ing.files |->
           IF within(ing.files[i]) THEN [level |-> LastLevel, split |-> {}]
           ELSE IngestTargetLevel(v, base, run, ing.files[i], ing.split)]
IngestLogged(p, span) ==
    LET stop(c) == /\ c.st \notin {"failed", "done"}
                   /\ \/ span # Nil /\ SpanMeets(span, c.sm, c.la)
                      \/ p.compacting /\ InputFiles(c) \cap p.replaced # {}
    IN  /\ ing' = [ing EXCEPT !.st = "applying", !.edit = p.edit]
        /\ fn' = p.fn
        /\ run' = IF p.splits > 0 \/ span # Nil THEN Cancelled(run, {c \in run : stop(c)}) ELSE run
IngestApplyBegin ==
    /\ ing # Nil
    /\ ing.st = "waiting" /\ Flushed(ing.wait)
    /\ lock = Unlocked
    /\ lock' = "ingest"
    /\ mem' = Unheld(mem)
    /\ \E p \in {Placed(v, ing.files, IngestTargets, ing.span, fn)} : IngestLogged(p, ing.span)
    /\ UNCHANGED <<v, base, hist, vis, snap, flush, stats, hints, manual>>
IngestApplyEnd ==
    /\ ing # Nil
    /\ ing.st = "applying"
    /\ Install(ApplyEdit(v, ing.edit), run)
    /\ lock' = Unlocked
    /\ PendingStats(ing.edit.new)
    /\ ing' = [ing EXCEPT !.st = "applied"]
    /\ UNCHANGED <<mem, hist, vis, snap, run, flush, fn, hints, manual>>
\* AllocateSeqNum publishes the sequence numbers of the tables.
IngestPublish ==
    /\ ing # Nil
    /\ ing.st = "applied"
    /\ vis' = ing.end
    /\ ing' = Nil
    /\ UNCHANGED <<v, base, mem, hist, snap, run, flush, lock, fn, stats, hints, manual>>

-----------------------------------------------------------------------------
\* flush1 for an ingested flushable: it is placed with the manifest lock held.
IngestFlushBegin ==
    /\ flush = NoFlush /\ Len(mem) > 1
    /\ mem[1].files # << >>
    /\ flush' = [NoFlush EXCEPT !.n = 1]
    /\ UNCHANGED <<v, base, mem, hist, vis, snap, run, lock, fn, stats, hints, manual, ing>>
RunIngestFlush(suggestSplit) ==
    LET files == mem[1].files
        targets == [i \in DOMAIN files |-> IngestTargetLevel(v, base, run, files[i], suggestSplit)]
        stop(c, p) == \E i \in DOMAIN c.inputs, d \in p.edit.del :
                        c.inputs[i].level = d.level /\ d.n \in c.inputs[i].files
    IN  /\ flush.n = 1 /\ flush.edit = Nil /\ mem[1].files # << >>
        /\ lock = Unlocked
        /\ lock' = "flush"
        /\ \E p \in {Placed(v, files, targets, Nil, fn)} :
             /\ flush' = [flush EXCEPT !.edit = p.edit]
             /\ fn' = p.fn
             /\ run' = Cancelled(run, {c \in run : stop(c, p)})
        /\ UNCHANGED <<v, base, mem, hist, vis, snap, stats, hints, manual, ing>>
=============================================================================
