------------------------------- MODULE MCStore -------------------------------
(***************************************************************************)
(* Instances of Store and Ingest.  A scenario starts from a version that   *)
(* earlier flushes and compactions could have left, performs the writes of *)
(* its script, and lets everything else happen in any order: publication,  *)
(* flushes, table statistics, the choice of compactions, their running,    *)
(* failing and being cancelled, ingestions, and snapshots.                 *)
(***************************************************************************)
EXTENDS Ingest, TLC

CONSTANTS MaxMem

P(u, s) == [u |-> u, s |-> s, k |-> Set, w |-> s]
Z(u, w) == [u |-> u, s |-> 0, k |-> Set, w |-> w]     \* a set whose sequence number was zeroed
D(u, s) == [u |-> u, s |-> s, k |-> Delete, w |-> 0]
R(a, b, s) == [a |-> a, b |-> b, s |-> s]
SetOp(u) == [k |-> "set", u |-> u]
DelOp(u) == [k |-> "del", u |-> u]
RangeOp(a, b) == [k |-> "rdel", a |-> a, b |-> b]

VersionOf(l0, levels) ==
    LET files == UNION {{levels[l][i] : i \in DOMAIN levels[l]} : l \in DOMAIN levels}
    IN  [l0 |-> NewL0Sublevels(l0, FlushSplitBytes),
         lv |-> [l \in DOMAIN levels |-> [i \in DOMAIN levels[l] |-> levels[l][i].n]],
         f |-> [n \in {f.n : f \in files} |-> CHOOSE f \in files : f.n = n]]

\* A scenario: the writes before it begins (h) and the version they are in, the
\* writes to come, how many snapshots may be opened and files made, whether
\* compactions fail, which manual compactions and which ingestions there are.
Quiet == [h |-> << >>, v |-> VersionOf(<< >>, << << >>, << >> >>), script |-> << >>, snaps |-> 0, files |-> 4,
          fails |-> FALSE, requests |-> {}, reads |-> FALSE, splitKeys |-> FALSE, ingests |-> << >>]
Table(us, rds) == [pts |-> {[u |-> u, k |-> Set] : u \in us}, rd |-> rds]
Ingestion(tables, span, split, asFlushable) ==
    [tables |-> tables, span |-> span, split |-> split, asFlushable |-> asFlushable]
Flushes ==
    [Quiet EXCEPT !.h = <<SetOp(2), SetOp(1)>>,
       !.v = VersionOf(<< >>, << << >>, <<MakeFile(2, {P(1, 2)}, {}), MakeFile(1, {P(2, 1)}, {})>> >>),
       !.script = <<{RangeOp(1, 3)}, {SetOp(1), RangeOp(2, 4)}>>, !.snaps = 1]
Hints ==
    [Quiet EXCEPT !.h = <<SetOp(1), SetOp(3), SetOp(2), RangeOp(1, 3), SetOp(1)>>,
       !.v = VersionOf(<<MakeFile(4, {P(1, 5)}, {})>>,
                       << <<MakeFile(3, {P(2, 3)}, {R(1, 3, 4)})>>,
                          <<MakeFile(1, {Z(1, 1)}, {}), MakeFile(2, {Z(3, 2)}, {})>> >>),
       !.snaps = 1]
Fails ==
    [Quiet EXCEPT !.h = <<SetOp(1), SetOp(3), SetOp(1), SetOp(3), SetOp(2)>>,
       !.v = VersionOf(<<MakeFile(3, {P(1, 3)}, {}), MakeFile(4, {P(3, 4)}, {}), MakeFile(5, {P(2, 5)}, {})>>,
                       << <<MakeFile(1, {P(1, 1)}, {}), MakeFile(2, {P(3, 2)}, {})>>, << >> >>),
       !.fails = TRUE]
\* Files that leave room between their keys.
Gaps ==
    [Quiet EXCEPT !.h = <<SetOp(1), SetOp(4), SetOp(1), SetOp(4)>>,
       !.v = VersionOf(<<MakeFile(3, {P(1, 3), P(4, 4)}, {})>>,
                       << << >>, <<MakeFile(1, {P(1, 1)}, {}), MakeFile(2, {P(4, 2)}, {})>> >>),
       !.script = <<{SetOp(2)}>>, !.files = 6,
       !.ingests = << {Ingestion(<<Table({2}, {}), Table({3}, {})>>, Nil, TRUE, b) : b \in BOOLEAN} >>]
\* A range deletion in two files, over a wide file and under a new one.
Layers ==
    [Quiet EXCEPT !.h = <<SetOp(1), SetOp(4), SetOp(4), RangeOp(1, 4), SetOp(2)>>,
       !.v = VersionOf(<<MakeFile(5, {P(2, 5)}, {})>>,
                       << <<MakeFile(3, {}, {R(1, 2, 4)}), MakeFile(4, {}, {R(2, 4, 4)}), MakeFile(2, {P(4, 3)}, {})>>,
                          <<MakeFile(1, {P(1, 1), P(4, 2)}, {})>> >>),
       !.script = <<{SetOp(3)}>>, !.snaps = 1, !.files = 5]
Excised ==
    [Quiet EXCEPT !.h = <<SetOp(1), SetOp(2), SetOp(3), SetOp(2), SetOp(3)>>,
       !.v = VersionOf(<<MakeFile(3, {P(2, 4)}, {}), MakeFile(4, {P(3, 5)}, {})>>, << << >>, <<MakeFile(1, {P(1, 1), P(2, 2), P(3, 3)}, {})>> >>),
       !.script = <<{SetOp(2)}>>, !.files = 7,
       !.ingests = << {Ingestion(<<Table({2}, {})>>, [start |-> 2, end |-> 3], FALSE, FALSE)} >>]
\* A manual compaction, and compactions that reads ask for.
Asked ==
    [Quiet EXCEPT !.h = <<SetOp(1), SetOp(3), SetOp(2), SetOp(1)>>,
       !.v = VersionOf(<<MakeFile(4, {P(1, 4)}, {})>>,
                       << <<MakeFile(3, {P(2, 3)}, {})>>, <<MakeFile(1, {P(1, 1)}, {}), MakeFile(2, {P(3, 2)}, {})>> >>),
       !.script = <<{DelOp(2)}>>, !.snaps = 1, !.reads = TRUE, !.requests = {[level |-> 1, start |-> 1, end |-> 2]}]
\* Files that share a user key, as older versions of the program left them.
SharedKeys ==
    [Quiet EXCEPT !.h = <<SetOp(1), SetOp(2), SetOp(3), SetOp(2)>>,
       !.v = LET made == VersionOf(<< >>, << << >>, <<MakeFile(1, {P(1, 1), P(2, 4)}, {}), MakeFile(2, {P(2, 2), P(3, 3)}, {})>> >>)
             IN  [made EXCEPT !.f = [n \in DOMAIN @ |-> [@[n] EXCEPT !.marked = TRUE]]],
       !.script = <<{DelOp(2)}, {SetOp(3)}>>, !.snaps = 1, !.splitKeys = TRUE]
\* Two writes of a key, and a snapshot.
Overwrite == [Quiet EXCEPT !.script = <<{SetOp(1)}, {SetOp(1)}>>, !.snaps = 1]
OneScenario == <<Overwrite>>
AllScenarios == <<Flushes, Hints, Fails, Gaps, Excised, Asked, SharedKeys, Layers>>
CONSTANT Scenarios
VARIABLES sc, opened, ingested,
          early     \* the reads that a merge of unpublished writes takes the key from
mcvars == <<vars, sc, opened, ingested, early>>

Init ==
    \E i \in DOMAIN Scenarios :
      LET s == Scenarios[i]
          pending == UNION {{[level |-> l, n |-> n] : n \in {m \in FilesAt(s.v, l) : File(s.v, m).rd # {}}} : l \in 0 .. LastLevel}
      IN  /\ sc = i /\ opened = 0 /\ ingested = 0 /\ early = {}
          /\ v = s.v /\ hist = s.h
          /\ base = BaseLevel(s.v, {})
          /\ mem = <<EmptyMem(Len(s.h) + 1)>>
          /\ vis = Len(s.h) + 1
          /\ snap = {} /\ run = {} /\ flush = NoFlush /\ lock = Unlocked
          /\ fn = Greatest({0} \cup DOMAIN s.v.f \cup DOMAIN s.v.l0.file) + 1
          /\ stats = [pending |-> pending, loading |-> FALSE, found |-> {}]
          /\ hints = {} /\ manual = Nil /\ ing = Nil

S == Scenarios[sc]
Written == Cardinality({i \in DOMAIN hist : i > Len(S.h) /\ hist[i].k # "ingest"})
NewFile == fn < Len(S.h) + S.files
Perform(op) == CASE op.k = "set" -> SetKey(op.u) [] op.k = "del" -> DeleteKey(op.u) [] op.k = "rdel" -> DeleteRange(op.a, op.b)
IngestOps(g) == [i \in DOMAIN g.tables |-> [k |-> "ingest", table |-> g.tables[i], span |-> IF i = 1 THEN g.span ELSE Nil]]
\* A flush, compaction or delete-only hint that takes up a write before its publication
\* knows of no snapshot that is yet to be opened below it: the key u read at s.
Unpublished(d) ==
    UNION {{<<p.u, s>> : s \in vis .. p.s} : p \in d.pts}
    \cup UNION {{<<u, s>> : u \in r.a .. r.b - 1, s \in vis .. r.s} : r \in d.rd}
Merged ==
    (IF flush = NoFlush /\ flush' # NoFlush THEN {mem[i].data : i \in 1 .. flush'.n} ELSE {})
    \cup {File(v, n) : n \in UNION {InputFiles(c) : c \in {d \in run' \ run : d.st = "running"}}}
    \cup {[pts |-> {}, rd |-> {[a |-> h.start, b |-> h.end, s |-> h.tombLa]}] : h \in {x \in hints : run' # run /\ x \notin hints'}}
TakenUp ==
    early' = {x \in early \cup {y \in UNION {Unpublished(d) : d \in Merged} : y[2] \notin snap} : x[2] \in snap' \/ x[2] >= vis'}
Next ==
    /\ UNCHANGED sc
    /\ \/ /\ UNCHANGED <<opened, ingested>>
          /\ \/ Written < Len(S.script) /\ \E op \in S.script[Written + 1] : Perform(op)
             \/ Publish
             \/ Len(mem) < MaxMem /\ Rotate
             \/ \E s \in snap : CloseSnapshot(s)
             \/ StatsBegin \/ StatsEnd
             \/ Schedule(IF S.reads THEN Sampled(v) ELSE {})
             \/ \E r \in S.requests : RequestManual(r.level, r.start, r.end)
             \/ \E c \in run : Start(c) \/ ApplyBegin(c) \/ Finish(c)
             \/ \E c \in run : (S.fails \/ c.cancel) /\ (Fail(c) \/ FailAtOnce(c))
             \/ \E c \in run : FailEnd(c)
             \/ \E c \in run, split \in {0} \cup Keys : NewFile /\ ApplyEnd(c, split)
             \/ FlushBegin \/ FlushApplyEnd
             \/ \E split \in {0} \cup Keys : NewFile /\ FlushApplyBegin(split)
             \/ IngestApplyBegin \/ IngestApplyEnd \/ IngestPublish
             \/ IngestFlushBegin \/ RunIngestFlush(TRUE)
       \/ opened < S.snaps /\ OpenSnapshot /\ opened' = opened + 1 /\ UNCHANGED ingested
       \/ /\ ingested < Len(S.ingests)
          /\ \E g \in S.ingests[ingested + 1] : IngestPrepare(g.tables, g.span, IngestOps(g), g.split, g.asFlushable)
          /\ ingested' = ingested + 1 /\ UNCHANGED opened
    /\ TakenUp
Spec == Init /\ [][Next]_mcvars

\* What a key should have, from the history of writes alone.
Excises(i, u) == hist[i].k = "ingest" /\ hist[i].span # Nil /\ hist[i].span.start <= u /\ u < hist[i].span.end
Sets(i, u) == LET op == hist[i] IN IF op.k = "ingest" THEN \E p \in op.table.pts : p.u = u ELSE op.k = "set" /\ op.u = u
Wrote(i, u) ==
    LET op == hist[i]
    IN  CASE op.k = "ingest" -> Sets(i, u) \/ Excises(i, u) \/ \E r \in op.table.rd : r.a <= u /\ u < r.b
          [] op.k = "rdel" -> op.a <= u /\ u < op.b
          [] OTHER -> op.u = u
Expected(u, snapshot) ==
    LET is == {i \in DOMAIN hist : i < snapshot /\ Wrote(i, u)}
    IN  IF is = {} THEN 0 ELSE IF Sets(Greatest(is), u) THEN Greatest(is) ELSE 0
\* An excise deletes "any existing keys" of its span (IngestAndExcise, ingest.go:1141):
\* once it is installed, for the snapshots before it too.
LostToExcise(u, s) == \E i \in DOMAIN hist : i >= s /\ Excises(i, u) /\ (ing = Nil \/ ing.st = "applied")
\* A Get at the visible sequence number or at an open snapshot finds the newest write of
\* the key below it, or nothing when that write is a deletion: whatever flushes,
\* compactions (zeroed sequence numbers, elided tombstones, delete-only hints), moves
\* and ingestions did in between (getIter over the version that logAndApply installed),
\* unless one of them took up a later write of the key before that was published.
ReadsSeeNewest ==
    \A u \in Keys, s \in snap \cup {vis} : <<u, s>> \notin early => Get(u, s) = Expected(u, s) \/ LostToExcise(u, s)
\* Without that exception: a snapshot is "a point-in-time view of the current DB state"
\* and "prevents deletion of sequence numbers referenced by the snapshot" (NewSnapshot).
SnapshotsAreStable == \A u \in Keys, s \in snap : Get(u, s) = Expected(u, s)
\* The files of a level below L0 do not overlap (CheckOrdering of the version that
\* logAndApply installs), although compactions and ingestions choose their output level
\* and keys from versions that are gone when they are done.
LevelsStayOrdered ==
    \A l \in 1 .. LastLevel : \A i \in 1 .. Len(v.lv[l]) - 1 :
       LET f == v.f[v.lv[l][i]] g == v.f[v.lv[l][i + 1]]
       IN  IF S.splitKeys THEN Before(f.la, g.sm) ELSE SSTableBefore(f.la, g.sm)
\* Compactions that may still be installed.
Active == {c \in run : c.st \notin {"failed", "done"}}
\* Two running compactions have no input file in common, and write to the same level
\* below L0 only where their keys do not meet (inputRangeAlreadyCompacting,
\* conflictsWithInProgress, and the cancelling of compactions by excises and splits).
RunningCompactionsDisjoint ==
    \A c, d \in Active : c # d =>
       /\ InputFiles(c) \cap InputFiles(d) = {}
       /\ c.out = d.out /\ c.out > 0 => Before(c.la, d.sm) \/ Before(d.la, c.sm)
Shape(s) == [lv |-> s.lv, ivs |-> [i \in DOMAIN s.ivs |-> [key |-> s.ivs[i].key, files |-> s.ivs[i].files, min |-> s.ivs[i].min, max |-> s.ivs[i].max]],
             splits |-> s.splits]
\* The sublevels and intervals that AddL0Files made incrementally are those that
\* NewL0Sublevels makes from scratch (what Apply asserts in builds with invariants).
SublevelsAsRebuilt ==
    Shape(v.l0) = Shape(NewL0Sublevels(BySeqNum({Bare(v.l0.file[n]) : n \in DOMAIN v.l0.file}), FlushSplitBytes))
=============================================================================
