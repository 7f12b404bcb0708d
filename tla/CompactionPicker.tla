-------------------------- MODULE CompactionPicker --------------------------
(***************************************************************************)
(* Choosing compactions (compaction_picker.go, with the key ranges of      *)
(* internal/manifest/version.go).  A version v has l0 (see L0Sublevels),   *)
(* lv (the levels from 1 on: file numbers in key order) and f (the records *)
(* of their files).  A file has its bounds as internal keys, sm and la,    *)
(* besides the fields of L0Sublevels.  A picked compaction pc has its kind *)
(* and inputs: the start level, the output level last, in a multilevel     *)
(* compaction one in between; each has its level and a set of files.  A    *)
(* pick is a set of outcomes: scores and estimates are left open.          *)
(***************************************************************************)
EXTENDS L0Sublevels
LOCAL INSTANCE SequencesExt
LOCAL INSTANCE FiniteSetsExt

NumLevels == 3            \* 7 in the code
LastLevel == NumLevels - 1
MinIntraL0Count == 2      \* 4 in the code
LevelMultiplier == 2      \* 10 by default
LBaseMaxBytes == 3        \* 64 MB by default
TargetFileSize == 1       \* 2 MB by default
ExpandedCompactionByteSizeLimit == 25 * TargetFileSize
MaxGrandparentOverlapBytes == 10 * TargetFileSize
MaxReadCompactionBytes == 10 * TargetFileSize
AllowedCompactionWidth == 35

File(v, n) == IF n \in DOMAIN v.l0.file THEN v.l0.file[n] ELSE v.f[n]
Level(v, l) == IF l = 0 THEN Ranked(DOMAIN v.l0.file, LAMBDA a, b : v.l0.file[a].idx < v.l0.file[b].idx)
               ELSE v.lv[l]
FilesAt(v, l) == ToSet(Level(v, l))
SizeSum(v, ns) == MapThenSumSet(LAMBDA n : File(v, n).size, ns)
LevelSize(v, l) == SizeSum(v, FilesAt(v, l))

\* InternalCompare of keys that may be Nil; the smallest and largest of some files.
NoKeys == [sm |-> Nil, la |-> Nil]
KeyRange(v, ns) ==
    LET fs == {File(v, n) : n \in ns}
    IN  IF ns = {} THEN NoKeys
        ELSE [sm |-> CHOOSE k \in {f.sm : f \in fs} : \A f \in fs : ~Before(f.sm, k),
              la |-> CHOOSE k \in {f.la : f \in fs} : \A f \in fs : ~Before(k, f.la)]

\* sstableKeyCompare(a, b) < 0: with equal user keys an exclusive sentinel is first.
SSTableBefore(a, b) == a.u < b.u \/ (a.u = b.u /\ IsExclusiveSentinel(a) /\ ~IsExclusiveSentinel(b))

\* FileMetadata.Overlaps, with the range start .. end (excl: end is not in it).
FileOverlaps(f, start, end, excl) ==
    /\ f.hi > start \/ (f.hi = start /\ ~f.excl)
    /\ f.lo < end \/ (f.lo = end /\ ~excl)
\* Version.Overlaps: in L0 the range grows with every file it meets.
RECURSIVE L0Overlaps(_, _, _, _, _)
L0Overlaps(v, ns, start, end, excl) ==
    LET f(n) == v.l0.file[n]
        now == {n \in DOMAIN v.l0.file : FileOverlaps(f(n), start, end, excl)}
        last == Greatest({end} \cup {f(n).hi : n \in now})
    IN  IF now = ns THEN ns
        ELSE L0Overlaps(v, now, Least({start} \cup {f(n).lo : n \in now}), last,
                        (last > end \/ excl) /\ \A n \in now : f(n).hi = last => f(n).excl)
\* overlaps: from the first file that ends at start or later to the last one that
\* begins at end or before.
LevelOverlaps(v, l, start, end, excl) ==
    LET fs == [i \in DOMAIN v.lv[l] |-> v.f[v.lv[l][i]]]
        seek(u) == Least({i \in DOMAIN fs : fs[i].hi >= u} \cup {Len(fs) + 1})
        past == Least({i \in seek(end) .. Len(fs) : excl \/ fs[i].hi # end} \cup {Len(fs) + 1})
        from == IF seek(start) <= Len(fs) /\ fs[seek(start)].hi = start /\ fs[seek(start)].excl
                THEN seek(start) + 1 ELSE seek(start)
        to == IF past > Len(fs) THEN Len(fs)
              ELSE IF fs[past].lo > end \/ (fs[past].lo = end /\ excl) THEN past - 1 ELSE past
    IN  {v.lv[l][i] : i \in from .. to}
Overlaps(v, l, start, end, excl) ==
    IF l = 0 THEN L0Overlaps(v, {}, start, end, excl) ELSE LevelOverlaps(v, l, start, end, excl)
OverlapsKeys(v, l, r) == Overlaps(v, l, r.sm.u, r.la.u, IsExclusiveSentinel(r.la))

-----------------------------------------------------------------------------
\* expandToAtomicUnit: no user key is split between what is taken and what is left.
\* Only the files at the two ends are looked at.
RECURSIVE CleanCutLeft(_, _, _)
CleanCutLeft(v, lv, i) ==
    IF i = 1 THEN 1
    ELSE LET prev == File(v, lv[i - 1])
         IN  IF prev.hi < File(v, lv[i]).lo \/ prev.excl THEN i ELSE CleanCutLeft(v, lv, i - 1)
RECURSIVE CleanCutRight(_, _, _)
CleanCutRight(v, lv, i) ==
    IF i = Len(lv) THEN i
    ELSE LET cur == File(v, lv[i])
         IN  IF cur.hi < File(v, lv[i + 1]).lo \/ cur.excl THEN i ELSE CleanCutRight(v, lv, i + 1)
ExpandToAtomicUnit(v, l, ns) ==
    LET lv == IF l = 0 THEN SelectSeq(Level(v, 0), LAMBDA n : n \in ns) ELSE v.lv[l]
        at == {i \in DOMAIN lv : lv[i] \in ns}
        first == Least(at)
        last == Greatest(at)
        from == IF l = 0 THEN first ELSE CleanCutLeft(v, lv, first)
        to == IF l = 0 THEN last ELSE CleanCutRight(v, lv, last)
    IN  IF ns = {} THEN [files |-> {}, compacting |-> FALSE]
        ELSE [files |-> {lv[i] : i \in from .. to},
              compacting |-> \E i \in (from .. first) \cup (last .. to) : IsCompacting(File(v, lv[i]))]

\* Lbase, where L0 compacts to: from the sizes, and from where the running
\* compactions of L0 (inProgress) go.
RECURSIVE BaseFrom(_, _)
BaseFrom(base, size) ==
    IF base > 1 /\ size > LBaseMaxBytes THEN BaseFrom(base - 1, size \div LevelMultiplier) ELSE base
RECURSIVE Shrunk(_, _)
Shrunk(size, n) == IF n = 0 THEN size ELSE Shrunk(size \div LevelMultiplier, n - 1)
BaseLevel(v, inProgress) ==
    LET full == {l \in 1 .. LastLevel : v.lv[l] # << >>}
        filling == {c.out : c \in {d \in inProgress : d.out \notin {0, -1} /\ d.inputs[1].level = 0}}
        first == Least(full \cup filling \cup {LastLevel})
        dbSize == MapThenSumSet(LAMBDA l : LevelSize(v, l), 0 .. LastLevel)
        bottom == dbSize - dbSize \div LevelMultiplier
    IN  IF full = {} THEN first ELSE BaseFrom(first, Shrunk(bottom, LastLevel - first))

DefaultOutputLevel(start, base) == Least({IF start = 0 THEN base ELSE start + 1, LastLevel})
NewPickedCompaction(kind, start, out, ns, lcf) ==
    [kind |-> kind, out |-> out, sm |-> Nil, la |-> Nil, lcf |-> lcf,
     inputs |-> <<[level |-> start, files |-> ns], [level |-> out, files |-> {}]>>]
InputFiles(pc) == UNION {i.files : i \in ToSet(pc.inputs)}
OutputFiles(pc) == Last(pc.inputs).files
CompactionSize(v, pc) == SizeSum(v, InputFiles(pc))

MaybeExpandBounds(pc, r) ==
    IF r = NoKeys THEN pc
    ELSE IF pc.sm = Nil THEN [pc EXCEPT !.sm = r.sm, !.la = r.la]
    ELSE [pc EXCEPT !.sm = IF Before(r.sm, @) THEN r.sm ELSE @,
                    !.la = IF Before(@, r.la) THEN r.la ELSE @]

-----------------------------------------------------------------------------
\* grow: more files of level i of the inputs, if that needs no more of the output level.
Grow(v, pc, i) ==
    LET out == OutputFiles(pc)
        o == Len(pc.inputs)
        grow0 == ExpandToAtomicUnit(v, pc.inputs[i].level, OverlapsKeys(v, pc.inputs[i].level, pc))
        grow1 == ExpandToAtomicUnit(v, pc.out, OverlapsKeys(v, pc.out, KeyRange(v, grow0.files \cup out)))
    IN  IF \/ out = {}
           \/ grow0.compacting
           \/ Cardinality(grow0.files) <= Cardinality(pc.inputs[i].files)
           \/ SizeSum(v, grow0.files) + SizeSum(v, out) >= ExpandedCompactionByteSizeLimit
        THEN pc
        ELSE IF grow1.compacting \/ Cardinality(grow1.files) # Cardinality(out) THEN pc
        ELSE MaybeExpandBounds([pc EXCEPT !.inputs[i].files = grow0.files, !.inputs[o].files = grow1.files],
                               KeyRange(v, grow0.files \cup grow1.files))

\* More files of L0 between the neighbours of the output files in Lbase.
ExtendL0(v, pc) ==
    LET fs == [i \in DOMAIN v.lv[pc.out] |-> v.f[v.lv[pc.out][i]]]
        out == OutputFiles(pc)
        mine == {i \in DOMAIN fs : fs[i].n \in out}
        before == IF out = {} THEN {i \in DOMAIN fs : fs[i].lo < pc.sm.u} ELSE {i \in DOMAIN fs : i < Least(mine)}
        after == IF out = {} THEN {i \in DOMAIN fs : fs[i].hi >= pc.la.u} ELSE {i \in DOMAIN fs : i > Greatest(mine)}
        lcf == ExtendL0ForBaseCompactionTo(v.l0, IF before = {} THEN Nil ELSE fs[Greatest(before)].la,
                                           IF after = {} THEN Nil ELSE fs[Least(after)].sm, pc.lcf)
        r == KeyRange(v, lcf.files \cup out)
    IN  IF \/ lcf.files = pc.lcf.files
           \/ SizeSum(v, lcf.files \cup out) >= ExpandedCompactionByteSizeLimit
        THEN pc
        ELSE [pc EXCEPT !.lcf = lcf, !.inputs[1].files = lcf.files, !.sm = r.sm, !.la = r.la]

\* setupInputs, with level i of the inputs as the start level.  The files found so
\* far stay in the compaction when it gives up.
SetupInputs(v, pc, i) ==
    LET o == Len(pc.inputs)
        level == pc.inputs[i].level
        start == ExpandToAtomicUnit(v, level, pc.inputs[i].files)
        started == MaybeExpandBounds([pc EXCEPT !.inputs[i].files = start.files], KeyRange(v, start.files))
        output == ExpandToAtomicUnit(v, pc.out, OverlapsKeys(v, pc.out, started))
        withOutput == [started EXCEPT !.inputs[o].files = output.files]
        bounded == IF level = pc.out THEN started
                   ELSE MaybeExpandBounds(withOutput, KeyRange(v, start.files \cup output.files))
    IN  IF start.compacting THEN [ok |-> FALSE, pc |-> [pc EXCEPT !.inputs[i].files = start.files]]
        ELSE IF level # pc.out /\ output.compacting THEN [ok |-> FALSE, pc |-> withOutput]
        ELSE [ok |-> TRUE, pc |-> IF pc.lcf # NoCandidate /\ level = 0 /\ pc.out # 0
                                  THEN ExtendL0(v, bounded) ELSE Grow(v, bounded, i)]

SetupMultiLevelCandidate(v, pc) ==
    SetupInputs(v, [pc EXCEPT !.out = @ + 1, !.inputs = Append(@, [level |-> pc.out + 1, files |-> {}])], 2)
\* WriteAmpHeuristic: the level is added if that is predicted to write no more.
MoreWriteAmp(v, a, b) ==
    LET total(pc) == CompactionSize(v, pc)
        higher(pc) == total(pc) - SizeSum(v, OutputFiles(pc))
    IN  total(a) * higher(b) > total(b) * higher(a)
MaybeAddLevel(v, pc, multi) ==
    LET added == SetupMultiLevelCandidate(v, pc)
    IN  IF ~multi \/ pc.out = LastLevel \/ CompactionSize(v, pc) > ExpandedCompactionByteSizeLimit THEN pc
        ELSE IF ~added.ok \/ MoreWriteAmp(v, added.pc, pc) THEN pc ELSE added.pc

-----------------------------------------------------------------------------
NeverCompacting(v, pc, inProgress) == FALSE     \* mutant
\* The fail-safe: a file is compacting already, or a running compaction writes to
\* the same keys of the same level.
InputRangeAlreadyCompacting(v, pc, inProgress) ==
    \/ \E n \in InputFiles(pc) : IsCompacting(File(v, n))
    \/ /\ pc.out # 0
       /\ \E c \in inProgress : c.out = pc.out /\ ~Before(c.la, pc.sm) /\ ~Before(pc.la, c.sm)
Free(v, inProgress, pcs) == {pc \in pcs : ~InputRangeAlreadyCompacting(v, pc, inProgress)}

\* pickL0: a compaction to Lbase, else within L0.  What setupInputs says of the first
\* is not looked at.
PickL0(v, base, unflushed, multi) ==
    LET picked == PickBaseCompaction(v.l0, 1, [i \in DOMAIN v.lv[base] |-> v.f[v.lv[base][i]]])
        toBase(lcf) == MaybeAddLevel(v, SetupInputs(v, NewPickedCompaction("default", 0, base, lcf.files, lcf), 1).pc, multi)
        within(lcf) == SetupInputs(v, NewPickedCompaction("default", 0, 0, lcf.files, lcf), 1)
        intra == {within(lcf) : lcf \in PickIntraL0Compaction(v.l0, unflushed, MinIntraL0Count) \ {NoCandidate}}
    IN  {toBase(lcf) : lcf \in picked \ {NoCandidate}} \cup
        (IF NoCandidate \notin picked THEN {}
         ELSE {r.pc : r \in {x \in intra : x.ok /\ Cardinality(x.pc.inputs[1].files) > 1}})

\* pickCompactionSeedFile: a file that, with what it overlaps, is not compacting.
SeedFiles(v, level, out) ==
    LET meets(f, g) == ~SSTableBefore(g.la, f.sm) /\ ~SSTableBefore(f.la, g.sm)
    IN  {n \in FilesAt(v, level) :
           /\ ~IsCompacting(v.f[n])
           /\ \A m \in FilesAt(v, out) : meets(v.f[n], v.f[m]) => ~IsCompacting(v.f[m])}
PickAutoLPositive(v, level, base, multi) ==
    LET out == DefaultOutputLevel(level, base)
        tried == {SetupInputs(v, NewPickedCompaction("default", level, out, {n}, NoCandidate), 1) :
                    n \in SeedFiles(v, level, out)}
    IN  {MaybeAddLevel(v, r.pc, multi) : r \in {x \in tried : x.ok}}

\* A compaction of a file's atomic unit within its level.
InPlace(v, kind, l, n) ==
    LET unit == IF l = 0 THEN [files |-> {n}, compacting |-> FALSE] ELSE ExpandToAtomicUnit(v, l, {n})
        r == KeyRange(v, unit.files)
    IN  IF unit.compacting THEN {}
        ELSE {[NewPickedCompaction(kind, l, l, unit.files, NoCandidate) EXCEPT !.sm = r.sm, !.la = r.la]}
\* The oldest of the files with much to elide, when no snapshot needs what it has.
PickElisionOnlyCompaction(v, earliestSnapshot) ==
    LET eligible == {n \in FilesAt(v, LastLevel) : ~IsCompacting(v.f[n]) /\ v.f[n].dels > 0}
        oldest == {n \in eligible : \A m \in eligible : v.f[n].seq <= v.f[m].seq}
    IN  UNION {InPlace(v, "elision", LastLevel, n) : n \in {m \in oldest : v.f[m].seq < earliestSnapshot}}
\* From the last level up: the oldest file that is marked.
RECURSIVE PickRewriteFrom(_, _, _)
PickRewriteFrom(v, inProgress, l) ==
    LET marked == {n \in FilesAt(v, l) : File(v, n).marked}
        oldest == {n \in marked : \A m \in marked : File(v, n).seq <= File(v, m).seq}
        here == Free(v, inProgress, UNION {InPlace(v, "rewrite", l, n) : n \in {m \in oldest : ~IsCompacting(File(v, m))}})
    IN  IF here # {} THEN here ELSE IF l = 0 THEN {} ELSE PickRewriteFrom(v, inProgress, l - 1)
PickRewriteCompaction(v, inProgress) == PickRewriteFrom(v, inProgress, LastLevel)

\* rc: a file that many reads looked at in vain, with its level and key range then.
PickReadTriggeredCompaction(v, rc, base, inProgress) ==
    LET over == Overlaps(v, rc.level, rc.start, rc.end, FALSE)
        r == SetupInputs(v, NewPickedCompaction("read", rc.level, DefaultOutputLevel(rc.level, base), over, NoCandidate), 1)
        wide == SizeSum(v, OverlapsKeys(v, r.pc.out, r.pc))
    IN  IF rc.n \notin over THEN {}
        ELSE {pc \in {r.pc} : /\ r.ok
                              /\ ~InputRangeAlreadyCompacting(v, pc, inProgress)
                              /\ wide <= MaxReadCompactionBytes
                              /\ wide <= SizeSum(v, over) * AllowedCompactionWidth}

\* pickAuto: any level may have the best score, or none a score that is high enough.
PickAuto(v, base, inProgress, env) ==
    LET scored == PickL0(v, base, env.unflushed, FALSE)
                  \cup UNION {PickAutoLPositive(v, l, base, TRUE) : l \in base .. LastLevel - 1}
        elision == PickElisionOnlyCompaction(v, env.earliestSnapshot)
        readTriggered == UNION {PickReadTriggeredCompaction(v, rc, base, inProgress) : rc \in env.reads}
    IN  Free(v, inProgress, scored \cup elision) \cup readTriggered \cup PickRewriteCompaction(v, inProgress)

\* A manual compaction waits for running compactions that meet its keys.
UserKeysOverlap(a, b, c, d) == a <= d /\ c <= b
ConflictsWithInProgress(v, manual, out, inProgress) ==
    \E c \in inProgress :
       \/ c.out \in {manual.level, out} /\ UserKeysOverlap(manual.start, manual.end, c.sm.u, c.la.u)
       \/ \E i \in DOMAIN c.inputs :
            LET in == c.inputs[i]
            IN  /\ in.files # {}
                /\ in.level \in {manual.level, out}
                /\ UserKeysOverlap(manual.start, manual.end, in.first, in.last)
PickManualCompaction(v, manual, base, inProgress) ==
    LET out == IF manual.level = 0 THEN base ELSE manual.level + 1
        ns == Overlaps(v, manual.level, manual.start, manual.end, FALSE)
        r == SetupInputs(v, NewPickedCompaction("default", manual.level, DefaultOutputLevel(manual.level, base), ns, NoCandidate), 1)
        pc == MaybeAddLevel(v, r.pc, manual.level > 0)
        Drop == [pc |-> Nil, retryLater |-> FALSE]
        Retry == [pc |-> Nil, retryLater |-> TRUE]
    IN  IF manual.level > 0 /\ manual.level < base THEN Drop
        ELSE IF ConflictsWithInProgress(v, manual, out, inProgress) THEN Retry
        ELSE IF ns = {} THEN Drop
        ELSE IF ~r.ok \/ InputRangeAlreadyCompacting(v, pc, inProgress) THEN Retry
        ELSE [pc |-> pc, retryLater |-> FALSE]
=============================================================================
