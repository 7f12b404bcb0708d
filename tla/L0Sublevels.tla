---------------------------- MODULE L0Sublevels ----------------------------
(***************************************************************************)
(* The sublevels of L0 and the compactions picked from them                *)
(* (internal/manifest/l0_sublevels.go).  A file is a record: its number n, *)
(* its user key bounds lo and hi (excl when the largest key is an          *)
(* exclusive sentinel), its largest and smallest sequence numbers seq and  *)
(* low, its size; comp says whether it is compacting ("no", "base",        *)
(* "intra").  An intervalKey is a number: 2u, and 2u + 1 for the immediate *)
(* successor of u.  Indexes count from 1, sublevels from 0.  A structure s *)
(* has file (number to record with the interval range min .. max, sub and  *)
(* idx), ivs (the intervals) and lv (sublevel + 1 to file numbers).        *)
(***************************************************************************)
EXTENDS InternalKeys
LOCAL INSTANCE SequencesExt
LOCAL INSTANCE FiniteSetsExt

StartKey(f) == 2 * f.lo
EndKey(f) == IF f.excl THEN 2 * f.hi ELSE 2 * f.hi + 1
UserKeyOf(ik) == ik \div 2
Ascending(S) == Ranked(S, LAMBDA a, b : a < b)
PositionOf(x, seq) == CHOOSE i \in DOMAIN seq : seq[i] = x
Least(S) == CHOOSE x \in S : \A y \in S : x <= y
Greatest(S) == CHOOSE x \in S : \A y \in S : y <= x
IsCompacting(f) == f.comp # "no"

\* sort.Search over the intervals: the first one for which P holds (or the length + 1).
FirstInterval(ivs, P(_)) == Least({i \in DOMAIN ivs : P(ivs[i])} \cup {Len(ivs) + 1})

NewInterval(k, i) == [key |-> k, min |-> i, max |-> i, files |-> << >>, bytes |-> 0,
                      count |-> 0, base |-> FALSE, rangeBase |-> FALSE]

\* sortAndSweep: the boundaries in order without duplicates, and the range of
\* intervals of each file.
SortAndSweep(files) == Ascending({StartKey(f) : f \in files} \cup {EndKey(f) : f \in files})
Indexed(f, keys) == f @@ [min |-> PositionOf(StartKey(f), keys), max |-> PositionOf(EndKey(f), keys) - 1,
                          sub |-> 0, idx |-> 0]

InvalidOpt == [invalid |-> TRUE]

\* addFileToSublevels, for the file n that s.file knows: it goes on top of the
\* files of its intervals; with check it must be newer than each of them.
AddFileToSublevels(s, n, check) ==
    LET f == s.file[n]
        on == {i \in f.min .. f.max : s.ivs[i].files # << >>}
        top(i) == s.file[Last(s.ivs[i].files)]
        sub == Greatest({0} \cup {top(i).sub + 1 : i \in on})
        part == f.size \div (f.max - f.min + 1)
    IN  IF check /\ \E i \in on : top(i).seq > f.seq THEN InvalidOpt
        ELSE [s EXCEPT
               !.file[n].sub = sub,
               !.ivs = [i \in DOMAIN @ |->
                          IF i \notin f.min .. f.max THEN @[i]
                          ELSE [@[i] EXCEPT !.files = Append(@, n), !.bytes = @ + part,
                                            !.min = Least({@, f.min}), !.max = Greatest({@, f.max})]],
               !.lv = IF sub = Len(@) THEN Append(@, <<n>>) ELSE [@ EXCEPT ![sub + 1] = Append(@, n)]]

RECURSIVE AddAll(_, _, _)
AddAll(s, ns, check) ==
    IF ns = << >> \/ s = InvalidOpt THEN s
    ELSE AddAll(AddFileToSublevels(s, Head(ns), check), Tail(ns), check)

SortSublevels(s) ==
    [s EXCEPT !.lv = [l \in DOMAIN @ |->
       Ranked(ToSet(@[l]), LAMBDA a, b : s.file[a].min < s.file[b].min)]]

\* Keys to split flushes at: where more than the limit (per sublevel) has gathered.
RECURSIVE FlushSplitsFrom(_, _, _, _, _)
FlushSplitsFrom(ivs, limit, i, bytes, keys) ==
    IF i > Len(ivs) THEN keys
    ELSE LET u == UserKeyOf(ivs[i].key)
             split == limit > 0 /\ bytes > limit /\ (keys = << >> \/ Last(keys) # u)
         IN  FlushSplitsFrom(ivs, limit, i + 1, (IF split THEN 0 ELSE bytes) + ivs[i].bytes,
                             IF split THEN Append(keys, u) ELSE keys)
CalculateFlushSplitKeys(s, limit) ==
    [s EXCEPT !.splits = FlushSplitsFrom(s.ivs, limit * Len(s.lv), 1, 0, << >>)]

\* files: the files of L0, oldest first (SortBySeqNum).
NewL0Sublevels(files, limit) ==
    LET keys == SortAndSweep(ToSet(files))
        numbered == [i \in DOMAIN files |-> [Indexed(files[i], keys) EXCEPT !.idx = i]]
        s == [file |-> [n \in {f.n : f \in ToSet(files)} |->
                          CHOOSE f \in ToSet(numbered) : f.n = n],
              ivs |-> [i \in DOMAIN keys |-> NewInterval(keys[i], i)], lv |-> << >>, splits |-> << >>]
    IN  CalculateFlushSplitKeys(
          SortSublevels(AddAll(s, [i \in DOMAIN files |-> files[i].n], FALSE)), limit)

-----------------------------------------------------------------------------
\* AddL0Files: files on top of the existing ones, without rebuilding the rest.

\* mergeIntervals: an interval that is new inherits the files of the old one on its left.
MergeIntervals(old, added) ==
    LET keys == Ascending({old[i].key : i \in DOMAIN old} \cup added)
        left(k) == {i \in DOMAIN old : old[i].key <= k}
        at(j) == LET l == left(keys[j])
                     o == old[Greatest(l)]
                 IN  IF l = {} THEN NewInterval(keys[j], j)
                     ELSE IF o.key = keys[j] THEN o
                     ELSE [o EXCEPT !.key = keys[j], !.min = j, !.max = j, !.bytes = 0]
    IN  [ivs |-> [j \in DOMAIN keys |-> at(j)],
         oldToNew |-> [i \in DOMAIN old |-> PositionOf(old[i].key, keys)]]

\* files{Min,Max}IntervalIndex of the intervals kept, for the shifted indexes.
ShiftKept(ivs, map) ==
    LET shifted(j) ==
          LET o == ivs[j]
          IN  [o EXCEPT !.min = map[@],
                        !.max = IF @ < Len(map) /\ o.files # << >> THEN map[@ + 1] - 1 ELSE map[@]]
    IN  [j \in DOMAIN ivs |-> IF j \in ToSet(map) THEN shifted(j) ELSE ivs[j]]
NotStretched(ivs, map) == ivs     \* mutant
\* The intervals added between two kept ones reach as far as the left one's files.
StretchAdded(ivs, map) ==
    LET kept == ToSet(map) \cup {1}
        last(j) == Greatest({k \in kept : k < j})
        between(j) == j \notin kept /\ \E k \in kept : k > j
    IN  [j \in DOMAIN ivs |->
           IF between(j) /\ ivs[last(j)].max # last(j)
           THEN [ivs[j] EXCEPT !.min = ivs[last(j)].min, !.max = ivs[last(j)].max]
           ELSE ivs[j]]

\* The files kept: their interval ranges, and their bytes spread over more intervals.
ShiftFile(f, map) == [f EXCEPT !.min = map[@], !.max = map[f.max + 1] - 1]
RespreadBytes(s, ivs, map) ==
    LET width(f) == f.max - f.min + 1
        grown == {n \in DOMAIN s.file : width(ShiftFile(s.file[n], map)) # width(s.file[n])}
        delta(j) == LET over == {n \in grown : j \in ShiftFile(s.file[n], map).min .. ShiftFile(s.file[n], map).max}
                        more(n) == s.file[n].size \div width(ShiftFile(s.file[n], map))
                        less(n) == IF j \in ToSet(map) THEN s.file[n].size \div width(s.file[n]) ELSE 0
                    IN  MapThenSumSet(LAMBDA n : more(n) - less(n), over)
    IN  [j \in DOMAIN ivs |-> [ivs[j] EXCEPT !.bytes = @ + delta(j)]]

\* files: those added, oldest first.  The result is InvalidOpt when one of them is
\* older than a file it would lie on.
AddL0Files(s, files, limit) ==
    LET merged == MergeIntervals(s.ivs, {StartKey(f) : f \in ToSet(files)} \cup {EndKey(f) : f \in ToSet(files)})
        map == merged.oldToNew
        keys == [j \in DOMAIN merged.ivs |-> merged.ivs[j].key]
        ivs == RespreadBytes(s, StretchAdded(ShiftKept(merged.ivs, map), map), map)
        numbered == [i \in DOMAIN files |->
                       [Indexed(files[i], keys) EXCEPT !.idx = Cardinality(DOMAIN s.file) + i]]
        grown == [s EXCEPT !.ivs = ivs,
                           !.file = [n \in DOMAIN @ |-> ShiftFile(@[n], map)] @@
                                    [n \in {f.n : f \in ToSet(files)} |-> CHOOSE f \in ToSet(numbered) : f.n = n]]
        added == AddAll(grown, [i \in DOMAIN files |-> files[i].n], TRUE)
    IN  IF added = InvalidOpt THEN InvalidOpt
        ELSE CalculateFlushSplitKeys(SortSublevels(added), limit)

-----------------------------------------------------------------------------
\* Which intervals are being compacted.  inProgress: the running compactions with
\* files of L0, each with its smallest and largest keys lo, hi, excl and intra.
MarkBase(ivs, marked) ==
    LET based == [i \in DOMAIN ivs |-> [ivs[i] EXCEPT !.base = @ \/ i \in marked]]
    IN  [i \in DOMAIN ivs |-> [based[i] EXCEPT
           !.rangeBase = @ \/ \E j \in DOMAIN ivs : based[j].base /\ i \in based[j].min .. based[j].max]]
InitCompactingFileInfo(s, inProgress) ==
    LET over(i) == {n \in DOMAIN s.file : IsCompacting(s.file[n]) /\ i \in s.file[n].min .. s.file[n].max}
        cleared == [i \in DOMAIN s.ivs |-> [s.ivs[i] EXCEPT
                      !.count = Cardinality(over(i)), !.rangeBase = FALSE,
                      !.base = \E n \in over(i) : s.file[n].comp = "base"]]
        \* Files added since may lie inside a running compaction.
        inside(c) == FirstInterval(s.ivs, LAMBDA iv : iv.key >= StartKey(c)) ..
                     FirstInterval(s.ivs, LAMBDA iv : iv.key >= EndKey(c)) - 1
    IN  [s EXCEPT !.ivs = MarkBase(cleared, UNION {inside(c) : c \in {d \in inProgress : ~d.intra}})]

\* The files ns have been marked as compacting (to Lbase when isBase).
UpdateStateForStartedCompaction(s, ns, isBase) ==
    LET counted == [i \in DOMAIN s.ivs |-> [s.ivs[i] EXCEPT
                      !.count = @ + Cardinality({n \in ns : i \in s.file[n].min .. s.file[n].max})]]
        from == Least({s.file[n].min : n \in ns})
        to == Greatest({s.file[n].max : n \in ns})
        based == [i \in DOMAIN counted |-> [counted[i] EXCEPT !.base = @ \/ i \in from .. to]]
    IN  [s EXCEPT !.ivs =
           IF ~isBase THEN counted
           ELSE [i \in DOMAIN based |-> [based[i] EXCEPT
                   !.rangeBase = @ \/ \E j \in from .. to : i \in based[j].min .. based[j].max]]]

Depth(iv) == Len(iv.files) - iv.count
MaxDepthAfterOngoingCompactions(s) == Greatest({0} \cup {Depth(s.ivs[i]) : i \in DOMAIN s.ivs})
ReadAmplification(s) == Greatest({0} \cup {Len(s.ivs[i].files) : i \in DOMAIN s.ivs})

\* The merged bounds of the files that overlap smallest .. largest.
RECURSIVE InUseFrom(_, _, _, _, _)
InUseFrom(s, i, end, ranges, open) ==
    IF i >= end THEN ranges
    ELSE IF s.ivs[i].files = << >> THEN InUseFrom(s, i + 1, end, ranges, FALSE)
    ELSE LET to == s.ivs[i].max
             started == IF open THEN ranges ELSE Append(ranges, [start |-> UserKeyOf(s.ivs[i].key), end |-> 0])
             ended == [started EXCEPT ![Len(started)].end = UserKeyOf(s.ivs[to + 1].key)]
         IN  InUseFrom(s, IF to # i THEN to ELSE i + 1, end, ended, TRUE)
InUseKeyRanges(s, smallest, largest) ==
    LET start == FirstInterval(s.ivs, LAMBDA iv : iv.key > 2 * smallest)
        end == FirstInterval(s.ivs, LAMBDA iv : iv.key > 2 * largest + 1)
    IN  InUseFrom(s, IF start > 1 THEN start - 1 ELSE start, end, << >>, FALSE)

-----------------------------------------------------------------------------
\* A candidate c: its files, the range of intervals they span, the sublevels between
\* which they were stacked on the seed interval, and how many of those there are.

Candidate(f, lowest, highest, intra, unflushed) ==
    [files |-> {}, min |-> f.min, max |-> f.max, reduction |-> 0, minLevel |-> lowest,
     maxLevel |-> highest, bytes |-> 0, intra |-> intra, unflushed |-> unflushed]
NoCandidate == [Candidate([min |-> 0, max |-> 0], 0, 0, FALSE, 0) EXCEPT !.reduction = -1]
AddFile(c, f) ==
    IF f.n \in c.files THEN c
    ELSE [c EXCEPT !.files = @ \cup {f.n}, !.bytes = @ + f.size,
                   !.min = Least({@, f.min}), !.max = Greatest({@, f.max})]

\* The files of a sublevel that overlap the candidate, in key order; the range grows
\* as they are added.  NoCandidate: one of them is compacting.
RECURSIVE ExtendOver(_, _, _)
ExtendOver(s, files, c) ==
    IF files = << >> THEN c
    ELSE LET f == s.file[Head(files)]
         IN  IF f.min > c.max THEN c
             ELSE IF IsCompacting(f) THEN NoCandidate
             ELSE ExtendOver(s, Tail(files), IF f.seq >= c.unflushed THEN c ELSE AddFile(c, f))
ExtendFiles(s, sl, c) ==
    ExtendOver(s, SelectSeq(s.lv[sl + 1], LAMBDA n : s.file[n].max >= c.min), c)
RECURSIVE ExtendThrough(_, _, _)
ExtendThrough(s, sls, c) ==
    IF sls = << >> \/ c = NoCandidate THEN c ELSE ExtendThrough(s, Tail(sls), ExtendFiles(s, Head(sls), c))

\* Sizes at which stacking one more file stops (100 MB and 500 MB in the code).
SoftBytes == 10
HardBytes == 50
GrowsTooFast(c, last, minDepth) ==
    /\ last.reduction >= minDepth
    /\ c.bytes > SoftBytes
    /\ 2 * c.bytes > 3 * last.bytes \/ c.bytes > HardBytes

\* Stack the files of the seed interval one by one; each needs every file that
\* overlaps in the sublevels below it (a base compaction) or above (intra-L0).
Upward(from, to) == [i \in 1 .. (IF to < from THEN 0 ELSE to - from + 1) |-> from + i - 1]
Downward(from, to) == Reverse(Upward(to, from))
RECURSIVE StackFiles(_, _, _, _, _)
StackFiles(s, stack, c, last, minDepth) ==
    IF stack = << >> \/ (c.intra /\ IsCompacting(s.file[Head(stack)])) THEN last
    ELSE LET f == s.file[Head(stack)]
             taken == AddFile([c EXCEPT !.reduction = @ + 1,
                                        !.maxLevel = IF c.intra THEN @ ELSE f.sub,
                                        !.minLevel = IF c.intra THEN f.sub ELSE @], f)
             next == ExtendThrough(s, IF c.intra THEN Upward(f.sub + 1, Len(s.lv) - 1)
                                      ELSE Downward(f.sub - 1, 0), taken)
         IN  IF next = NoCandidate \/ (last # NoCandidate /\ GrowsTooFast(next, last, minDepth)) THEN last
             ELSE StackFiles(s, Tail(stack), next, next, minDepth)
Unbounded == 9999
BaseCompactionUsingSeed(s, f, iv, minDepth) ==
    LET c == StackFiles(s, iv.files, AddFile(Candidate(f, 0, 0, FALSE, Unbounded), f), NoCandidate, minDepth)
    IN  IF c.reduction >= minDepth THEN c ELSE NoCandidate

\* The best-effort extension of a candidate to the rectangle lo .. hi: what cannot be
\* taken from a sublevel narrows the range for the next.
Runs(s, files) ==
    {r \in {<<a, b>> : a, b \in DOMAIN files} :
       /\ r[1] <= r[2]
       /\ \A i \in r[1] .. r[2] : ~IsCompacting(s.file[files[i]])
       /\ r[1] = 1 \/ IsCompacting(s.file[files[r[1] - 1]])
       /\ r[2] = Len(files) \/ IsCompacting(s.file[files[r[2] + 1]])}
\* The first run with files already picked, or else the longest.
ChosenRun(runs, files, c) ==
    LET picked(r) == \E i \in r[1] .. r[2] : files[i] \in c.files
        better(r, t) == IF picked(r) # picked(t) THEN picked(r)
                        ELSE IF picked(r) \/ r[2] - r[1] = t[2] - t[1] THEN r[1] < t[1]
                        ELSE r[2] - r[1] > t[2] - t[1]
    IN  CHOOSE r \in runs : \A t \in runs \ {r} : better(r, t)
RECURSIVE RectangleFrom(_, _, _, _, _)
RectangleFrom(s, sls, lo, hi, c) ==
    IF sls = << >> THEN c
    ELSE LET lv == s.lv[Head(sls) + 1]
             touching == SelectSeq(lv, LAMBDA n : s.file[n].max >= lo /\ s.file[n].min <= hi)
             files == SelectSeq(touching, LAMBDA n : s.file[n].min >= lo /\ s.file[n].max <= hi)
             low == Greatest({lo} \cup {s.file[n].max + 1 : n \in {m \in ToSet(touching) : s.file[m].min < lo}})
             high == Least({hi} \cup {s.file[n].min - 1 : n \in {m \in ToSet(touching) : s.file[m].max > hi}})
             runs == Runs(s, files)
             run == ChosenRun(runs, files, c)
             taken == {files[i] : i \in run[1] .. run[2]} \ (IF c.intra THEN {n \in DOMAIN s.file : s.file[n].seq >= c.unflushed} ELSE {})
         IN  IF low > high THEN c
             ELSE IF files = << >> THEN RectangleFrom(s, Tail(sls), low, high, c)
             ELSE IF runs = {} THEN c
             ELSE RectangleFrom(s, Tail(sls),
                    IF run[1] > 1 THEN s.file[files[run[1] - 1]].max + 1 ELSE low,
                    IF run[2] < Len(files) THEN s.file[files[run[2] + 1]].min - 1 ELSE high,
                    FoldSet(LAMBDA n, d : AddFile(d, s.file[n]), c, taken))
ExtendCandidateToRectangle(s, lo, hi, c, isBase) ==
    RectangleFrom(s, IF isBase THEN Upward(0, c.maxLevel) ELSE Downward(Len(s.lv) - 1, c.minLevel),
                  Least({lo, c.min}), Greatest({hi, c.max}), c)

\* smallest and largest: the keys of Lbase the extension may not touch, or Nil.
ExtendL0ForBaseCompactionTo(s, smallest, largest, c) ==
    LET first == IF smallest = Nil THEN 1
                 ELSE IF smallest.s = SeqNumMax /\ smallest.k = RangeDelete
                 THEN FirstInterval(s.ivs, LAMBDA iv : smallest.u <= UserKeyOf(iv.key))
                 ELSE FirstInterval(s.ivs, LAMBDA iv : smallest.u < UserKeyOf(iv.key))
        beyond == FirstInterval(s.ivs, LAMBDA iv : largest.u <= UserKeyOf(iv.key))
        last == IF largest = Nil THEN Len(s.ivs)
                ELSE IF beyond <= Len(s.ivs) THEN beyond - 2 ELSE beyond - 1
    IN  IF last < first THEN c ELSE ExtendCandidateToRectangle(s, first, last, c, TRUE)

IntraL0CompactionUsingSeed(s, f, iv, unflushed, minDepth) ==
    LET stack == Reverse(SubSeq(iv.files, 1, PositionOf(f.n, iv.files)))
        c == StackFiles(s, stack, AddFile(Candidate(f, 0, Len(s.lv) - 1, TRUE, unflushed), f), NoCandidate, minDepth)
    IN  IF c.reduction >= minDepth THEN ExtendCandidateToRectangle(s, c.min, c.max, c, FALSE) ELSE NoCandidate

-----------------------------------------------------------------------------
\* The pickers try the intervals from the best score down (the order of equals is
\* left open: a pick is a set of outcomes), skipping those that a seed has covered.

BestOf(left, score) == {i \in left : \A j \in left : score[j] <= score[i]}
BasePickable(s, minDepth) == {i \in DOMAIN s.ivs : ~s.ivs[i].base /\ Depth(s.ivs[i]) >= minDepth}
\* Does a file of Lbase that overlaps the candidate compact?  base: Lbase in key order.
BaseCompacting(s, c, base) ==
    LET bound == s.ivs[c.max + 1].key
        from == SelectSeq(base, LAMBDA m : m.hi >= UserKeyOf(s.ivs[c.min].key))
    IN  \E i \in DOMAIN from : IsCompacting(from[i]) /\ StartKey(from[i]) < bound
RECURSIVE PickBaseFrom(_, _, _, _, _, _)
PickBaseFrom(s, left, score, covered, minDepth, base) ==
    IF left \ covered = {} THEN {NoCandidate}
    ELSE UNION {
      LET f == s.file[s.ivs[i].files[1]]
          now == covered \cup (f.min .. f.max)
          c == BaseCompactionUsingSeed(s, f, s.ivs[i], minDepth)
          next == PickBaseFrom(s, left, score, now, minDepth, base)
      IN  IF IsCompacting(f) THEN IF f.comp = "intra" THEN next ELSE {NoCandidate}
          ELSE IF c = NoCandidate \/ BaseCompacting(s, c, base) THEN next ELSE {c}
      : i \in BestOf(left \ covered, score)}
PickBaseCompaction(s, minDepth, base) ==
    PickBaseFrom(s, BasePickable(s, minDepth),
                 [i \in DOMAIN s.ivs |-> Depth(s.ivs[i]) + IF s.ivs[i].rangeBase THEN 0 ELSE Len(s.lv)],
                 {}, minDepth, base)

\* The seed of an interval: its newest file that is older than the unflushed memtables.
RECURSIVE SeedFrom(_, _, _, _, _)
SeedFrom(s, iv, i, reduction, unflushed) ==
    LET f == s.file[iv.files[i]]
    IN  IF IsCompacting(f) \/ f.seq < unflushed \/ reduction = 1 \/ i = 1
        THEN [f |-> f, i |-> i, reduction |-> IF ~IsCompacting(f) /\ f.seq >= unflushed THEN reduction - 1 ELSE reduction]
        ELSE SeedFrom(s, iv, i - 1, reduction - 1, unflushed)
RECURSIVE PickIntraFrom(_, _, _, _, _)
PickIntraFrom(s, left, covered, unflushed, minDepth) ==
    LET score == [i \in DOMAIN s.ivs |-> Depth(s.ivs[i])]
    IN  IF left \ covered = {} THEN {NoCandidate}
        ELSE UNION {
          LET iv == s.ivs[i]
              seed == SeedFrom(s, iv, Len(iv.files), Depth(iv), unflushed)
              seen == {s.file[iv.files[j]] : j \in seed.i .. Len(iv.files)} \
                      (IF IsCompacting(seed.f) THEN {seed.f} ELSE {})
              now == covered \cup {i} \cup UNION {f.min .. f.max : f \in seen}
              c == IntraL0CompactionUsingSeed(s, seed.f, iv, unflushed, minDepth)
              next == PickIntraFrom(s, left, now, unflushed, minDepth)
          IN  IF seed.reduction < minDepth \/ IsCompacting(seed.f) \/ c = NoCandidate THEN next ELSE {c}
          : i \in BestOf(left \ covered, score)}
PickIntraL0Compaction(s, unflushed, minDepth) ==
    PickIntraFrom(s, {i \in DOMAIN s.ivs : Depth(s.ivs[i]) >= minDepth}, {}, unflushed, minDepth)
=============================================================================
