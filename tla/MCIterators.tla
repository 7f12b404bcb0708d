----------------------------- MODULE MCIterators -----------------------------
(***************************************************************************)
(* Every iterator over internal keys, driven by every sequence of calls    *)
(* that its contract allows and compared with OrderedCursor, the contract. *)
(* kind is the implementation, it its state, all the keys it must show.    *)
(***************************************************************************)
EXTENDS InternalKeys, TLC
MI == INSTANCE MergingIter
LV == INSTANCE LevelIter
TI == INSTANCE TableIter
BI == INSTANCE BlockIter
SK == INSTANCE Skiplist
BT == INSTANCE Batch
RD == INSTANCE KeyspanIters WITH NewerKey <- BT!NewerSeqNum, Transform <- BT!Same, SameState <- BT!Equal, PrefixOf <- BT!Same
CI == INSTANCE CombinedIter WITH Snapshot <- 100
LOCAL SX == INSTANCE SequencesExt

\* What is checked: the answer of an iterator of a kind to a call.
CONSTANTS PointsCall(_, _, _), SpansCall(_, _, _), CombinedCall(_, _, _)
VARIABLES kind, it, op, all, lower, upper
vars == <<kind, it, op, all, lower, upper>>

NoLower == LV!NoLower
NoUpper == LV!NoUpper
Elements(f) == {f[x] : x \in DOMAIN f}
Keys(us, s) == {MakeInternalKey(u, s, Set) : u \in us}

-----------------------------------------------------------------------------
\* A memtable over two levels of at most two files each, with range deletions.

\* A level of at most two files that meet at the user key `at`.
Truncated(dels, lo, hi) ==
    LET within == SelectSeq(dels, LAMBDA d : d.start < hi /\ lo < d.end)
    IN  [i \in 1 .. Len(within) |->
            Span(IF within[i].start < lo THEN lo ELSE within[i].start,
                 IF within[i].end > hi THEN hi ELSE within[i].end, within[i].keys)]
Files(points, dels, at) ==
    LET part(lo, hi) == <<{p \in points : lo <= p.u /\ p.u < hi}, Truncated(dels, lo, hi)>>
        parts == SelectSeq(<<part(0, at), part(at, 99)>>, LAMBDA x : x # <<{}, << >> >>)
    IN  [i \in 1 .. Len(parts) |-> LV!FileOf(parts[i][1], parts[i][2])]
Dels(start, end, s) == <<Span(start, end, <<s>>)>>

Memtables == {MI!PlainLevel(Keys({2}, 30), << >>), MI!PlainLevel({}, Dels(2, 3, 31))}
Uppers(filter, maybe) ==
    {MI!TableLevel(Files(Keys(x[1], 20), dels, x[2]), filter, maybe) :
        x \in {<<{1, 2, 3}, 3>>, <<{4}, 2>>}, dels \in {Dels(1, 3, 21), Dels(1, 2, 19) \o Dels(2, 4, 21)}}
Lowers(filter, maybe) == {MI!TableLevel(Files(Keys({1, 2, 3}, 10), << >>, 3), filter, maybe)}

Points(levels) == UNION {Elements(f.points) : f \in UNION {Elements(l.files) : l \in Elements(levels)}}
RangeDeletions(levels) == UNION {Elements(f.dels) : f \in UNION {Elements(l.files) : l \in Elements(levels)}}
\* What a reader at a snapshot may see: what no newer visible range deletion covers.
Live(levels, snapshot) ==
    SortedKeys({p \in Points(levels) :
        p.s < snapshot /\ \A d \in RangeDeletions(levels) : ~(SpanContains(d, p.u) /\ CoversAt(d, snapshot, p.s))})

InitMerging ==
    \E f \in {<<FALSE, FALSE>>, <<TRUE, FALSE>>} :
    \E a \in Memtables, b \in Uppers(f[1], f[2]), c \in Lowers(f[1], f[2]) :
        /\ kind = "merging"
        /\ it = MI!New(<<a, b, c>>, 25) /\ all = Live(<<a, b, c>>, 25)

-----------------------------------------------------------------------------
\* A table: several versions of a user key, in one block or over several.
TablePoints ==
    <<MakeInternalKey(2, 9, Set), MakeInternalKey(2, 8, Set), MakeInternalKey(2, 7, Set),
      MakeInternalKey(4, 6, Delete), MakeInternalKey(4, 5, Set), MakeInternalKey(6, 4, Merge)>>
Layouts ==
    {[cuts |-> {}, icuts |-> {}, interval |-> 2, gap |-> FALSE],
     [cuts |-> {2, 5}, icuts |-> {}, interval |-> 1, gap |-> TRUE],
     [cuts |-> {2, 4, 6}, icuts |-> {3}, interval |-> 2, gap |-> TRUE]}
Options == {[v3 |-> TRUE, v4 |-> TRUE, lowest |-> TRUE], [v3 |-> FALSE, v4 |-> FALSE, lowest |-> FALSE]}
Virtuals == {Nil, [lower |-> MakeInternalKey(2, 8, Set), upper |-> MakeInternalKey(4, 5, Set)],
             [lower |-> MakeInternalKey(4, 6, Delete), upper |-> RangeDeleteSentinel(6)]}
InVirtual(vs, u) ==
    IF vs = Nil THEN TRUE
    ELSE /\ vs.lower.u <= u
         /\ IF IsExclusiveSentinel(vs.upper) THEN u < vs.upper.u ELSE u <= vs.upper.u

\* A point is dead for every reader at the tip when a newer version that is not a
\* merge operand hides it, or it is a deletion with nothing below it.
Dead(i, lowest) ==
    \/ \E j \in 1 .. i - 1 : TablePoints[j].u = TablePoints[i].u /\ TablePoints[j].k # Merge
    \/ lowest /\ TablePoints[i].k = Delete
InitTable ==
    \E l \in Layouts, o \in Options, vs \in Virtuals, hide, filter \in BOOLEAN :
        /\ hide => o.v4
        /\ kind = "table"
        /\ it = TI!Init(TI!WriteTable(TablePoints, l @@ o), vs, o.v3, hide, filter, FALSE, 0)
        /\ all = SortedKeys({TablePoints[i] : i \in {j \in DOMAIN TablePoints :
                     InVirtual(vs, TablePoints[j].u) /\ ~(hide /\ Dead(j, o.lowest))}})

-----------------------------------------------------------------------------
\* The other sources of points: a memtable's skiplist, the index of a batch read at
\* a snapshot, and a large batch in the memtable queue.
InitSkiplist ==
    \E heights \in [1 .. 4 -> 1 .. 2] :
        LET keys == SubSeq(TablePoints, 2, 5)
        IN  /\ kind = "skiplist" /\ all = keys
            /\ it = SK!NewIter(SK!Linked(keys, heights), NoLower, NoUpper)
BatchRecords ==
    {<<BT!Point(Set, 4), BT!Point(Set, 2), BT!Point(Delete, 4), BT!Point(Set, 3), BT!Point(Merge, 4)>>,
     <<BT!Point(Set, 2), BT!Ranged(RangeDelete, 2, 4, 0, 0), BT!Point(Set, 3), BT!Point(Set, 2)>>}
RECURSIVE Filled(_, _, _)
Filled(b, recs, heights) ==
    IF recs = << >> THEN b
    ELSE Filled(BT!Add(b, Head(recs), heights[Len(b.recs) + 1]), Tail(recs), heights)
IsPoint(k) == k # RangeDelete
InitBatch ==
    \E recs \in BatchRecords, heights \in {<<1, 2, 1, 2, 1>>, <<2, 1, 1, 1, 2>>}, seen \in {3, 5} :
        LET b == Filled(BT!NewBatch(TRUE, TRUE), recs, heights)
        IN  /\ kind = "batch"
            /\ it = BT!NewBatchIter(b.index, NoLower, NoUpper, SeqNumBatch + seen + 1)
            /\ all = SortedKeys({MakeInternalKey(recs[i].u, SeqNumBatch + i, recs[i].k) :
                                    i \in {j \in DOMAIN recs : j <= seen /\ IsPoint(recs[j].k)}})
InitFlushable ==
    \E recs \in BatchRecords :
        LET b == Filled(BT!NewBatch(FALSE, TRUE), recs, <<1, 1, 1, 1, 1>>)
            f == BT!SetSeqNum(BT!NewFlushableBatch(b), 40)
        IN  /\ kind = "flushable"
            /\ it = BT!FlushableIter(f, NoLower, NoUpper)
            /\ all = SortedKeys({MakeInternalKey(recs[i].u, 40 + i - 1, recs[i].k) :
                                    i \in {j \in DOMAIN recs : IsPoint(recs[j].k)}})

-----------------------------------------------------------------------------
\* Iterators over spans.  Range deletions overlap as they please before they are
\* fragmented: at every end of one of them, with the newest first.
Intervals == <<Span(1, 3, <<9>>), Span(1, 5, <<5>>), Span(2, 5, <<8>>), Span(3, 4, <<7>>), Span(6, 7, <<6>>)>>
Raw(chosen) == SelectSeq(Intervals, LAMBDA s : s.keys[1] \in chosen)
Descending(S) == Ranked(S, LAMBDA a, b : a > b)
Fragments(S) ==
    LET ends == {s.start : s \in S} \cup {s.end : s \in S}
        next(e) == CHOOSE f \in ends : f > e /\ \A g \in ends : g > e => f <= g
        over(e) == {s \in S : SpanContains(s, e)}
        starts == Ranked({e \in ends : over(e) # {}}, LAMBDA a, b : a < b)
    IN  [i \in DOMAIN starts |->
           Span(starts[i], next(starts[i]), Descending(UNION {Elements(s.keys) : s \in over(starts[i])}))]
RECURSIVE Written(_, _)
Written(w, spans) ==
    IF spans = << >> THEN w
    ELSE LET s == Head(spans)
             RECURSIVE keys(_, _)
             keys(v, i) == IF i > Len(s.keys) THEN v
                           ELSE keys(BI!Add(v, MakeInternalKey(s.start, s.keys[i], RangeDelete), s.end, 2), i + 1)
         IN  Written(keys(w, 1), Tail(spans))
\* The spans of a level, in two files that meet at `at`.
Part(spans, lo, hi) == SelectSeq(spans, LAMBDA s : lo <= s.start /\ s.end <= hi)
FileFor(spans) == RD!File(spans[1].start, SX!Last(spans).end, TRUE, spans)
LevelFiles(spans, at) ==
    LET parts == SelectSeq(<<Part(spans, 0, at), Part(spans, at, 99)>>, LAMBDA p : p # << >>)
    IN  [i \in DOMAIN parts |-> FileFor(parts[i])]
\* In range key mode a level fills the gap between its files.
LevelSpans(files, ranged) ==
    IF Len(files) = 2 /\ ranged /\ files[1].hi < files[2].lo
    THEN files[1].spans \o <<Span(files[1].hi, files[2].lo, << >>)>> \o files[2].spans
    ELSE RD!Concat([i \in DOMAIN files |-> files[i].spans])

InitSpans ==
    \E chosen \in {{9, 8}, {5, 9, 7}, {8, 7, 6}, {9, 6}}, at \in {3, 5, 6}, ranged \in BOOLEAN :
        LET frags == Fragments(Elements(Raw(chosen)))
            files == LevelFiles(frags, at)
            level == RD!NewLevelIter(files, ranged)
            mem == Fragments({Span(2, 6, <<11>>)})
        IN  \/ /\ kind = "fragmented" /\ at = 3 /\ ranged
               /\ it = RD!NewIter(RD!Fragment(Raw(chosen))) /\ all = frags
            \/ /\ kind = "block" /\ at = 3 /\ ranged
               /\ it = BI!LoadFragments(BI!Finish(Written(BI!EmptyWriter, frags)), 0, FALSE) /\ all = frags
            \/ /\ kind = "truncate" /\ ranged
               /\ it = RD!NewTruncate(frags, 2, at, 1, [u |-> 3, key |-> 7])
               /\ all = LET kept == SelectSeq(frags, LAMBDA s : s.start < at /\ s.end > 2 /\ s.start <= 3)
                            cut(s) == Span(IF s.start < 2 THEN 2 ELSE s.start, IF s.end > at THEN at ELSE s.end,
                                           IF s.start = 3 THEN SelectSeq(s.keys, LAMBDA x : x >= 7) ELSE s.keys)
                        IN  SelectSeq([i \in DOMAIN kept |-> cut(kept[i])], LAMBDA s : s.keys # << >>)
            \/ kind = "level" /\ it = level /\ all = LevelSpans(files, ranged)
            \/ /\ kind = "merge" /\ it = RD!NewMerging(<<RD!NewIter(mem), level>>)
               /\ all = Fragments(Elements(mem) \cup Elements(LevelSpans(files, ranged)))

SpanIterators(k, c, call) ==
    LET block == CASE call[1] = "SeekGE" -> BI!FragmentSeekGE(c, call[2]) [] call[1] = "SeekLT" -> BI!FragmentSeekLT(c, call[2])
                   [] call[1] = "First" -> BI!FragmentFirst(c) [] call[1] = "Last" -> BI!FragmentLast(c)
                   [] call[1] = "Next" -> BI!FragmentNext(c) [] call[1] = "Prev" -> BI!FragmentPrev(c)
        merge == CASE call[1] = "SeekGE" -> RD!MergingSeekGE(c, call[2]) [] call[1] = "SeekLT" -> RD!MergingSeekLT(c, call[2])
                   [] call[1] = "First" -> RD!MergingFirst(c) [] call[1] = "Last" -> RD!MergingLast(c)
                   [] call[1] = "Next" -> RD!MergingNext(c) [] call[1] = "Prev" -> RD!MergingPrev(c)
        other == CASE call[1] = "SeekGE" -> RD!SeekGE(c, call[2]) [] call[1] = "SeekLT" -> RD!SeekLT(c, call[2])
                   [] call[1] = "First" -> RD!First(c) [] call[1] = "Last" -> RD!Last(c)
                   [] call[1] = "Next" -> RD!Next(c) [] call[1] = "Prev" -> RD!Prev(c)
    IN  CASE k = "block" -> block [] k = "merge" -> merge [] OTHER -> other
SpanKinds == {"fragmented", "block", "truncate", "level", "merge"}
OfSpans == kind \in SpanKinds
SpanPos ==
    IF ~OfSpans \/ op[1] = "none" THEN 0
    ELSE IF it.span = Nil THEN IF op[1] \in {"SeekLT", "Prev", "Last"} THEN 0 ELSE Len(all) + 1
    ELSE IF it.span \in Elements(all) THEN CHOOSE i \in DOMAIN all : all[i] = it.span ELSE -1
NextSpans ==
    /\ OfSpans /\ UNCHANGED <<kind, all, lower, upper>>
    /\ \/ \E u \in 1 .. 7, call \in {"SeekGE", "SeekLT"} : op' = <<call, u>>
       \/ \E call \in {"First", "Last"} : op' = <<call>>
       \/ op[1] # "none" /\ SpanPos <= Len(all) /\ op' = <<"Next">>
       \/ op[1] # "none" /\ SpanPos >= 1 /\ op' = <<"Prev">>
    /\ it' = SpansCall(kind, it, op')
SpanCursor == INSTANCE FragmentCursor WITH
    UserKeys <- 1 .. 7, spans <- IF OfSpans THEN all ELSE << >>,
    op <- IF OfSpans THEN op ELSE <<"none">>, pos <- SpanPos

-----------------------------------------------------------------------------
\* Points and range keys: range keys of a memtable over those of a level whose
\* second file starts inside a prefix.
NoKey == -1
RangeKeyOf(s, k, sfx, v) == <<[s |-> s, k |-> k, sfx |-> sfx, v |-> v]>>
LevelKeys == {Span(10, 30, RangeKeyOf(5, RangeKeySet, 4, 1)), Span(30, 40, RangeKeyOf(6, RangeKeySet, 4, 1))}
LevelKeyFiles ==
    <<RD!File(10, 24, TRUE, <<Span(10, 24, RangeKeyOf(5, RangeKeySet, 4, 1))>>),
      RD!File(24, 40, TRUE, <<Span(24, 30, RangeKeyOf(5, RangeKeySet, 4, 1)),
                              Span(30, 40, RangeKeyOf(6, RangeKeySet, 4, 1))>>)>>
\* The range keys of the memtable, the suffix that masks, and whether the points
\* behind a prefix are shown.
Mixes == {<< <<>>, 0, TRUE>>, << <<>>, 3, FALSE>>,
          << <<Span(20, 30, RangeKeyOf(50, RangeKeySet, 2, 2))>>, 1, TRUE>>,
          << <<Span(20, 40, RangeKeyOf(50, RangeKeyUnset, 4, 0))>>, 3, FALSE>>,
          << <<Span(10, 20, RangeKeyOf(50, RangeKeyDelete, 0, 0))>>, 3, TRUE>>,
          << <<Span(20, 30, RangeKeyOf(200, RangeKeyDelete, 0, 0))>>, 0, FALSE>>}
\* What a reader may see at a user key: every set with no newer unset of its suffix,
\* set of its suffix, or deletion.
LiveSets(S, u) ==
    LET here == {s.keys[1] : s \in {t \in S : SpanContains(t, u)}}
        seen == {x \in here : x.s < 100}
    IN  {<<x.sfx, x.v>> : x \in {y \in seen : /\ y.k = RangeKeySet
                                              /\ \A z \in seen : z.s > y.s => z.k # RangeKeyDelete /\ z.sfx # y.sfx}}
UserSpans(S) ==
    LET starts == {u \in {s.start : s \in S} \cup {s.end : s \in S} :
                     LiveSets(S, u) # {} /\ LiveSets(S, u) # LiveSets(S, u - 1)}
        end(u) == CHOOSE e \in u + 1 .. 99 : /\ LiveSets(S, e) # LiveSets(S, u)
                                             /\ \A f \in u .. e - 1 : LiveSets(S, f) = LiveSets(S, u)
    IN  {Span(u, end(u), LiveSets(S, u)) : u \in starts}
CombinedPoints == {13, 20, 23, 26, 31}
LazyFile(points, lo, hi) == [points |-> points, keys |-> IF lo = 0 THEN Nil ELSE [lo |-> lo, hi |-> hi]]
LazyLevels ==
    {<< <<LazyFile({13}, 0, 0), LazyFile({26}, 0, 0)>>,
        <<LazyFile({20}, 10, 24), LazyFile({31}, 24, 40)>> >>,
     << <<LazyFile({13, 31}, 0, 0)>>,
        <<LazyFile({}, 10, 24), LazyFile({23, 26}, 24, 40)>>, <<LazyFile({20}, 0, 0)>> >>}
InitCombined ==
    \E x \in Mixes :
        LET mem == x[1]
            masking == x[2]
            levels == <<CI!KS!NewIter(mem), CI!KS!NewLevelIter(LevelKeyFiles, TRUE)>>
            pt == CI!NewPoints(SortedKeys(Keys(CombinedPoints, 60)), NoKey, NoKey, x[3])
        IN  /\ all = [points |-> CombinedPoints, spans |-> UserSpans(LevelKeys \cup Elements(mem)), mask |-> masking]
            /\ \/ kind = "combined" /\ it = CI!NewInterleaving(pt, CI!UserIterator(levels, NoKey, NoKey), masking)
               \/ /\ kind = "lazy" /\ mem = << >>
                  /\ \E files \in LazyLevels : it = CI!NewLazy(pt, masking, files, levels)

OfCombined == kind \in {"combined", "lazy"}
Lazy(c) == "lazy" \in DOMAIN c
IsLazy == kind = "lazy" /\ Lazy(it)
CombinedIterators(k, c, call) ==
    LET lazy == CASE call[1] = "SeekGE" -> CI!LazySeekGE(c, call[2]) [] call[1] = "SeekLT" -> CI!LazySeekLT(c, call[2])
                  [] call[1] = "SeekPrefixGE" -> CI!LazySeekPrefixGE(c, call[2])
                  [] call[1] = "First" -> CI!LazyFirst(c) [] call[1] = "Last" -> CI!LazyLast(c)
                  [] call[1] = "Next" -> CI!LazyNext(c) [] call[1] = "Prev" -> CI!LazyPrev(c)
                  [] call[1] = "NextPrefix" -> CI!LazyNextPrefix(c, call[2])
                  [] call[1] = "SetBounds" -> CI!LazySetBounds(c, call[2], call[3])
        combined == CASE call[1] = "SeekGE" -> CI!SeekGE(c, call[2]) [] call[1] = "SeekLT" -> CI!SeekLT(c, call[2])
                      [] call[1] = "SeekPrefixGE" -> CI!SeekPrefixGE(c, call[2])
                      [] call[1] = "First" -> CI!First(c) [] call[1] = "Last" -> CI!Last(c)
                      [] call[1] = "Next" -> CI!Next(c) [] call[1] = "Prev" -> CI!Prev(c)
                      [] call[1] = "NextPrefix" -> CI!NextPrefix(c, call[2])
                      [] call[1] = "SetBounds" -> CI!SetBounds(c, call[2], call[3])
    IN  IF k = "lazy" /\ Lazy(c) THEN lazy ELSE combined

\* An iterator that is lazy still shows no span.
Shown == IF ~OfCombined \/ IsLazy THEN Nil ELSE CI!SpanShown(it)
Cover == IF Shown = Nil THEN Nil ELSE [Shown EXCEPT !.keys = {<<@[i].sfx, @[i].v>> : i \in DOMAIN @}]
CombinedSeekKeys == {10, 13, 20, 24, 30, 40}
CombinedBounds == {<<NoKey, NoKey>>, <<13, 30>>, <<24, NoKey>>}

CombinedPrefix == IF op[1] \in {"SeekPrefixGE", "NextInPrefix"} THEN CI!PrefixOf(op[2]) ELSE NoKey
CombinedReverse == op[1] \in {"SeekLT", "Last", "Prev"}
CombinedKey == IF CombinedPrefix # NoKey /\ it.key # Nil
               THEN IF CI!PrefixOf(it.key.u) = CombinedPrefix THEN it.key ELSE Nil ELSE it.key
CombinedStill == ~OfCombined \/ op[1] \in {"none", "SetBounds"}
CombinedPos ==
    IF CombinedStill THEN <<-1, 0>>
    ELSE IF CombinedKey = Nil THEN IF CombinedReverse THEN <<-1, 0>> ELSE <<999, 0>>
    ELSE <<CombinedKey.u, IF IsExclusiveSentinel(CombinedKey) THEN 0 ELSE 1>>
CombinedCover == IF CombinedStill THEN Nil ELSE IF CombinedKey = Nil THEN Nil ELSE Cover
Combined == INSTANCE CombinedCursor WITH
    UserKeys <- CombinedSeekKeys \cup {NoKey}, PrefixOf <- CI!PrefixOf,
    points <- IF OfCombined THEN all.points ELSE {}, spans <- IF OfCombined THEN all.spans ELSE {},
    mask <- IF OfCombined THEN all.mask ELSE 0,
    lower <- IF OfCombined THEN lower ELSE NoKey, upper <- IF OfCombined THEN upper ELSE NoKey,
    op <- IF OfCombined THEN op ELSE <<"none">>, pos <- CombinedPos, cover <- CombinedCover

Within(u) == (lower = NoKey \/ lower <= u) /\ (upper = NoKey \/ u <= upper)
CombinedOn == op[1] \notin {"none", "SetBounds"} /\ CombinedKey # Nil
MovesCombined(call, u, next) == it' = CombinedCall(kind, it, <<call, u>>) /\ op' = next
NextCombined ==
    /\ OfCombined /\ UNCHANGED <<kind, all>>
    /\ \/ /\ UNCHANGED <<lower, upper>>
          /\ \/ \E call \in {"SeekGE", "SeekPrefixGE", "SeekLT"}, u \in CombinedSeekKeys :
                   Within(u) /\ MovesCombined(call, u, <<call, u>>)
             \/ lower = NoKey /\ MovesCombined("First", 0, <<"First">>)
             \/ upper = NoKey /\ MovesCombined("Last", 0, <<"Last">>)
             \/ /\ CombinedOn
                /\ MovesCombined("Next", 0, IF CombinedPrefix # NoKey THEN <<"NextInPrefix", op[2]>> ELSE <<"Next">>)
             \/ CombinedOn /\ CombinedPrefix = NoKey /\ MovesCombined("Prev", 0, <<"Prev">>)
             \/ /\ CombinedOn /\ CombinedPrefix = NoKey /\ ~CombinedReverse
                /\ MovesCombined("NextPrefix", CI!PrefixOf(it.key.u) + 10, <<"NextPrefix">>)
       \/ \E b \in CombinedBounds :
            /\ <<lower, upper>> # b /\ lower' = b[1] /\ upper' = b[2] /\ op' = <<"SetBounds">>
            /\ it' = CombinedCall(kind, it, <<"SetBounds", b[1], b[2]>>)

-----------------------------------------------------------------------------
Init ==
    /\ InitMerging \/ InitTable \/ InitSkiplist \/ InitBatch \/ InitFlushable \/ InitSpans \/ InitCombined
    /\ op = <<"none">>
    /\ lower = IF OfCombined THEN NoKey ELSE NoLower
    /\ upper = IF OfCombined THEN NoKey ELSE NoUpper

SeekKeys == IF kind = "table" THEN {2, 3, 4, 7} ELSE 1 .. 4
BoundChoices == IF kind = "table" THEN {<<NoLower, NoUpper>>, <<2, 4>>, <<4, NoUpper>>}
                ELSE {<<NoLower, NoUpper>>, <<2, 4>>, <<NoLower, 3>>}
UserKeys == 1 .. 7 \cup {NoLower, NoUpper}
HasPrefixSeek == kind \in {"merging", "table"}

PointIterators(k, c, call) ==
    LET u == call[2]
        merging == CASE call[1] = "SeekGE" -> MI!SeekGE(c, u, call[3]) [] call[1] = "SeekLT" -> MI!SeekLT(c, u)
                     [] call[1] = "SeekPrefixGE" -> MI!SeekPrefixGE(c, u, call[3])
                     [] call[1] = "First" -> MI!First(c) [] call[1] = "Last" -> MI!Last(c)
                     [] call[1] = "Next" -> MI!Next(c) [] call[1] = "Prev" -> MI!Prev(c)
                     [] call[1] = "NextPrefix" -> MI!NextPrefix(c, u) [] call[1] = "SetBounds" -> MI!SetBounds(c, u, call[3])
        table == CASE call[1] = "SeekGE" -> TI!SeekGE(c, u, call[3]) [] call[1] = "SeekLT" -> TI!SeekLT(c, u)
                   [] call[1] = "SeekPrefixGE" -> TI!SeekPrefixGE(c, u, call[3])
                   [] call[1] = "First" -> TI!First(c) [] call[1] = "Last" -> TI!Last(c)
                   [] call[1] = "Next" -> TI!Next(c) [] call[1] = "Prev" -> TI!Prev(c)
                   [] call[1] = "NextPrefix" -> TI!NextPrefix(c, u) [] call[1] = "SetBounds" -> TI!SetBounds(c, u, call[3])
        skiplist == CASE call[1] = "SeekGE" -> SK!SeekGE(c, u, call[3]) [] call[1] = "SeekLT" -> SK!SeekLT(c, u)
                      [] call[1] = "First" -> SK!First(c) [] call[1] = "Last" -> SK!Last(c)
                      [] call[1] = "Next" -> SK!Next(c) [] call[1] = "Prev" -> SK!Prev(c)
                      [] call[1] = "NextPrefix" -> SK!NextPrefix(c, u)
        batch == CASE call[1] = "SeekGE" -> BT!IterSeekGE(c, u, call[3], FALSE) [] call[1] = "SeekLT" -> BT!IterSeekLT(c, u)
                   [] call[1] = "First" -> BT!IterFirst(c) [] call[1] = "Last" -> BT!IterLast(c)
                   [] call[1] = "Next" -> BT!IterNext(c) [] call[1] = "Prev" -> BT!IterPrev(c)
                   [] call[1] = "NextPrefix" -> BT!IterNextPrefix(c, u)
        flushable == CASE call[1] \in {"SeekGE", "NextPrefix"} -> BT!FlushableSeekGE(c, u)
                       [] call[1] = "SeekLT" -> BT!FlushableSeekLT(c, u)
                       [] call[1] = "First" -> BT!FlushableFirst(c) [] call[1] = "Last" -> BT!FlushableLast(c)
                       [] call[1] = "Next" -> BT!FlushableNext(c) [] call[1] = "Prev" -> BT!FlushablePrev(c)
    IN  CASE k = "merging" -> merging
          [] k = "table" -> table
          [] call[1] = "SetBounds" -> [c EXCEPT !.lower = u, !.upper = call[3]]
          [] k = "skiplist" -> skiplist [] k = "batch" -> batch [] k = "flushable" -> flushable

\* The position of the key that the iterator shows.
PointKinds == {"merging", "table", "skiplist", "batch", "flushable"}
OfPoints == kind \in PointKinds
Positioned == op[1] \notin {"none", "SetBounds"}
InPrefix == op[1] \in {"SeekPrefixGE", "NextInPrefix"}
Reverse == op[1] \in {"SeekLT", "Last", "Prev"}
Content == SelectSeq(all, LAMBDA k : lower <= k.u /\ k.u < upper)
Pos == IF ~OfPoints \/ ~Positioned THEN 0
       ELSE IF it.key = Nil THEN IF Reverse THEN 0 ELSE Len(Content) + 1
       ELSE IF it.key \in Elements(Content) THEN CHOOSE i \in 1 .. Len(Content) : Content[i] = it.key
       ELSE -1
Cursor == INSTANCE OrderedCursor WITH
    all <- IF OfPoints THEN all ELSE << >>, lower <- IF OfPoints THEN lower ELSE NoLower,
    upper <- IF OfPoints THEN upper ELSE NoUpper, op <- IF OfPoints THEN op ELSE <<"none">>, pos <- Pos

-----------------------------------------------------------------------------
\* The calls.  A caller asks to seek by stepping (TrySeekUsingNext) only where the
\* position does not lie behind the new key.
Allowed(u) == lower <= u /\ u <= upper
\* levelIter never seeks a virtual table for a key behind its largest one, nor
\* backwards from one that is not behind its smallest.
InFile(u) ==
    IF kind = "table" /\ it.vs # Nil THEN InVirtual(it.vs, u) \/ u < it.vs.lower.u ELSE TRUE
DoSeekGE(u, try) ==
    /\ Allowed(u) /\ InFile(u)
    /\ try => op[1] = "SeekGE" /\ op[2] <= u /\ Pos <= Cursor!CountBelow(u) + 1
    /\ it' = PointsCall(kind, it, <<"SeekGE", u, try>>) /\ op' = <<"SeekGE", u>>
DoSeekPrefixGE(u, try) ==
    /\ HasPrefixSeek /\ Allowed(u) /\ InFile(u)
    /\ try => InPrefix /\ (op[2] < u \/ op = <<"SeekPrefixGE", u>>)
    /\ it' = PointsCall(kind, it, <<"SeekPrefixGE", u, try>>) /\ op' = <<"SeekPrefixGE", u>>
DoSeekLT(u) ==
    /\ Allowed(u)
    /\ IF kind = "table" /\ it.vs # Nil THEN it.vs.lower.u < u ELSE TRUE
    /\ it' = PointsCall(kind, it, <<"SeekLT", u>>) /\ op' = <<"SeekLT", u>>
DoFirst == lower = NoLower /\ it' = PointsCall(kind, it, <<"First">>) /\ op' = <<"First">>
DoLast == upper = NoUpper /\ it' = PointsCall(kind, it, <<"Last">>) /\ op' = <<"Last">>
\* mergingIter seeks a memtable or batch anew when it turns at its bound.
CanTurn == (it.key = Nil /\ kind \in {"skiplist", "batch", "flushable"}) => lower = NoLower /\ upper = NoUpper
DoNext ==
    /\ Positioned /\ Pos # Len(Content) + 1 /\ CanTurn
    /\ InPrefix => it.key.u = op[2]
    /\ it' = PointsCall(kind, it, <<"Next">>) /\ op' = IF InPrefix THEN <<"NextInPrefix", op[2]>> ELSE <<"Next">>
DoPrev == Positioned /\ ~InPrefix /\ Pos # 0 /\ CanTurn /\ it' = PointsCall(kind, it, <<"Prev">>) /\ op' = <<"Prev">>
DoNextPrefix ==
    /\ Positioned /\ ~InPrefix /\ ~Reverse /\ it.key # Nil
    /\ it' = PointsCall(kind, it, <<"NextPrefix", it.key.u + 1>>) /\ op' = <<"NextPrefix">>
DoSetBounds(lo, up) ==
    /\ <<lower, upper>> # <<lo, up>>
    /\ it' = PointsCall(kind, it, <<"SetBounds", lo, up>>) /\ op' = <<"SetBounds">>
    /\ lower' = lo /\ upper' = up /\ UNCHANGED <<kind, all>>

Move ==
    /\ \/ \E u \in SeekKeys, try \in BOOLEAN : DoSeekGE(u, try) \/ DoSeekPrefixGE(u, try)
       \/ \E u \in SeekKeys : DoSeekLT(u)
       \/ DoFirst \/ DoLast \/ DoNext \/ DoPrev \/ DoNextPrefix
    /\ UNCHANGED <<kind, all, lower, upper>>
NextPoints == OfPoints /\ (Move \/ \E b \in BoundChoices : DoSetBounds(b[1], b[2]))
Next == NextPoints \/ NextSpans \/ NextCombined
Spec == Init /\ [][Next]_vars

\* Each iterator implements the contract of InternalIterator: after any sequence of
\* calls it stands on the key, among those a reader may see, that the contract names
\* (merging_iter.go, level_iter.go, sstable/reader_iter_single_lvl.go, ...).
IteratesLiveKeys == Cursor!Spec

\* Each iterator over spans implements the contract of FragmentIterator, and what it
\* shows are the fragments of the spans below it: Fragmenter, Truncate, LevelIter and
\* MergingIter of package keyspan, and the table's fragmentBlockIter.
IteratesFragments == SpanCursor!Spec

\* An iterator over points and range keys shows the points no range key masks, a
\* marker for each span that a reader may see, cut to the bounds, the prefix and the
\* sought key, and at each of them that span with its live range keys: interleaved
\* (InterleavingIter), or switched to when a level meets a file that has range keys
\* (lazyCombinedIter).
IteratesRangeKeys == Combined!Spec
==============================================================================
