--------------------------- MODULE CompactionIter ---------------------------
(***************************************************************************)
(* What a compaction or a flush writes: the compaction iterator over the   *)
(* merged input (compaction_iter.go), the splitters that decide where an   *)
(* output ends, what may be elided, and the loop of runCompaction that     *)
(* turns keys into tables (compaction.go).  The job c is a record: what it *)
(* was set up with (opt), the state of the iterator, the frontiers of the  *)
(* splitters, the open table (tw) and the finished ones (out).             *)
(***************************************************************************)
EXTENDS InternalKeys

CONSTANT NeedDelete(_)        \* DeletableValueMerger: the merged value deletes itself

NewerSeqNum(a, b) == a > b
NewerTrailer(a, b) == a.s > b.s \/ (a.s = b.s /\ a.k > b.k)
Same(span) == span
Equal(a, b) == a = b
RD == INSTANCE KeyspanIters WITH NewerKey <- NewerSeqNum, Transform <- Same, SameState <- Equal, PrefixOf <- Same
RK == INSTANCE KeyspanIters WITH NewerKey <- NewerTrailer, Transform <- Same, SameState <- Equal, PrefixOf <- Same
NoKey == RD!NoKey

Tombstones == {Delete, SingleDelete, DeleteSized}
RangeKeyKinds == {RangeKeySet, RangeKeyUnset, RangeKeyDelete}
Lesser(a, b) == IF a = NoKey \/ (b # NoKey /\ b < a) THEN b ELSE a

-----------------------------------------------------------------------------
\* What is in use below the outputs: ranges of user keys, both ends included.

RECURSIVE Absorb(_, _)
Absorb(accum, input) ==                \* ranges that the grown one has come to overlap
    IF input # << >> /\ Head(input).start <= accum.end
    THEN Absorb([accum EXCEPT !.end = IF Head(input).end > @ THEN Head(input).end ELSE @], Tail(input))
    ELSE [accum |-> accum, input |-> input]
SeekGT(files, u) == SelectSeq(files, LAMBDA f : f.end > u)
RECURSIVE MergeLevel(_, _, _)
MergeLevel(files, input, output) ==
    LET file == Head(files)
        accum == Head(input)
        union == Absorb([start |-> IF file.start < accum.start THEN file.start ELSE accum.start,
                         end |-> IF file.end > accum.end THEN file.end ELSE accum.end], Tail(input))
    IN  IF files = << >> THEN output \o input
        ELSE IF input = << >> THEN MergeLevel(Tail(files), input, Append(output, file))
        ELSE IF file.end < accum.start THEN MergeLevel(Tail(files), input, Append(output, file))
        ELSE IF accum.end < file.start THEN MergeLevel(files, Tail(input), Append(output, accum))
        ELSE MergeLevel(SeekGT(files, union.accum.end), <<union.accum>> \o union.input, output)
\* levels: per level the ranges of its files, top down; start with those of L0, if any.
RECURSIVE CalculateInuseKeyRanges(_, _, _, _)
CalculateInuseKeyRanges(levels, smallest, largest, output) ==
    LET overlaps == SelectSeq(Head(levels), LAMBDA f : f.end >= smallest /\ f.start <= largest)
        files == IF output # << >> /\ Head(output).start <= smallest
                 THEN SeekGT(overlaps, Head(output).end) ELSE overlaps
    IN  IF levels = << >> THEN output
        ELSE CalculateInuseKeyRanges(Tail(levels), smallest, largest, MergeLevel(files, output, << >>))
InuseEntireRange(inuse, smallest, largest) ==
    inuse # << >> /\ inuse[1].start <= smallest /\ inuse[1].end >= largest

\* The index only moves forward: keys come in order.
ElideTombstoneIndex(c, u) ==
    LET before == {j \in c.elide .. Len(c.opt.inuse) : \A k \in c.elide .. j : c.opt.inuse[k].end < u}
    IN  c.elide + Cardinality(before)
ElideTombstone(c, u) ==
    LET j == ElideTombstoneIndex(c, u)
    IN  /\ ~c.opt.entire /\ ~c.opt.flushing
        /\ IF j > Len(c.opt.inuse) THEN TRUE ELSE u < c.opt.inuse[j].start
ElideRangeTombstone(opt, start, end) ==
    LET lower == Cardinality({j \in DOMAIN opt.inuse : opt.inuse[j].end < start})
        upper == Cardinality({j \in DOMAIN opt.inuse : opt.inuse[j].start <= end})
    IN  ~opt.flushing /\ lower >= upper
AllowZeroSeqNum(opt) == ElideRangeTombstone(opt, opt.smallest, opt.largest)

-----------------------------------------------------------------------------
\* Frontiers: user keys that, once reached, change what a splitter answers.  There is
\* one for the next grandparent and one for each limit of the current output.

Reached(c, f) ==
    IF f = "size"
    THEN LET next == c.next + 1
         IN  [c EXCEPT !.at = TRUE, !.seen = @ + 1, !.next = next,
                       !.frontier.size = IF next \in DOMAIN c.opt.grandparents
                                         THEN c.opt.grandparents[next].start ELSE NoKey]
    ELSE [c EXCEPT !.split = @ \cup {f}, !.frontier[f] = NoKey]
RECURSIVE Advance(_, _)
Advance(c, u) ==
    LET due == {f \in DOMAIN c.frontier : c.frontier[f] # NoKey /\ c.frontier[f] <= u}
        least == CHOOSE f \in due : \A g \in due : c.frontier[f] <= c.frontier[g]
    IN  IF due = {} THEN c ELSE Advance(Reached(c, least), u)

\* The size of a table is the number of its points.
EstimatedSize(tw) == Len(tw.points)
SizeSplit(c, key) ==
    LET size == EstimatedSize(c.tw)
        target == c.opt.target
        minimum == 50 + 5 * (IF c.seen - 1 < 8 THEN c.seen - 1 ELSE 8)
    IN  IF key.k = RangeDelete \/ c.tw = Nil THEN FALSE
        ELSE IF size < target \div 2 THEN FALSE
        ELSE IF size >= 2 * target THEN TRUE
        ELSE IF ~c.at THEN c.next \notin DOMAIN c.opt.grandparents /\ size >= target
        ELSE size >= (minimum * target) \div 100
FragStart(frag) == IF frag.pending = << >> THEN NoKey ELSE frag.pending[1].start
UnsafePrevUserKey(c) == IF c.prev > FragStart(c.frag) THEN c.prev ELSE FragStart(c.frag)
SplitAnywhere(c, key) == SizeSplit(c, key)     \* mutant
UserKeyChangeSplit(c, key) == SizeSplit(c, key) /\ key.u > UnsafePrevUserKey(c)
ShouldSplitBefore(c, key) == UserKeyChangeSplit(c, key) \/ c.split # {}
Asked(c) == [c EXCEPT !.at = FALSE]

LimitAtStart(opt, u) ==     \* mutant
    LET gp == SelectSeq(opt.grandparents, LAMBDA f : f.end >= u)
        over == {j \in DOMAIN gp : gp[j].start >= u /\ j >= opt.maxOverlap}
    IN  IF over = {} THEN NoKey ELSE gp[CHOOSE j \in over : \A k \in over : j <= k].start
\* The start of the first grandparent that is one too many for a table that starts at u.
FindGrandparentLimit(opt, u) ==
    LET gp == SelectSeq(opt.grandparents, LAMBDA f : f.end >= u)
        over == {j \in DOMAIN gp : gp[j].start > u /\ j > opt.maxOverlap}
    IN  IF over = {} THEN NoKey ELSE gp[CHOOSE j \in over : \A k \in over : j <= k].start
FindL0Limit(opt, u) ==
    LET above == SelectSeq(opt.l0Limits, LAMBDA l : l > u)
    IN  IF ~opt.flushing \/ above = << >> THEN NoKey ELSE above[1]
OnNewOutput(c, u) ==
    LET gp == IF u = NoKey THEN NoKey ELSE FindGrandparentLimit(c.opt, u)
        l0 == IF u = NoKey THEN NoKey ELSE FindL0Limit(c.opt, u)
    IN  [c EXCEPT !.seen = 0, !.split = {}, !.frontier.gp = gp, !.frontier.l0 = l0,
                  !.limit = Lesser(gp, l0)]

-----------------------------------------------------------------------------
\* The iterator's position and its snapshot stripes; stripe 0 is the last one.

SnapshotIndex(s, snapshots) == Cardinality({j \in DOMAIN snapshots : snapshots[j] <= s})
SnapshotOf(idx, snapshots) == IF idx = Len(snapshots) THEN SeqNumMax ELSE snapshots[idx + 1]
IterKey(c) == IF c.p <= Len(c.in) THEN c.in[c.p].key ELSE Nil
IterValue(c) == c.in[c.p].value
InStripe(c) ==
    LET idx == SnapshotIndex(IterKey(c).s, c.opt.snapshots)
    IN  [c EXCEPT !.idx = idx, !.sn = SnapshotOf(idx, c.opt.snapshots)]
SaveKey(c) == Advance([c EXCEPT !.key = IterKey(c), !.trailer = IterKey(c)], IterKey(c).u)
Panic(c) == [c EXCEPT !.err = "panic", !.p = Len(c.in) + 1, !.change = "newKey"]

\* Fragmenter.Covers
Covers(c, key) ==
    LET newer == {x \in UNION {{s.keys[j] : j \in DOMAIN s.keys} :
                                s \in {t \in {c.frag.pending[j] : j \in DOMAIN c.frag.pending} : key.u < t.end}} :
                    x > key.s}
    IN  IF \E x \in newer : x < c.sn THEN "visibly" ELSE IF newer # {} THEN "invisibly" ELSE "no"

OutOfOrder(c, key) ==
    /\ c.trailer.s = 0 \/ c.trailer.s <= key.s
    /\ c.key.k # RangeDelete /\ key.k # RangeDelete
RECURSIVE NextInStripeHelper(_, _)
NextInStripeHelper(c, orig) ==
    LET n == [c EXCEPT !.p = @ + 1]
        key == IterKey(n)
        m == InStripe(n)
    IN  IF c.p >= Len(c.in) THEN [c EXCEPT !.p = Len(c.in) + 1, !.change = "newKey"]
        ELSE IF key.u # c.key.u THEN [m EXCEPT !.change = "newKey"]
        ELSE IF OutOfOrder(c, key) \/ key.k \in RangeKeyKinds THEN Panic(n)
        ELSE IF m.idx # orig THEN [m EXCEPT !.change = "sameKey"]
        ELSE IF key.k = RangeDelete THEN [m EXCEPT !.change = "nonSkippable"]
        ELSE IF Covers(m, key) = "visibly" THEN NextInStripeHelper(m, orig)
        ELSE [m EXCEPT !.change = "skippable"]
NextInStripe(c) == NextInStripeHelper(c, c.idx)
NewStripe(c) == c.change \in {"newKey", "sameKey"}
RECURSIVE SkipSkippable(_)
SkipSkippable(c) == LET n == NextInStripe(c) IN IF n.change = "skippable" THEN SkipSkippable(n) ELSE n
SkipInStripe(c) ==
    LET n == SkipSkippable(c) IN [n EXCEPT !.skip = ~NewStripe(n)]

-----------------------------------------------------------------------------
\* The entry to return: older entries of the stripe are combined with it or skipped.

ZeroInAnyStripe(c, idx) == IF c.opt.zero THEN [c EXCEPT !.key.s = 0] ELSE c     \* mutant
MaybeZeroSeqnum(c, idx) == IF c.opt.zero /\ idx = 0 THEN [c EXCEPT !.key.s = 0] ELSE c
BecomesKind(c, k) == [c EXCEPT !.key.k = k]
Saved(c) == [SaveKey(c) EXCEPT !.value = IterValue(c), !.valid = TRUE]

\* A SET over a deletion is a SETWITHDEL; so is one over a key that cannot be skipped.
RECURSIVE SetNextLoop(_)
SetNextLoop(c) ==
    LET n == NextInStripe(c)
        swd == [BecomesKind(n, SetWithDelete) EXCEPT !.skip = TRUE]
    IN  IF NewStripe(n) THEN [n EXCEPT !.pos = "next"]
        ELSE IF n.change = "nonSkippable" THEN [swd EXCEPT !.pos = "next"]
        ELSE IF IterKey(n).k \in Tombstones THEN swd
        ELSE SetNextLoop(n)
SetNext(c) ==
    LET s == MaybeZeroSeqnum(Saved(c), c.idx)
    IN  IF ~c.opt.setWithDelete \/ IterKey(c).k = SetWithDelete THEN [s EXCEPT !.skip = TRUE]
        ELSE SetNextLoop(s)

RECURSIVE MergeNextLoop(_)
MergeNextLoop(c) ==
    LET n == NextInStripe(c)
        older == [n EXCEPT !.value = IterValue(n) \o @]
    IN  IF n.change # "skippable" THEN [n EXCEPT !.pos = "next"]
        ELSE IF IterKey(n).k \in Tombstones THEN [BecomesKind(n, SetWithDelete) EXCEPT !.skip = TRUE]
        ELSE IF IterKey(n).k = Merge THEN MergeNextLoop(older)
        ELSE [BecomesKind(older, Set) EXCEPT !.skip = TRUE]
MergeNext(c) == MergeNextLoop(Saved(c))

\* valid tells whether the SINGLEDEL is to be returned.
RECURSIVE SingleDeleteNextLoop(_)
SingleDeleteNextLoop(c) ==
    LET n == NextInStripe(c)
        k == IterKey(n).k
    IN  IF n.change # "skippable" THEN [n EXCEPT !.pos = "next"]
        ELSE IF k \in {Delete, DeleteSized, SetWithDelete}
             THEN [BecomesKind(n, Delete) EXCEPT !.skip = TRUE]
        ELSE IF k \in {Set, Merge} THEN [NextInStripe(n) EXCEPT !.valid = FALSE]
        ELSE SingleDeleteNextLoop(n)
SingleDeleteNext(c) == SingleDeleteNextLoop(Saved(c))

RECURSIVE SkipDueToSingleDeleteElision(_)
SkipDueToSingleDeleteElision(c) ==
    LET n == NextInStripe(c)
        m == NextInStripe(n)
        k == IterKey(n).k
    IN  CASE n.change = "newKey" -> [n EXCEPT !.skip = FALSE]
          [] n.change = "sameKey" -> Panic(n)
          [] n.change = "nonSkippable" -> [n EXCEPT !.skip = TRUE]
          [] n.change = "skippable" /\ k = SingleDelete -> SkipDueToSingleDeleteElision(n)
          [] n.change = "skippable" /\ k \in {Delete, DeleteSized, SetWithDelete} -> SkipInStripe(n)
          [] n.change = "skippable" /\ k \in {Set, Merge} ->
               IF m.change = "sameKey" THEN Panic(m) ELSE [m EXCEPT !.skip = FALSE]

\* A DELSIZED tells the size of what it deletes, and once it has deleted it, nothing.
\* A wrong size makes it a DEL.
SizeOf(value) == Len(value)
BecomesDelete(c) == SkipInStripe(BecomesKind(c, Delete))
RECURSIVE DeleteSizedNextLoop(_)
DeleteSizedNextLoop(c) ==
    LET n == NextInStripe(c)
        key == IterKey(n)
        adopted == [n EXCEPT !.value = IterValue(n),
                             !.missized = @ + (IF c.value # << >> THEN 1 ELSE 0)]
    IN  IF n.change # "skippable" THEN [n EXCEPT !.skip = ~NewStripe(n)]
        ELSE IF key.k = DeleteSized THEN DeleteSizedNextLoop(adopted)
        ELSE IF key.k \in Tombstones THEN BecomesDelete(adopted)
        ELSE IF n.value = << >> THEN BecomesDelete(n)
        ELSE IF SizeOf(IterValue(n)) # n.value[1]
             THEN BecomesDelete([n EXCEPT !.value = << >>, !.missized = @ + 1])
        ELSE DeleteSizedNextLoop([n EXCEPT !.value = << >>])
DeleteSizedNext(c) == DeleteSizedNextLoop([Saved(c) EXCEPT !.pos = "next", !.skip = TRUE])

\* A tombstone that hides nothing below: stripe 0 loses it, the others have it pinned.
Elided(c) ==
    LET s == SaveKey(c)
        n == IF s.key.k = SingleDelete THEN SkipDueToSingleDeleteElision(s) ELSE SkipInStripe(s)
    IN  IF n.change = "sameKey" THEN Panic(n) ELSE n
\* The next key may share its sequence number with one that was not merged.
Merged(c, m) == IF m.change = "nonSkippable" THEN m ELSE MaybeZeroSeqnum(m, c.idx)

RECURSIVE Find(_)
Find(c) ==
    LET key == IterKey(c)
        cover == Covers(c, key)
        d == [c EXCEPT !.pinned = c.change = "sameKey" \/ cover = "invisibly", !.force = cover = "invisibly"]
        e == [d EXCEPT !.elide = ElideTombstoneIndex(c, key.u)]
        elide == key.k \in Tombstones /\ ElideTombstone(c, key.u)
        t == [e EXCEPT !.pinned = @ \/ elide]
        merged == MergeNext(d)
        single == SingleDeleteNext(t)
    IN  IF key = Nil THEN c
        ELSE IF key.k = RangeDelete \/ key.k \in RangeKeyKinds THEN [Saved(c) EXCEPT !.pinned = FALSE]
        ELSE IF cover = "visibly" THEN Find(SkipInStripe(SaveKey(c)))
        ELSE IF elide /\ c.idx = 0 THEN Find(Elided(e))
        ELSE CASE key.k = Delete -> [Saved(t) EXCEPT !.skip = TRUE]
               [] key.k = DeleteSized -> DeleteSizedNext(t)
               [] key.k = SingleDelete -> IF single.valid THEN single ELSE Find(single)
               [] key.k \in {Set, SetWithDelete} -> SetNext(d)
               [] key.k = Merge -> IF NeedDelete(merged.value) THEN Find([merged EXCEPT !.valid = FALSE])
                                   ELSE Merged(d, merged)
IterNext(c) ==
    LET moved == IF c.pos = "cur" THEN IF c.skip THEN SkipInStripe(c) ELSE NextInStripe(c)
                 ELSE IF c.skip /\ c.change # "nonSkippable" THEN Panic(c) ELSE c
    IN  Find([moved EXCEPT !.pos = "cur", !.valid = FALSE])
IterFirst(c) ==
    LET s == [c EXCEPT !.p = 1, !.pos = "next", !.change = "newKey"]
    IN  IterNext(IF IterKey(s) = Nil THEN s ELSE InStripe(s))

EmitRangeDelChunk(opt, span) ==
    LET idx(j) == SnapshotIndex(span.keys[j], opt.snapshots)
        newest == {j \in DOMAIN span.keys : \A k \in 1 .. j - 1 : idx(k) # idx(j)}
        kept == IF ElideRangeTombstone(opt, span.start, span.end) THEN {j \in newest : idx(j) # 0} ELSE newest
    IN  [span EXCEPT !.keys = Ranked({span.keys[j] : j \in kept}, NewerSeqNum)]
EmittedTombstones(c) ==
    SelectSeq([j \in DOMAIN c.frag.out |-> EmitRangeDelChunk(c.opt, c.frag.out[j])], LAMBDA s : s.keys # << >>)

-----------------------------------------------------------------------------
\* rangeKeyCompactionTransform: keys are coalesced per stripe; what deletes nothing
\* goes when the span holds nothing older.
CoalesceStripe(keys) ==
    LET dels == {j \in DOMAIN keys : keys[j].k = RangeKeyDelete}
        del == CHOOSE j \in dels : \A k \in dels : j <= k
        kept == IF dels = {} THEN DOMAIN keys ELSE 1 .. del
        newest == {j \in kept : keys[j].k = RangeKeyDelete \/ \A k \in 1 .. j - 1 : keys[k].sfx # keys[j].sfx}
    IN  {keys[j] : j \in newest}
RangeKeyCompactionTransform(opt, span) ==
    LET stripe(i) == SelectSeq(span.keys, LAMBDA x : SnapshotIndex(x.s, opt.snapshots) = i)
        last(i) == \A j \in DOMAIN span.keys : SnapshotIndex(span.keys[j].s, opt.snapshots) >= i
        kept(i) == {x \in CoalesceStripe(stripe(i)) :
                      ~(last(i) /\ x.k # RangeKeySet /\ ElideRangeTombstone(opt, span.start, span.end))}
    IN  [span EXCEPT !.keys = Ranked(UNION {kept(i) : i \in 0 .. Len(opt.snapshots)}, NewerTrailer)]
RECURSIVE Defragment(_)
Defragment(spans) ==
    IF Len(spans) < 2 THEN spans
    ELSE LET a == spans[1]
             b == spans[2]
             rest == SubSeq(spans, 3, Len(spans))
         IN  IF a.end = b.start /\ a.keys = b.keys THEN Defragment(<<[a EXCEPT !.end = b.end]>> \o rest)
             ELSE <<a>> \o Defragment(Tail(spans))
\* newInputIter: points, range deletions at their start and newest sequence number,
\* range keys in front of every version of their start.
NewInputIter(opt, points, dels, rangeKeys) ==
    LET rd == RD!Fragment(RD!SortSpans(dels))
        fragmented == RK!Fragment(RK!SortSpans(rangeKeys))
        rk == Defragment(SelectSeq([j \in DOMAIN fragmented |-> RangeKeyCompactionTransform(opt, fragmented[j])],
                                   LAMBDA s : s.keys # << >>))
        entry(key, value, span) == [key |-> key, value |-> value, span |-> span]
    IN  Ranked({entry(x.key, x.value, Nil) : x \in points}
               \cup {entry(SmallestKey(rd[j]), << >>, rd[j]) : j \in DOMAIN rd}
               \cup {entry(MakeInternalKey(rk[j].start, SeqNumMax, rk[j].keys[1].k), << >>, rk[j]) : j \in DOMAIN rk},
               LAMBDA a, b : Before(a.key, b.key))

-----------------------------------------------------------------------------
\* runCompaction
NewCompaction(opt, in) ==
    [opt |-> opt, in |-> in, p |-> 1, key |-> Nil, trailer |-> Nil, value |-> << >>, valid |-> FALSE,
     skip |-> FALSE, pos |-> "next", change |-> "newKey", idx |-> 0, sn |-> 0, pinned |-> FALSE,
     force |-> FALSE, missized |-> 0, elide |-> 1, frag |-> RD!NewFragmenter, kfrag |-> RK!NewFragmenter,
     at |-> FALSE, seen |-> 0, next |-> 1, split |-> {}, limit |-> NoKey, prev |-> NoKey,
     frontier |-> [size |-> IF opt.grandparents = << >> THEN NoKey ELSE opt.grandparents[1].start,
                   gp |-> NoKey, l0 |-> NoKey],
     tw |-> Nil, out |-> << >>, pc |-> "start", err |-> ""]
NewTable == [points |-> << >>, dels |-> << >>, rangeKeys |-> << >>, lo |-> Nil, hi |-> Nil]
Opened(c) == IF c.tw = Nil THEN [c EXCEPT !.tw = NewTable] ELSE c

\* The bounds of a table: its least and its greatest internal key.
TableBounds(t) ==
    LET spans == t.rangeKeys
        keys == {t.points[j].key : j \in DOMAIN t.points}
                \cup {SmallestKey(t.dels[j]) : j \in DOMAIN t.dels} \cup {LargestKey(t.dels[j]) : j \in DOMAIN t.dels}
                \cup {MakeInternalKey(spans[j].start, spans[j].keys[1].s, spans[j].keys[1].k) : j \in DOMAIN spans}
                \cup {MakeExclusiveSentinelKey(spans[j].keys[1].k, spans[j].end) : j \in DOMAIN spans}
    IN  [t EXCEPT !.lo = CHOOSE x \in keys : \A y \in keys : ~Before(y, x),
                  !.hi = CHOOSE x \in keys : \A y \in keys : ~Before(x, y)]
\* What finishOutput verifies of the table it has written.
ErrorOnUserKeyOverlap(prev, t) == ~IsExclusiveSentinel(prev.hi) /\ prev.hi.u >= t.lo.u
Verified(c, t, splitKey) ==
    /\ c.out # << >> => LET prev == c.out[Len(c.out)]
                        IN  /\ t.dels # << >> => \/ t.dels[1].start > prev.hi.u
                                                 \/ t.dels[1].start = prev.hi.u /\ IsExclusiveSentinel(prev.hi)
                            /\ ~ErrorOnUserKeyOverlap(prev, t)
    /\ t.dels # << >> /\ splitKey # NoKey => t.dels[Len(t.dels)].end <= splitKey
    /\ t.lo.u >= c.opt.smallest /\ t.hi.u <= c.opt.largest
    /\ ~Before(t.hi, t.lo)
\* splitKey: tombstones and range keys go up to it, everything when it is nil.
FinishOutput(c, splitKey) ==
    LET tombs == EmittedTombstones(c)
        delStart == IF tombs # << >> THEN tombs[1].start ELSE FragStart(c.frag)
        startKey == IF delStart # NoKey THEN delStart
                    ELSE IF c.kfrag.out # << >> THEN c.kfrag.out[1].start ELSE FragStart(c.kfrag)
        flushed == [c EXCEPT !.frag = IF splitKey = NoKey THEN [pending |-> << >>, out |-> RD!Finish(@)]
                                      ELSE RD!TruncateAndFlushTo(@, splitKey),
                             !.kfrag = IF splitKey = NoKey THEN [pending |-> << >>, out |-> RK!Finish(@)]
                                       ELSE RK!TruncateAndFlushTo(@, splitKey)]
        dels == EmittedTombstones(flushed)
        rks == flushed.kfrag.out
        emptied == [flushed EXCEPT !.frag.out = << >>, !.kfrag.out = << >>]
        t == TableBounds([Opened(c).tw EXCEPT !.dels = dels, !.rangeKeys = rks])
    IN  IF c.tw = Nil /\ splitKey # NoKey /\ startKey = splitKey THEN c
        ELSE IF c.tw = Nil /\ dels = << >> /\ rks = << >> THEN emptied
        ELSE [emptied EXCEPT !.tw = Nil, !.out = Append(@, t),
                             !.err = IF Verified(c, t, splitKey) THEN @ ELSE "invariant"]

Exhausted(c) == ~c.valid
\* One key of the inner loop, already returned by the iterator.
AddKey(c) ==
    LET a == Asked(c)
        span == c.in[c.p].span
    IN  IF c.key.k = RangeDelete THEN IterNext([a EXCEPT !.frag = RD!AddSpan(@, span)])
        ELSE IF c.key.k \in RangeKeyKinds THEN IterNext([a EXCEPT !.kfrag = RK!AddSpan(@, span)])
        ELSE IterNext([Opened(a) EXCEPT !.prev = c.key.u,
                         !.tw.points = Append(@, [key |-> c.key, value |-> c.value, obsolete |-> c.force])])
SplitKey(c) == Lesser(c.limit, IF Exhausted(c) THEN NoKey ELSE c.key.u)
Step(c) ==
    LET done == Exhausted(c) /\ c.frag.pending = << >> /\ c.kfrag.pending = << >>
        first == IF Exhausted(c) THEN FragStart(c.frag) ELSE c.key.u
    IN  CASE c.pc = "start" -> [IterFirst(c) EXCEPT !.pc = "outer"]
          [] c.pc = "outer" -> IF done THEN [c EXCEPT !.pc = "done"] ELSE [OnNewOutput(c, first) EXCEPT !.pc = "inner"]
          [] c.pc = "inner" -> IF Exhausted(c) \/ ShouldSplitBefore(c, c.key)
                               THEN [FinishOutput(Asked(c), SplitKey(c)) EXCEPT !.pc = "outer"]
                               ELSE AddKey(c)
          [] c.pc = "done" -> c
=============================================================================
