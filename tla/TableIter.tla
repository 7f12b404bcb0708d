----------------------------- MODULE TableIter -----------------------------
(***************************************************************************)
(* Point iterators over one sstable: singleLevelIterator and               *)
(* twoLevelIterator (sstable/reader_iter_single_lvl.go,                    *)
(* reader_iter_two_lvl.go), the virtual bounds of reader_virtual.go, and   *)
(* the table the writer lays out for them (sstable/writer.go).  A table is *)
(* a sequence of data blocks, index blocks whose entries name data blocks, *)
(* and, if there are several index blocks, a top level index.  The only    *)
(* block property is the obsolete one; reads do not fail.                  *)
(***************************************************************************)
EXTENDS InternalKeys
B == INSTANCE BlockIter

NoLower == 0
NoUpper == 99
NumStepsBeforeSeek == 1      \* 4 in the code

-----------------------------------------------------------------------------
\* Writer.

\* An index entry's key is at or above the keys of its block and below those of
\* the next; gap says that the comparer finds a shorter one in between.
IndexEntrySep(prev, next, gap) ==
    IF gap /\ (next = Nil \/ prev.u + 1 < next.u)
    THEN MakeInternalKey(prev.u + 1, SeqNumMax, RangeDelete) ELSE prev

\* addPoint over the keys of a table: cuts are the keys before which a data block
\* is full, icuts the data blocks before which an index block is.
RECURSIVE AddPoints(_, _, _, _, _)
AddPoints(points, n, prev, o, w) ==
    IF n > Len(points) THEN Append(w.blocks, [keys |-> w.keys, blk |-> B!Finish(w.cur), obs |-> w.obs])
    ELSE LET key == points[n]
             obs == o.v4 /\ B!IsObsolete(prev, key, o.lowest)
             same == o.v3 /\ B!SameKindAndPrefix(prev, key)
             flush == n \in o.cuts
             f == IF flush THEN [blocks |-> Append(w.blocks, [keys |-> w.keys, blk |-> B!Finish(w.cur), obs |-> w.obs]),
                                 keys |-> << >>, cur |-> B!EmptyWriter, obs |-> TRUE]
                  ELSE w
         IN  AddPoints(points, n + 1, [u |-> key.u, k |-> key.k, obs |-> obs], o,
                       [f EXCEPT !.keys = Append(@, key), !.obs = @ /\ obs,
                                 !.cur = B!StoreWithOptionalValuePrefix(@, key, obs, 0, same, o.interval)])

\* addIndexEntry and writeTwoLevelIndex: an index block has restart interval 1.
RECURSIVE AddIndexEntries(_, _, _, _)
AddIndexEntries(blocks, n, o, parts) ==
    IF n > Len(blocks) THEN parts
    ELSE LET blk == blocks[n]
             sep == IndexEntrySep(blk.keys[Len(blk.keys)],
                                  IF n = Len(blocks) THEN Nil ELSE blocks[n + 1].keys[1], o.gap)
             fresh == n = 1 \/ n \in o.icuts
             part == IF fresh THEN [w |-> B!EmptyWriter, sep |-> Nil, obs |-> TRUE] ELSE parts[Len(parts)]
             added == [w |-> B!Add(part.w, sep, [blk |-> n, obs |-> blk.obs], 1), sep |-> sep,
                       obs |-> part.obs /\ blk.obs]
         IN  AddIndexEntries(blocks, n + 1, o,
                 IF fresh THEN Append(parts, added) ELSE [parts EXCEPT ![Len(parts)] = added])
RECURSIVE AddTopLevel(_, _, _)
AddTopLevel(parts, n, w) ==
    IF n > Len(parts) THEN B!Finish(w)
    ELSE AddTopLevel(parts, n + 1, B!Add(w, parts[n].sep, [blk |-> n, obs |-> parts[n].obs], 1))

WriteTable(points, o) ==
    LET blocks == AddPoints(points, 1, Nil, o,
                            [blocks |-> << >>, keys |-> << >>, cur |-> B!EmptyWriter, obs |-> TRUE])
        parts == AddIndexEntries(blocks, 1, o, << >>)
    IN  [data |-> [i \in DOMAIN blocks |-> blocks[i].blk],
         index |-> [i \in DOMAIN parts |-> B!Finish(parts[i].w)],
         top |-> AddTopLevel(parts, 1, B!EmptyWriter),
         two |-> Len(parts) > 1,
         prefixes |-> {points[i].u : i \in DOMAIN points}]

-----------------------------------------------------------------------------
\* The state of an iterator.  vs holds the smallest and largest key of a virtual
\* table; incl is endKeyInclusive, exh exhaustedBounds, bcmp boundsCmp, fresh
\* positionedUsingLatestBounds, matched lastBloomFilterMatched; dataBH is the data
\* block last considered and res what loading it gave; key is what was returned.

ConstrainBounds(vs, lower, upper) ==
    LET exclusive == IsExclusiveSentinel(vs.upper)
    IN  [lower |-> IF lower = NoLower \/ lower < vs.lower.u THEN vs.lower.u ELSE lower,
         upper |-> IF upper = NoUpper \/ upper >= vs.upper.u THEN vs.upper.u ELSE upper,
         incl |-> (upper = NoUpper \/ upper > vs.upper.u) /\ ~exclusive]

Bounds(vs, lower, upper) ==
    IF vs = Nil THEN [lower |-> lower, upper |-> upper, incl |-> FALSE]
    ELSE ConstrainBounds(vs, lower, upper)

NoBlock == B!Invalidate(B!Load([entries |-> << >>, restarts |-> << >>], 0, FALSE, FALSE))

Init(tab, vs, v3, hide, useFilter, falsePositives, globalSeqNum) ==
    LET b == Bounds(vs, NoLower, NoUpper)
    IN  [tab |-> tab, vs |-> vs, v3 |-> v3, hide |-> hide, useFilter |-> useFilter,
         maybe |-> falsePositives, gseq |-> globalSeqNum,
         lower |-> b.lower, upper |-> b.upper, incl |-> b.incl,
         blockLower |-> NoLower, blockUpper |-> NoUpper,
         top |-> IF tab.two THEN B!Load(tab.top, globalSeqNum, FALSE, FALSE) ELSE NoBlock,
         index |-> IF tab.two THEN NoBlock ELSE B!Load(tab.index[1], globalSeqNum, FALSE, FALSE),
         data |-> NoBlock, dataBH |-> 0, res |-> "ok",
         bcmp |-> 0, fresh |-> FALSE, exh |-> 0, matched |-> FALSE, key |-> Nil]

SetBounds(t, lower, upper) ==
    LET b == Bounds(t.vs, lower, upper)
    IN  [t EXCEPT !.lower = b.lower, !.upper = b.upper, !.incl = b.incl,
                  !.blockLower = NoLower, !.blockUpper = NoUpper, !.fresh = FALSE, !.key = Nil,
                  !.bcmp = IF t.vs # Nil \/ ~t.fresh THEN 0
                           ELSE IF t.upper # NoUpper /\ lower # NoLower /\ t.upper <= lower THEN 1
                           ELSE IF t.lower # NoLower /\ upper # NoUpper /\ upper <= t.lower THEN -1
                           ELSE 0]

Above(t, u, bound) == bound # NoUpper /\ (u > bound \/ (u = bound /\ ~t.incl))
Below(u, bound) == bound # NoLower /\ u < bound
None(t) == [t EXCEPT !.key = Nil]
InvalidData(t) == [t EXCEPT !.data = B!Invalidate(@), !.key = Nil]
ExhaustUpper(t) == [t EXCEPT !.exh = 1, !.key = Nil]
ExhaustLower(t) == [t EXCEPT !.exh = -1, !.key = Nil]
CheckUpper(t) ==
    IF Above(t, t.data.ikey.u, t.blockUpper) THEN ExhaustUpper(t) ELSE [t EXCEPT !.key = t.data.ikey]
CheckLower(t) ==
    IF Below(t.data.ikey.u, t.blockLower) THEN ExhaustLower(t) ELSE [t EXCEPT !.key = t.data.ikey]

\* A bound that the whole block meets is not checked again; initBounds positions
\* the data iterator to find out.
TrimUpper(t) == IF t.upper # NoUpper /\ t.upper > t.index.ikey.u THEN NoUpper ELSE t.upper
InitBounds(t) ==
    LET first == IF t.lower # NoLower THEN B!First(t.data) ELSE t.data
    IN  [t EXCEPT !.data = first, !.blockUpper = TrimUpper(t),
                  !.blockLower = IF t.lower # NoLower /\ first.ok /\ t.lower < first.ikey.u
                                 THEN NoLower ELSE t.lower]
InitBoundsForAlreadyLoadedBlock(t) ==
    [t EXCEPT !.blockUpper = TrimUpper(t),
              !.blockLower = IF t.lower # NoLower /\ t.lower < B!FirstUserKey(t.data)
                             THEN NoLower ELSE t.lower]

LoadBlock(t) ==
    LET bhp == B!Value(t.index)
        invalid == [InvalidData(t) EXCEPT !.dataBH = bhp.blk]
    IN  IF ~B!Valid(t.index) THEN [InvalidData(t) EXCEPT !.res = "failed"]
        ELSE IF t.dataBH = bhp.blk /\ B!Valid(t.data) THEN [InitBounds(t) EXCEPT !.res = "ok"]
        ELSE IF t.hide /\ bhp.obs THEN [invalid EXCEPT !.res = "irrelevant"]
        ELSE InitBounds([invalid EXCEPT !.res = "ok",
                            !.data = B!Load(t.tab.data[bhp.blk], t.gseq, t.hide, t.v3)])

-----------------------------------------------------------------------------
\* singleLevelIterator.

RECURSIVE SkipForward(_), SkipBackward(_)
SkipForward(t) ==
    LET moved == [t EXCEPT !.index = B!Next(@)]
        l == LoadBlock(moved)
        first == [l EXCEPT !.data = B!First(@)]
    IN  IF ~moved.index.ok THEN InvalidData(moved)
        ELSE IF l.res = "irrelevant"
        THEN IF Above(l, l.index.ikey.u, l.upper) THEN ExhaustUpper(l) ELSE SkipForward(l)
        ELSE IF first.data.ok THEN CheckUpper(first) ELSE SkipForward(first)
SkipBackward(t) ==
    LET moved == [t EXCEPT !.index = B!Prev(@)]
        l == LoadBlock(moved)
        last == [l EXCEPT !.data = B!Last(@)]
    IN  IF ~moved.index.ok THEN InvalidData(moved)
        ELSE IF l.res = "irrelevant"
        THEN IF Below(l.index.ikey.u, l.lower) THEN ExhaustLower(l) ELSE SkipBackward(l)
        ELSE IF last.data.ok THEN CheckLower(last) ELSE None(last)

\* A block that the obsolete filter excludes is passed unless the bound is.
PassForward(t) == IF Above(t, t.index.ikey.u, t.upper) THEN ExhaustUpper(t) ELSE SkipForward(t)
PassBackward(t) == IF Below(t.index.ikey.u, t.lower) THEN ExhaustLower(t) ELSE SkipBackward(t)
ShownForward(t) == IF t.data.ok THEN CheckUpper(t) ELSE SkipForward(t)
ShownBackward(t) == IF t.data.ok THEN CheckLower(t) ELSE SkipBackward(t)

SingleNext(t0) ==
    LET t == [t0 EXCEPT !.exh = 0, !.bcmp = 0]
    IN  ShownForward([t EXCEPT !.data = B!Next(@)])
SinglePrev(t0) ==
    LET t == [t0 EXCEPT !.exh = 0, !.bcmp = 0]
    IN  ShownBackward([t EXCEPT !.data = B!Prev(@)])

SingleNextPrefix(t0, succ) ==
    LET t == [t0 EXCEPT !.exh = 0, !.bcmp = 0]
        within == [t EXCEPT !.data = B!NextPrefix(@, succ)]
        stepped == [within EXCEPT !.index = B!Next(@)]
        sought == IF stepped.index.ok /\ succ > stepped.index.ikey.u
                  THEN [stepped EXCEPT !.index = B!SeekGE(@, succ)] ELSE stepped
        l == LoadBlock(sought)
    IN  IF within.data.ok THEN CheckUpper(within)
        ELSE IF ~sought.index.ok THEN InvalidData(sought)
        ELSE IF l.res = "irrelevant" THEN PassForward(l)
        ELSE ShownForward([l EXCEPT !.data = B!SeekGE(@, succ)])

\* The bounds have moved past the old ones and the block is the right one: step.
RECURSIVE NextsWithinBlock(_, _, _), PrevsWithinBlock(_, _, _), NextsToKey(_, _, _)
NextsWithinBlock(t, u, j) ==
    IF j = 0 \/ ~t.data.ok \/ t.data.ikey.u >= u THEN t
    ELSE NextsWithinBlock([t EXCEPT !.data = B!Next(@)], u, j - 1)
TrySeekGEUsingNextWithinBlock(t0, u) ==
    LET t == NextsWithinBlock([t0 EXCEPT !.data = B!Returned(@)], u, NumStepsBeforeSeek - 1)
    IN  IF t.data.ikey.u >= u /\ t.data.ok THEN [t |-> CheckUpper(t), done |-> TRUE]
        ELSE LET n == [t EXCEPT !.data = IF @.ok THEN B!Next(@) ELSE @] IN [t |-> n, done |-> FALSE]
PrevsWithinBlock(t, u, j) ==
    IF j = 0 \/ ~t.data.ok \/ t.data.ikey.u < u THEN t
    ELSE PrevsWithinBlock([t EXCEPT !.data = B!Prev(@)], u, j - 1)
TrySeekLTUsingPrevWithinBlock(t0, u) ==
    LET t == PrevsWithinBlock([t0 EXCEPT !.data = B!Returned(@)], u, NumStepsBeforeSeek - 1)
    IN  IF t.data.ikey.u < u /\ t.data.ok THEN [t |-> CheckLower(t), done |-> TRUE]
        ELSE LET p == [t EXCEPT !.data = IF @.ok THEN B!Prev(@) ELSE @] IN [t |-> p, done |-> FALSE]

\* TrySeekUsingNext: a few steps, which may leave the block.
NextsToKey(t, u, j) ==
    IF j = 0 \/ t.key = Nil \/ t.key.u >= u THEN t ELSE NextsToKey(SingleNext(t), u, j - 1)

InRightBlock(t) == ~t.data.inval /\ ~t.index.inval /\ B!Valid(t.data) /\ B!Valid(t.index)

SeekWithinBlock(t, u) == ShownForward([t EXCEPT !.data = B!SeekGE(@, u)])
SeekGESlowly(t, u) ==
    LET sought == [t EXCEPT !.index = B!SeekGE(@, u)]
        l == LoadBlock(sought)
    IN  IF ~sought.index.ok THEN InvalidData(sought)
        ELSE IF l.res = "failed" THEN None(l)
        ELSE IF l.res = "irrelevant" THEN PassForward(l)
        ELSE SeekWithinBlock(l, u)
SeekGEHelper(t, u, bcmp, try) ==
    LET within == TrySeekGEUsingNextWithinBlock(InitBoundsForAlreadyLoadedBlock(t), u)
        stepped == NextsToKey([t EXCEPT !.key = t.data.ikey], u, NumStepsBeforeSeek)
    IN  IF InRightBlock(t) /\ bcmp > 0 /\ u <= t.index.ikey.u
        THEN IF within.done THEN within.t
             ELSE IF within.t.data.ok THEN SeekWithinBlock(within.t, u) ELSE SkipForward(within.t)
        ELSE IF try /\ stepped.key = Nil THEN stepped
        ELSE IF try /\ stepped.key.u >= u
        THEN IF Above(stepped, stepped.key.u, stepped.blockUpper) THEN ExhaustUpper(stepped) ELSE stepped
        ELSE SeekGESlowly(IF try THEN stepped ELSE t, u)

Clamped(t, u) == IF t.vs # Nil /\ u < t.lower THEN t.lower ELSE u
SeekGEFrom(t, u, try) ==
    IF try /\ (t.exh = 1 \/ t.data.inval) THEN None(t)
    ELSE SeekGEHelper([t EXCEPT !.exh = 0, !.bcmp = 0, !.fresh = TRUE], u, t.bcmp, try)
SingleSeekGE(t, u, try) == SeekGEFrom(t, Clamped(t, u), try)

\* The bloom filter never misses a prefix of the table; it may match others.
MayContain(t, prefix) == prefix \in t.tab.prefixes \/ t.maybe
SingleSeekPrefixGE(t, u, try) ==
    LET m == [t EXCEPT !.matched = t.useFilter /\ MayContain(t, u)]
    IN  IF ~t.useFilter THEN SeekGEFrom(t, Clamped(t, u), try)
        ELSE IF ~m.matched THEN InvalidData(m)
        ELSE SeekGEFrom(m, Clamped(t, u), try /\ t.matched)

\* virtualLast: past the last key at an inclusive upper bound, then back.
RECURSIVE SingleNextsAt(_, _)
SingleNextsAt(t, u) == IF t.key # Nil /\ t.key.u = u THEN SingleNextsAt(SingleNext(t), u) ELSE t
SingleVirtualLast(t) ==
    LET sought == SingleSeekGE(t, t.upper, FALSE)
    IN  SinglePrev(IF t.incl THEN SingleNextsAt(sought, t.upper) ELSE sought)

SeekLTSlowly(t, u) ==
    LET ge == [t EXCEPT !.index = B!SeekGE(@, u)]
        sought == IF ge.index.ok THEN ge ELSE [ge EXCEPT !.index = B!Last(@)]
        l == LoadBlock(sought)
    IN  IF ~sought.index.ok THEN None(sought)
        ELSE IF l.res = "failed" THEN None(l)
        ELSE IF l.res = "irrelevant" THEN PassBackward(l)
        ELSE ShownBackward([l EXCEPT !.data = B!SeekLT(@, u)])
SingleSeekLT(t0, u) ==
    LET t == [t0 EXCEPT !.exh = 0, !.bcmp = 0, !.fresh = TRUE]
        within == TrySeekLTUsingPrevWithinBlock(InitBoundsForAlreadyLoadedBlock(t), u)
    IN  IF t.vs # Nil /\ u > t.upper THEN SingleVirtualLast(t0)
        ELSE IF InRightBlock(t) /\ t0.bcmp < 0 /\ B!FirstUserKey(t.data) < u
        THEN IF within.done THEN within.t
             ELSE IF within.t.data.ok THEN ShownBackward([within.t EXCEPT !.data = B!SeekLT(@, u)])
             ELSE SkipBackward(within.t)
        ELSE SeekLTSlowly(t, u)

FirstInternal(t0) ==
    LET t == [t0 EXCEPT !.exh = 0, !.bcmp = 0, !.index = B!First(@)]
        l == LoadBlock(t)
    IN  IF ~t.index.ok THEN InvalidData(t)
        ELSE IF l.res = "irrelevant" THEN PassForward(l)
        ELSE ShownForward([l EXCEPT !.data = B!First(@)])
LastInternal(t0) ==
    LET t == [t0 EXCEPT !.exh = 0, !.bcmp = 0, !.index = B!Last(@)]
        l == LoadBlock(t)
    IN  IF ~t.index.ok THEN InvalidData(t)
        ELSE IF l.res = "irrelevant" THEN PassBackward(l)
        ELSE ShownBackward([l EXCEPT !.data = B!Last(@)])
SingleFirst(t) ==
    IF t.vs # Nil THEN SingleSeekGE(t, t.lower, FALSE) ELSE FirstInternal([t EXCEPT !.fresh = TRUE])
SingleLast(t) ==
    IF t.vs # Nil THEN SingleVirtualLast(t) ELSE LastInternal([t EXCEPT !.fresh = TRUE])

-----------------------------------------------------------------------------
\* twoLevelIterator: the single level iterator over the index block that the top
\* level index points to.

Invalidated(t) == [InvalidData(t) EXCEPT !.index = B!Invalidate(@)]
LoadIndex(t0) ==
    LET t == Invalidated(t0)
        bhp == B!Value(t.top)
    IN  IF ~B!Valid(t.top) THEN [t EXCEPT !.res = "failed"]
        ELSE IF t.hide /\ bhp.obs THEN [t EXCEPT !.res = "irrelevant"]
        ELSE [t EXCEPT !.res = "ok", !.index = B!Load(t.tab.index[bhp.blk], t.gseq, FALSE, FALSE)]

\* An index block that is filtered out may already be behind the bound.
UpperAtTop(t) == IF Above(t, t.top.ikey.u, t.upper) THEN [t EXCEPT !.exh = 1] ELSE t
LowerAtTop(t) == IF Below(t.top.ikey.u, t.lower) THEN [t EXCEPT !.exh = -1] ELSE t

RECURSIVE TwoSkipForward(_), TwoSkipBackward(_)
TwoSkipForward(t) ==
    LET moved == [t EXCEPT !.exh = 0, !.top = B!Next(@)]
        l == LoadIndex(moved)
        first == FirstInternal(l)
    IN  IF t.exh > 0 THEN None(t)
        ELSE IF ~moved.top.ok THEN Invalidated(moved)
        ELSE IF l.res = "irrelevant" THEN TwoSkipForward(UpperAtTop(l))
        ELSE IF first.key # Nil THEN first ELSE TwoSkipForward(first)
TwoSkipBackward(t) ==
    LET moved == [t EXCEPT !.exh = 0, !.top = B!Prev(@)]
        l == LoadIndex(moved)
        last == LastInternal(l)
    IN  IF t.exh < 0 THEN None(t)
        ELSE IF ~moved.top.ok THEN Invalidated(moved)
        ELSE IF l.res = "irrelevant" THEN TwoSkipBackward(LowerAtTop(l))
        ELSE IF last.key # Nil THEN last ELSE TwoSkipBackward(last)

OrSkipForward(t) == IF t.key # Nil THEN t ELSE TwoSkipForward(t)
OrSkipBackward(t) == IF t.key # Nil THEN t ELSE TwoSkipBackward(t)

TwoExhausted(t) == t.exh = 1 \/ (t.data.inval /\ t.index.inval)
\* Where SeekGE and SeekPrefixGE must position the top level index again.
TopIsElsewhere(t, u, try) ==
    t.top.inval \/ ~B!Valid(t.top) \/ t.index.inval \/ (t.bcmp <= 0 /\ ~try) \/ u > t.top.ikey.u
TwoSeekFrom(t0, u, try) ==
    LET t == [t0 EXCEPT !.exh = 0, !.top = B!SeekGE(@, u)]
        l == LoadIndex(t)
        nexting == try /\ ~(t0.bcmp > 0)
        here == IF nexting THEN t0 ELSE [t0 EXCEPT !.exh = 0]
    IN  IF ~TopIsElsewhere(t0, u, try) THEN OrSkipForward(SeekGEFrom(here, u, nexting))
        ELSE IF ~t.top.ok THEN Invalidated(t)
        ELSE IF l.res = "irrelevant" THEN TwoSkipForward([UpperAtTop(l) EXCEPT !.bcmp = 0])
        ELSE OrSkipForward(SeekGEFrom(l, u, FALSE))

TwoSeekGE(t, u, try) ==
    IF try /\ TwoExhausted(t) THEN None(t) ELSE TwoSeekFrom(t, Clamped(t, u), try)
TwoSeekPrefixGE(t, u, try) ==
    LET m == [t EXCEPT !.matched = t.useFilter /\ MayContain(t, u)]
    IN  IF try /\ ~(t.useFilter /\ ~t.matched) /\ TwoExhausted(t) THEN None(t)
        ELSE IF ~t.useFilter THEN TwoSeekFrom(t, Clamped(t, u), try)
        ELSE IF ~m.matched THEN InvalidData(m)
        ELSE TwoSeekFrom(m, Clamped(t, u), try /\ t.matched)

TwoNext(t) == OrSkipForward(SingleNext([t EXCEPT !.bcmp = 0]))
TwoPrev(t) == OrSkipBackward(SinglePrev([t EXCEPT !.bcmp = 0]))

RECURSIVE TwoNextsAt(_, _)
TwoNextsAt(t, u) == IF t.key # Nil /\ t.key.u = u THEN TwoNextsAt(TwoNext(t), u) ELSE t
TwoVirtualLast(t) ==
    LET sought == TwoSeekGE(t, t.upper, FALSE)
    IN  TwoPrev(IF t.incl THEN TwoNextsAt(sought, t.upper) ELSE sought)

TwoSeekLT(t0, u) ==
    LET t == [t0 EXCEPT !.exh = 0, !.bcmp = 0, !.top = B!SeekGE(@, u)]
        last == [t EXCEPT !.top = B!Last(@)]
        l == LoadIndex(IF t.top.ok THEN t ELSE last)
    IN  IF t0.vs # Nil /\ u > t0.upper THEN TwoVirtualLast(t0)
        ELSE IF l.res = "irrelevant" THEN TwoSkipBackward(LowerAtTop(l))
        ELSE OrSkipBackward(IF t.top.ok THEN SingleSeekLT(l, u) ELSE LastInternal(l))

TwoFirst(t0) ==
    LET t == [t0 EXCEPT !.exh = 0, !.bcmp = 0, !.top = B!First(@)]
        l == LoadIndex(t)
    IN  IF t0.vs # Nil THEN TwoSeekGE(t0, t0.lower, FALSE)
        ELSE IF l.res = "irrelevant" THEN TwoSkipForward(UpperAtTop(l))
        ELSE OrSkipForward(SingleFirst(l))
TwoLast(t0) ==
    LET t == [t0 EXCEPT !.exh = 0, !.bcmp = 0, !.top = B!Last(@)]
        l == LoadIndex(t)
    IN  IF t0.vs # Nil THEN IF t0.incl THEN TwoVirtualLast(t0) ELSE TwoSeekLT(t0, t0.upper)
        ELSE IF l.res = "irrelevant" THEN TwoSkipBackward(LowerAtTop(l))
        ELSE OrSkipBackward(SingleLast(l))

TwoNextPrefix(t0, succ) ==
    LET within == SingleNextPrefix([t0 EXCEPT !.bcmp = 0], succ)
        t == [within EXCEPT !.top = B!SeekGE(@, succ)]
        l == LoadIndex(t)
    IN  IF within.key # Nil THEN within
        ELSE IF ~t.top.ok THEN Invalidated(t)
        ELSE IF l.res = "irrelevant" THEN TwoSkipForward(UpperAtTop(l))
        ELSE OrSkipForward(SingleSeekGE(l, succ, FALSE))

-----------------------------------------------------------------------------
\* The iterator of a table is chosen by the kind of its index.
SeekGE(t, u, try) == IF t.tab.two THEN TwoSeekGE(t, u, try) ELSE SingleSeekGE(t, u, try)
SeekPrefixGE(t, u, try) ==
    IF t.tab.two THEN TwoSeekPrefixGE(t, u, try) ELSE SingleSeekPrefixGE(t, u, try)
SeekLT(t, u) == IF t.tab.two THEN TwoSeekLT(t, u) ELSE SingleSeekLT(t, u)
First(t) == IF t.tab.two THEN TwoFirst(t) ELSE SingleFirst(t)
Last(t) == IF t.tab.two THEN TwoLast(t) ELSE SingleLast(t)
Next(t) == IF t.tab.two THEN TwoNext(t) ELSE SingleNext(t)
Prev(t) == IF t.tab.two THEN TwoPrev(t) ELSE SinglePrev(t)
NextPrefix(t, succ) == IF t.tab.two THEN TwoNextPrefix(t, succ) ELSE SingleNextPrefix(t, succ)
============================================================================
