---------------------------- MODULE KeyspanIters ----------------------------
(***************************************************************************)
(* Package keyspan: fragmenting spans, and the iterators that truncate,    *)
(* merge, bound and defragment fragmented spans.  An iterator is a record  *)
(* whose field span is what its last call returned.  The package is        *)
(* generic in the keys of a span, and so is the module.                    *)
(***************************************************************************)
EXTENDS InternalKeys

CONSTANTS NewerKey(_, _),     \* trailers descend
          Transform(_),       \* MergingIter's Transformer
          SameState(_, _),    \* DefragmentingIter's DefragmentMethod
          PrefixOf(_)         \* the Comparer's Split

NoKey == -1                   \* a nil user key
Returning(it, span) == [it EXCEPT !.span = span]

-----------------------------------------------------------------------------
\* Fragmenter: pending spans share their start, emitted ones do not overlap.

NewFragmenter == [pending |-> << >>, out |-> << >>]
RECURSIVE Concat(_)
Concat(seqs) == IF seqs = << >> THEN << >> ELSE Head(seqs) \o Concat(Tail(seqs))
SortKeysByTrailer(keys) == Ranked({keys[i] : i \in DOMAIN keys}, NewerKey)

\* Split at every end: the shortest spans of buf end at split.
RECURSIVE Flush(_, _)
Flush(buf, out) ==
    LET split == CHOOSE e \in {buf[i].end : i \in DOMAIN buf} : \A i \in DOMAIN buf : e <= buf[i].end
        rest == SelectSeq(buf, LAMBDA s : s.end # split)
    IN  IF buf = << >> THEN out
        ELSE Flush([i \in DOMAIN rest |-> [rest[i] EXCEPT !.start = split]],
                   Append(out, Span(buf[1].start, split,
                                    SortKeysByTrailer(Concat([i \in DOMAIN buf |-> buf[i].keys])))))

TruncateAndFlush(f, u) ==
    LET done == [i \in DOMAIN f.pending |->
                   IF u < f.pending[i].end THEN [f.pending[i] EXCEPT !.end = u] ELSE f.pending[i]]
        left == SelectSeq(f.pending, LAMBDA s : u < s.end)
    IN  [pending |-> [i \in DOMAIN left |-> [left[i] EXCEPT !.start = u]],
         out |-> Flush(SelectSeq(done, LAMBDA s : s.start < s.end), f.out)]
AddSpan(f, span) ==
    IF span.start >= span.end THEN f
    ELSE LET g == IF f.pending # << >> /\ f.pending[1].start < span.start
                  THEN TruncateAndFlush(f, span.start) ELSE f
         IN  [g EXCEPT !.pending = Append(@, span)]
TruncateAndFlushTo(f, u) ==
    IF f.pending # << >> /\ f.pending[1].start = u THEN f ELSE TruncateAndFlush(f, u)
Finish(f) == Flush(f.pending, f.out)
RECURSIVE AddSpans(_, _)
AddSpans(f, spans) == IF spans = << >> THEN f ELSE AddSpans(AddSpan(f, Head(spans)), Tail(spans))
SortSpans(S) == Ranked(S, LAMBDA a, b : a.start < b.start)
Fragment(spans) == Finish(AddSpans(NewFragmenter, spans))

-----------------------------------------------------------------------------
\* keyspan.Iter, over spans in memory.
NewIter(spans) == [kind |-> "iter", spans |-> spans, i |-> 0, span |-> Nil]
At(c, i) == [c EXCEPT !.i = i, !.span = SpanAt(c.spans, i)]
IterFirst(c) == IF c.spans = << >> THEN Returning(c, Nil) ELSE At(c, 1)
IterLast(c) == IF c.spans = << >> THEN Returning(c, Nil) ELSE At(c, Len(c.spans))
IterNext(c) == IF c.i > Len(c.spans) THEN Returning(c, Nil) ELSE At(c, c.i + 1)
IterPrev(c) == IF c.i < 1 THEN Returning(c, Nil) ELSE At(c, c.i - 1)
IterSeekGE(c, u) == At(c, SeekGEIndex(c.spans, u))
IterSeekLT(c, u) == At(c, SeekLTIndex(c.spans, u))

\* Truncate: a filteringIter that cuts spans to [lower, upper) and drops what lies
\* outside start and end, the bounds of the file (end is a user key and a trailer).
NewTruncate(spans, lower, upper, start, end) ==
    [kind |-> "truncate", it |-> NewIter(spans), lower |-> lower, upper |-> upper,
     start |-> start, end |-> end, span |-> Nil]
Truncated(c, in) ==
    Span(IF in.start < c.lower THEN c.lower ELSE in.start, IF in.end > c.upper THEN c.upper ELSE in.end,
         IF in.end <= c.start \/ in.start > c.end.u THEN << >>
         ELSE IF in.start = c.end.u THEN SelectSeq(in.keys, LAMBDA x : ~NewerKey(c.end.key, x))
         ELSE in.keys)
RECURSIVE Filtered(_, _, _)
Filtered(c, it, dir) ==
    LET out == Truncated(c, it.span)
    IN  IF it.span = Nil THEN [c EXCEPT !.it = it, !.span = Nil]
        ELSE IF ~Empty(out) /\ out.start < out.end THEN [c EXCEPT !.it = it, !.span = out]
        ELSE Filtered(c, IF dir = 1 THEN IterNext(it) ELSE IterPrev(it), dir)
TruncateNext(c) == Filtered(c, IterNext(c.it), 1)
TruncatePrev(c) == Filtered(c, IterPrev(c.it), -1)
\* The cut may have moved the span past the key that was sought.
TruncateSeekGE(c, u) ==
    LET d == Filtered(c, IterSeekGE(c.it, u), 1)
    IN  IF d.span # Nil /\ d.span.end <= u THEN TruncateNext(d) ELSE d
TruncateSeekLT(c, u) ==
    LET d == Filtered(c, IterSeekLT(c.it, u), -1)
    IN  IF d.span # Nil /\ d.span.start >= u THEN TruncatePrev(d) ELSE d

-----------------------------------------------------------------------------
\* keyspan.LevelIter: one file open at a time; in range key mode the gap between two
\* files is an empty span (straddle), for which no file is opened.
File(lo, hi, excl, spans) == [lo |-> lo, hi |-> hi, excl |-> excl, spans |-> spans]
NewLevelIter(files, ranged) ==
    [kind |-> "level", files |-> files, ranged |-> ranged, f |-> 0, it |-> Nil, dir |-> 0,
     straddleDir |-> 0, span |-> Nil]
Current(l) == l.f \in DOMAIN l.files
LoadFile(l, f) ==
    IF f = l.f /\ l.it # Nil THEN l
    ELSE [l EXCEPT !.f = f, !.it = IF f \in DOMAIN l.files THEN NewIter(l.files[f].spans) ELSE Nil]
FindFileGE(l, u) ==
    Cardinality({i \in DOMAIN l.files : l.files[i].hi < u \/ (l.files[i].excl /\ l.files[i].hi = u)}) + 1
FindFileLT(l, u) == Cardinality({i \in DOMAIN l.files : l.files[i].lo < u})
Straddle(l, f, dir, before) ==
    [l EXCEPT !.f = f, !.it = Nil, !.dir = dir, !.straddleDir = dir,
              !.span = Span(l.files[before].hi, l.files[before + 1].lo, << >>)]
With(l, it) == [l EXCEPT !.it = it, !.span = it.span]
Turned(l, dir) == [l EXCEPT !.dir = dir, !.straddleDir = 0]

RECURSIVE LoadForward(_), LoadBackward(_)
LoadForward(l) ==
    LET g == LoadFile([l EXCEPT !.straddleDir = 0], IF l.ranged THEN l.f ELSE l.f + 1)
        n == With(g, IterFirst(g.it))
    IN  IF g.it = Nil THEN Returning(g, Nil)
        ELSE IF l.ranged \/ ~Empty(n.span) THEN n ELSE LoadForward(n)
LoadBackward(l) ==
    LET g == LoadFile([l EXCEPT !.straddleDir = 0], IF l.ranged THEN l.f ELSE l.f - 1)
        n == With(g, IterLast(g.it))
    IN  IF g.it = Nil THEN Returning(g, Nil)
        ELSE IF l.ranged \/ ~Empty(n.span) THEN n ELSE LoadBackward(n)
SkipEmptyFileForward(l) ==
    LET g == [l EXCEPT !.it = Nil, !.f = @ + 1]
    IN  IF l.straddleDir = 0 /\ l.ranged /\ Current(l) /\ l.it # Nil
        THEN IF ~Current(g) THEN Returning(g, Nil)
             ELSE IF l.files[l.f].hi < g.files[g.f].lo THEN Straddle(g, g.f, 1, l.f)
             ELSE LoadForward(g)
        ELSE IF l.straddleDir < 0 THEN LoadForward([l EXCEPT !.f = @ + 1])
        ELSE LoadForward(l)
SkipEmptyFileBackward(l) ==
    LET g == [l EXCEPT !.it = Nil, !.f = @ - 1]
    IN  IF l.straddleDir = 0 /\ l.ranged /\ Current(l) /\ l.it # Nil
        THEN IF ~Current(g) THEN Returning(g, Nil)
             ELSE IF g.files[g.f].hi < l.files[l.f].lo THEN Straddle(g, g.f, -1, g.f)
             ELSE LoadBackward(g)
        ELSE IF l.straddleDir > 0 THEN LoadBackward([l EXCEPT !.f = @ - 1])
        ELSE LoadBackward(l)

LevelSeekGE(l, u) ==
    LET f == FindFileGE(l, u)
        g == LoadFile(Turned(l, 1), f)
        n == With(g, IterSeekGE(g.it, u))
    IN  IF l.ranged /\ f \in DOMAIN l.files /\ f > 1 /\ u < l.files[f].lo THEN Straddle(l, f, 1, f - 1)
        ELSE IF g.it = Nil THEN Returning(g, Nil)
        ELSE IF n.span # Nil THEN n ELSE SkipEmptyFileForward(n)
LevelSeekLT(l, u) ==
    LET f == FindFileLT(l, u)
        g == LoadFile(Turned(l, -1), f)
        n == With(g, IterSeekLT(g.it, u))
    IN  IF l.ranged /\ f \in DOMAIN l.files /\ f < Len(l.files) /\ l.files[f].hi < u
        THEN Straddle(l, f, -1, f)
        ELSE IF g.it = Nil THEN Returning(g, Nil)
        ELSE IF n.span # Nil THEN n ELSE SkipEmptyFileBackward(n)
LevelFirst(l) ==
    LET g == LoadFile(Turned(l, 1), 1)
        n == With(g, IterFirst(g.it))
    IN  IF g.it = Nil THEN Returning(g, Nil) ELSE IF n.span # Nil THEN n ELSE SkipEmptyFileForward(n)
LevelLast(l) ==
    LET g == LoadFile(Turned(l, -1), Len(l.files))
        n == With(g, IterLast(g.it))
    IN  IF g.it = Nil THEN Returning(g, Nil) ELSE IF n.span # Nil THEN n ELSE SkipEmptyFileBackward(n)
LevelNext(l) ==
    LET n == With([l EXCEPT !.dir = 1], IterNext(l.it))
    IN  IF ~Current(l) THEN IF l.dir > 0 THEN Returning(l, Nil) ELSE LevelFirst(l)
        ELSE IF l.it = Nil THEN SkipEmptyFileForward([l EXCEPT !.dir = 1])
        ELSE IF n.span # Nil THEN n ELSE SkipEmptyFileForward(n)
LevelPrev(l) ==
    LET n == With([l EXCEPT !.dir = -1], IterPrev(l.it))
    IN  IF ~Current(l) THEN IF l.dir < 0 THEN Returning(l, Nil) ELSE LevelLast(l)
        ELSE IF l.it = Nil THEN SkipEmptyFileBackward([l EXCEPT !.dir = -1])
        ELSE IF n.span # Nil THEN n ELSE SkipEmptyFileBackward(n)

\* The FragmentIterator interface, for the iterators below a MergingIter.
SeekGE(c, u) == CASE c.kind = "iter" -> IterSeekGE(c, u) [] c.kind = "truncate" -> TruncateSeekGE(c, u)
                  [] c.kind = "level" -> LevelSeekGE(c, u)
SeekLT(c, u) == CASE c.kind = "iter" -> IterSeekLT(c, u) [] c.kind = "truncate" -> TruncateSeekLT(c, u)
                  [] c.kind = "level" -> LevelSeekLT(c, u)
First(c) == CASE c.kind = "iter" -> IterFirst(c) [] c.kind = "level" -> LevelFirst(c)
              [] c.kind = "truncate" -> Filtered(c, IterFirst(c.it), 1)
Last(c) == CASE c.kind = "iter" -> IterLast(c) [] c.kind = "level" -> LevelLast(c)
             [] c.kind = "truncate" -> Filtered(c, IterLast(c.it), -1)
Next(c) == CASE c.kind = "iter" -> IterNext(c) [] c.kind = "truncate" -> TruncateNext(c)
             [] c.kind = "level" -> LevelNext(c)
Prev(c) == CASE c.kind = "iter" -> IterPrev(c) [] c.kind = "truncate" -> TruncatePrev(c)
             [] c.kind = "level" -> LevelPrev(c)

-----------------------------------------------------------------------------
\* MergingIter: every level stands on a bound of one of its spans; between two
\* adjacent bounds lies a merged span.
NewMerging(levels) ==
    [levels |-> [i \in DOMAIN levels |-> [it |-> levels[i], bound |-> "invalid"]],
     dir |-> 0, start |-> NoKey, end |-> NoKey, span |-> Nil]
OnHeap(m) == {i \in DOMAIN m.levels : m.levels[i].bound # "invalid"}
BoundKey(l) == IF l.bound = "start" THEN l.it.span.start ELSE l.it.span.end
HeapRoot(m) == CHOOSE i \in OnHeap(m) : \A j \in OnHeap(m) :
                 IF m.dir = 1 THEN BoundKey(m.levels[i]) <= BoundKey(m.levels[j])
                 ELSE BoundKey(m.levels[i]) >= BoundKey(m.levels[j])
RootKey(m) == BoundKey(m.levels[HeapRoot(m)])
OnBound(it, bound) == [it |-> it, bound |-> IF it.span = Nil THEN "invalid" ELSE bound]
NextBound(l) == IF l.bound = "start" THEN [l EXCEPT !.bound = "end"] ELSE OnBound(Next(l.it), "start")
PrevBound(l) == IF l.bound = "end" THEN [l EXCEPT !.bound = "start"] ELSE OnBound(Prev(l.it), "end")
SwitchWithoutStep(m) == [m EXCEPT !.dir = 1]     \* mutant
SwitchToMinHeap(m) == [m EXCEPT !.dir = 1, !.levels = [i \in DOMAIN @ |-> NextBound(@[i])]]
SwitchToMaxHeap(m) == [m EXCEPT !.dir = -1, !.levels = [i \in DOMAIN @ |-> PrevBound(@[i])]]

\* The levels whose span covers [start, end) stand on its other bound.
Covering(m) == SelectSeq(m.levels, LAMBDA l : l.bound = IF m.dir = 1 THEN "end" ELSE "start")
SynthesizeKeys(m) ==
    Returning(m, Transform(Span(m.start, m.end,
        SortKeysByTrailer(Concat([i \in DOMAIN Covering(m) |-> Covering(m)[i].it.span.keys])))))

\* nextEntry and prevEntry, until the root moves past a user key.
RECURSIVE StepPast(_, _)
StepPast(m, u) ==
    IF OnHeap(m) = {} \/ RootKey(m) # u THEN m
    ELSE StepPast([m EXCEPT !.levels[HeapRoot(m)] = IF m.dir = 1 THEN NextBound(@) ELSE PrevBound(@)], u)
RECURSIVE FindNextFragmentSet(_), FindPrevFragmentSet(_)
FindNextFragmentSet(m) ==
    LET past == StepPast([m EXCEPT !.start = RootKey(m)], RootKey(m))
        found == [past EXCEPT !.end = RootKey(past)]
    IN  IF OnHeap(m) = {} THEN Returning(m, Nil)
        ELSE IF OnHeap(past) = {} THEN Returning(past, Nil)
        ELSE IF Covering(found) # << >> THEN SynthesizeKeys(found) ELSE FindNextFragmentSet(found)
FindPrevFragmentSet(m) ==
    LET past == StepPast([m EXCEPT !.end = RootKey(m)], RootKey(m))
        found == [past EXCEPT !.start = RootKey(past)]
    IN  IF OnHeap(m) = {} THEN Returning(m, Nil)
        ELSE IF OnHeap(past) = {} THEN Returning(past, Nil)
        ELSE IF Covering(found) # << >> THEN SynthesizeKeys(found) ELSE FindPrevFragmentSet(found)

\* A seek goes against its direction first, for the bound on the near side of u.
SeekBoundsLT(m, u) ==
    LET at(it) == OnBound(it, IF it.span # Nil /\ it.span.end <= u THEN "end" ELSE "start")
    IN  [m EXCEPT !.dir = -1, !.levels = [i \in DOMAIN @ |-> at(SeekLT(@[i].it, u))]]
SeekBoundsGE(m, u) ==
    LET at(it) == OnBound(it, IF it.span # Nil /\ it.span.start >= u THEN "start" ELSE "end")
    IN  [m EXCEPT !.dir = 1, !.levels = [i \in DOMAIN @ |-> at(SeekGE(@[i].it, u))]]
MergingSeekGE(m, u) ==
    LET lt == SeekBoundsLT(m, u)
        n == SwitchToMinHeap([lt EXCEPT !.start = RootKey(lt)])
        s == [n EXCEPT !.end = RootKey(n)]
    IN  IF OnHeap(lt) = {} THEN FindNextFragmentSet(SwitchToMinHeap(lt))
        ELSE IF OnHeap(n) = {} THEN Returning(n, Nil)
        ELSE IF n.levels[HeapRoot(n)].bound = "start" /\ RootKey(n) = u THEN FindNextFragmentSet(n)
        ELSE IF Covering(s) # << >> THEN SynthesizeKeys(s) ELSE FindNextFragmentSet(s)
MergingSeekLT(m, u) ==
    LET ge == SeekBoundsGE(m, u)
        n == SwitchToMaxHeap([ge EXCEPT !.end = RootKey(ge)])
        s == [n EXCEPT !.start = RootKey(n)]
    IN  IF OnHeap(ge) = {} THEN FindPrevFragmentSet(SwitchToMaxHeap(ge))
        ELSE IF OnHeap(n) = {} THEN Returning(n, Nil)
        ELSE IF n.levels[HeapRoot(n)].bound = "end" /\ RootKey(n) = u THEN FindPrevFragmentSet(n)
        ELSE IF Covering(s) # << >> THEN SynthesizeKeys(s) ELSE FindPrevFragmentSet(s)
MergingFirst(m) ==
    FindNextFragmentSet([m EXCEPT !.dir = 1, !.levels = [i \in DOMAIN @ |-> OnBound(First(@[i].it), "start")]])
MergingLast(m) ==
    FindPrevFragmentSet([m EXCEPT !.dir = -1, !.levels = [i \in DOMAIN @ |-> OnBound(Last(@[i].it), "end")]])
MergingNext(m) ==
    IF m.dir = 1 /\ (m.end = NoKey \/ m.start = NoKey) THEN Returning(m, Nil)
    ELSE FindNextFragmentSet(IF m.dir # 1 THEN SwitchToMinHeap(m) ELSE m)
MergingPrev(m) ==
    IF m.dir = -1 /\ (m.end = NoKey \/ m.start = NoKey) THEN Returning(m, Nil)
    ELSE FindPrevFragmentSet(IF m.dir # -1 THEN SwitchToMaxHeap(m) ELSE m)

-----------------------------------------------------------------------------
\* BoundedIter: elides spans outside the bounds and the prefix.  at is the span under
\* the MergingIter, pos where the BoundedIter stands relative to it.
AtLowerLimit == -1
AtIterSpan == 0
AtUpperLimit == 1
NewBounded(m, lower, upper) ==
    [m |-> m, lower |-> lower, upper |-> upper, prefix |-> NoKey, at |-> Nil, pos |-> AtIterSpan, span |-> Nil]
CheckPrefixSpanStart(b, span) ==
    IF span # Nil /\ b.prefix # NoKey /\ PrefixOf(span.start) > b.prefix THEN Nil ELSE span
CheckPrefixSpanEnd(b, span) ==
    IF span # Nil /\ b.prefix # NoKey /\ span.end <= b.prefix THEN Nil ELSE span
Placed(b, m, span) == [b EXCEPT !.m = m, !.at = span, !.pos = AtIterSpan, !.span = span]
CheckForwardBound(b, m, span) ==
    Placed(b, m, IF span # Nil /\ b.upper # NoKey /\ span.start >= b.upper THEN Nil ELSE span)
CheckBackwardBound(b, m, span) ==
    Placed(b, m, IF span # Nil /\ b.lower # NoKey /\ span.end <= b.lower THEN Nil ELSE span)
CheckPrefixSpan(b, span) == CheckPrefixSpanEnd(b, CheckPrefixSpanStart(b, span))
BoundedSeekGE(b, u) == LET m == MergingSeekGE(b.m, u) IN CheckForwardBound(b, m, CheckPrefixSpan(b, m.span))
BoundedSeekLT(b, u) == LET m == MergingSeekLT(b.m, u) IN CheckBackwardBound(b, m, CheckPrefixSpan(b, m.span))
BoundedFirst(b) == LET m == MergingFirst(b.m) IN CheckForwardBound(b, m, CheckPrefixSpanStart(b, m.span))
BoundedLast(b) == LET m == MergingLast(b.m) IN CheckBackwardBound(b, m, CheckPrefixSpanEnd(b, m.span))
BoundedNext(b) ==
    LET m == MergingNext(b.m)
        last == b.at # Nil /\ \/ b.upper # NoKey /\ b.at.end >= b.upper
                              \/ b.prefix # NoKey /\ PrefixOf(b.at.end) > b.prefix
    IN  CASE b.pos = AtLowerLimit -> [b EXCEPT !.pos = AtIterSpan, !.span = b.at]
          [] b.pos = AtUpperLimit -> Returning(b, Nil)
          [] OTHER -> IF last THEN [b EXCEPT !.pos = AtUpperLimit, !.span = Nil]
                      ELSE CheckForwardBound(b, m, CheckPrefixSpanStart(b, m.span))
BoundedPrev(b) ==
    LET m == MergingPrev(b.m)
        last == b.at # Nil /\ \/ b.lower # NoKey /\ b.at.start <= b.lower
                              \/ b.prefix # NoKey /\ PrefixOf(b.at.start) < b.prefix
    IN  CASE b.pos = AtUpperLimit -> [b EXCEPT !.pos = AtIterSpan, !.span = b.at]
          [] b.pos = AtLowerLimit -> Returning(b, Nil)
          [] OTHER -> IF last THEN [b EXCEPT !.pos = AtLowerLimit, !.span = Nil]
                      ELSE CheckBackwardBound(b, m, CheckPrefixSpanEnd(b, m.span))

-----------------------------------------------------------------------------
\* DefragmentingIter: joins abutting spans with the same state.  The bounded iterator
\* is one span ahead (iterPos 1) or behind (-1), and at is what it shows.
NewDefragmenting(b) == [b |-> b, at |-> Nil, iterPos |-> 0, span |-> Nil]
Stepped(d, b) == [d EXCEPT !.b = b, !.at = b.span]
CheckEqual(left, right) == ~Empty(left) /\ ~Empty(right) /\ SameState(left, right)

RECURSIVE JoinForward(_), JoinBackward(_)
JoinForward(d) ==
    IF (IF d.at = Nil THEN FALSE ELSE d.span.end = d.at.start /\ CheckEqual(d.at, d.span))
    THEN JoinForward(Stepped([d EXCEPT !.span.end = d.at.end], BoundedNext(d.b))) ELSE d
JoinBackward(d) ==
    IF (IF d.at = Nil THEN FALSE ELSE d.span.start = d.at.end /\ CheckEqual(d.at, d.span))
    THEN JoinBackward(Stepped([d EXCEPT !.span.start = d.at.start], BoundedPrev(d.b))) ELSE d
DefragmentForward(d) ==
    IF Empty(d.at) THEN [d EXCEPT !.iterPos = 0, !.span = d.at]
    ELSE JoinForward(Stepped([d EXCEPT !.iterPos = 1, !.span = d.at], BoundedNext(d.b)))
DefragmentBackward(d) ==
    IF Empty(d.at) THEN [d EXCEPT !.iterPos = 0, !.span = d.at]
    ELSE JoinBackward(Stepped([d EXCEPT !.iterPos = -1, !.span = d.at], BoundedPrev(d.b)))
Exhausted(d) == [d EXCEPT !.iterPos = 0, !.span = Nil]

DefragmentingSeekGE(d, u) ==
    LET n == Stepped(d, BoundedSeekGE(d.b, u))
        back == DefragmentBackward(n)
        onto == IF back.iterPos = -1 THEN Stepped(back, BoundedNext(back.b)) ELSE back
    IN  IF n.at = Nil THEN Exhausted(n)
        ELSE IF Empty(n.at) \/ n.at.start > u THEN DefragmentForward(n)
        ELSE DefragmentForward(onto)
DefragmentingSeekLT(d, u) ==
    LET n == Stepped(d, BoundedSeekLT(d.b, u))
        ahead == DefragmentForward(n)
        onto == IF ahead.iterPos = 1 THEN Stepped(ahead, BoundedPrev(ahead.b)) ELSE ahead
    IN  IF n.at = Nil THEN Exhausted(n)
        ELSE IF Empty(n.at) \/ n.at.end < u THEN DefragmentBackward(n)
        ELSE DefragmentBackward(onto)
DefragmentingFirst(d) ==
    LET n == Stepped(d, BoundedFirst(d.b)) IN IF n.at = Nil THEN Exhausted(n) ELSE DefragmentForward(n)
DefragmentingLast(d) ==
    LET n == Stepped(d, BoundedLast(d.b)) IN IF n.at = Nil THEN Exhausted(n) ELSE DefragmentBackward(n)
DefragmentingNext(d) ==
    LET over == DefragmentForward(Stepped(d, BoundedNext(d.b)))
        n == Stepped(d, BoundedNext(d.b))
    IN  CASE d.iterPos = -1 -> IF over.at = Nil THEN Exhausted(over) ELSE DefragmentForward(over)
          [] d.iterPos = 0 -> IF n.at = Nil THEN Returning(n, Nil) ELSE DefragmentForward(n)
          [] OTHER -> IF d.at = Nil THEN Exhausted(d) ELSE DefragmentForward(d)
DefragmentingPrev(d) ==
    LET over == DefragmentBackward(Stepped(d, BoundedPrev(d.b)))
        n == Stepped(d, BoundedPrev(d.b))
    IN  CASE d.iterPos = 1 -> IF over.at = Nil THEN Exhausted(over) ELSE DefragmentBackward(over)
          [] d.iterPos = 0 -> IF n.at = Nil THEN Returning(n, Nil) ELSE DefragmentBackward(n)
          [] OTHER -> IF d.at = Nil THEN Exhausted(d) ELSE DefragmentBackward(d)
SetBounds(d, lower, upper) == [d EXCEPT !.b.lower = lower, !.b.upper = upper]
SetPrefix(d, prefix) == [d EXCEPT !.b.prefix = prefix]
=============================================================================
