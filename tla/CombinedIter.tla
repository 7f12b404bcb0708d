---------------------------- MODULE CombinedIter ----------------------------
(***************************************************************************)
(* Iteration over points and range keys at once: the range keys a reader   *)
(* sees (internal/rangekey/coalesce.go), the markers of their spans among  *)
(* the points (internal/keyspan/interleaving_iter.go), the masking of      *)
(* older points by range keys and the late construction of the range key   *)
(* iterators (range_keys.go).                                              *)
(*                                                                         *)
(* A user key is 10 * prefix + suffix, suffix 0 being the empty one; a     *)
(* smaller suffix is a newer version.  Keys of a span: [s, k, sfx, v].     *)
(***************************************************************************)
EXTENDS InternalKeys

CONSTANT Snapshot

PrefixOf(u) == 10 * (u \div 10)
SuffixOf(u) == u % 10
ImmediateSuccessor(prefix) == prefix + 10
NewerTrailer(a, b) == a.s > b.s \/ (a.s = b.s /\ a.k > b.k)

-----------------------------------------------------------------------------
\* coalesce: the visible keys down to the first RangeKeyDelete, the newest of each
\* suffix, by suffix, then that delete.
Coalesce(keys, snapshot) ==
    LET visible == SelectSeq(keys, LAMBDA x : Visible(x.s, snapshot, SeqNumMax))
        dels == {i \in DOMAIN visible : visible[i].k = RangeKeyDelete}
        del == CHOOSE i \in dels : \A j \in dels : i <= j
        kept == IF dels = {} THEN visible ELSE SubSeq(visible, 1, del - 1)
        newest == {i \in DOMAIN kept : \A j \in 1 .. i - 1 : kept[j].sfx # kept[i].sfx}
        bySuffix == Ranked({kept[i] : i \in newest}, LAMBDA a, b : a.sfx < b.sfx)
    IN  IF dels = {} THEN bySuffix ELSE Append(bySuffix, visible[del])
Transform(span) ==
    [span EXCEPT !.keys = SelectSeq(Coalesce(@, Snapshot), LAMBDA x : x.k = RangeKeySet)]
ShouldDefragment(a, b) ==
    /\ Len(a.keys) = Len(b.keys) /\ a.keys # << >>
    /\ \A i \in DOMAIN a.keys : a.keys[i].sfx = b.keys[i].sfx /\ a.keys[i].v = b.keys[i].v
KS == INSTANCE KeyspanIters WITH NewerKey <- NewerTrailer, SameState <- ShouldDefragment

NoKey == KS!NoKey
UserIterator(levels, lower, upper) == KS!NewDefragmenting(KS!NewBounded(KS!NewMerging(levels), lower, upper))

-----------------------------------------------------------------------------
\* The point iterator, by its contract: behind the prefix it may show keys or not.
NewPoints(all, lower, upper, loose) ==
    [all |-> all, lower |-> lower, upper |-> upper, prefix |-> NoKey, loose |-> loose, i |-> 0, key |-> Nil,
     try |-> FALSE, refreshed |-> FALSE]
Shows(p, k) ==
    /\ (p.lower = NoKey \/ p.lower <= k.u) /\ (p.upper = NoKey \/ k.u < p.upper)
    /\ p.prefix = NoKey \/ p.loose \/ PrefixOf(k.u) = p.prefix
Shown(p) == SelectSeq(p.all, LAMBDA k : Shows(p, k))
At(p, i) == [p EXCEPT !.i = i, !.key = IF i \in 1 .. Len(Shown(p)) THEN Shown(p)[i] ELSE Nil]
CountBelow(p, u) == Cardinality({i \in DOMAIN Shown(p) : Shown(p)[i].u < u})
NoPrefix(p) == [p EXCEPT !.prefix = NoKey]
\* A seek that may step from where p stands (TrySeekUsingNext) finds nothing in front
\* of that; the batch seeks if its content has changed (BatchJustRefreshed).
Beyond(p, q, u) ==
    \E i \in DOMAIN Shown(q) :
        LET k == Shown(q)[i]
        IN  /\ k.u >= u /\ ~(p.refreshed /\ IsBatchSeqNum(k.s))
            /\ IF p.key = Nil THEN p.prefix = NoKey ELSE Before(k, p.key)
Sought(p, q, u) ==
    [IF p.try /\ Beyond(p, q, u) THEN [p EXCEPT !.prefix = q.prefix] ELSE At(q, CountBelow(q, u) + 1)
        EXCEPT !.try = FALSE, !.refreshed = FALSE]
PointSeekGE(p, u) == Sought(p, NoPrefix(p), u)
PointSeekPrefixGE(p, u) == Sought(p, [p EXCEPT !.prefix = PrefixOf(u)], u)
PointSeekLT(p, u) == At(NoPrefix(p), CountBelow(NoPrefix(p), u))
PointFirst(p) == At(NoPrefix(p), 1)
PointLast(p) == At(NoPrefix(p), Len(Shown(NoPrefix(p))))
PointNext(p) == At(p, IF p.i > Len(Shown(p)) THEN p.i ELSE p.i + 1)
PointPrev(p) == At(p, IF p.i = 0 THEN 0 ELSE p.i - 1)
PointNextPrefix(p, succ) == At(p, CountBelow(p, succ) + 1)

-----------------------------------------------------------------------------
\* InterleavingIter.  pk is pointKey, cut the truncatedSpan (Nil: truncated is
\* FALSE), sfx the maskActiveSuffix (0: no maskSpan), masking the suffix in the
\* options (0: none), key what the last call returned.  stale is the Iterator's: a
\* span was passed since it last took one over.
NewInterleaving(pt, d, masking) ==
    [pt |-> pt, d |-> d, lower |-> pt.lower, upper |-> pt.upper, prefix |-> NoKey, masking |-> masking,
     pk |-> Nil, span |-> Nil, cut |-> Nil, markerCut |-> FALSE, sfx |-> 0, maskCalled |-> FALSE,
     within |-> FALSE, pos |-> "uninitialized", dir |-> 0, key |-> Nil, stale |-> FALSE]

StartKey(i) == IF i.cut # Nil THEN i.cut.start ELSE i.span.start
SpanShown(i) == IF ~i.within \/ Empty(i.span) THEN Nil ELSE IF i.cut # Nil THEN i.cut ELSE i.span

\* rangeKeyMasking.SpanChanged and SkipPoint.
SpanChanged(i, span) ==
    LET masks == {span.keys[j].sfx : j \in {n \in DOMAIN span.keys :
                     span.keys[n].sfx # 0 /\ span.keys[n].sfx >= i.masking}}
    IN  [i EXCEPT !.sfx = IF i.masking = 0 \/ masks = {} THEN 0
                          ELSE CHOOSE m \in masks : \A o \in masks : m <= o,
                  !.maskCalled = TRUE, !.stale = TRUE]
SkipPoint(i, u) == i.sfx # 0 /\ SuffixOf(u) # 0 /\ i.sfx < SuffixOf(u)
ClearMask(i) == [i EXCEPT !.sfx = 0, !.maskCalled = FALSE]
MaybeUpdateMask(i) ==
    IF i.maskCalled THEN i
    ELSE IF ~i.within \/ Empty(i.span) THEN ClearMask(i)
    ELSE SpanChanged(i, IF i.cut # Nil THEN i.cut ELSE i.span)

SavePoint(i, pt) == [i EXCEPT !.pt = pt, !.pk = pt.key]
KeepsMarkerCut(i) == [i EXCEPT !.maskCalled = FALSE]     \* mutant
SavedKeyspan(i) == [i EXCEPT !.markerCut = FALSE, !.maskCalled = FALSE]
Later(a, b) == IF a > b THEN a ELSE b
Sooner(a, b) == IF b # NoKey /\ b < a THEN b ELSE a
Saved(i, span, lo, up, cuts) ==
    [i EXCEPT !.span = IF cuts /\ lo = up THEN Nil ELSE span, !.cut = IF cuts THEN Span(lo, up, span.keys) ELSE Nil]
SaveSpanForward(i, span) ==
    LET lo == Later(i.lower, span.start)
        up == Sooner(span.end, i.upper)
    IN  IF span = Nil THEN [i EXCEPT !.span = Nil, !.cut = Nil]
        ELSE IF i.upper # NoKey /\ span.start >= i.upper THEN [i EXCEPT !.span = Nil, !.cut = Nil]
        ELSE IF i.prefix = NoKey THEN Saved(i, span, lo, up, lo # span.start \/ up # span.end)
        ELSE Saved(i, span, Later(lo, i.prefix), Sooner(up, ImmediateSuccessor(i.prefix)), TRUE)
SaveSpanBackward(i, span) ==
    LET lo == Later(i.lower, span.start)
        up == Sooner(span.end, i.upper)
    IN  IF span = Nil THEN [i EXCEPT !.span = Nil, !.cut = Nil]
        ELSE IF i.lower # NoKey /\ span.end <= i.lower THEN [i EXCEPT !.span = Nil, !.cut = Nil]
        ELSE Saved(i, span, lo, up, lo # span.start \/ up # span.end)
Forward(i, d) == SavedKeyspan(SaveSpanForward([i EXCEPT !.d = d], d.span))
Backward(i, d) == SavedKeyspan(SaveSpanBackward([i EXCEPT !.d = d], d.span))
NotBehind(i, u) == IF i.span # Nil /\ i.cut # Nil /\ i.cut.start >= u THEN [i EXCEPT !.span = Nil] ELSE i
KeyspanSeekLT(i, u) ==
    LET d == KS!DefragmentingSeekLT(i.d, u)
    IN  SavedKeyspan(NotBehind(SaveSpanBackward([i EXCEPT !.d = d], d.span), u))

ComputeSmallestPos(i) ==
    IF i.span # Nil /\ (i.pk = Nil \/ StartKey(i) <= i.pk.u) THEN [i EXCEPT !.within = TRUE, !.pos = "start"]
    ELSE [i EXCEPT !.within = FALSE, !.pos = IF i.pk # Nil THEN "point" ELSE "exhausted"]
ComputeLargestPos(i) ==
    IF i.span # Nil /\ (i.pk = Nil \/ i.span.end > i.pk.u) THEN [i EXCEPT !.within = TRUE, !.pos = "end"]
    ELSE [i EXCEPT !.within = FALSE, !.pos = IF i.pk # Nil THEN "point" ELSE "exhausted"]

NextKeyspan(i) == Forward(i, KS!DefragmentingNext(i.d))
PrevKeyspan(i) == Backward(i, KS!DefragmentingPrev(i.d))
NextPoint(i) == SavePoint(i, PointNext(i.pt))
PrevPoint(i) == SavePoint(i, PointPrev(i.pt))
InSpan(i) == [i EXCEPT !.pos = IF i.pk = Nil \/ i.span.end <= i.pk.u THEN "end" ELSE "point"]
NextPos(i) ==
    CASE i.pos = "exhausted" -> ComputeSmallestPos(NextKeyspan(NextPoint(i)))
      [] i.pos = "point" -> IF i.within THEN InSpan(NextPoint(i)) ELSE ComputeSmallestPos(NextPoint(i))
      [] i.pos = "start" -> InSpan(i)
      [] i.pos = "end" -> ComputeSmallestPos(NextKeyspan(i))
PrevPos(i) ==
    LET p == PrevPoint(i)
    IN  CASE i.pos = "exhausted" -> ComputeLargestPos(PrevKeyspan(p))
          [] i.pos = "point" ->
               IF ~i.within THEN ComputeLargestPos(p)
               ELSE [p EXCEPT !.pos = IF p.pk = Nil THEN "end" ELSE IF i.span.start > p.pk.u THEN "start" ELSE "point"]
          [] i.pos = "start" -> ComputeLargestPos(PrevKeyspan(i))
          [] i.pos = "end" -> [i EXCEPT !.pos = IF i.pk # Nil /\ i.pk.u >= i.span.start THEN "point" ELSE "start"]

\* yieldPosition: a point unless it is masked, a marker unless its span has no keys.
YieldNil(i) == ClearMask([i EXCEPT !.within = FALSE, !.key = Nil])
YieldMarker(i, lowerBound) ==
    LET cuts == lowerBound # NoKey /\ lowerBound > StartKey(i)
        u == IF cuts THEN lowerBound ELSE StartKey(i)
    IN  IF cuts /\ lowerBound = i.upper THEN YieldNil(i)
        ELSE [MaybeUpdateMask([i EXCEPT !.markerCut = @ \/ cuts]) EXCEPT
                !.key = MakeExclusiveSentinelKey(i.span.keys[1].k, u)]
RECURSIVE YieldPosition(_, _)
YieldPosition(i, lowerBound) ==
    LET advanced(j) == YieldPosition(IF j.dir = 1 THEN NextPos(j) ELSE PrevPos(j), lowerBound)
        m == MaybeUpdateMask(i)
    IN  CASE i.pos = "exhausted" -> YieldNil(i)
          [] i.pos = "point" -> IF ~(m.within /\ SkipPoint(m, m.pk.u)) THEN [m EXCEPT !.key = m.pk]
                                ELSE IF i.prefix # NoKey THEN YieldNil(m) ELSE advanced(m)
          [] i.pos = "end" -> advanced(i)
          [] i.pos = "start" -> IF Empty(i.span) THEN advanced(i) ELSE YieldMarker(i, lowerBound)

-----------------------------------------------------------------------------
\* The operations.  The span of the last call serves the next seek if it holds its
\* key; the iterators below see the prefix while there is one.
InPrefixMode(i, prefix) == [i EXCEPT !.prefix = prefix, !.d = KS!SetPrefix(@, prefix)]
DisablePrefixMode(i) ==
    LET c == ClearMask(i)
    IN  [InPrefixMode(c, NoKey) EXCEPT !.span = IF i.prefix # NoKey THEN Nil ELSE @]
Ahead(i, lowerBound) == YieldPosition(ComputeSmallestPos([i EXCEPT !.dir = 1]), lowerBound)
Behind(i) == YieldPosition(ComputeLargestPos([i EXCEPT !.dir = -1]), i.lower)
SeekGE(i, u) ==
    LET c == DisablePrefixMode(i)
        p == SavePoint(c, PointSeekGE(c.pt, u))
        reuse == IF c.span = Nil THEN FALSE ELSE SpanContains(c.span, u)
    IN  Ahead(IF reuse THEN SavedKeyspan(SaveSpanForward(p, p.span)) ELSE Forward(p, KS!DefragmentingSeekGE(p.d, u)), u)
SeekPrefixGE(i, u) ==
    LET prefix == PrefixOf(u)
        c == InPrefixMode(ClearMask(i), prefix)
        p == SavePoint(c, PointSeekPrefixGE(c.pt, u))
        reuse == IF c.span = Nil THEN FALSE ELSE prefix >= c.span.start /\ prefix < PrefixOf(c.span.end)
    IN  Ahead(IF reuse THEN SavedKeyspan(SaveSpanForward(p, p.span)) ELSE Forward(p, KS!DefragmentingSeekGE(p.d, u)), u)
SeekLT(i, u) ==
    LET c == DisablePrefixMode(i)
        p == SavePoint(c, PointSeekLT(c.pt, u))
        reuse == IF c.span = Nil THEN FALSE ELSE u > c.span.start /\ u < c.span.end
    IN  Behind(IF reuse THEN SavedKeyspan(NotBehind(SaveSpanBackward(p, p.span), u)) ELSE KeyspanSeekLT(p, u))
First(i) ==
    LET c == DisablePrefixMode(i)
    IN  Ahead(Forward(SavePoint(c, PointFirst(c.pt)), KS!DefragmentingFirst(c.d)), i.lower)
Last(i) ==
    LET c == DisablePrefixMode(i)
    IN  Behind(Backward(SavePoint(c, PointLast(c.pt)), KS!DefragmentingLast(c.d)))

TurnForward(i) ==
    LET c == ClearMask([i EXCEPT !.dir = 1])
    IN  CASE i.pos = "point" /\ ~i.within -> NextKeyspan(c)
          [] i.pos = "start" -> NextPoint([c EXCEPT !.within = TRUE])
          [] i.pos = "end" -> NextPoint(c)
          [] OTHER -> c
TurnBackward(i) ==
    LET c == ClearMask([i EXCEPT !.dir = -1])
        t == CASE i.pos = "point" /\ ~i.within -> PrevKeyspan(c)
               [] i.pos = "start" -> [PrevPoint(c) EXCEPT !.pos = IF i.markerCut THEN "end" ELSE @]
               [] i.pos = "end" -> PrevPoint(c)
               [] OTHER -> c
    IN  IF t.markerCut THEN SavedKeyspan(t) ELSE t
Next(i) == YieldPosition(NextPos(IF i.dir = -1 THEN TurnForward(i) ELSE i), i.lower)
Prev(i) == YieldPosition(PrevPos(IF i.dir = 1 THEN TurnBackward(i) ELSE i), i.lower)
NextPrefix(i, succ) ==
    LET p == SavePoint(i, PointNextPrefix(i.pt, succ))
    IN  CASE i.pos = "exhausted" -> [i EXCEPT !.key = Nil]
          [] i.pos = "point" -> YieldPosition(IF i.within THEN InSpan(p) ELSE ComputeSmallestPos(p), i.lower)
          [] OTHER -> YieldPosition(NextPos(i), i.lower)
\* Iterator.SetBounds gives the range key iterators the bounds as well.
SetBounds(i, lower, upper) ==
    [i EXCEPT !.lower = lower, !.upper = upper, !.span = Nil, !.pk = Nil, !.key = Nil,
              !.pt = At([@ EXCEPT !.lower = lower, !.upper = upper, !.prefix = NoKey], 0),
              !.d = KS!SetBounds(@, lower, upper)]

-----------------------------------------------------------------------------
\* lazyCombinedIter: points alone, until a level passes a file with range keys.  A
\* level is a sequence of files [points, keys], keys being the bounds of its range
\* keys or Nil; it stands on the file of its next point in the direction it moves.
NewLazy(pt, masking, levels, spans) ==
    [pt |-> pt, masking |-> masking, levels |-> levels, spans |-> spans, lazy |-> TRUE, dir |-> 0, key |-> Nil]
FileEnds(f) == f.points \cup IF f.keys = Nil THEN {} ELSE {f.keys.lo, f.keys.hi}
\* files.SeekGE and SeekLT, and the file in which the next point is found.
FileGE(level, u) == Cardinality({n \in DOMAIN level : \A x \in FileEnds(level[n]) : x < u}) + 1
FileLT(level, u) == Cardinality({n \in DOMAIN level : \E x \in FileEnds(level[n]) : x < u})
FoundGE(level, u) ==
    LET S == {n \in DOMAIN level : \E x \in level[n].points : x >= u}
    IN  IF S = {} THEN Len(level) ELSE CHOOSE n \in S : \A m \in S : n <= m
FoundLT(level, u) ==
    LET S == {n \in DOMAIN level : \E x \in level[n].points : x < u}
    IN  IF S = {} THEN 1 ELSE CHOOSE n \in S : \A m \in S : m <= n

\* maybeTriggerCombinedIteration for the files that the levels passed: the least
\* (greatest) bound of their range keys, NoKey if none has any.
TriggerKey(z, files, dir) ==
    LET keys == {f.keys : f \in {g \in files : g.keys # Nil}}
        seen == {k \in keys : /\ z.pt.upper = NoKey \/ k.lo < z.pt.upper
                              /\ z.pt.lower = NoKey \/ k.hi > z.pt.lower}
        ends == {IF dir = 1 THEN k.lo ELSE k.hi : k \in seen}
    IN  IF ends = {} THEN NoKey
        ELSE CHOOSE e \in ends : \A o \in ends : IF dir = 1 THEN e <= o ELSE e >= o
Passed(z, From(_), To(_)) ==
    UNION {{z.levels[l][n] : n \in {m \in DOMAIN z.levels[l] : From(z.levels[l]) <= m /\ m <= To(z.levels[l])}} :
              l \in DOMAIN z.levels}

InitSeekGE(i, prefix, u) ==
    LET c == InPrefixMode(SavePoint(ClearMask(i), i.pt), prefix)
    IN  Ahead(Forward(c, KS!DefragmentingSeekGE(c.d, u)), u)
InitSeekLT(i, u) == Behind(KeyspanSeekLT(SavePoint(ClearMask(i), i.pt), u))
InitCombinedIteration(z, pt, dir, seekKey, key) ==
    LET beyond == pt.key # Nil /\ IF dir = 1 THEN key > pt.key.u ELSE key < pt.key.u
        u == IF seekKey # NoKey THEN seekKey ELSE IF beyond THEN pt.key.u ELSE key
        i == NewInterleaving(pt, UserIterator(z.spans, pt.lower, pt.upper), z.masking)
    IN  IF dir = 1 THEN InitSeekGE(i, pt.prefix, u) ELSE InitSeekLT(i, u)
Switched(z, pt, dir, seekKey, files) ==
    LET key == TriggerKey(z, files, dir)
    IN  IF key = NoKey THEN [z EXCEPT !.pt = pt, !.dir = dir, !.key = pt.key]
        ELSE InitCombinedIteration(z, pt, dir, seekKey, key)
FilesGE(z, u) == Passed(z, LAMBDA l : FileGE(l, u), LAMBDA l : FoundGE(l, u))
FilesLT(z, u) == Passed(z, LAMBDA l : FoundLT(l, u), LAMBDA l : FileLT(l, u))
\* From where the levels stand, around the key of the last call, to where they go.
FilesNext(z, succ) == Passed(z, LAMBDA l : IF z.dir = 1 THEN FoundGE(l, z.key.u) ELSE FoundLT(l, z.key.u + 1),
                                LAMBDA l : FoundGE(l, succ))
FilesPrev(z) == Passed(z, LAMBDA l : FoundLT(l, z.key.u),
                          LAMBDA l : IF z.dir = 1 THEN FoundGE(l, z.key.u) ELSE FoundLT(l, z.key.u + 1))
LazySeekGE(z, u) == Switched(z, PointSeekGE(z.pt, u), 1, u, FilesGE(z, u))
LazySeekPrefixGE(z, u) == Switched(z, PointSeekPrefixGE(z.pt, u), 1, u, FilesGE(z, u))
LazySeekLT(z, u) == Switched(z, PointSeekLT(z.pt, u), -1, u, FilesLT(z, u))
LazyFirst(z) == Switched(z, PointFirst(z.pt), 1, NoKey, FilesGE(z, 0))
LazyLast(z) == Switched(z, PointLast(z.pt), -1, NoKey, Passed(z, LAMBDA l : FoundLT(l, 99), Len))
LazyNext(z) == Switched(z, PointNext(z.pt), 1, NoKey, FilesNext(z, z.key.u + 1))
LazyPrev(z) == Switched(z, PointPrev(z.pt), -1, NoKey, FilesPrev(z))
LazyNextPrefix(z, succ) == Switched(z, PointNextPrefix(z.pt, succ), 1, NoKey, FilesNext(z, succ))
LazySetBounds(z, lower, upper) ==
    [z EXCEPT !.key = Nil, !.pt = At([@ EXCEPT !.lower = lower, !.upper = upper, !.prefix = NoKey], 0)]
=============================================================================
