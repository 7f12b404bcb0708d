----------------------------- MODULE MergingIter -----------------------------
(***************************************************************************)
(* mergingIter (merging_iter.go, merging_iter_heap.go): the merge of the   *)
(* memtables, the L0 sublevels and the levels into one iterator that hides *)
(* the keys range deletions delete, which it looks for at the top of the   *)
(* heap only, re-seeking the levels below a range deletion past its end.   *)
(*                                                                         *)
(* The iterator is a record m.  A level is a levelIter, or (plain) the     *)
(* iterator of a memtable, which has no boundaries; its field key is the   *)
(* level's iterKey, and m.tomb[i] the tombstone cached for level i.        *)
(***************************************************************************)
EXTENDS InternalKeys, TLC
LV == INSTANCE LevelIter

NoPrefix == 0

PlainLevel(points, dels) ==
    LET f == [points |-> SortedKeys(points), dels |-> dels, smallest |-> Nil, largest |-> Nil]
        dp == IF dels = << >> THEN 0 ELSE 1
    IN  [LV!Init(<<f>>, FALSE, FALSE) EXCEPT !.cur = 1, !.open = TRUE, !.rd = dp, !.rdc = dp] @@ [plain |-> TRUE]
TableLevel(files, filter, maybe) == LV!Init(files, filter, maybe) @@ [plain |-> FALSE]

New(levels, snapshot) ==
    [levels |-> levels, tomb |-> [i \in 1 .. Len(levels) |-> Nil], heap |-> {}, dir |-> 0, snapshot |-> snapshot,
     prefix |-> NoPrefix, lower |-> LV!NoLower, upper |-> LV!NoUpper, key |-> Nil]

-----------------------------------------------------------------------------
\* The calls on a level's iterator.
LevelSeekGE(l, u, try) == IF l.plain THEN LV!TableSeekGE(l, u, try) ELSE LV!SeekGE(l, u, try)
LevelSeekPrefixGE(l, u, try) == IF l.plain THEN LV!TableSeekGE(l, u, try) ELSE LV!SeekPrefixGE(l, u, try)
LevelSeekLT(l, u) == IF l.plain THEN LV!TableSeekLT(l, u) ELSE LV!SeekLT(l, u)
LevelFirst(l) == IF l.plain THEN LV!TableFirst(l) ELSE LV!First(l)
LevelLast(l) == IF l.plain THEN LV!TableLast(l) ELSE LV!Last(l)
LevelNext(l) == IF l.plain THEN LV!TableNext(l) ELSE LV!Next(l)
LevelPrev(l) == IF l.plain THEN LV!TablePrev(l) ELSE LV!Prev(l)
LevelNextPrefix(l, succ) == IF l.plain THEN LV!TableSeekGE(l, succ, TRUE) ELSE LV!NextPrefix(l, succ)
LevelSetBounds(l, lo, up) ==
    IF l.plain THEN [l EXCEPT !.tl = lo, !.tu = up, !.tpos = 0, !.key = Nil] ELSE LV!SetBounds(l, lo, up)

HasRangeDels(m, i) == m.levels[i].rd # 0
RangeDels(m, i) == LV!RangeDels(m.levels[i])
LevelKey(m, i) == m.levels[i].key
SetLevel(m, i, l) == [m EXCEPT !.levels[i] = l]

-----------------------------------------------------------------------------
\* The heap: the levels with a key; its top the least or the greatest key.
Less(m, i, j) ==
    IF m.dir = 1 THEN Before(LevelKey(m, i), LevelKey(m, j)) ELSE Before(LevelKey(m, j), LevelKey(m, i))
Top(m) == CHOOSE i \in m.heap : \A j \in m.heap \ {i} : Less(m, i, j) \/ (~Less(m, j, i) /\ i < j)
InitHeap(m) == [m EXCEPT !.heap = {i \in 1 .. Len(m.levels) : LevelKey(m, i) # Nil}]

\* Position the range deletions of the levels after oldTop down to the top's.
InitMinRangeDelIters(m, oldTop) ==
    IF m.heap = {} THEN m
    ELSE LET top == Top(m)
         IN  [m EXCEPT !.tomb = [i \in DOMAIN @ |->
                 IF i \in oldTop + 1 .. top /\ HasRangeDels(m, i)
                 THEN SpanSeekGE(RangeDels(m, i), LevelKey(m, top).u) ELSE @[i]]]
InitMaxRangeDelIters(m, oldTop) ==
    IF m.heap = {} THEN m
    ELSE LET top == Top(m)
         IN  [m EXCEPT !.tomb = [i \in DOMAIN @ |->
                 IF i \in oldTop + 1 .. top /\ HasRangeDels(m, i)
                 THEN SpanSeekLE(RangeDels(m, i), LevelKey(m, top).u) ELSE @[i]]]
InitMinHeap(m) == InitMinRangeDelIters(InitHeap([m EXCEPT !.dir = 1]), 0)
InitMaxHeap(m) == InitMaxRangeDelIters(InitHeap([m EXCEPT !.dir = -1]), 0)

-----------------------------------------------------------------------------
WithinSmallest(l, u) == l.su = LV!NoUserKey \/ l.su <= u
WithinLargest(l, u) == l.lu = LV!NoUserKey \/ l.lu > u \/ (l.lu = u /\ ~l.lex)
Hides(m, tomb, u) == tomb # Nil /\ VisibleAt(tomb, m.snapshot) /\ SpanContains(tomb, u)
TruncatedEnd(l, tomb) == IF l.lu # LV!NoUserKey /\ l.lu < tomb.end THEN l.lu ELSE tomb.end
TruncatedStart(l, tomb) == IF l.su # LV!NoUserKey /\ l.su > tomb.start THEN l.su ELSE tomb.start

\* Seek the levels from i on; a range deletion that hides the sought key moves
\* the key that the levels below are sought with.
RECURSIVE SeekLevelsGE(_, _, _, _)
SeekLevelsGE(m, u, i, try) ==
    IF i > Len(m.levels) THEN m
    ELSE LET l == IF m.prefix # NoPrefix THEN LevelSeekPrefixGE(m.levels[i], u, try)
                                         ELSE LevelSeekGE(m.levels[i], u, try)
             tomb == IF l.rd # 0 THEN SpanSeekGE(LV!RangeDels(l), u) ELSE m.tomb[i]
             moves == l.rd # 0 /\ Hides(m, tomb, u) /\ WithinSmallest(l, u)
         IN  SeekLevelsGE([SetLevel(m, i, l) EXCEPT !.tomb[i] = tomb],
                          IF moves THEN TruncatedEnd(l, tomb) ELSE u, i + 1, try)
InternalSeekGE(m, u, i, try) == InitMinHeap(SeekLevelsGE(m, u, i, try))

RECURSIVE SeekLevelsLT(_, _, _)
SeekLevelsLT(m, u, i) ==
    IF i > Len(m.levels) THEN m
    ELSE LET l == LevelSeekLT(m.levels[i], u)
             tomb == IF l.rd # 0 THEN SpanSeekLE(LV!RangeDels(l), u) ELSE m.tomb[i]
             moves == l.rd # 0 /\ Hides(m, tomb, u) /\ WithinLargest(l, u)
         IN  SeekLevelsLT([SetLevel(m, i, l) EXCEPT !.tomb[i] = tomb],
                          IF moves THEN TruncatedStart(l, tomb) ELSE u, i + 1)
InternalSeekLT(m, u, i) == InitMaxHeap(SeekLevelsLT([m EXCEPT !.prefix = NoPrefix], u, i))

-----------------------------------------------------------------------------
\* Step the top level i.  A new file has new range deletions to position.
Stepped(m, i, l) ==
    LET n == SetLevel(m, i, l)
    IN  IF l.key # Nil THEN n ELSE [n EXCEPT !.heap = @ \ {i}]
NextEntry(m, i) ==
    LET l == LevelNext(m.levels[i])
    IN  InitMinRangeDelIters(Stepped(m, i, l), IF l.key # Nil /\ l.rd # m.levels[i].rd THEN i - 1 ELSE i)
NextPrefixEntry(m, i, succ) ==
    LET l == LevelNextPrefix(m.levels[i], succ)
    IN  InitMinRangeDelIters(Stepped(m, i, l), IF l.key # Nil /\ l.rd # m.levels[i].rd THEN i - 1 ELSE i)
PrevEntry(m, i) ==
    LET l == LevelPrev(m.levels[i])
    IN  InitMaxRangeDelIters(Stepped(m, i, l),
                             IF l.key # Nil /\ l.rd # m.levels[i].rd /\ l.rd # 0 THEN i - 1 ELSE i)
MaybeNextEntryWithinPrefix(m, i) ==
    IF LevelKey(m, i).u # m.prefix THEN [m EXCEPT !.heap = {}] ELSE NextEntry(m, i)
SkipNext(m, i) == IF m.prefix = NoPrefix THEN NextEntry(m, i) ELSE MaybeNextEntryWithinPrefix(m, i)

-----------------------------------------------------------------------------
\* The levels at or above the top's, in order, with their tombstones brought up
\* to the key: the first that deletes the key decides, 0 if none does.
NotRefreshed(m, top, u, i) == m.tomb[i]     \* mutant
RefreshNext(m, top, u, i) ==
    IF HasRangeDels(m, i) /\ m.tomb[i] # Nil /\ m.tomb[i].end <= u
    THEN SpanSeekGE(RangeDels(m, i), u) ELSE m.tomb[i]
RefreshPrev(m, top, u, i) ==
    IF HasRangeDels(m, i) /\ m.tomb[i] # Nil /\ u < m.tomb[i].start
    THEN SpanSeekLE(RangeDels(m, i), u) ELSE m.tomb[i]
DeletedBy(m, top, tombs, Within(_, _)) ==
    LET key == LevelKey(m, top)
        deletes(i) == /\ HasRangeDels(m, i) /\ Hides(m, tombs[i], key.u) /\ Within(m.levels[i], key.u)
                      /\ i < top \/ CoversAt(tombs[i], m.snapshot, key.s)
        at == {i \in 1 .. top : deletes(i)}
    IN  IF at = {} THEN 0 ELSE CHOOSE i \in at : \A j \in at : i <= j
\* Tombstones after the deciding level are left as they are.
Refreshed(m, top, tombs, by) ==
    [m EXCEPT !.tomb = [i \in DOMAIN @ |-> IF i <= top /\ (by = 0 \/ i <= by) THEN tombs[i] ELSE @[i]]]

NextDeletedBy(m, top) ==
    DeletedBy(m, top, [i \in 1 .. top |-> RefreshNext(m, top, LevelKey(m, top).u, i)], WithinSmallest)
PrevDeletedBy(m, top) ==
    DeletedBy(m, top, [i \in 1 .. top |-> RefreshPrev(m, top, LevelKey(m, top).u, i)], WithinLargest)
AfterNextDeleted(m, top, by) ==
    LET n == Refreshed(m, top, [i \in 1 .. top |-> RefreshNext(m, top, LevelKey(m, top).u, i)], by)
        end == TruncatedEnd(n.levels[by], n.tomb[by])
        without == [n EXCEPT !.levels = [i \in DOMAIN @ |-> IF i >= top THEN [@[i] EXCEPT !.key = Nil] ELSE @[i]]]
    IN  IF by = top THEN SkipNext(n, top)
        ELSE IF m.prefix # NoPrefix /\ end # m.prefix THEN InitMinHeap(without)
        ELSE InternalSeekGE(n, end, top, FALSE)
AfterPrevDeleted(m, top, by) ==
    LET n == Refreshed(m, top, [i \in 1 .. top |-> RefreshPrev(m, top, LevelKey(m, top).u, i)], by)
    IN  IF by = top THEN PrevEntry(n, top)
        ELSE InternalSeekLT(n, TruncatedStart(n.levels[by], n.tomb[by]), top)

Exhaust(m) == [m EXCEPT !.key = Nil]
Shown(m, i) == Visible(LevelKey(m, i).s, m.snapshot, SeqNumMax)

RECURSIVE FindNextEntry(_)
FindNextEntry(m) ==
    IF m.heap = {} \/ m.levels[Top(m)].syn THEN Exhaust(m)
    ELSE LET top == Top(m)
             by == NextDeletedBy(m, top)
         IN  IF m.levels[top].ign THEN FindNextEntry(SkipNext(m, top))
             ELSE IF by # 0 THEN FindNextEntry(AfterNextDeleted(m, top, by))
             ELSE LET n == Refreshed(m, top, [i \in 1 .. top |-> RefreshNext(m, top, LevelKey(m, top).u, i)], 0)
                  IN  IF ~Shown(n, top) THEN FindNextEntry(SkipNext(n, top))
                      ELSE [n EXCEPT !.key = LevelKey(n, top)]

RECURSIVE FindPrevEntry(_)
FindPrevEntry(m) ==
    IF m.heap = {} \/ m.levels[Top(m)].syn THEN Exhaust(m)
    ELSE LET top == Top(m)
             by == PrevDeletedBy(m, top)
         IN  IF by # 0 THEN FindPrevEntry(AfterPrevDeleted(m, top, by))
             ELSE LET n == Refreshed(m, top, [i \in 1 .. top |-> RefreshPrev(m, top, LevelKey(m, top).u, i)], 0)
                  IN  IF ~Shown(n, top) \/ n.levels[top].ign THEN FindPrevEntry(PrevEntry(n, top))
                      ELSE [n EXCEPT !.key = LevelKey(n, top)]

-----------------------------------------------------------------------------
\* The operations of the iterator.
SeekGE(m, u, try) == FindNextEntry(InternalSeekGE([m EXCEPT !.prefix = NoPrefix], u, 1, try))
SeekPrefixGE(m, u, try) == FindNextEntry(InternalSeekGE([m EXCEPT !.prefix = u], u, 1, try))
SeekLT(m, u) == FindPrevEntry(InternalSeekLT(m, u, 1))
EveryLevel(m, Call(_)) == [m EXCEPT !.prefix = NoPrefix, !.levels = [i \in DOMAIN @ |-> Call(@[i])]]
First(m) == FindNextEntry(InitMinHeap(EveryLevel(m, LevelFirst)))
Last(m) == FindPrevEntry(InitMaxHeap(EveryLevel(m, LevelLast)))

\* Turning: a level that is exhausted, or shows the bound itself, is sought anew;
\* then each level moves past the current key.
RECURSIVE NextPast(_, _)
NextPast(l, key) == IF l.key = Nil \/ Before(key, l.key) THEN l ELSE NextPast(LevelNext(l), key)
RECURSIVE PrevPast(_, _)
PrevPast(l, key) == IF l.key = Nil \/ Before(l.key, key) THEN l ELSE PrevPast(LevelPrev(l), key)
FromLower(m, l) == IF m.lower # LV!NoLower THEN LevelSeekGE(l, m.lower, FALSE) ELSE LevelFirst(l)
FromUpper(m, l) == IF m.upper # LV!NoUpper THEN LevelSeekLT(l, m.upper) ELSE LevelLast(l)
AtLowerBound(m, l) == m.lower # LV!NoLower /\ l.syn /\ IsExclusiveSentinel(l.key) /\ l.key.u <= m.lower
AtUpperBound(m, l) == m.upper # LV!NoUpper /\ l.syn /\ IsExclusiveSentinel(l.key) /\ l.key.u >= m.upper

SwitchToMinHeap(m) ==
    LET cur == Top(m)
        key == LevelKey(m, cur)
        turned(l) == NextPast(IF l.key = Nil \/ AtLowerBound(m, l) THEN FromLower(m, l) ELSE l, key)
        last(l) == IF AtLowerBound(m, l) THEN FromLower(m, l) ELSE LevelNext(l)
    IN  IF m.heap = {} THEN IF m.lower # LV!NoLower THEN SeekGE(m, m.lower, FALSE) ELSE First(m)
        ELSE InitMinHeap([m EXCEPT !.levels = [i \in DOMAIN @ |-> IF i = cur THEN last(@[i]) ELSE turned(@[i])]])
SwitchToMaxHeap(m) ==
    LET cur == Top(m)
        key == LevelKey(m, cur)
        turned(l) == PrevPast(IF l.key = Nil \/ AtUpperBound(m, l) THEN FromUpper(m, l) ELSE l, key)
        last(l) == IF AtUpperBound(m, l) THEN FromUpper(m, l) ELSE LevelPrev(l)
    IN  IF m.heap = {} THEN IF m.upper # LV!NoUpper THEN SeekLT(m, m.upper) ELSE Last(m)
        ELSE InitMaxHeap([m EXCEPT !.levels = [i \in DOMAIN @ |-> IF i = cur THEN last(@[i]) ELSE turned(@[i])]])

Next(m) ==
    IF m.dir # 1 THEN FindNextEntry(SwitchToMinHeap(m))
    ELSE IF m.heap = {} THEN Exhaust(m)
    ELSE FindNextEntry(NextEntry(m, Top(m)))
Prev(m) ==
    IF m.dir # -1 THEN FindPrevEntry(SwitchToMaxHeap(m))
    ELSE IF m.heap = {} THEN Exhaust(m)
    ELSE FindPrevEntry(PrevEntry(m, Top(m)))

\* Each level that is on top below succ is moved once.
RECURSIVE MoveToPrefix(_, _, _)
MoveToPrefix(m, succ, positioned) ==
    IF m.heap = {} THEN m
    ELSE LET top == Top(m)
         IN  IF top \in positioned \/ (positioned # {} /\ LevelKey(m, top).u >= succ) THEN m
             ELSE MoveToPrefix(NextPrefixEntry(m, top, succ), succ, positioned \cup {top})
NextPrefix(m, succ) == IF m.heap = {} THEN Exhaust(m) ELSE FindNextEntry(MoveToPrefix(m, succ, {}))

SetBounds(m, lo, up) ==
    [m EXCEPT !.prefix = NoPrefix, !.lower = lo, !.upper = up, !.heap = {}, !.key = Nil,
              !.levels = [i \in DOMAIN @ |-> LevelSetBounds(@[i], lo, up)]]
==============================================================================
