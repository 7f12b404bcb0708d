------------------------------ MODULE LevelIter ------------------------------
(***************************************************************************)
(* levelIter (level_iter.go): the concatenation of the sstables of a level *)
(* as one iterator, with the file boundaries it shows to the mergingIter   *)
(* so that the range deletions of a file stay loaded while they matter.    *)
(*                                                                         *)
(* The iterator is a record l; an operation maps it to the record after    *)
(* the call, whose field key is the returned key.  A file is a record of   *)
(* its point keys, its fragmented range deletions, and its bounds.         *)
(***************************************************************************)
EXTENDS InternalKeys

NoLower == 0
NoUpper == 99
NoUserKey == -1
NextsUntilSeek == 1       \* 4 in the code

\* The file a set of points and a sequence of spans make.
FileOf(points, dels) ==
    LET ends == points \cup {SmallestKey(dels[i]) : i \in 1 .. Len(dels)}
                       \cup {LargestKey(dels[i]) : i \in 1 .. Len(dels)}
    IN  [points |-> SortedKeys(points), dels |-> dels,
         smallest |-> CHOOSE k \in ends : \A o \in ends \ {k} : Before(k, o),
         largest |-> CHOOSE k \in ends : \A o \in ends \ {k} : Before(o, k)]

\* cur: position in files (iterFile and files.Current()); open: iter # nil, at
\* tpos in the file's points; tl, tu: tableOpts; rd, rdc: the file whose range
\* deletions *rangeDelIterPtr and rangeDelIterCopy give, 0 for nil; sb, lb:
\* smallestBoundary, largestBoundary; the rest is levelIterBoundaryContext.
\* filter: the tables have (exact) bloom filters; maybe: MaybeFilteredKeys.
Init(files, filter, maybe) ==
    [files |-> files, filter |-> filter, maybe |-> maybe,
     lower |-> NoLower, upper |-> NoUpper, cur |-> 0, open |-> FALSE, tpos |-> 0, tl |-> NoLower, tu |-> NoUpper,
     rd |-> 0, rdc |-> 0, sb |-> Nil, lb |-> Nil, syn |-> FALSE, ign |-> FALSE,
     su |-> NoUserKey, lu |-> NoUserKey, lex |-> FALSE, key |-> Nil, loaded |-> "none"]

NumFiles(l) == Len(l.files)
File(l, f) == l.files[f]
IsFile(l, f) == f \in 1 .. NumFiles(l)
CurFile(l) == l.files[l.cur]
RangeDels(l) == IF l.rd = 0 THEN << >> ELSE l.files[l.rd].dels

-----------------------------------------------------------------------------
\* The iterator of the open table: forward moves check the upper bound, reverse
\* moves the lower bound.
Points(l) == CurFile(l).points
TableForward(l, p) ==
    LET q == IF p > Len(Points(l)) THEN Len(Points(l)) + 1 ELSE p
    IN  [l EXCEPT !.tpos = q, !.key = IF q <= Len(Points(l)) /\ Points(l)[q].u < l.tu THEN Points(l)[q] ELSE Nil]
Max0(p) == IF p < 0 THEN 0 ELSE p
TableReverse(l, p) ==
    [l EXCEPT !.tpos = Max0(p), !.key = IF p >= 1 /\ Points(l)[p].u >= l.tl THEN Points(l)[p] ELSE Nil]
PointsBelow(l, u) == Cardinality({i \in 1 .. Len(Points(l)) : Points(l)[i].u < u})
TableSeekGE(l, u, try) ==
    LET honest == PointsBelow(l, u) + 1
    IN  TableForward(l, IF try /\ l.tpos > honest THEN l.tpos ELSE honest)
TableSeekPrefixGE(l, u, try) ==
    IF l.filter /\ \A i \in 1 .. Len(Points(l)) : Points(l)[i].u # u
    THEN [l EXCEPT !.tpos = 0, !.key = Nil]
    ELSE TableSeekGE(l, u, try)
TableSeekLT(l, u) == TableReverse(l, PointsBelow(l, u))
TableFirst(l) == TableForward(l, 1)
TableLast(l) == TableReverse(l, Len(Points(l)))
TableNext(l) == TableForward(l, l.tpos + 1)
TablePrev(l) == TableReverse(l, l.tpos - 1)

-----------------------------------------------------------------------------
\* Whether the table lies before the lower bound (-1), at or after the upper
\* bound (1), or overlaps the bounds; and the bounds it has to check itself.
TableSide(l, f) ==
    IF l.lower # NoLower /\ File(l, f).largest.u < l.lower THEN -1
    ELSE IF l.upper # NoUpper /\ File(l, f).smallest.u >= l.upper THEN 1 ELSE 0
InitTableBounds(l, f) ==
    [l EXCEPT !.tl = IF l.lower <= File(l, f).smallest.u THEN NoLower ELSE l.lower,
              !.tu = IF l.upper > File(l, f).largest.u THEN NoUpper ELSE l.upper]

Close(l) == [l EXCEPT !.open = FALSE, !.rd = 0, !.rdc = 0]

ClearBoundary(l) == [l EXCEPT !.syn = FALSE, !.ign = FALSE]

OpenTable(l, f) ==
    LET dels == IF File(l, f).dels = << >> THEN 0 ELSE f
    IN  [InitTableBounds(l, f) EXCEPT
            !.cur = f, !.open = TRUE, !.tpos = 0, !.rd = dels, !.rdc = dels, !.loaded = "new",
            !.su = File(l, f).smallest.u, !.lu = File(l, f).largest.u,
            !.lex = IsExclusiveSentinel(File(l, f).largest)]

RECURSIVE LoadFrom(_, _, _)
LoadFrom(l, f, dir) ==
    IF ~IsFile(l, f) \/ TableSide(l, f) = dir
    THEN [l EXCEPT !.cur = f, !.loaded = "none", !.key = Nil]
    ELSE IF TableSide(l, f) = 0 THEN OpenTable(l, f)
    ELSE LoadFrom(l, f + dir, dir)

LoadFile(l, f, dir) ==
    LET c == [ClearBoundary(l) EXCEPT !.sb = Nil, !.lb = Nil]
    IN  IF l.cur = f /\ l.open THEN [c EXCEPT !.rd = l.rdc, !.loaded = "already"]
        ELSE LoadFrom(Close(c), f, dir)

-----------------------------------------------------------------------------
\* files.SeekGE and files.SeekLT of the level's metadata.
FilesSeekGE(l, u) == Cardinality({f \in 1 .. NumFiles(l) : File(l, f).largest.u < u}) + 1
FilesSeekLT(l, u) == Cardinality({f \in 1 .. NumFiles(l) : File(l, f).smallest.u < u})

\* The first file that can hold a point key >= u, reached by a seek, or by nexts
\* that fall back to a seek.
RECURSIVE FindFileFrom(_, _, _, _)
FindFileFrom(l, f, u, nexts) ==
    IF ~IsFile(l, f) THEN f
    ELSE IF nexts >= 0 /\ File(l, f).largest.u < u
         THEN IF nexts = 0 THEN FindFileFrom(l, FilesSeekGE(l, u), u, -1)
                           ELSE FindFileFrom(l, f + 1, u, nexts - 1)
    ELSE IF IsExclusiveSentinel(File(l, f).largest) /\ File(l, f).largest.u = u
         THEN FindFileFrom(l, f + 1, u, nexts)
    ELSE f
FindFileGE(l, u, try) ==
    IF try THEN FindFileFrom(l, l.cur, u, NextsUntilSeek)
           ELSE FindFileFrom(l, FilesSeekGE(l, u), u, -1)
FindFileLT(l, u) == FilesSeekLT(l, u)

-----------------------------------------------------------------------------
\* The open table is exhausted: show its boundary as long as its range deletions
\* may matter, else go to the next table.
AtLargest(l, key, syn) == [l EXCEPT !.lb = key, !.key = key, !.syn = syn, !.ign = ~syn]
AtSmallest(l, key, syn) == [l EXCEPT !.sb = key, !.key = key, !.syn = syn, !.ign = ~syn]
PausesAtLargest(l) ==
    \/ CurFile(l).largest.k = RangeDelete
    \/ l.rd # 0 /\ l.maybe
PausesAtSmallest(l) ==
    \/ CurFile(l).smallest.k = RangeDelete
    \/ l.rd # 0 /\ l.maybe

RECURSIVE SkipEmptyFileForward(_)
SkipEmptyFileForward(l) ==
    IF l.tu # NoUpper
    THEN IF l.rd # 0 THEN AtLargest(l, RangeDeleteSentinel(l.tu), TRUE) ELSE [l EXCEPT !.key = Nil]
    ELSE IF PausesAtLargest(l) THEN AtLargest(l, CurFile(l).largest, FALSE)
    ELSE LET n == LoadFile(l, l.cur + 1, 1)
             t == TableFirst(n)
         IN  IF n.loaded = "none" THEN n
             ELSE IF t.key # Nil THEN t ELSE SkipEmptyFileForward(t)

RECURSIVE SkipEmptyFileBackward(_)
SkipEmptyFileBackward(l) ==
    IF l.tl # NoLower
    THEN IF l.rd # 0 THEN AtSmallest(l, RangeDeleteSentinel(l.tl), TRUE) ELSE [l EXCEPT !.key = Nil]
    ELSE IF PausesAtSmallest(l) THEN AtSmallest(l, CurFile(l).smallest, FALSE)
    ELSE LET n == LoadFile(l, l.cur - 1, -1)
             t == TableLast(n)
         IN  IF n.loaded = "none" THEN n
             ELSE IF t.key # Nil THEN t ELSE SkipEmptyFileBackward(t)

Forward(t) == IF t.key # Nil THEN t ELSE SkipEmptyFileForward(t)
Backward(t) == IF t.key # Nil THEN t ELSE SkipEmptyFileBackward(t)

SeekGE(l, u, try) ==
    LET n == LoadFile(l, FindFileGE(l, u, try), 1)
    IN  IF n.loaded = "none" THEN n ELSE Forward(TableSeekGE(n, u, try /\ n.loaded = "already"))

\* A table without the prefix keeps its range deletions loaded by its bound, and
\* is not left while the prefix lies inside it.
SeekPrefixGE(l, u, try) ==
    LET n == LoadFile(l, FindFileGE(l, u, try), 1)
        t == TableSeekPrefixGE(n, u, try /\ n.loaded = "already")
    IN  IF n.loaded = "none" \/ t.key # Nil THEN IF n.loaded = "none" THEN n ELSE t
        ELSE IF t.rd # 0 THEN IF t.tu # NoUpper THEN AtLargest(t, RangeDeleteSentinel(t.tu), TRUE)
                                                ELSE AtLargest(t, CurFile(t).largest, FALSE)
        ELSE IF u < CurFile(t).largest.u THEN t
        ELSE SkipEmptyFileForward(t)

SeekLT(l, u) ==
    LET n == LoadFile(l, FindFileLT(l, u), -1)
    IN  IF n.loaded = "none" THEN n ELSE Backward(TableSeekLT(n, u))
First(l) ==
    LET n == LoadFile(l, 1, 1)
    IN  IF n.loaded = "none" THEN n ELSE Forward(TableFirst(n))
Last(l) ==
    LET n == LoadFile(l, NumFiles(l), -1)
    IN  IF n.loaded = "none" THEN n ELSE Backward(TableLast(n))

Exhausted(l) == [l EXCEPT !.key = Nil]
ExhaustedByBound(l) == [ClearBoundary(l) EXCEPT !.rd = 0, !.key = Nil]

Next(l) ==
    IF ~l.open THEN Exhausted(l)
    ELSE IF l.lb = Nil THEN Forward(TableNext([ClearBoundary(l) EXCEPT !.sb = Nil]))
    ELSE IF l.tu # NoUpper THEN ExhaustedByBound(l)
    ELSE LET n == LoadFile(l, l.cur + 1, 1)
         IN  IF n.loaded = "none" THEN n ELSE Forward(TableFirst(n))
Prev(l) ==
    IF ~l.open THEN Exhausted(l)
    ELSE IF l.sb = Nil THEN Backward(TablePrev([ClearBoundary(l) EXCEPT !.lb = Nil]))
    ELSE IF l.tl # NoLower THEN ExhaustedByBound(l)
    ELSE LET n == LoadFile(l, l.cur - 1, -1)
         IN  IF n.loaded = "none" THEN n ELSE Backward(TableLast(n))

\* Within the table, then from the file found with nexts (and a fresh seek in it).
NextPrefixFile(l, succ) ==
    LET n == LoadFile(l, FindFileGE(l, succ, TRUE), 1)
    IN  IF n.loaded = "none" THEN n ELSE Forward(TableSeekGE(n, succ, FALSE))
NextPrefix(l, succ) ==
    LET t == TableSeekGE([ClearBoundary(l) EXCEPT !.sb = Nil], succ, TRUE)
    IN  IF ~l.open THEN Exhausted(l)
        ELSE IF l.lb # Nil /\ l.tu # NoUpper THEN ExhaustedByBound(l)
        ELSE IF l.lb # Nil THEN NextPrefixFile(ClearBoundary(l), succ)
        ELSE IF t.key # Nil THEN t
        ELSE NextPrefixFile(t, succ)

SetBounds(l, lo, up) ==
    LET n == [l EXCEPT !.lower = lo, !.upper = up, !.key = Nil]
    IN  IF ~l.open THEN n
        ELSE IF TableSide(n, n.cur) # 0 THEN Close(n)
        ELSE [InitTableBounds(n, n.cur) EXCEPT !.tpos = 0]
==============================================================================
