------------------------------ MODULE Skiplist ------------------------------
(***************************************************************************)
(* The skiplists of a memtable (internal/arenaskl) and of an indexed batch *)
(* (internal/batchskl) at rest, and the iterators over them.  A list is a  *)
(* record: key gives each node its internal key, tower its links per       *)
(* level (level 1 is the base), height the highest level in use.           *)
(***************************************************************************)
EXTENDS InternalKeys

HeadNode == 0
TailNode == -1
NilNode == -2
NumNexts == 1             \* 5 in the code
NoLower == 0
NoUpper == 99

GetNext(s, nd, h) == s.tower[nd][h].next
GetPrev(s, nd, h) == s.tower[nd][h].prev

\* The list that inserting the given keys leaves behind, whatever the order:
\* node i has keys[i] and heights[i], and level h links the nodes that reach it.
Linked(keys, heights) ==
    LET nodes == DOMAIN keys
        maxHeight == CHOOSE h \in {heights[i] : i \in nodes} \cup {1} :
                       \A i \in nodes : heights[i] <= h
        on(h) == Ranked({i \in nodes : heights[i] >= h}, LAMBDA a, b : Before(keys[a], keys[b]))
        chain(h) == <<HeadNode>> \o on(h) \o <<TailNode>>
        at(nd, h) == CHOOSE p \in DOMAIN chain(h) : chain(h)[p] = nd
        links(nd, h) == [next |-> IF nd = TailNode THEN NilNode ELSE chain(h)[at(nd, h) + 1],
                         prev |-> IF nd = HeadNode THEN NilNode ELSE chain(h)[at(nd, h) - 1]]
    IN  [key |-> keys, height |-> maxHeight,
         tower |-> [nd \in nodes \cup {HeadNode, TailNode} |->
                      [h \in 1 .. (IF nd \in nodes THEN heights[nd] ELSE maxHeight) |-> links(nd, h)]]]

-----------------------------------------------------------------------------
\* arenaskl: full internal keys are compared.

RECURSIVE FindSpliceForLevel(_, _, _, _)
FindSpliceForLevel(s, key, h, start) ==
    LET next == GetNext(s, start, h)
    IN  IF next = TailNode THEN [prev |-> start, next |-> next, found |-> FALSE]
        ELSE IF key = s.key[next] THEN [prev |-> start, next |-> next, found |-> TRUE]
        ELSE IF Before(key, s.key[next]) THEN [prev |-> start, next |-> next, found |-> FALSE]
        ELSE FindSpliceForLevel(s, key, h, next)

RECURSIVE SpliceDown(_, _, _, _)
SpliceDown(s, key, h, start) ==
    LET spl == FindSpliceForLevel(s, key, h, start)
    IN  IF spl.found
        THEN IF h # 1 THEN [spl EXCEPT !.prev = GetPrev(s, spl.next, 1)] ELSE spl
        ELSE IF h = 1 THEN spl ELSE SpliceDown(s, key, h - 1, spl.prev)
SeekForBaseSplice(s, u) == SpliceDown(s, MakeSearchKey(u), s.height, HeadNode)

\* An iterator: its node, the key it last decoded (k) and the key it returned.
NewIter(s, lower, upper) == [list |-> s, nd |-> HeadNode, k |-> Nil, key |-> Nil,
                             lower |-> lower, upper |-> upper]
SetBounds(it, lower, upper) == [it EXCEPT !.lower = lower, !.upper = upper]
Returns(it, key) == [it EXCEPT !.key = key]

Decoded(it) == [it EXCEPT !.k = it.list.key[it.nd]]
Forward(it) ==
    LET d == Decoded(it)
    IN  IF it.nd = TailNode THEN Returns(it, Nil)
        ELSE IF it.upper # NoUpper /\ it.upper <= d.k.u THEN Returns([d EXCEPT !.nd = TailNode], Nil)
        ELSE Returns(d, d.k)
Backward(it) ==
    LET d == Decoded(it)
    IN  IF it.nd = HeadNode THEN Returns(it, Nil)
        ELSE IF it.lower # NoLower /\ it.lower > d.k.u THEN Returns([d EXCEPT !.nd = HeadNode], Nil)
        ELSE Returns(d, d.k)

First(it) == Forward([it EXCEPT !.nd = GetNext(it.list, HeadNode, 1)])
Last(it) == Backward([it EXCEPT !.nd = GetPrev(it.list, TailNode, 1)])
Next(it) == Forward([it EXCEPT !.nd = GetNext(it.list, it.nd, 1)])
Prev(it) == Backward([it EXCEPT !.nd = GetPrev(it.list, it.nd, 1)])
SeekLT(it, u) == Backward([it EXCEPT !.nd = SeekForBaseSplice(it.list, u).prev])

\* The nexts that may replace a seek: i of them are left.
RECURSIVE TryNexts(_, _, _)
TryNexts(it, u, i) ==
    IF it.k.u >= u THEN Returns(it, it.k)
    ELSE IF i = 0 THEN it
    ELSE LET n == Next(it) IN IF n.key = Nil THEN n ELSE TryNexts(n, u, i - 1)
SeekGE(it, u, try) ==
    LET n == TryNexts(it, u, NumNexts)
        sought == Forward([it EXCEPT !.nd = SeekForBaseSplice(it.list, u).next])
    IN  IF ~try THEN sought
        ELSE IF it.nd = TailNode THEN Returns(it, Nil)
        ELSE IF n.key = Nil \/ n.key.u >= u THEN n ELSE sought
NextPrefix(it, succ) == SeekGE(it, succ, TRUE)

-----------------------------------------------------------------------------
\* batchskl: user keys are compared, by their abbreviations first; the newer of two
\* entries of a user key is in front, and its sequence number is its batch offset.

AbbreviatedKey(u) == u \div 2
NewBatchList(maxHeight) ==
    [key |-> << >>, height |-> 1,
     tower |-> [nd \in {HeadNode, TailNode} |->
                  [h \in 1 .. maxHeight |-> [next |-> IF nd = HeadNode THEN TailNode ELSE NilNode,
                                             prev |-> IF nd = HeadNode THEN NilNode ELSE HeadNode]]]]

StopsAt(s, u, next) ==
    LET v == s.key[next].u
    IN  AbbreviatedKey(u) < AbbreviatedKey(v) \/ (AbbreviatedKey(u) = AbbreviatedKey(v) /\ u <= v)
RECURSIVE BatchSpliceForLevel(_, _, _, _)
BatchSpliceForLevel(s, u, h, start) ==
    LET next == GetNext(s, start, h)
    IN  IF (IF next = TailNode THEN TRUE ELSE StopsAt(s, u, next)) THEN [prev |-> start, next |-> next]
        ELSE BatchSpliceForLevel(s, u, h, next)
RECURSIVE BatchSpliceDown(_, _, _, _)
BatchSpliceDown(s, u, h, start) ==
    LET spl == BatchSpliceForLevel(s, u, h, start)
    IN  IF h = 1 THEN <<spl>> ELSE Append(BatchSpliceDown(s, u, h - 1, spl.prev), spl)
FindSplice(s, u) == BatchSpliceDown(s, u, s.height, HeadNode)

BehindLast(s, u) ==
    LET last == GetPrev(s, TailNode, 1)
    IN  IF last = HeadNode THEN TRUE
        ELSE LET v == s.key[last].u
             IN  AbbreviatedKey(u) > AbbreviatedKey(v) \/ (AbbreviatedKey(u) = AbbreviatedKey(v) /\ u > v)
\* Add, for a node of height h: the splice of every level is found in the list as
\* it was, and the levels above the list's height are between head and tail.
BatchAdd(s, key, h) ==
    LET nd == Len(s.key) + 1
        spl == IF BehindLast(s, key.u)
               THEN [l \in 1 .. s.height |-> [prev |-> GetPrev(s, TailNode, l), next |-> TailNode]]
               ELSE FindSplice(s, key.u)
        splice(l) == IF l <= s.height THEN spl[l] ELSE [prev |-> HeadNode, next |-> TailNode]
        relinked(n, l) == [next |-> IF l <= h /\ splice(l).prev = n THEN nd ELSE GetNext(s, n, l),
                           prev |-> IF l <= h /\ splice(l).next = n THEN nd ELSE GetPrev(s, n, l)]
    IN  [key |-> Append(s.key, key),
         height |-> IF h > s.height THEN h ELSE s.height,
         tower |-> [n \in DOMAIN s.tower \cup {nd} |->
                      IF n = nd THEN [l \in 1 .. h |-> splice(l)]
                      ELSE [l \in DOMAIN s.tower[n] |-> relinked(n, l)]]]
\* A batch of records: the offset of a record makes its key's sequence number.
RECURSIVE BatchList(_, _, _)
BatchList(recs, heights, s) ==
    LET n == Len(s.key) + 1
    IN  IF n > Len(recs) THEN s
        ELSE BatchList(recs, heights,
               BatchAdd(s, MakeInternalKey(recs[n].u, SeqNumBatch + n, recs[n].k), heights[n]))

BatchSeekForBaseSplice(s, u) == FindSplice(s, u)[1]
BatchForward(it) ==
    LET nodeKey == it.list.key[it.nd]
    IN  IF it.nd = TailNode THEN Returns(it, Nil)
        ELSE IF it.upper # NoUpper /\ it.upper <= nodeKey.u THEN Returns([it EXCEPT !.nd = TailNode], Nil)
        ELSE Returns([it EXCEPT !.k = nodeKey], nodeKey)
BatchBackward(it) ==
    LET nodeKey == it.list.key[it.nd]
    IN  IF it.nd = HeadNode THEN Returns(it, Nil)
        ELSE IF it.lower # NoLower /\ it.lower > nodeKey.u THEN Returns([it EXCEPT !.nd = HeadNode], Nil)
        ELSE Returns([it EXCEPT !.k = nodeKey], nodeKey)
BatchFirst(it) == BatchForward([it EXCEPT !.nd = GetNext(it.list, HeadNode, 1)])
BatchLast(it) == BatchBackward([it EXCEPT !.nd = GetPrev(it.list, TailNode, 1)])
BatchNext(it) == BatchForward([it EXCEPT !.nd = GetNext(it.list, it.nd, 1)])
BatchPrev(it) == BatchBackward([it EXCEPT !.nd = GetPrev(it.list, it.nd, 1)])
BatchSeekLT(it, u) == BatchBackward([it EXCEPT !.nd = BatchSeekForBaseSplice(it.list, u).prev])
RECURSIVE BatchTryNexts(_, _, _)
BatchTryNexts(it, u, i) ==
    IF it.k.u >= u THEN Returns(it, it.k)
    ELSE IF i = 0 THEN it
    ELSE LET n == BatchNext(it) IN IF n.key = Nil THEN n ELSE BatchTryNexts(n, u, i - 1)
BatchSeekGE(it, u, try) ==
    LET n == BatchTryNexts(it, u, NumNexts)
        sought == BatchForward([it EXCEPT !.nd = BatchSeekForBaseSplice(it.list, u).next])
    IN  IF ~try THEN sought
        ELSE IF it.nd = TailNode THEN Returns(it, Nil)
        ELSE IF n.key = Nil \/ n.key.u >= u THEN n ELSE sought
============================================================================
