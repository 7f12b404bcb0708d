----------------------------- MODULE BlockIter -----------------------------
(***************************************************************************)
(* A block of an sstable: what blockWriter writes, blockIter reads, and    *)
(* fragmentBlockIter makes of blocks of spans (sstable/block.go), with the *)
(* flags writer.go gives a point key.  Entry i of the block stands for its *)
(* byte offset: blockIter's offset -1 is 0 here, and i.restarts, the       *)
(* offset behind the last entry, is Len(entries) + 1.  An entry that       *)
(* shares its user key with its predecessor does not store it.             *)
(***************************************************************************)
EXTENDS InternalKeys

\* 3 and 16 in the code; smaller so that the slow paths of NextPrefix are taken.
NextCmpThresholdBeforeSeek == 2
NextFastThresholdBeforeRestarts == 1

NoUserKey == -1

-----------------------------------------------------------------------------
\* blockWriter.

EmptyWriter == [entries |-> << >>, restarts |-> << >>, nextRestart |-> 0,
                sameSince |-> FALSE, prevKey |-> NoUserKey]

StoreWithOptionalValuePrefix(w, key, obs, v, same, interval) ==
    LET restart == Len(w.entries) = w.nextRestart
        since == w.sameSince /\ same
        shared == ~restart /\ w.prevKey = key.u
        entry == [u |-> IF shared THEN NoUserKey ELSE key.u, s |-> key.s, k |-> key.k,
                  shared |-> shared, obs |-> obs, same |-> same, v |-> v]
    IN  [entries |-> Append(w.entries, entry),
         restarts |-> IF restart THEN Append(w.restarts, [at |-> Len(w.entries) + 1, same |-> since])
                      ELSE w.restarts,
         nextRestart |-> IF restart THEN Len(w.entries) + interval ELSE w.nextRestart,
         sameSince |-> IF restart THEN TRUE ELSE since,
         prevKey |-> key.u]

Add(w, key, v, interval) == StoreWithOptionalValuePrefix(w, key, FALSE, v, FALSE, interval)

Finish(w) == [entries |-> w.entries,
              restarts |-> IF w.restarts = << >> THEN <<[at |-> 1, same |-> FALSE]>> ELSE w.restarts]

\* What the table writer decides about a point key that follows prev
\* (makeAddPointDecisionV3): prev.obs says whether prev was marked obsolete.
SameKindAndPrefix(prev, key) ==
    prev # Nil /\ prev.k = Set /\ key.k = Set /\ prev.u = key.u
IsObsolete(prev, key, lowest) ==
    /\ prev # Nil
    /\ \/ prev.u = key.u /\ (prev.obs \/ prev.k # Merge)
       \/ lowest /\ key.k \in {Delete, SingleDelete, DeleteSized}

-----------------------------------------------------------------------------
\* blockIter: off and next are offset and nextOffset, full and key the two key
\* buffers, cached the entries Prev has decoded ahead, cbuf whether cachedBuf is
\* in use, ikey the decoded key; ok tells whether the last call returned it.

Load(blk, globalSeqNum, hide, v3) ==
    [blk |-> blk, gseq |-> globalSeqNum, hide |-> hide, v3 |-> v3, inval |-> FALSE,
     off |-> 1, next |-> 1, full |-> NoUserKey, key |-> Nil, ikey |-> Nil,
     cached |-> << >>, cbuf |-> FALSE, ok |-> FALSE]

ClearCache(b) == [b EXCEPT !.cached = << >>, !.cbuf = FALSE]
Invalidate(b) ==
    [ClearCache(b) EXCEPT !.off = 1, !.next = 1, !.inval = TRUE, !.ok = FALSE,
                          !.blk = [entries |-> << >>, restarts |-> << >>]]

End(b) == Len(b.blk.entries) + 1
Valid(b) == 1 <= b.off /\ b.off < End(b)
Key(b) == IF b.ok THEN b.ikey ELSE Nil
Value(b) == b.blk.entries[b.off].v
Returned(b) == [b EXCEPT !.ok = TRUE]
Nothing(b) == [b EXCEPT !.ok = FALSE]
RestartAt(b, i) == b.blk.restarts[i].at
FirstUserKey(b) == b.blk.entries[1].u

\* readEntry: the unshared part replaces the tail of fullKey.
ReadEntry(b) ==
    LET e == b.blk.entries[b.off]
        u == IF e.shared THEN b.full ELSE e.u
    IN  [b EXCEPT !.next = b.off + 1, !.full = u,
                  !.key = [u |-> u, s |-> e.s, k |-> e.k, obs |-> e.obs]]

Hidden(b) == b.hide /\ b.key.obs
DecodeInternalKey(b) ==
    [b EXCEPT !.ikey = MakeInternalKey(b.key.u, IF b.gseq # 0 THEN b.gseq ELSE b.key.s, b.key.k)]

CacheEntry(b) ==
    [b EXCEPT !.cached = Append(@, [off |-> b.off, key |-> b.key]), !.cbuf = TRUE]

\* The restart points whose first key is below u, or that lie before an entry.
RestartsBelow(b, u) ==
    Cardinality({i \in DOMAIN b.blk.restarts : b.blk.entries[RestartAt(b, i)].u < u})
RestartsBefore(b, off) == Cardinality({i \in DOMAIN b.blk.restarts : RestartAt(b, i) < off})

RECURSIVE NextFrom(_)
NextFrom(b) ==
    LET at == [b EXCEPT !.off = b.next]
        read == DecodeInternalKey(ReadEntry(at))
    IN  IF ~Valid(at) THEN Nothing(at)
        ELSE IF Hidden(read) THEN NextFrom(read) ELSE Returned(read)
Next(b) == NextFrom(IF b.cbuf THEN ClearCache([b EXCEPT !.full = b.key.u]) ELSE b)

RECURSIVE ScanGE(_, _)
ScanGE(b, u) ==
    IF ~Valid(b) THEN Nothing(b)
    ELSE IF b.ikey.u >= u THEN Returned(b) ELSE ScanGE(Next(b), u)
SeekGE(b, u) ==
    LET index == RestartsBelow(b, u)
        at == [ClearCache(b) EXCEPT !.off = IF index > 0 THEN RestartAt(b, index) ELSE 1]
        read == DecodeInternalKey(ReadEntry(at))
    IN  IF ~Valid(at) THEN Nothing(at)
        ELSE IF ~Hidden(read) /\ read.ikey.u >= u THEN Returned(read)
        ELSE ScanGE(Next(read), u)

\* Prev takes the decoded entries first, then decodes a restart interval.
RECURSIVE FromCache(_, _), CacheUpTo(_, _), Prev(_)
FromCache(b, n) ==
    LET e == b.cached[n]
        at == [b EXCEPT !.next = b.off, !.off = e.off, !.key = e.key]
    IN  IF Hidden(at) THEN IF n = 1 THEN [at EXCEPT !.cached = << >>] ELSE FromCache(at, n - 1)
        ELSE Returned(DecodeInternalKey([at EXCEPT !.cached = SubSeq(@, 1, n - 1)]))
CacheUpTo(b, target) ==
    LET read == ReadEntry(b)
    IN  IF read.next >= target THEN read
        ELSE CacheUpTo([CacheEntry(read) EXCEPT !.off = read.next], target)
Prev(b0) ==
    LET b == Nothing(b0)
        cached == IF b.cached = << >> THEN b ELSE FromCache(b, Len(b.cached))
        c == ClearCache(cached)
        index == RestartsBefore(c, c.off)
        read == DecodeInternalKey(
                    CacheUpTo([c EXCEPT !.off = IF index > 0 THEN RestartAt(c, index) ELSE 1], c.off))
    IN  IF cached.ok THEN cached
        ELSE IF c.off <= 1 THEN [c EXCEPT !.off = 0, !.next = 1]
        ELSE IF Hidden(read) THEN Prev(read) ELSE Returned(read)

RECURSIVE ScanLT(_, _, _)
ScanLT(b, u, target) ==
    LET read == DecodeInternalKey(ReadEntry([b EXCEPT !.off = b.next]))
    IN  IF read.ikey.u >= u \/ (read.next >= target /\ Hidden(read)) THEN Prev(read)
        ELSE IF read.next >= target THEN Returned(read)
        ELSE ScanLT(CacheEntry(read), u, target)
SeekLT(b, u) ==
    LET index == RestartsBelow(b, u)
        c == ClearCache(b)
    IN  IF index = 0 THEN Nothing([c EXCEPT !.off = 0, !.next = 1])
        ELSE ScanLT([c EXCEPT !.next = RestartAt(b, index)], u,
                    IF index < Len(b.blk.restarts) THEN RestartAt(b, index + 1) ELSE End(b))

First(b) ==
    LET at == [b EXCEPT !.off = 1]
        read == DecodeInternalKey(ReadEntry(ClearCache(at)))
    IN  IF ~Valid(at) THEN Nothing(at)
        ELSE IF Hidden(read) THEN Next(read) ELSE Returned(read)

Last(b) ==
    LET at == [b EXCEPT !.off = RestartAt(b, Len(b.blk.restarts))]
        read == DecodeInternalKey(CacheUpTo(ClearCache(at), End(b)))
    IN  IF ~Valid(at) THEN Nothing(at)
        ELSE IF Hidden(read) THEN Prev(read) ELSE Returned(read)

-----------------------------------------------------------------------------
\* NextPrefix: to the first key at or behind succ, the successor of the prefix.

RECURSIVE NextPrefixV2(_, _, _)
NextPrefixV2(b, succ, j) ==
    IF ~b.ok \/ b.ikey.u >= succ THEN b
    ELSE IF j >= NextCmpThresholdBeforeSeek THEN SeekGE(b, succ)
    ELSE NextPrefixV2(Next(b), succ, j + 1)

\* The restart points behind which every entry is a SET with the same prefix.
RECURSIVE SkipSameRestarts(_, _)
SkipSameRestarts(b, index) ==
    IF index < Len(b.blk.restarts) /\ b.blk.restarts[index + 1].same
    THEN SkipSameRestarts(b, index + 1) ELSE index
JumpRestarts(b) ==
    LET index == RestartsBefore(b, b.off)
        jump == SkipSameRestarts(b, index)
    IN  IF jump = index THEN b
        ELSE ReadEntry([b EXCEPT !.off = RestartAt(b, jump)])

\* An entry whose value prefix says "SET with the same prefix" is passed without
\* reading its key; cmps counts the keys that were read, fast those that were not.
RECURSIVE NextPrefixV3(_, _, _, _, _, _)
NextPrefixV3(b, succ, prevKeyIsSet, cmps, fast, usedRestarts) ==
    LET at == [b EXCEPT !.off = b.next]
        e == at.blk.entries[at.off]
        passed == [at EXCEPT !.next = at.off + 1]
        changed == e.k = Set /\ prevKeyIsSet
        read == DecodeInternalKey(ReadEntry(at))
    IN  IF ~Valid(at) THEN Nothing(at)
        ELSE IF e.k = Set /\ e.same
        THEN IF fast + 1 <= NextFastThresholdBeforeRestarts
             THEN NextPrefixV3(passed, succ, prevKeyIsSet, cmps, fast + 1, usedRestarts)
             ELSE IF usedRestarts THEN SeekGE(passed, succ)
             ELSE NextPrefixV3(JumpRestarts(passed), succ, prevKeyIsSet, cmps, 0, TRUE)
        ELSE IF changed \/ read.ikey.u >= succ
        THEN IF Hidden(read) THEN Next(read) ELSE Returned(read)
        ELSE IF cmps + 1 >= NextCmpThresholdBeforeSeek THEN SeekGE(read, succ)
        ELSE NextPrefixV3(read, succ, prevKeyIsSet /\ e.k = Set, cmps + 1, fast, usedRestarts)

NextPrefix(b, succ) ==
    IF b.v3 THEN NextPrefixV3(b, succ, b.ikey.k = Set, 0, 0, FALSE)
    ELSE NextPrefixV2(Next(b), succ, 1)

-----------------------------------------------------------------------------
\* fragmentBlockIter: the entries with the same start key are one span.

LoadFragments(blk, globalSeqNum, elide) ==
    [b |-> Load(blk, globalSeqNum, FALSE, FALSE), span |-> Nil, dir |-> 0, elide |-> elide]

RECURSIVE GatherForward(_, _), GatherBackward(_, _)
GatherForward(b, span) ==
    IF b.ok /\ b.ikey.u = span.start
    THEN GatherForward(Next(b), [span EXCEPT !.keys = Append(@, b.ikey.s)])
    ELSE [b |-> b, span |-> span]
GatherBackward(b, span) ==
    IF b.ok /\ b.ikey.u = span.start
    THEN GatherBackward(Prev(b), [span EXCEPT !.keys = <<b.ikey.s>> \o @])
    ELSE [b |-> b, span |-> span]

\* An sstable with a global sequence number gives all keys of a span the same one.
ElideKeysOfSameSeqNum(span) ==
    LET keep == {i \in DOMAIN span.keys : i = 1 \/ span.keys[i] # span.keys[i - 1]}
    IN  [span EXCEPT !.keys = [n \in 1 .. Cardinality(keep) |->
                                 @[CHOOSE i \in keep : Cardinality({j \in keep : j <= i}) = n]]]

\* The block iterator is left on the entry behind the span, in its direction.
Gathered(f, b, forward) ==
    LET start == Span(b.ikey.u, Value(b), <<b.ikey.s>>)
        g == IF forward THEN GatherForward(Next(b), start) ELSE GatherBackward(Prev(b), start)
    IN  IF ~b.ok \/ ~Valid(b) THEN [f EXCEPT !.b = b, !.span = Nil]
        ELSE [f EXCEPT !.b = g.b, !.span = IF f.elide THEN ElideKeysOfSameSeqNum(g.span) ELSE g.span]

FragmentFirst(f) == Gathered([f EXCEPT !.dir = 1], First(f.b), TRUE)
FragmentLast(f) == Gathered([f EXCEPT !.dir = -1], Last(f.b), FALSE)
FragmentSeekLT(f, u) == Gathered([f EXCEPT !.dir = -1], SeekLT(f.b, u), FALSE)

FragmentNext(f) ==
    LET turned == IF f.dir # -1 THEN f
                  ELSE IF f.span = Nil THEN [f EXCEPT !.b = First(f.b), !.dir = 1]
                  ELSE [Gathered(f, Next(f.b), TRUE) EXCEPT !.dir = 1]
    IN  Gathered(turned, [turned.b EXCEPT !.ok = TRUE], TRUE)
FragmentPrev(f) ==
    LET turned == IF f.dir # 1 THEN f
                  ELSE IF f.span = Nil THEN [f EXCEPT !.b = Last(f.b), !.dir = -1]
                  ELSE [Gathered(f, Prev(f.b), FALSE) EXCEPT !.dir = -1]
    IN  Gathered(turned, [turned.b EXCEPT !.ok = TRUE], FALSE)

FragmentSeekGE(f, u) ==
    LET lt == FragmentSeekLT(f, u)
    IN  IF lt.span # Nil /\ u < lt.span.end THEN lt ELSE FragmentNext(lt)
============================================================================
