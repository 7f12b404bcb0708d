------------------------------- MODULE Batch -------------------------------
(***************************************************************************)
(* A batch of writes (batch.go): its records, the skiplists that index     *)
(* them when the batch can be read, the fragmented spans it caches, and    *)
(* the form in which a large batch stands in the queue of memtables        *)
(* (flushableBatch).  A record is [k, u, end, sfx, v]; its place in the    *)
(* batch stands for its byte offset.                                       *)
(***************************************************************************)
EXTENDS InternalKeys
SK == INSTANCE Skiplist

LogData == 3
IngestSST == 22
FormatRangeKeys == 1
FormatDeleteSizedAndObsolete == 2
FormatFlushableIngest == 3
MaxHeight == 2            \* of a skiplist
EntrySize == 2            \* memTableEntrySize: what the tallest node takes

RangeKeyKinds == {RangeKeySet, RangeKeyUnset, RangeKeyDelete}
Point(k, u) == [k |-> k, u |-> u, end |-> 0, sfx |-> 0, v |-> 0]
Ranged(k, u, end, sfx, v) == [k |-> k, u |-> u, end |-> end, sfx |-> sfx, v |-> v]

\* The keys of a span: sequence numbers for range deletions, and for range keys
\* records with a kind, a suffix and a value.
NewerSeqNum(a, b) == a > b
NewerTrailer(a, b) == a.s > b.s \/ (a.s = b.s /\ a.k > b.k)
Same(span) == span
Equal(a, b) == a = b
RD == INSTANCE KeyspanIters WITH NewerKey <- NewerSeqNum, Transform <- Same, SameState <- Equal, PrefixOf <- Same
RK == INSTANCE KeyspanIters WITH NewerKey <- NewerTrailer, Transform <- Same, SameState <- Equal, PrefixOf <- Same
DecodeRangeDel(rec, s) == Span(rec.u, rec.end, <<s>>)
DecodeRangeKey(rec, s) == Span(rec.u, rec.end, <<[s |-> s, k |-> rec.k, sfx |-> rec.sfx, v |-> rec.v]>>)

-----------------------------------------------------------------------------
NoList == SK!NewBatchList(MaxHeight)
NoCache == [spans |-> << >>, seqNum |-> 0, valid |-> FALSE]
NewBatch(indexed, db) ==
    [recs |-> << >>, count |-> 0, countRangeDels |-> 0, countRangeKeys |-> 0, memTableSize |-> 0, minFMV |-> 0,
     indexed |-> indexed, index |-> NoList, rangeDelIndex |-> NoList, rangeKeyIndex |-> NoList,
     tombstones |-> NoCache, rangeKeys |-> NoCache, db |-> db, committing |-> FALSE, ingested |-> FALSE,
     seqNum |-> 0]

Larger(a, b) == IF a > b THEN a ELSE b
NextSeqNum(b) == SeqNumBatch + Len(b.recs) + 1
PrepareDeferredRecord(b, rec) ==
    [b EXCEPT !.recs = Append(@, rec), !.count = @ + 1, !.memTableSize = @ + EntrySize]
\* index.Add of the record at an offset, with a node of height h.
IndexAdd(b, i, h) ==
    LET rec == b.recs[i]
        key == MakeInternalKey(rec.u, SeqNumBatch + i, rec.k)
    IN  IF ~b.indexed THEN b
        ELSE CASE rec.k = RangeDelete ->
                    [b EXCEPT !.tombstones = NoCache, !.rangeDelIndex = SK!BatchAdd(@, key, h)]
               [] rec.k \in RangeKeyKinds ->
                    [b EXCEPT !.rangeKeys = NoCache, !.rangeKeyIndex = SK!BatchAdd(@, key, h)]
               [] OTHER -> [b EXCEPT !.index = SK!BatchAdd(@, key, h)]
IncrementRangeKeysCount(b) == [b EXCEPT !.countRangeKeys = @ + 1, !.minFMV = Larger(@, FormatRangeKeys)]

\* Set, Merge, Delete, SingleDelete and DeleteSized.
AddPoint(b, rec, h) ==
    LET p == PrepareDeferredRecord(b, rec)
    IN  IndexAdd(IF rec.k = DeleteSized THEN [p EXCEPT !.minFMV = Larger(@, FormatDeleteSizedAndObsolete)] ELSE p,
                 Len(p.recs), h)
\* DeleteRange, RangeKeySet, RangeKeyUnset and RangeKeyDelete.
AddRange(b, rec, h) ==
    LET p == PrepareDeferredRecord(b, rec)
    IN  IndexAdd(IF rec.k = RangeDelete THEN [p EXCEPT !.countRangeDels = @ + 1] ELSE IncrementRangeKeysCount(p),
                 Len(p.recs), h)
Add(b, rec, h) ==
    IF rec.k = RangeDelete \/ rec.k \in RangeKeyKinds THEN AddRange(b, rec, h) ELSE AddPoint(b, rec, h)
AddInternalKey(b, key, h) ==
    LET p == PrepareDeferredRecord(b, Point(key.k, key.u)) IN IndexAdd(p, Len(p.recs), h)
\* Written to the log only, so neither counted nor indexed.
AddLogData(b) == [b EXCEPT !.recs = Append(@, Point(LogData, 0))]
AddIngestSST(b, fileNum) ==
    [b EXCEPT !.recs = Append(@, Point(IngestSST, fileNum)), !.count = @ + 1, !.ingested = TRUE,
              !.minFMV = FormatFlushableIngest]

\* Apply: the records of another batch, one by one.
RECURSIVE ApplyFrom(_, _, _)
ApplyFrom(b, i, heights) ==
    IF i > Len(b.recs) THEN b
    ELSE LET k == b.recs[i].k
             c == CASE k = RangeDelete -> [b EXCEPT !.countRangeDels = @ + 1]
                    [] k \in RangeKeyKinds -> [b EXCEPT !.countRangeKeys = @ + 1]
                    [] OTHER -> b
         IN  ApplyFrom([IndexAdd(c, i, heights[i]) EXCEPT !.memTableSize = @ + EntrySize], i + 1, heights)
Apply(b, other, heights) ==
    LET c == [b EXCEPT !.recs = @ \o other.recs, !.count = @ + other.count]
    IN  IF b.db \/ b.indexed THEN ApplyFrom(c, Len(b.recs) + 1, heights) ELSE c

\* What a batch that was read from the log, or from a peer, is counted as.
RefreshMemTableSize(b) ==
    LET of(kinds) == SelectSeq(b.recs, LAMBDA r : r.k \in kinds)
        sized == SelectSeq(b.recs, LAMBDA r : r.k # IngestSST)
        versions == {0} \cup (IF of({DeleteSized}) # << >> THEN {FormatDeleteSizedAndObsolete} ELSE {})
                        \cup (IF of({IngestSST}) # << >> THEN {FormatFlushableIngest} ELSE {})
                        \cup (IF of(RangeKeyKinds) # << >> THEN {FormatRangeKeys} ELSE {})
    IN  [b EXCEPT !.memTableSize = EntrySize * Len(sized), !.countRangeDels = Len(of({RangeDelete})),
                  !.countRangeKeys = Len(of(RangeKeyKinds)),
                  !.minFMV = CHOOSE v \in versions : \A w \in versions : w <= v]
SetRepr(b, recs, count, seqNum) ==
    LET c == [b EXCEPT !.recs = recs, !.count = count, !.seqNum = seqNum]
    IN  IF b.db THEN RefreshMemTableSize(c) ELSE c
Reset(b) == NewBatch(b.indexed, b.db)

-----------------------------------------------------------------------------
\* batchIter: over an index, hiding what was added at or after a snapshot.
NewBatchIter(list, lower, upper, snapshot) ==
    LET it == SK!NewIter(list, lower, upper)
    IN  [x \in DOMAIN it \cup {"snapshot"} |-> IF x = "snapshot" THEN snapshot ELSE it[x]]
RECURSIVE SkipForward(_), SkipBackward(_)
Hidden(it) == it.key # Nil /\ it.key.s >= it.snapshot
SkipForward(it) == IF Hidden(it) THEN SkipForward(SK!BatchNext(it)) ELSE it
SkipBackward(it) == IF Hidden(it) THEN SkipBackward(SK!BatchPrev(it)) ELSE it
IterSeekGE(it, u, try, refreshed) == SkipForward(SK!BatchSeekGE(it, u, try /\ ~refreshed))
IterSeekLT(it, u) == SkipBackward(SK!BatchSeekLT(it, u))
IterFirst(it) == SkipForward(SK!BatchFirst(it))
IterLast(it) == SkipBackward(SK!BatchLast(it))
IterNext(it) == SkipForward(SK!BatchNext(it))
IterPrev(it) == SkipBackward(SK!BatchPrev(it))
IterNextPrefix(it, succ) == SkipForward(SK!BatchSeekGE(it, succ, TRUE))

\* initRangeDelIter, initRangeKeyIter: the spans of a snapshot, and what is cached.
RECURSIVE Remaining(_)
Remaining(it) == IF it.key = Nil THEN << >> ELSE <<it.key>> \o Remaining(IterNext(it))
Records(b, list, snapshot) ==
    Remaining(IterFirst(NewBatchIter(list, SK!NoLower, SK!NoUpper, snapshot)))
FragmentRangeDels(recs, keys) ==
    RD!Fragment([i \in DOMAIN keys |-> DecodeRangeDel(recs[keys[i].s - SeqNumBatch], keys[i].s)])
FragmentRangeKeys(recs, keys) ==
    RK!Fragment([i \in DOMAIN keys |-> DecodeRangeKey(recs[keys[i].s - SeqNumBatch], keys[i].s)])
Cached(b, spans, snapshot) ==
    IF NextSeqNum(b) = snapshot THEN [spans |-> spans, seqNum |-> snapshot, valid |-> TRUE] ELSE NoCache
InitRangeDelIter(b, snapshot) ==
    LET spans == FragmentRangeDels(b.recs, Records(b, b.rangeDelIndex, snapshot))
    IN  IF b.rangeDelIndex = NoList THEN [b |-> b, spans |-> << >>]
        ELSE IF b.tombstones.valid /\ b.tombstones.seqNum <= snapshot
        THEN [b |-> b, spans |-> b.tombstones.spans]
        ELSE [b |-> IF NextSeqNum(b) = snapshot THEN [b EXCEPT !.tombstones = Cached(b, spans, snapshot)] ELSE b,
              spans |-> spans]
InitRangeKeyIter(b, snapshot) ==
    LET spans == FragmentRangeKeys(b.recs, Records(b, b.rangeKeyIndex, snapshot))
    IN  IF b.rangeKeyIndex = NoList THEN [b |-> b, spans |-> << >>]
        ELSE IF b.rangeKeys.valid /\ b.rangeKeys.seqNum <= snapshot
        THEN [b |-> b, spans |-> b.rangeKeys.spans]
        ELSE [b |-> IF NextSeqNum(b) = snapshot THEN [b EXCEPT !.rangeKeys = Cached(b, spans, snapshot)] ELSE b,
              spans |-> spans]

-----------------------------------------------------------------------------
\* flushableBatch: entries sorted by key, the later of two records in front.
Entries(b, S) ==
    Ranked(S, LAMBDA i, j : b.recs[i].u < b.recs[j].u \/ (b.recs[i].u = b.recs[j].u /\ i > j))
NewFlushableBatch(b) ==
    LET of(P(_)) == Entries(b, {i \in DOMAIN b.recs : P(b.recs[i].k)})
        dels == of(LAMBDA k : k = RangeDelete)
        keys == of(LAMBDA k : k \in RangeKeyKinds)
    IN  [recs |-> b.recs, seqNum |-> b.seqNum,
         offsets |-> of(LAMBDA k : k # RangeDelete /\ k \notin RangeKeyKinds),
         tombstones |-> RD!Fragment([i \in DOMAIN dels |-> DecodeRangeDel(b.recs[dels[i]], b.seqNum + dels[i] - 1)]),
         rangeKeys |-> RK!Fragment([i \in DOMAIN keys |-> DecodeRangeKey(b.recs[keys[i]], b.seqNum + keys[i] - 1)])]
SetSeqNum(f, seqNum) ==
    [f EXCEPT !.seqNum = seqNum,
              !.tombstones = [i \in DOMAIN @ |->
                                [@[i] EXCEPT !.keys = [j \in DOMAIN @ |-> @[j] + seqNum]]],
              !.rangeKeys = [i \in DOMAIN @ |->
                                [@[i] EXCEPT !.keys = [j \in DOMAIN @ |-> [@[j] EXCEPT !.s = @ + seqNum]]]]]

\* flushableBatchIter; index 0 is before the first entry.
FlushableIter(f, lower, upper) == [f |-> f, index |-> 0, lower |-> lower, upper |-> upper, key |-> Nil]
GetKey(it, i) ==
    LET e == it.f.offsets[i] IN MakeInternalKey(it.f.recs[e].u, it.f.seqNum + e - 1, it.f.recs[e].k)
Len1(it) == Len(it.f.offsets) + 1
FlushableForward(it, i) ==
    IF i >= Len1(it) THEN [it EXCEPT !.index = Len1(it), !.key = Nil]
    ELSE IF it.upper # SK!NoUpper /\ GetKey(it, i).u >= it.upper THEN [it EXCEPT !.index = Len1(it), !.key = Nil]
    ELSE [it EXCEPT !.index = i, !.key = GetKey(it, i)]
FlushableBackward(it, i) ==
    IF i <= 0 THEN [it EXCEPT !.index = 0, !.key = Nil]
    ELSE IF it.lower # SK!NoLower /\ GetKey(it, i).u < it.lower THEN [it EXCEPT !.index = 0, !.key = Nil]
    ELSE [it EXCEPT !.index = i, !.key = GetKey(it, i)]
SearchGE(it, u) == Cardinality({i \in DOMAIN it.f.offsets : Before(GetKey(it, i), MakeSearchKey(u))}) + 1
FlushableSeekGE(it, u) == FlushableForward(it, SearchGE(it, u))
FlushableSeekLT(it, u) == FlushableBackward(it, SearchGE(it, u) - 1)
FlushableFirst(it) == IF it.f.offsets = << >> THEN [it EXCEPT !.key = Nil] ELSE FlushableForward(it, 1)
FlushableLast(it) == IF it.f.offsets = << >> THEN [it EXCEPT !.key = Nil] ELSE FlushableBackward(it, Len1(it) - 1)
FlushableNext(it) == IF it.index = Len1(it) THEN [it EXCEPT !.key = Nil] ELSE FlushableForward(it, it.index + 1)
FlushablePrev(it) == IF it.index < 1 THEN [it EXCEPT !.key = Nil] ELSE FlushableBackward(it, it.index - 1)
=============================================================================
