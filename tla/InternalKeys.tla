---------------------------- MODULE InternalKeys ----------------------------
(***************************************************************************)
(* Internal keys, spans of user keys, and iterators over fragmented spans  *)
(* (internal/base/internal.go, internal/keyspan: span.go, iter.go,         *)
(* seek.go).  User keys are numbers.  An internal key is a user key u with *)
(* a trailer: a sequence number s and a kind k.                            *)
(***************************************************************************)
EXTENDS Naturals, Integers, Sequences, FiniteSets
LOCAL INSTANCE SequencesExt

\* The values of the file format; only the order of the last two matters.
Delete == 0
Set == 1
Merge == 2
SingleDelete == 7
RangeDelete == 15
SetWithDelete == 18
RangeKeyDelete == 19
RangeKeyUnset == 20
RangeKeySet == 21
DeleteSized == 23
SeqNumBatch == 1000
SeqNumMax == 1999

Nil == [nil |-> TRUE]

MakeInternalKey(u, s, k) == [u |-> u, s |-> s, k |-> k]
MakeSearchKey(u) == MakeInternalKey(u, SeqNumMax, DeleteSized)
MakeExclusiveSentinelKey(k, u) == MakeInternalKey(u, SeqNumMax, k)
RangeDeleteSentinel(u) == MakeExclusiveSentinelKey(RangeDelete, u)
IsExclusiveSentinel(key) ==
    key.s = SeqNumMax /\ key.k \in {RangeDelete, RangeKeyDelete, RangeKeyUnset, RangeKeySet}

\* InternalCompare: user keys ascend, sequence numbers and kinds descend.
Before(a, b) == \/ a.u < b.u
                \/ a.u = b.u /\ (a.s > b.s \/ (a.s = b.s /\ a.k > b.k))
\* The elements of a set in an order: each behind those less than it.
Ranked(S, Less(_, _)) ==
    [i \in 1 .. Cardinality(S) |-> CHOOSE x \in S : Cardinality({y \in S : Less(y, x)}) = i - 1]
SortedKeys(S) == Ranked(S, Before)

IsBatchSeqNum(s) == s >= SeqNumBatch
Visible(s, snapshot, batchSnapshot) ==
    s < snapshot \/ (IsBatchSeqNum(s) /\ s < batchSnapshot) \/ s = SeqNumMax

-----------------------------------------------------------------------------
\* A span [start, end) with the sequence numbers of its range deletions, newest
\* first (package rangekey has spans with kinds, suffixes and values).
Span(start, end, keys) == [start |-> start, end |-> end, keys |-> keys]
Empty(span) == span = Nil \/ span.keys = << >>
SmallestKey(span) == MakeInternalKey(span.start, span.keys[1], RangeDelete)
LargestKey(span) == RangeDeleteSentinel(span.end)
SpanContains(span, u) == span.start <= u /\ u < span.end
VisibleAt(span, snapshot) ==
    /\ span.keys # << >>
    /\ IsBatchSeqNum(span.keys[1]) \/ Last(span.keys) < snapshot
\* The newest key that is visible decides.
CoversAt(span, snapshot, s) ==
    LET visible == SelectSeq(span.keys, LAMBDA x : IsBatchSeqNum(x) \/ x < snapshot)
    IN  visible # << >> /\ visible[1] > s
VisibleSpan(span, snapshot) ==
    [span EXCEPT !.keys = SelectSeq(@, LAMBDA x : IsBatchSeqNum(x) \/ x < snapshot)]

-----------------------------------------------------------------------------
\* keyspan.Iter: a position 0 .. Len + 1 in fragmented spans.
SpanAt(spans, i) == IF i \in 1 .. Len(spans) THEN spans[i] ELSE Nil
SeekGEIndex(spans, u) == Cardinality({i \in 1 .. Len(spans) : spans[i].end <= u}) + 1
SeekLTIndex(spans, u) == Cardinality({i \in 1 .. Len(spans) : spans[i].start < u})
SpanSeekGE(spans, u) == SpanAt(spans, SeekGEIndex(spans, u))

\* keyspan.SeekLE: the span that contains u, or the last one before it.
SpanSeekLE(spans, u) ==
    LET i == SeekLTIndex(spans, u)
        cur == SpanAt(spans, i)
        next == SpanAt(spans, i + 1)
        nextHolds == next # Nil /\ next.start <= u
    IN  IF cur = Nil \/ u >= cur.end THEN IF nextHolds THEN next ELSE cur
        ELSE cur
=============================================================================
