------------------------------ MODULE Iterator ------------------------------
(***************************************************************************)
(* The iterator of a reader (iterator.go): it turns internal keys and span *)
(* markers into user keys with a merged value and a covering range key.    *)
(* An iterator is a record: in is the iterator below (CombinedIter), whose *)
(* key field is iterKey; sk is prefixOrFullSeekKey; rk the range key       *)
(* state.  The value of an internal key is its sequence number, a merged   *)
(* value the sequence of its operands, oldest first.                       *)
(***************************************************************************)
EXTENDS InternalKeys

CONSTANTS Snapshot,
          Skipped,            \* the user keys that IterOptions.SkipPoint hides
          NeedDelete(_)       \* whether a merged value deletes itself

CI == INSTANCE CombinedIter
NoKey == CI!NoKey
Deletes == {Delete, SingleDelete, DeleteSized}
Sets == {Set, SetWithDelete}
Trailer(key) == 100 * key.s + key.k

New(in, batch, forwardOnly) ==
    [in |-> in, key |-> NoKey, value |-> << >>, state |-> "exhausted", pos |-> "curForward", hasPrefix |-> FALSE,
     sk |-> NoKey, lastOp |-> "unknown", reposition |-> FALSE, err |-> FALSE, lower |-> NoKey, upper |-> NoKey,
     batch |-> batch, refreshed |-> FALSE, forwardOnly |-> forwardOnly,
     rk |-> [has |-> FALSE, only |-> FALSE, updated |-> FALSE, prevHad |-> FALSE, start |-> NoKey, end |-> NoKey,
             keys |-> << >>]]

Valid(x) == x.state = "valid" /\ ~x.reposition
RangeKeyChanged(x) == x.state = "valid" /\ x.rk.updated
\* Whether the position is a marker that only a seek put there.
IsEphemeralPosition(x) == x.rk.only /\ x.rk.start # x.key
InNext(x) == [x EXCEPT !.in = CI!Next(x.in)]
InPrev(x) == [x EXCEPT !.in = CI!Prev(x.in)]
SetState(x, state, pos) == [x EXCEPT !.state = state, !.pos = pos]

RangeKeyWithinLimit(x, limit) ==
    LET s == CI!SpanShown(x.in) IN IF s = Nil THEN FALSE ELSE s.end > limit
SaveRangeKey(x) ==
    LET s == CI!SpanShown(x.in)
        same == x.rk.prevHad /\ x.rk.start = s.start /\ x.rk.end = s.end
    IN  IF s = Nil THEN [x EXCEPT !.rk.has = FALSE, !.rk.updated = x.rk.prevHad]
        ELSE IF ~x.in.stale THEN x
        ELSE IF same THEN [x EXCEPT !.rk.has = TRUE, !.rk.updated = FALSE, !.in.stale = FALSE]
        ELSE [x EXCEPT !.in.stale = FALSE,
                       !.rk = [@ EXCEPT !.has = TRUE, !.updated = TRUE, !.start = s.start, !.end = s.end, !.keys = s.keys]]

-----------------------------------------------------------------------------
\* Forward: entries are reached newest first.

RECURSIVE MergeOlder(_, _)
MergeOlder(x, value) ==
    LET n == InNext(x)
        key == n.in.key
    IN  IF key = Nil \/ key.u # x.key THEN [SetState(n, x.state, "next") EXCEPT !.value = value]
        ELSE IF key.k \in Deletes THEN [n EXCEPT !.value = value]
        ELSE IF key.k \in Sets THEN [n EXCEPT !.value = <<key.s>> \o value]
        ELSE MergeOlder(n, <<key.s>> \o value)
MergeNext(x) == MergeOlder([x EXCEPT !.key = x.in.key.u], <<x.in.key.s>>)
\* mergeForward: the merged value, or valid is FALSE.
MergeForward(x) == LET n == MergeNext(x) IN [x |-> n, valid |-> ~NeedDelete(n.value)]

\* nextUserKey: no older version is left once the sequence number is 0, and a trailer
\* that does not fall belongs to another user key.
RECURSIVE PastVersions(_, _, _)
PastVersions(x, trailer, done) ==
    LET n == InNext(x)
        key == n.in.key
    IN  IF done \/ key = Nil THEN n
        ELSE IF Trailer(key) >= trailer \/ key.u # x.key THEN n
        ELSE PastVersions(n, Trailer(key), key.s = 0)
OnKeyOfInner(x) == IF x.state # "valid" THEN [x EXCEPT !.key = x.in.key.u] ELSE x
NextUserKey(x) ==
    IF x.in.key = Nil THEN x ELSE PastVersions(OnKeyOfInner(x), Trailer(x.in.key), x.in.key.s = 0)

\* On a marker: whether a point with the same user key exists decides rangeKeyOnly.
NextPointCurrentUserKey(x) ==
    LET n == InNext([x EXCEPT !.pos = "curForward"])
        key == n.in.key
        merged == MergeForward(n)
        only(y, b) == [y EXCEPT !.rk.only = b]
    IN  IF x.key \in Skipped THEN only(x, TRUE)
        ELSE IF key = Nil \/ key.u # x.key THEN only([n EXCEPT !.pos = "next"], TRUE)
        ELSE IF key.k \in Deletes THEN only(n, TRUE)
        ELSE IF key.k \in Sets THEN only([n EXCEPT !.value = <<key.s>>], FALSE)
        ELSE only(merged.x, ~merged.valid)

RECURSIVE NextEntry(_, _)
NextEntry(x, limit) ==
    LET key == x.in.key
        merged == MergeForward(SaveRangeKey(x))
        gone == IF merged.x.pos = "next" THEN merged.x ELSE NextUserKey(merged.x)
        found == [x EXCEPT !.key = key.u, !.value = IF key.k \in Sets THEN <<key.s>> ELSE << >>]
    IN  IF key = Nil THEN x
        ELSE IF x.hasPrefix /\ CI!PrefixOf(key.u) # x.sk THEN x
        ELSE IF limit # NoKey /\ limit <= key.u THEN SetState(x, "atLimit", "curForwardPaused")
        ELSE IF key.k # RangeKeySet /\ key.u \in Skipped THEN NextEntry(InNext(x), limit)
        ELSE CASE key.k = RangeKeySet -> [NextPointCurrentUserKey(SaveRangeKey(found)) EXCEPT !.state = "valid"]
               [] key.k \in Deletes -> NextEntry(NextUserKey(x), limit)
               [] key.k \in Sets -> [SaveRangeKey(found) EXCEPT !.state = "valid"]
               [] key.k = Merge -> IF merged.valid THEN [merged.x EXCEPT !.state = "valid"]
                                   ELSE NextEntry([gone EXCEPT !.pos = "curForward"], limit)
FindNextEntry(x, limit) == NextEntry([SetState(x, "exhausted", "curForward") EXCEPT !.rk.only = FALSE], limit)

-----------------------------------------------------------------------------
\* Reverse: entries are reached oldest first, so an entry is known only when the
\* iterator below has left its user key.  merger is << >> while there is none.

RECURSIVE OverVersions(_)
OverVersions(x) ==
    LET p == InPrev(x)
    IN  IF p.in.key = Nil THEN p ELSE IF p.in.key.u # x.key THEN p ELSE OverVersions(p)
PrevUserKey(x) == IF x.in.key = Nil THEN x ELSE OverVersions(OnKeyOfInner(x))

BeyondLimit(x, limit) ==
    IF limit = NoKey \/ x.in.key = Nil THEN FALSE ELSE limit > x.in.key.u /\ ~RangeKeyWithinLimit(x, limit)
Paused(x) == SetState(x, "atLimit", "curReversePaused")
\* The end of the data: the entry that was found, unless its value deletes itself.
AtFirstEntry(x, merger) ==
    IF x.state # "valid" THEN x
    ELSE IF merger = << >> THEN [x EXCEPT !.pos = "prev"]
    ELSE IF NeedDelete(merger) THEN [SetState(x, "exhausted", "prev") EXCEPT !.key = NoKey, !.value = << >>]
    ELSE [x EXCEPT !.pos = "prev", !.value = merger]

RECURSIVE PrevEntry(_, _, _, _, _)
PrevEntry(x, limit, first, merger, boundary) ==
    LET key == x.in.key
        found == [SaveRangeKey([x EXCEPT !.key = key.u]) EXCEPT !.state = "valid"]
        left == [x EXCEPT !.pos = "prev"]
        over == InPrev(x)
        gone == InPrev([x EXCEPT !.value = << >>, !.state = "exhausted"])
        operands == IF x.state = "exhausted" THEN << >> ELSE IF merger = << >> THEN x.value ELSE merger
        marked == [SaveRangeKey([x EXCEPT !.rk.only = x.state # "valid", !.key = key.u, !.state = "valid"])
                     EXCEPT !.state = "valid"]
    IN  IF key = Nil THEN AtFirstEntry(x, merger)
        ELSE IF first /\ BeyondLimit(x, limit) THEN Paused(x)
        ELSE IF x.state = "valid" /\ key.u # x.key
        THEN IF merger = << >> THEN left
             ELSE IF ~NeedDelete(merger) THEN [left EXCEPT !.value = merger]
             ELSE IF boundary THEN [left EXCEPT !.value = << >>, !.rk.only = TRUE]
             ELSE PrevEntry([left EXCEPT !.value = << >>, !.state = "exhausted"], limit, FALSE, merger, boundary)
        ELSE IF key.k # RangeKeySet /\ key.u \in Skipped
        THEN IF BeyondLimit(over, limit) THEN Paused(over) ELSE PrevEntry(over, limit, FALSE, merger, boundary)
        ELSE CASE key.k = RangeKeySet -> PrevEntry(InPrev(marked), limit, FALSE, merger, TRUE)
               [] key.k \in Deletes -> IF BeyondLimit(gone, limit) THEN Paused(gone)
                                       ELSE PrevEntry(gone, limit, FALSE, << >>, boundary)
               [] key.k \in Sets ->
                    PrevEntry(InPrev([found EXCEPT !.value = <<key.s>>]), limit, FALSE, << >>, boundary)
               [] key.k = Merge ->
                    PrevEntry(InPrev(IF x.state = "exhausted" THEN found ELSE x), limit, FALSE,
                              Append(operands, key.s), boundary)
FindPrevEntry(x, limit) ==
    PrevEntry([SetState(x, "exhausted", "curReverse") EXCEPT !.rk.only = FALSE], limit, TRUE, << >>, FALSE)

-----------------------------------------------------------------------------
\* The operations.  Begin also clears what every positioning call clears.
BeginUnpositioned(x) ==     \* mutant
    [x EXCEPT !.rk.prevHad = x.rk.has, !.rk.updated = x.rk.has /\ ~Valid(x), !.lastOp = "unknown", !.reposition = FALSE]
Begin(x) ==
    [x EXCEPT !.rk.prevHad = x.rk.has /\ Valid(x), !.rk.updated = x.rk.has /\ ~Valid(x),
              !.lastOp = "unknown", !.reposition = FALSE]
BeginSeek(x) == [Begin(x) EXCEPT !.err = FALSE, !.hasPrefix = FALSE, !.refreshed = FALSE]
Clamp(x, u) == IF x.lower # NoKey /\ u < x.lower THEN x.lower
               ELSE IF x.upper # NoKey /\ u > x.upper THEN x.upper ELSE u
InSeekGE(x, u, try, refreshed) ==
    [x EXCEPT !.in = CI!SeekGE([@ EXCEPT !.pt.try = try, !.pt.refreshed = refreshed], u)]
InSeekLT(x, u) == [x EXCEPT !.in = CI!SeekLT(@, u)]
IterFirstWithinBounds(x) ==
    IF x.lower # NoKey THEN InSeekGE(x, x.lower, FALSE, FALSE) ELSE [x EXCEPT !.in = CI!First(@)]
IterLastWithinBounds(x) == IF x.upper # NoKey THEN InSeekLT(x, x.upper) ELSE [x EXCEPT !.in = CI!Last(@)]

SeekGEWithLimit(x, u, limit) ==
    LET key == Clamp(x, u)
        b == BeginSeek(x)
        onward == x.lastOp = "seekGE" /\ x.sk <= key
        noop == /\ onward /\ ~x.refreshed
                /\ \/ x.state = "exhausted"
                   \/ x.state = "valid" /\ key <= x.key /\ (limit = NoKey \/ x.key < limit)
        resume == onward /\ ~x.refreshed /\ x.pos = "curForwardPaused" /\ key <= x.in.key.u
        try == \/ onward /\ x.sk < key /\ x.state # "atLimit" /\ limit = NoKey
               \/ /\ x.forwardOnly /\ x.lastOp # "invalidated" /\ x.pos = "curForward" /\ ~x.hasPrefix
                  /\ x.state = "valid" /\ key > x.in.key.u
        sought == FindNextEntry(IF resume THEN b ELSE InSeekGE(b, key, try, x.refreshed), limit)
    IN  IF noop THEN [b EXCEPT !.lastOp = "seekGE"]
        ELSE [sought EXCEPT !.sk = key, !.lastOp = "seekGE"]
SeekPrefixGE(x, u) ==
    LET prefix == CI!PrefixOf(u)
        b == [BeginSeek(x) EXCEPT !.hasPrefix = TRUE, !.sk = prefix]
        try == x.lastOp = "seekPrefixGE" /\ x.sk < prefix
        key == Clamp(x, u)
        sought == [b EXCEPT !.in = CI!SeekPrefixGE([@ EXCEPT !.pt.try = try, !.pt.refreshed = x.refreshed], key)]
    IN  IF key # u /\ CI!PrefixOf(key) # prefix THEN [b EXCEPT !.err = TRUE, !.state = "exhausted"]
        ELSE [FindNextEntry(sought, NoKey) EXCEPT !.lastOp = "seekPrefixGE"]
SeekLTWithLimit(x, u, limit) ==
    LET key == Clamp(x, u)
        b == BeginSeek(x)
        onward == x.lastOp = "seekLT" /\ ~x.batch /\ key <= x.sk
        noop == /\ onward
                /\ \/ x.state = "exhausted"
                   \/ x.state = "valid" /\ x.key < key /\ (limit = NoKey \/ limit <= x.key)
        resume == onward /\ x.pos = "curReversePaused" /\ x.in.key.u < key
        sought == FindPrevEntry(IF resume THEN b ELSE InSeekLT(b, key), limit)
    IN  IF noop THEN [b EXCEPT !.lastOp = "seekLT"]
        ELSE IF x.batch THEN sought ELSE [sought EXCEPT !.sk = key, !.lastOp = "seekLT"]
First(x) == FindNextEntry(IterFirstWithinBounds(BeginSeek(x)), NoKey)
Last(x) == FindPrevEntry(IterLastWithinBounds(BeginSeek(x)), NoKey)

Fail(x) == [x EXCEPT !.err = TRUE, !.state = "exhausted"]
NextWithLimit(x, limit) ==
    LET b == Begin(x)
        e == [b EXCEPT !.state = "exhausted"]
        onto == CASE x.pos \in {"curForward", "curReversePaused"} -> NextUserKey(b)
                  [] x.pos \in {"curForwardPaused", "next"} -> b
                  [] x.pos = "curReverse" -> IterFirstWithinBounds(b)
                  [] x.pos = "prev" ->
                       NextUserKey(IF x.in.key = Nil THEN IterFirstWithinBounds(e) ELSE NextUserKey(e))
    IN  IF x.hasPrefix /\ limit # NoKey THEN Fail(x)
        ELSE IF (x.hasPrefix /\ x.state = "exhausted") \/ x.err THEN x
        ELSE IF \/ x.pos = "curReverse" /\ x.in.key # Nil
                \/ x.pos = "curReversePaused" /\ x.in.key = Nil THEN Fail(b)
        ELSE FindNextEntry(onto, limit)
PrevWithLimit(x, limit) ==
    LET b == Begin(x)
        e == [b EXCEPT !.state = "exhausted"]
        back == IF x.in.key = Nil THEN IterLastWithinBounds(e) ELSE PrevUserKey(e)
        onto == CASE x.pos = "curReverse" -> PrevUserKey(b)
                  [] x.pos \in {"curReversePaused", "prev"} -> b
                  [] x.pos = "next" /\ ~IsEphemeralPosition(b) -> PrevUserKey(back)
                  [] OTHER -> back
    IN  IF x.err THEN x ELSE IF x.hasPrefix THEN Fail(b) ELSE FindPrevEntry(onto, limit)

\* NextPrefix: one step, and if that stays in the prefix a seek behind it.
InternalNextPrefix(x) ==
    LET n == InNext(x)
        succ == CI!ImmediateSuccessor(CI!PrefixOf(x.key))
    IN  IF x.in.key = Nil THEN x
        ELSE IF n.in.key = Nil THEN n
        ELSE IF CI!PrefixOf(n.in.key.u) # CI!PrefixOf(x.key) THEN n
        ELSE [n EXCEPT !.sk = succ, !.in = CI!NextPrefix(@, succ)]
NextPrefix(x) ==
    LET b == Begin(x)
        samePrefix == IF x.in.key = Nil THEN FALSE ELSE CI!PrefixOf(x.in.key.u) = CI!PrefixOf(x.key)
        onto == CASE x.pos = "curForward" -> InternalNextPrefix(b)
                  [] x.pos = "curForwardPaused" -> b
                  [] x.pos = "curReverse" -> IterFirstWithinBounds(b)
                  [] x.pos = "curReversePaused" -> NextUserKey(b)
                  [] x.pos = "prev" -> InternalNextPrefix(IF x.in.key = Nil THEN IterFirstWithinBounds(b) ELSE InNext(b))
                  [] x.pos = "next" -> IF samePrefix THEN InternalNextPrefix(b) ELSE b
    IN  IF x.upper # NoKey /\ CI!SuffixOf(x.upper) # 0
        THEN [Fail(x) EXCEPT !.lastOp = "unknown", !.reposition = FALSE]
        ELSE IF x.hasPrefix THEN [x EXCEPT !.state = "exhausted"]
        ELSE IF \/ x.pos = "curReverse" /\ x.in.key # Nil
                \/ x.pos = "curReversePaused" /\ x.in.key = Nil THEN Fail(b)
        ELSE FindNextEntry(onto, NoKey)

-----------------------------------------------------------------------------
Invalidate(x) ==
    [x EXCEPT !.lastOp = "invalidated", !.hasPrefix = FALSE, !.err = FALSE, !.state = "exhausted",
              !.pos = IF x.pos \in {"curForward", "next", "curForwardPaused"} THEN "curForward" ELSE "curReverse",
              !.in = [@ EXCEPT !.key = Nil, !.span = Nil, !.pk = Nil], !.rk.prevHad = FALSE]
SetBounds(x, lower, upper) ==
    IF x.lower = lower /\ x.upper = upper THEN [x EXCEPT !.reposition = TRUE]
    ELSE Invalidate([x EXCEPT !.reposition = TRUE, !.lower = lower, !.upper = upper,
                              !.in = CI!SetBounds(@, lower, upper)])
\* SetOptions, of an iterator over points alone (ranged is FALSE) or with range keys:
\* all is what the batch and the database hold when the batch is read again.
SetOptions(x, ranged, all, lower, upper) ==
    LET b == [x EXCEPT !.reposition = TRUE, !.refreshed = @ \/ all # x.in.pt.all, !.in.pt.all = all]
        i == IF ranged THEN Invalidate(b) ELSE b
    IN  IF x.lower = lower /\ x.upper = upper THEN i ELSE SetBounds(i, lower, upper)
=============================================================================
