------------------------------ MODULE MCReads ------------------------------
(***************************************************************************)
(* The iterator that a user of the store holds, driven by every sequence   *)
(* of calls and compared with its contract, UserCursor; and compactions,   *)
(* run to the end from many inputs and compared with what reads found      *)
(* before.  part says which, x is the implementation's state.              *)
(***************************************************************************)
EXTENDS InternalKeys, TLC
SelfDeleting == 7
DeletesItself(value) == value = <<SelfDeleting>>
IT == INSTANCE Iterator WITH Snapshot <- 100, Skipped <- {26}, NeedDelete <- DeletesItself
CI == INSTANCE CombinedIter WITH Snapshot <- 100

\* What is checked: Iterator's answer to a call, and the next step of a compaction.
CONSTANTS Call(_, _), StepOf(_)
VARIABLES part, x, h
vars == <<part, x, h>>
NoKey == -1
Elements(f) == {f[i] : i \in DOMAIN f}

-----------------------------------------------------------------------------
\* The user's iterator.  Range keys start and end at prefixes, as the batch requires.
Stack(u, versions) == {MakeInternalKey(u, v[1], v[2]) : v \in versions}
RangeKeyOn(start, end, sfx, v) == Span(start, end, <<[s |-> 5, k |-> RangeKeySet, sfx |-> sfx, v |-> v]>>)
Contents ==
    {[points |-> Stack(11, {<<9, Merge>>, <<5, Set>>}) \cup Stack(13, {<<8, Delete>>, <<4, Set>>})
                 \cup Stack(20, {<<SelfDeleting, Merge>>}) \cup Stack(23, {<<6, SetWithDelete>>, <<0, Set>>}),
      spans |-> <<RangeKeyOn(20, 30, 4, 1)>>],
     [points |-> Stack(11, {<<6, Set>>}) \cup Stack(20, {<<9, Merge>>, <<8, Merge>>, <<3, DeleteSized>>, <<2, Set>>})
                 \cup Stack(23, {<<8, SingleDelete>>, <<3, Set>>}) \cup Stack(26, {<<4, Set>>})
                 \cup Stack(31, {<<4, Set>>}),
      spans |-> <<RangeKeyOn(10, 20, 4, 1), RangeKeyOn(30, 40, 4, 2)>>]}
BatchPoints == Stack(11, {<<5, Set>>}) \cup Stack(20, {<<4, Set>>}) \cup Stack(23, {<<4, Set>>})
Grown == Stack(13, {<<SeqNumBatch + 1, Set>>}) \cup Stack(20, {<<SeqNumBatch + 2, Delete>>})

\* The value a user key has, from its versions alone: the operands down to the first
\* set or deletion.
Versions(S, u) == SortedKeys({k \in S : k.u = u})
RECURSIVE ValueOf(_, _)
ValueOf(vs, i) ==
    IF i > Len(vs) \/ vs[i].k \in IT!Deletes THEN << >>
    ELSE IF vs[i].k \in IT!Sets THEN <<vs[i].s>>
    ELSE Append(ValueOf(vs, i + 1), vs[i].s)
Entries(S) ==
    LET value == [u \in {k.u : k \in S} |-> ValueOf(Versions(S, u), 1)]
        live == {u \in DOMAIN value : u # 26 /\ value[u] # << >> /\ ~DeletesItself(value[u])}
    IN  [u \in live |-> value[u]]
UserSpans(spans) == {[s EXCEPT !.keys = {<<@[i].sfx, @[i].v>> : i \in DOMAIN @}] : s \in Elements(spans)}

InitUser ==
    \/ \E c \in Contents :
         /\ part = "ranges"
         /\ x = IT!New(CI!NewInterleaving(CI!NewPoints(SortedKeys(c.points), NoKey, NoKey, TRUE),
                                          CI!UserIterator(<<CI!KS!NewIter(c.spans)>>, NoKey, NoKey), 0), FALSE, FALSE)
         /\ h = [at |-> -1, prefix |-> NoKey, fresh |-> TRUE, entries |-> Entries(c.points), spans |-> UserSpans(c.spans)]
    \/ \E batch, forwardOnly \in BOOLEAN :
         /\ part = "points" /\ ~(batch /\ forwardOnly)
         /\ x = IT!New(CI!NewInterleaving(CI!NewPoints(SortedKeys(BatchPoints), NoKey, NoKey, FALSE),
                                          CI!UserIterator(<<CI!KS!NewIter(<< >>)>>, NoKey, NoKey), 0), batch, forwardOnly)
         /\ h = [at |-> -1, prefix |-> NoKey, fresh |-> TRUE, entries |-> Entries(BatchPoints), spans |-> {}]

OfUser == part \in {"ranges", "points"}
Got ==
    LET none(state) == [state |-> state, key |-> -1, value |-> << >>, cover |-> Nil, changed |-> FALSE]
    IN  IF ~OfUser \/ h.fresh \/ x.reposition THEN none("unpositioned")
        ELSE IF x.err THEN none("error")
        ELSE IF x.state # "valid" THEN none(x.state)
        ELSE [state |-> "valid", key |-> x.key, value |-> IF x.rk.only THEN << >> ELSE x.value,
              cover |-> IF ~x.rk.has THEN Nil
                        ELSE Span(x.rk.start, x.rk.end, {<<x.rk.keys[i].sfx, x.rk.keys[i].v>> : i \in DOMAIN x.rk.keys}),
              changed |-> IT!RangeKeyChanged(x)]
UserSeekKeys == {13, 20, 24}
UserLimits == {NoKey, 20}
UserBounds == {<<NoKey, NoKey>>, <<13, 23>>}
Cursor == INSTANCE UserCursor WITH
    UserKeys <- UserSeekKeys \cup {NoKey, 23}, Limits <- UserLimits, PrefixOf <- CI!PrefixOf,
    entries <- IF OfUser THEN h.entries ELSE << >>, spans <- IF OfUser THEN h.spans ELSE {},
    lower <- IF OfUser THEN x.lower ELSE NoKey, upper <- IF OfUser THEN x.upper ELSE NoKey,
    prefix <- IF OfUser THEN h.prefix ELSE NoKey, at <- IF OfUser THEN h.at ELSE -1, got <- Got

IteratorCall(it, c) ==
    LET answer == CASE c[1] = "SeekGE" -> IT!SeekGEWithLimit(it, c[2], c[3])
                    [] c[1] = "SeekLT" -> IT!SeekLTWithLimit(it, c[2], c[3])
                    [] c[1] = "SeekPrefixGE" -> IT!SeekPrefixGE(it, c[2])
                    [] c[1] = "First" -> IT!First(it)
                    [] c[1] = "Last" -> IT!Last(it)
                    [] c[1] = "Next" -> IT!NextWithLimit(it, c[2])
                    [] c[1] = "Prev" -> IT!PrevWithLimit(it, c[2])
                    [] c[1] = "NextPrefix" -> IT!NextPrefix(it)
    IN  answer
\* The position is a function of the answers; where is that a seek starts from.
Moved(dir, where, limit, prefix, y) ==
    /\ x' = y
    /\ h' = [h EXCEPT !.fresh = FALSE, !.prefix = prefix,
                      !.at = IF y.err THEN @
                             ELSE CASE y.state = "valid" -> 2 * y.key
                                    [] y.state = "exhausted" -> IF dir = 1 THEN 999 ELSE -1
                                    [] y.state = "atLimit" ->
                                         IF dir = 1 THEN Cursor!GapAbove(where, limit)
                                         ELSE Cursor!GapBelow(where, limit)]
Relative == ~h.fresh /\ ~x.reposition /\ ~x.err
NextUser ==
    /\ OfUser /\ UNCHANGED part
    /\ \/ \E u \in UserSeekKeys, limit \in UserLimits :
            \/ /\ limit = NoKey \/ limit > Cursor!Clamped(u)
               /\ Moved(1, 2 * Cursor!Clamped(u) - 1, limit, NoKey, Call(x, <<"SeekGE", u, limit>>))
            \/ /\ limit <= Cursor!Clamped(u) /\ ~x.forwardOnly
               /\ Moved(-1, 2 * Cursor!Clamped(u) - 1, limit, NoKey, Call(x, <<"SeekLT", u, limit>>))
       \/ \E u \in UserSeekKeys : Moved(1, 2 * Cursor!Clamped(u) - 1, NoKey, CI!PrefixOf(u), Call(x, <<"SeekPrefixGE", u>>))
       \/ Moved(1, -1, NoKey, NoKey, Call(x, <<"First">>))
       \/ ~x.forwardOnly /\ Moved(-1, 1998, NoKey, NoKey, Call(x, <<"Last">>))
       \/ \E limit \in UserLimits :
            \/ Relative /\ Moved(1, h.at, limit, h.prefix, Call(x, <<"Next", limit>>))
            \/ Relative /\ ~x.forwardOnly /\ Moved(-1, h.at, limit, h.prefix, Call(x, <<"Prev", limit>>))
       \/ Relative /\ x.state = "valid" /\ Moved(1, h.at, NoKey, h.prefix, Call(x, <<"NextPrefix">>))
       \/ \E b \in UserBounds : x' = IT!SetBounds(x, b[1], b[2]) /\ UNCHANGED h
       \/ \E more \in BOOLEAN :
            LET points == IF more /\ x.batch THEN SortedKeys(BatchPoints \cup Grown) ELSE x.in.pt.all
            IN  /\ x' = IT!SetOptions(x, part = "ranges", points, x.lower, x.upper)
                /\ h' = [h EXCEPT !.entries = Entries(Elements(points))]

-----------------------------------------------------------------------------
\* A compaction.  x is the job, h the entries it reads and those below its outputs.
NoneDeletesItself(value) == FALSE
CP == INSTANCE CompactionIter WITH NeedDelete <- NoneDeletesItself
Point(u, s, k, value) == [key |-> MakeInternalKey(u, s, k), value |-> value]
Versioned(s) == {{}} \cup {{Point(20, s, k, <<s>>)} : k \in {Set, SetWithDelete, Merge}}
                \cup {{Point(20, s, k, << >>)} : k \in CP!Tombstones}
                \cup {{Point(20, s, DeleteSized, <<size>>)} : size \in {1, 2}}
\* A SINGLEDEL is for a key that was set once since its last deletion.
Older(S, e) == SortedKeys({f.key : f \in {g \in S : g.key.u = e.key.u /\ g.key.s < e.key.s}})
SetOnce(S, e) ==
    LET vs == Older(S, e)
    IN  \A i \in 2 .. Len(vs) : vs[i].k \in {Set, SetWithDelete, Merge} =>
          \E j \in 1 .. i - 1 : vs[j].k \in CP!Tombstones \cup {SetWithDelete}
SingleDeletesFit(S) == \A e \in S : e.key.k = SingleDelete => SetOnce(S, e)
Files(S) == Ranked({[start |-> u, end |-> u] : u \in {e.key.u : e \in S}}, LAMBDA a, b : a.start < b.start)

Options(below, snapshots, flushing, target, grandparents, l0Limits) ==
    LET inuse == CP!CalculateInuseKeyRanges(<<Files(below)>>, 10, 30, << >>)
        opt == [smallest |-> 10, largest |-> 30, inuse |-> inuse, entire |-> CP!InuseEntireRange(inuse, 10, 30),
                snapshots |-> snapshots, flushing |-> flushing, setWithDelete |-> TRUE, target |-> target,
                grandparents |-> grandparents, maxOverlap |-> 1, l0Limits |-> l0Limits, zero |-> FALSE]
    IN  [opt EXCEPT !.zero = CP!AllowZeroSeqNum(opt)]
Compacts(opt, points, dels, rangeKeys, below) ==
    /\ x = CP!NewCompaction(opt, CP!NewInputIter(opt, points, dels, rangeKeys))
    /\ h = [points |-> points, dels |-> dels, rangeKeys |-> rangeKeys, below |-> below,
            mark |-> [key |-> MakeInternalKey(0, 0, Set), limit |-> NoKey]]
\* Every way to write three versions of a key.
InitVersions ==
    \E a \in Versioned(8), b \in Versioned(6), c \in Versioned(5),
       dels \in {{}, {Span(20, 26, <<6>>)}, {Span(13, 24, <<7>>)}}, snapshots \in {<< >>, <<6>>, <<5, 8>>},
       below \in {{}, {Point(20, 1, Set, <<1>>)}} :
      LET points == a \cup b \cup c
      IN  /\ points # {} /\ SingleDeletesFit(points \cup below)
          /\ Compacts(Options(below, snapshots, FALSE, 2, << >>, << >>),
                      points \cup {Point(13, 4, Set, <<4>>), Point(24, 3, Merge, <<3>>)}, dels, {}, below)
\* Outputs that end at limits, at grandparents or by their size.
RangeKey(start, end, s, k, v) == Span(start, end, <<[s |-> s, k |-> k, sfx |-> 4, v |-> v]>>)
InitOutputs ==
    \E flushing \in BOOLEAN, target \in {2, 4}, snapshots \in {<< >>, <<6>>}, dense \in BOOLEAN,
       dels \in {{}, {Span(12, 27, <<9>>)}, {Span(12, 19, <<1>>), Span(16, 30, <<2>>)}, {Span(12, 30, <<5>>)}},
       rangeKeys \in {{}, {RangeKey(11, 20, 3, RangeKeySet, 1), RangeKey(14, 28, 7, RangeKeyUnset, 0)},
                      {RangeKey(11, 20, 3, RangeKeySet, 1), RangeKey(15, 18, 5, RangeKeyDelete, 0),
                       RangeKey(12, 22, 8, RangeKeySet, 2), RangeKey(14, 28, 2, RangeKeySet, 3)}},
       below \in {{}, {Point(14, 0, Set, <<1>>), Point(22, 0, Set, <<1>>)}} :
      LET points == {Point(10, 8, Set, <<8>>), Point(12, 9, Set, <<9>>), Point(12, 4, Set, <<4>>),
                     Point(16, 7, Delete, << >>), Point(19, 3, Set, <<3>>), Point(24, 8, Set, <<8>>),
                     Point(24, 6, Merge, <<6>>), Point(24, 2, Set, <<2>>), Point(28, 4, Set, <<4>>)}
          grandparents == IF dense THEN <<[start |-> 11, end |-> 13], [start |-> 15, end |-> 18],
                                          [start |-> 18, end |-> 23], [start |-> 24, end |-> 26]>>
                          ELSE <<[start |-> 17, end |-> 29]>>
      IN  Compacts(Options(below, snapshots, flushing, target, grandparents, <<14, 25>>),
                   points, dels, rangeKeys, below)
InitCompaction == part = "compaction" /\ (InitVersions \/ InitOutputs)

\* What a read at a snapshot finds.
Dels(spans) == UNION {{[start |-> s.start, end |-> s.end, s |-> n] : n \in Elements(s.keys)} : s \in spans}
RECURSIVE Folded(_)
Folded(vs) ==
    IF vs = << >> \/ Head(vs).key.k \in CP!Tombstones THEN << >>
    ELSE IF Head(vs).key.k = Merge THEN Folded(Tail(vs)) \o Head(vs).value
    ELSE Head(vs).value
ReadAt(points, dels, u, snapshot) ==
    Folded(Ranked({e \in points : /\ e.key.u = u /\ e.key.s < snapshot
                                  /\ ~\E d \in dels : d.start <= u /\ u < d.end /\ e.key.s < d.s /\ d.s < snapshot},
                  LAMBDA a, b : Before(a.key, b.key)))
Written(f) == UNION {Elements(x.out[i][f]) : i \in DOMAIN x.out}
OutPoints == {[key |-> e.key, value |-> e.value] : e \in Written("points")}
\* The range keys a read finds: per suffix the newest, unless that unsets or deletes it.
RangeKeysAt(spans, u, snapshot) ==
    LET keys == UNION {Elements(s.keys) : s \in {t \in spans : SpanContains(t, u)}}
        seen == {k \in keys : k.s < snapshot}
        dels == {k.s : k \in {d \in seen : d.k = RangeKeyDelete}}
    IN  {<<k.sfx, k.v>> : k \in {r \in seen : /\ r.k = RangeKeySet
                                              /\ \A d \in dels : d <= r.s
                                              /\ ~\E n \in seen : n.k # RangeKeyDelete /\ n.sfx = r.sfx /\ n.s > r.s}}
\* When a compaction is done, every read at an open snapshot or later finds in its outputs
\* and the levels below what it found in the inputs: whatever was merged, elided, zeroed
\* or turned from one kind into another (compactionIter, runCompaction).
CompactionKeepsViews ==
    part = "compaction" => (x.pc = "done" =>
      \A snapshot \in Elements(x.opt.snapshots) \cup {SeqNumMax} :
        /\ \A u \in {e.key.u : e \in h.points} :
             ReadAt(OutPoints \cup h.below, Dels(Written("dels")), u, snapshot)
               = ReadAt(h.points \cup h.below, Dels(h.dels), u, snapshot)
        /\ \A u \in 10 .. 30 :
             RangeKeysAt(Written("rangeKeys"), u, snapshot) = RangeKeysAt(h.rangeKeys, u, snapshot))
\* The outputs of a compaction are ordered and do not share a user key, range deletions
\* and range keys that were cut at an output's limit included (the splitters, finishOutput).
OutputsPartitioned ==
    part = "compaction" =>
      /\ x.err = ""
      /\ \A i \in DOMAIN x.out :
           /\ \A j \in 1 .. i - 1 : x.out[j].hi.u < x.out[i].lo.u
                                    \/ (x.out[j].hi.u = x.out[i].lo.u /\ IsExclusiveSentinel(x.out[j].hi))
           /\ \A j \in 2 .. Len(x.out[i].points) : Before(x.out[i].points[j - 1].key, x.out[i].points[j].key)
\* "Each outer loop iteration" of runCompaction begins at a later key than the one before,
\* or at the same key with a later limit: it comes to an end.
Reading(c) == IF CP!Exhausted(c) THEN MakeInternalKey(99, 0, Set) ELSE c.trailer
OutputsProgress ==
    [][part = "compaction" /\ x.pc = "outer" /\ x'.pc = "inner" =>
         \/ Before(h.mark.key, Reading(x'))
         \/ h.mark.key = Reading(x') /\ h.mark.limit # NoKey /\ (x'.limit = NoKey \/ x'.limit > h.mark.limit)]_vars
CompactionStep(c) == LET next == CP!Step(c) IN next
NextCompaction ==
    /\ part = "compaction" /\ x.pc # "done"
    /\ x' = StepOf(x) /\ UNCHANGED part
    /\ h' = IF x.pc = "outer" THEN [h EXCEPT !.mark = [key |-> Reading(x'), limit |-> x'.limit]] ELSE h

Init == InitUser \/ InitCompaction
Next == NextUser \/ NextCompaction
Spec == Init /\ [][Next]_vars
\* Iterator implements its contract: after any sequence of calls, with limits, prefixes,
\* new bounds and refreshed options, it stands on the user key, with the merged value and
\* the range keys, that the contract names, or pauses at the limit (iterator.go).
IteratesUserKeys == Cursor!Spec
=============================================================================
