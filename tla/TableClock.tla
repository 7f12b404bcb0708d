----------------------------- MODULE TableClock -----------------------------
(***************************************************************************)
(* The replacement policy of the table cache, CLOCK-Pro: hot, cold and test*)
(* nodes in a ring with three hands.  A hot or a cold node has a value, a  *)
(* test node only remembers that its table was cached.  The module adds    *)
(* the ring to TableCache, whose steps decide when it moves.               *)
(*                                                                         *)
(* evictNodes is computed when the mutex is taken; the values it clears    *)
(* wait in victims until EvictNode sends them.  A hit marks the node in    *)
(* the same step; the code stores the mark just after it released the      *)
(* mutex, which can only change the victim.                                *)
(***************************************************************************)
EXTENDS TableCache, SequencesExt

CONSTANT Size    \* tableCacheShard.size
ASSUME TableClockAssumption == Size \in Nat \ {0}

VARIABLE clock
clockVars == <<cacheVars, clock>>

NewClock == [ring |-> << >>, hot |-> NoTable, cold |-> NoTable, test |-> NoTable,
             type |-> [f \in Tables |-> "none"], referenced |-> [f \in Tables |-> FALSE],
             coldTarget |-> Size, sizeHot |-> 0, sizeCold |-> 0, sizeTest |-> 0, adding |-> "cold", victims |-> << >>]

-----------------------------------------------------------------------------
Position(c, n) == CHOOSE i \in DOMAIN c.ring : c.ring[i] = n
NextNode(c, n) == IF n = NoTable THEN NoTable ELSE c.ring[(Position(c, n) % Len(c.ring)) + 1]
PrevNode(c, n) == c.ring[((Position(c, n) + Len(c.ring) - 2) % Len(c.ring)) + 1]

\* unlinkNode: a hand on the node steps back; the hands are nil in an empty ring.
Unlink(c, n) ==
    LET moved(hand) == IF Len(c.ring) = 1 THEN NoTable ELSE IF hand = n THEN PrevNode(c, n) ELSE hand
    IN  [c EXCEPT !.ring = SelectSeq(@, LAMBDA m : m # n),
                  !.hot = moved(@), !.cold = moved(@), !.test = moved(@),
                  !.sizeHot = IF c.type[n] = "hot" THEN @ - 1 ELSE @,
                  !.sizeCold = IF c.type[n] = "cold" THEN @ - 1 ELSE @,
                  !.sizeTest = IF c.type[n] = "test" THEN @ - 1 ELSE @,
                  !.type[n] = "none"]

RECURSIVE RunHandCold(_), RunHandHot(_), RunHandTest(_), TrimTest(_), TrimHot(_), EvictNodes(_)

TrimTest(c) == IF Size < c.sizeTest /\ c.test # NoTable THEN TrimTest(RunHandTest(c)) ELSE c
TrimHot(c) == IF Size - c.coldTarget <= c.sizeHot /\ c.hot # NoTable THEN TrimHot(RunHandHot(c)) ELSE c

RunHandCold(c) ==
    LET n == c.cold
        swept == IF c.type[n] # "cold" THEN c
                 ELSE IF c.referenced[n]
                 THEN [c EXCEPT !.referenced[n] = FALSE, !.type[n] = "hot", !.sizeCold = @ - 1, !.sizeHot = @ + 1]
                 ELSE TrimTest([c EXCEPT !.victims = Append(@, n), !.type[n] = "test",
                                         !.sizeCold = @ - 1, !.sizeTest = @ + 1])
    IN  TrimHot([swept EXCEPT !.cold = NextNode(swept, @)])

RunHandHot(c) ==
    LET d == IF c.hot = c.test /\ c.test # NoTable THEN RunHandTest(c) ELSE c
        n == d.hot
        swept == IF d.type[n] # "hot" THEN d
                 ELSE IF d.referenced[n] THEN [d EXCEPT !.referenced[n] = FALSE]
                 ELSE [d EXCEPT !.type[n] = "cold", !.sizeHot = @ - 1, !.sizeCold = @ + 1]
    IN  IF n = NoTable THEN d ELSE [swept EXCEPT !.hot = NextNode(swept, @)]

RunHandTest(c) ==
    LET d == IF c.sizeCold > 0 /\ c.test = c.cold /\ c.cold # NoTable THEN RunHandCold(c) ELSE c
        n == d.test
        swept == IF d.type[n] # "test" THEN d
                 ELSE Unlink([d EXCEPT !.coldTarget = IF @ = 0 THEN 0 ELSE @ - 1], n)
    IN  IF n = NoTable THEN d ELSE [swept EXCEPT !.test = NextNode(swept, @)]

EvictNodes(c) == IF Size <= c.sizeHot + c.sizeCold /\ c.cold # NoTable THEN EvictNodes(RunHandCold(c)) ELSE c

\* findNodeInternal on a miss, up to the clearing of the victims: a test node becomes hot.
MakeRoom(c, n) ==
    EvictNodes(IF c.type[n] = "test"
               THEN [Unlink(c, n) EXCEPT !.coldTarget = IF @ + 1 > Size THEN Size ELSE @ + 1, !.adding = "hot"]
               ELSE [c EXCEPT !.adding = "cold"])

\* The rest of addNode: the node goes before handHot.
Link(c, n) ==
    LET at == Position(c, c.hot)
        d == IF c.hot = NoTable
             THEN [c EXCEPT !.ring = <<n>>, !.hot = n, !.cold = n, !.test = n]
             ELSE [c EXCEPT !.ring = InsertAt(@, at, n)]
    IN  [d EXCEPT !.cold = IF @ = d.hot THEN PrevNode(d, @) ELSE @,
                  !.type[n] = c.adding, !.referenced[n] = FALSE,
                  !.sizeHot = IF c.adding = "hot" THEN @ + 1 ELSE @,
                  !.sizeCold = IF c.adding = "cold" THEN @ + 1 ELSE @]

UnlinkNode(f) == clock' = IF clock.type[f] = "none" THEN clock ELSE Unlink(clock, f)

-----------------------------------------------------------------------------
ClockInit == CacheInit /\ clock = NewClock

ClockHit(p, f) ==
    /\ Hit(p, f)
    /\ clock' = [clock EXCEPT !.referenced[f] = TRUE]
ClockMiss(p, f) ==
    /\ Miss(p, f)
    /\ clock' = MakeRoom(clock, f)
ClockEvictNode(p) ==
    /\ clock.victims # << >>
    /\ EvictNode(p, Head(clock.victims))
    /\ clock' = [clock EXCEPT !.victims = Tail(@)]
ClockAddNode(p) ==
    /\ clock.victims = << >>
    /\ AddNode(p)
    /\ clock' = Link(clock, table[p])
ClockLoadFails(p) ==
    /\ LoadFails(p)
    /\ IF cached[table[p]] = val[p] THEN UnlinkNode(table[p]) ELSE UNCHANGED clock
ClockEvict(f) == Evict(f) /\ UnlinkNode(f)
ClockRemoveNode(f) ==
    /\ RemoveNode(f) \/ (db = "removing" /\ evicting = {} /\ clock.type[f] = "test" /\ UNCHANGED cacheVars)
    /\ UnlinkNode(f)
ClockCloseShard == clock.ring = << >> /\ CloseShard /\ UNCHANGED clock

Steady ==
    \/ \E p \in Users :
         \/ \E S \in SUBSET Tables : BeginRead(p, S)
         \/ LoadOk(p) \/ Wait(p) \/ NewIter(p) \/ EndUse(p) \/ CloseIter(p) \/ Send(p) \/ Uncount(p)
    \/ \E S \in SUBSET Tables : DropTables(S)
    \/ \E v \in Values : EvictRelease(v)
    \/ ReleaseLoop
    \/ CloseDB \/ FinishClose

ClockNext ==
    \/ \E p \in Users : \/ \E f \in Tables : ClockHit(p, f) \/ ClockMiss(p, f)
                        \/ ClockEvictNode(p) \/ ClockAddNode(p) \/ ClockLoadFails(p)
    \/ \E f \in Tables : ClockEvict(f) \/ ClockRemoveNode(f)
    \/ ClockCloseShard
    \/ Steady /\ UNCHANGED clock
ClockSpec == ClockInit /\ [][ClockNext]_clockVars

-----------------------------------------------------------------------------
\* A reader is open exactly as long as somebody refers to it.  The one that a caller of
\* findNode got, and the iterator it made, is not closed by eviction for other tables, nor by
\* deleteObsoleteFiles, which evicts tables that nobody uses: evict's fatal "refcount is not
\* zero" cannot happen.  Only closing the store closes it, under an iterator that was leaked.
\* No reader stays open without a reference, which would lose its file descriptor; a Close that
\* reports no leak has closed them all, and nobody sends on the channel that it closed.  And the
\* shard keeps no more readers for later than its size.
ReadersOpenAsNeeded ==
    /\ \A p \in Users : upc[p] \in {"got", "iter"} /\ loaded[val[p]] = "ok"
                         => reader[val[p]] = "open" \/ val[p] \in abandoned
    /\ \A f \in dropped \ evicted : cached[f] # NoValue => refs[cached[f]] = 1
    /\ \A v \in Values : reader[v] = "open" => refs[v] > 0 \/ InRelease(v)
    /\ db = "closed" /\ ~leaks => \A v \in Values : reader[v] # "open"
    /\ chClosed => \A p \in Users : upc[p] = "idle"
    /\ Cardinality({f \in Tables : cached[f] # NoValue}) <= Size + Len(clock.victims)

\* Whenever somebody is in findNode or in unrefValue somebody can proceed, even if every load
\* fails: the one that makes room with the mutex held, a load that fails and needs the mutex,
\* those that wait for a load and those that wait for releasingCh do not block each other.
Proceed ==
    \/ \E p \in Users : \/ ClockEvictNode(p) \/ ClockAddNode(p) \/ ClockLoadFails(p)
                        \/ (Wait(p) \/ Send(p)) /\ UNCHANGED clock
    \/ (LoopTake \/ LoopRelease \/ \E v \in Values : EvictRelease(v)) /\ UNCHANGED clock
NobodyBlocksEverybody ==
    (\E p \in Users : upc[p] \in {"room", "load", "wait", "send", "sendIter"}) => ENABLED Proceed
=============================================================================
