----------------------------- MODULE TableCache -----------------------------
(***************************************************************************)
(* The table cache (table_cache.go): one shard, one store.  A value wraps  *)
(* the open reader of a table; the shard's map and everybody who uses the  *)
(* value hold a reference to it, and whoever drops the last one sends it   *)
(* to the release loop, which closes the reader.  Tables are opened by the *)
(* one user that missed, outside the mutex, while others wait for it.      *)
(*                                                                         *)
(* A user stands for one use of a reader.  It opens only tables that       *)
(* TablePins lets it pin.  Which nodes make room for a new one is left     *)
(* open here and decided by TableClock.  The identifier of a value is      *)
(* taken again once it is garbage.  The early returns of newIters for an   *)
(* object that is unknown to the provider or of an unsupported format,     *)
(* which keep their reference, cannot be reached: the table is pinned and  *)
(* its reader was opened.  Shards share nothing but their last Unref.      *)
(***************************************************************************)
EXTENDS TablePins, Integers, Sequences, FiniteSets

CONSTANTS Values, NoValue, NoUser, NoTable,
          ReleasingCap     \* capacity of releasingCh

ASSUME TableCacheAssumption ==
    /\ IsFiniteSet(Users) /\ IsFiniteSet(Values)
    /\ NoValue \notin Values /\ NoUser \notin Users /\ NoTable \notin Tables
    /\ ReleasingCap \in Nat \ {0}

VARIABLES
    cached,                  \* the value of each node of mu.nodes
    refs, loaded, reader,    \* refCount, the outcome of load, and what became of the reader of each value
    shardMu,                 \* the user that holds the mutex to make room
    releasingCh, chClosed, releasing,
    loop, loopExit,          \* the value the release loop works on; whether it returned
    evicting, evicted,       \* values that evict releases itself; tables it was called for
    abandoned,               \* values that removeDB took out without dropping the map's reference
    iterCount,
    upc, table, val,         \* each user: the table it opens and the value it got
    db, leaks                \* how far DB.Close got, and whether it found open iterators

nodeVars == <<cached, refs>>
valueVars == <<loaded, reader>>
releaseVars == <<releasingCh, chClosed, releasing, loop, loopExit>>
evictVars == <<evicting, evicted, abandoned>>
procVars == <<upc, table, val>>
closeVars == <<db, leaks>>
cacheVars == <<pinVars, nodeVars, valueVars, shardMu, releaseVars, evictVars, iterCount, procVars, closeVars>>

CacheInit ==
    /\ PinsInit
    /\ cached = [f \in Tables |-> NoValue]
    /\ refs = [v \in Values |-> 0]
    /\ loaded = [v \in Values |-> "no"] /\ reader = [v \in Values |-> "none"]
    /\ shardMu = NoUser
    /\ releasingCh = << >> /\ chClosed = FALSE /\ releasing = 0
    /\ loop = NoValue /\ loopExit = FALSE
    /\ evicting = {} /\ evicted = {} /\ abandoned = {}
    /\ iterCount = 0
    /\ upc = [p \in Users |-> "idle"] /\ table = [p \in Users |-> NoTable]
    /\ val = [p \in Users |-> NoValue]
    /\ db = "open" /\ leaks = FALSE

-----------------------------------------------------------------------------
\* A reader lets go of its tables once it has closed its iterators.
BeginRead(p, S) ==
    /\ db = "open" /\ upc[p] = "idle"
    /\ Pin(p, S)
    /\ UNCHANGED <<nodeVars, valueVars, shardMu, releaseVars, evictVars, iterCount, procVars, closeVars>>
DropTables(S) ==
    /\ db = "open"
    /\ Drop(S)
    /\ UNCHANGED <<nodeVars, valueVars, shardMu, releaseVars, evictVars, iterCount, procVars, closeVars>>

Goto(p, label) == upc' = [upc EXCEPT ![p] = label]
ForgetValue(p) == table' = [table EXCEPT ![p] = NoTable] /\ val' = [val EXCEPT ![p] = NoValue]

\* findNodeInternal, fast or slow: the node has a value.
Hit(p, f) ==
    /\ db = "open" /\ upc[p] = "idle" /\ f \in pinned[p]
    /\ shardMu = NoUser
    /\ cached[f] # NoValue
    /\ refs' = [refs EXCEPT ![cached[f]] = @ + 1]
    /\ val' = [val EXCEPT ![p] = cached[f]]
    /\ table' = [table EXCEPT ![p] = f]
    /\ Goto(p, "wait")
    /\ UNCHANGED <<pinVars, cached, valueVars, shardMu, releaseVars, evictVars, iterCount, closeVars>>

\* There is no node, or a test node, which has no value: it makes room first.
Miss(p, f) ==
    /\ db = "open" /\ upc[p] = "idle" /\ f \in pinned[p]
    /\ shardMu = NoUser
    /\ cached[f] = NoValue
    /\ shardMu' = p
    /\ table' = [table EXCEPT ![p] = f]
    /\ Goto(p, "room")
    /\ UNCHANGED <<pinVars, nodeVars, valueVars, releaseVars, evictVars, iterCount, val, closeVars>>

\* clearNode, with the mutex held while the last reference waits for room in releasingCh.
EvictNode(p, f) ==
    LET v == cached[f]
        last == refs[v] = 1
    IN  /\ upc[p] = "room" /\ v # NoValue
        /\ last => Len(releasingCh) < ReleasingCap
        /\ cached' = [cached EXCEPT ![f] = NoValue]
        /\ refs' = [refs EXCEPT ![v] = @ - 1]
        /\ releasing' = IF last THEN releasing + 1 ELSE releasing
        /\ releasingCh' = IF last THEN Append(releasingCh, v) ELSE releasingCh
        /\ UNCHANGED <<pinVars, valueVars, shardMu, chClosed, loop, loopExit, evictVars, iterCount, procVars, closeVars>>

Sends(p) == upc[p] \in {"send", "sendIter"}
InChannel(v) == \E i \in DOMAIN releasingCh : releasingCh[i] = v
InRelease(v) ==
    \/ InChannel(v)
    \/ loop = v
    \/ v \in evicting
    \/ \E p \in Users : Sends(p) /\ val[p] = v

Garbage == {v \in Values : refs[v] = 0 /\ ~InRelease(v)}

OneRef == 1     \* mutant
NewRefs == 2

\* A new value, with the map's and the caller's reference; load runs outside the mutex.
\* Which of the unused identifiers it gets makes no difference.
AddNode(p) ==
    LET v == CHOOSE w \in Garbage : TRUE
    IN  /\ upc[p] = "room"
        /\ Garbage # {}
        /\ cached' = [cached EXCEPT ![table[p]] = v]
        /\ refs' = [refs EXCEPT ![v] = NewRefs]
        /\ loaded' = [loaded EXCEPT ![v] = "no"] /\ reader' = [reader EXCEPT ![v] = "none"]
        /\ val' = [val EXCEPT ![p] = v]
        /\ shardMu' = NoUser
        /\ Goto(p, "load")
        /\ UNCHANGED <<pinVars, releaseVars, evictVars, iterCount, table, closeVars>>

LoadOk(p) ==
    /\ upc[p] = "load"
    /\ loaded' = [loaded EXCEPT ![val[p]] = "ok"]
    /\ reader' = [reader EXCEPT ![val[p]] = "open"]
    /\ Goto(p, "got")
    /\ UNCHANGED <<pinVars, nodeVars, shardMu, releaseVars, evictVars, iterCount, table, val, closeVars>>

NotClosed == "no"     \* mutant
ClosedWithError == "err"

\* A failed load removes the node, if it still has this value, before it wakes the others.
LoadFails(p) ==
    LET v == val[p]
        mine == cached[table[p]] = v
    IN  /\ upc[p] = "load"
        /\ shardMu = NoUser
        /\ loaded' = [loaded EXCEPT ![v] = ClosedWithError]
        /\ cached' = IF mine THEN [cached EXCEPT ![table[p]] = NoValue] ELSE cached
        /\ refs' = IF mine THEN [refs EXCEPT ![v] = @ - 1] ELSE refs
        /\ Goto(p, "got")
        /\ UNCHANGED <<pinVars, reader, shardMu, releaseVars, evictVars, iterCount, table, val, closeVars>>

\* <-v.loaded
Wait(p) ==
    /\ upc[p] = "wait"
    /\ loaded[val[p]] # "no"
    /\ Goto(p, "got")
    /\ UNCHANGED <<pinVars, nodeVars, valueVars, shardMu, releaseVars, evictVars, iterCount, table, val, closeVars>>

\* newIters: the iterator takes over the reference.
NewIter(p) ==
    /\ upc[p] = "got"
    /\ loaded[val[p]] = "ok"
    /\ iterCount' = iterCount + 1
    /\ Goto(p, "iter")
    /\ UNCHANGED <<pinVars, nodeVars, valueVars, shardMu, releaseVars, evictVars, table, val, closeVars>>

\* unrefValue.
Unref(p, send, next) ==
    LET v == val[p]
        last == refs[v] = 1
    IN  /\ refs' = [refs EXCEPT ![v] = @ - 1]
        /\ releasing' = IF last THEN releasing + 1 ELSE releasing
        /\ Goto(p, IF last THEN send ELSE next)
        /\ IF last THEN UNCHANGED <<table, val>> ELSE ForgetValue(p)
        /\ UNCHANGED <<pinVars, cached, valueVars, shardMu, releasingCh, chClosed, loop, loopExit, evictVars, iterCount,
                       closeVars>>

\* An error, a table that the filters exclude, and the end of withReader, newRangeKeyIter,
\* getTableProperties and a ReaderProvider's use of the reader.
EndUse(p) == upc[p] = "got" /\ Unref(p, "send", "idle")
\* closeHook drops the reference and only then the count.
CloseIter(p) == upc[p] = "iter" /\ Unref(p, "sendIter", "uncount")

Send(p) ==
    /\ Sends(p)
    /\ Len(releasingCh) < ReleasingCap
    /\ releasingCh' = Append(releasingCh, val[p])
    /\ Goto(p, IF upc[p] = "send" THEN "idle" ELSE "uncount")
    /\ ForgetValue(p)
    /\ UNCHANGED <<pinVars, nodeVars, valueVars, shardMu, chClosed, releasing, loop, loopExit, evictVars, iterCount, closeVars>>

Uncount(p) ==
    /\ upc[p] = "uncount"
    /\ iterCount' = iterCount - 1
    /\ Goto(p, "idle")
    /\ UNCHANGED <<pinVars, nodeVars, valueVars, shardMu, releaseVars, evictVars, table, val, closeVars>>

-----------------------------------------------------------------------------
\* tableCacheValue.release.
Release(v) ==
    /\ loaded[v] # "no"
    /\ reader' = IF reader[v] = "open" THEN [reader EXCEPT ![v] = "closed"] ELSE reader
    /\ releasing' = releasing - 1

LoopTake ==
    /\ loop = NoValue /\ releasingCh # << >>
    /\ loop' = Head(releasingCh) /\ releasingCh' = Tail(releasingCh)
    /\ UNCHANGED <<pinVars, nodeVars, valueVars, shardMu, chClosed, releasing, loopExit, evictVars, iterCount, procVars,
                   closeVars>>
LoopRelease ==
    /\ loop # NoValue
    /\ Release(loop)
    /\ loop' = NoValue
    /\ UNCHANGED <<pinVars, nodeVars, loaded, shardMu, releasingCh, chClosed, loopExit, evictVars, iterCount, procVars,
                   closeVars>>
LoopReturn ==
    /\ loop = NoValue /\ releasingCh = << >> /\ chClosed /\ ~loopExit
    /\ loopExit' = TRUE
    /\ UNCHANGED <<pinVars, nodeVars, valueVars, shardMu, releasingCh, chClosed, releasing, loop, evictVars, iterCount,
                   procVars, closeVars>>

\* evict, called once for each dropped table, the last time at the end of DB.Close; it is a
\* fatal error if anyone still uses the value.
Evict(f) ==
    LET v == cached[f]
    IN  /\ db \in {"open", "closed"} /\ f \in dropped \ evicted
        /\ shardMu = NoUser
        /\ evicted' = evicted \cup {f}
        /\ cached' = [cached EXCEPT ![f] = NoValue]
        /\ IF v = NoValue THEN UNCHANGED <<refs, releasing, evicting>>
           ELSE /\ refs' = [refs EXCEPT ![v] = @ - 1]
                /\ releasing' = releasing + 1
                /\ evicting' = evicting \cup {v}
        /\ UNCHANGED <<pinVars, valueVars, shardMu, releasingCh, chClosed, loop, loopExit, abandoned, iterCount, procVars,
                       closeVars>>
EvictRelease(v) ==
    /\ v \in evicting
    /\ Release(v)
    /\ evicting' = evicting \ {v}
    /\ UNCHANGED <<pinVars, nodeVars, loaded, shardMu, releasingCh, chClosed, loop, loopExit, evicted, abandoned, iterCount,
                   procVars, closeVars>>

-----------------------------------------------------------------------------
\* DB.Close: no method of the store runs, but a user may have leaked iterators.
CloseDB ==
    /\ db = "open"
    /\ \A p \in Users : upc[p] \in {"idle", "iter"}
    /\ evicting = {}
    /\ db' = "removing"
    /\ UNCHANGED <<pinVars, nodeVars, valueVars, shardMu, releaseVars, evictVars, iterCount, procVars, leaks>>

\* removeDB: evict with allowLeak closes the reader whoever uses it.
RemoveNode(f) ==
    LET v == cached[f]
    IN  /\ db = "removing" /\ v # NoValue /\ evicting = {}
        /\ cached' = [cached EXCEPT ![f] = NoValue]
        /\ abandoned' = abandoned \cup {v}
        /\ releasing' = releasing + 1
        /\ evicting' = {v}
        /\ UNCHANGED <<pinVars, refs, valueVars, shardMu, releasingCh, chClosed, loop, loopExit, evicted, iterCount, procVars,
                       closeVars>>

\* The last Unref and tableCacheShard.Close, until it waits; the map is empty by then.
CloseShard ==
    /\ db = "removing"
    /\ \A f \in Tables : cached[f] = NoValue
    /\ evicting = {}
    /\ db' = "closing"
    /\ leaks' = (iterCount > 0)
    /\ chClosed' = (iterCount = 0)
    /\ UNCHANGED <<pinVars, nodeVars, valueVars, shardMu, releasingCh, releasing, loop, loopExit, evictVars, iterCount,
                   procVars>>
FinishClose ==
    /\ db = "closing"
    /\ releasing = 0
    /\ leaks \/ loopExit
    /\ db' = "closed"
    /\ UNCHANGED <<pinVars, nodeVars, valueVars, shardMu, releaseVars, evictVars, iterCount, procVars, leaks>>

-----------------------------------------------------------------------------
ReleaseLoop == LoopTake \/ LoopRelease \/ LoopReturn
=============================================================================
