----------------------------- MODULE UserCursor -----------------------------
(***************************************************************************)
(* What a reader's iterator promises: a cursor over the user keys that     *)
(* have a value and the starts of the spans of range keys, within the      *)
(* bounds and, after SeekPrefixGE, within the prefix.  2 * u is the        *)
(* position on u, 2 * u - 1 lies between u and what is before it.  A seek  *)
(* to a key inside a span stops there, though the key may be no entry.     *)
(***************************************************************************)
EXTENDS Integers, FiniteSets

CONSTANTS UserKeys, Limits,   \* what the cursor is sought with, and limited to
          PrefixOf(_), NoKey

VARIABLES entries,            \* the value of every live user key
          spans,              \* maximal spans with equal range keys
          lower, upper, prefix,
          at,                 \* the position
          got                 \* what the last call returned
vars == <<entries, spans, lower, upper, prefix, at, got>>
content == <<entries, spans, lower, upper>>

AtStart == -1
AtEnd == 999
Nothing == -1
NoSpan == [nil |-> TRUE]
At(state) == [state |-> state, key |-> Nothing, value |-> << >>, cover |-> NoSpan, changed |-> FALSE]

Greater(a, b) == IF a > b THEN a ELSE b
Lesser(a, b) == IF a < b THEN a ELSE b
\* Between entries, at the limit or no nearer than next to where.
GapAbove(where, limit) == Greater(where + ((where + 1) % 2), 2 * limit - 1)
GapBelow(where, limit) == Lesser(where - ((where + 1) % 2), 2 * limit - 1)
LowEnd(p) == Greater(lower, p)
HighEnd(p) == Lesser(IF upper = NoKey THEN AtEnd ELSE upper, IF p = NoKey THEN AtEnd ELSE p + 10)
Cut(p) == {[s EXCEPT !.start = Greater(@, LowEnd(p)), !.end = Lesser(@, HighEnd(p))] :
             s \in {t \in spans : t.start < HighEnd(p) /\ LowEnd(p) < t.end}}
CoverAt(p, u) == LET here == {s \in Cut(p) : s.start <= u /\ u < s.end}
                 IN  IF here = {} THEN NoSpan ELSE CHOOSE s \in here : TRUE
Items(p) == {u \in DOMAIN entries : LowEnd(p) <= u /\ u < HighEnd(p)} \cup {s.start : s \in Cut(p)}

\* The answer at u: a range key has changed if it is not that of the call before.
On(p, u) ==
    /\ at' = 2 * u
    /\ got' = [state |-> "valid", key |-> u, value |-> IF u \in DOMAIN entries THEN entries[u] ELSE << >>,
               cover |-> CoverAt(p, u), changed |-> CoverAt(p, u) # got.cover]
Off(state, where) == at' = where /\ got' = At(state)

\* Ahead of where: the entry if it lies before the limit, and the limit or the end if not.
\* There may be something dead behind the limit even if there is no entry.
Ahead(p, where, limit) ==
    LET later == {u \in Items(p) : 2 * u > where}
        least == CHOOSE u \in later : \A v \in later : u <= v
    IN  \/ later # {} /\ (limit = NoKey \/ least < limit) /\ On(p, least)
        \/ later = {} /\ Off("exhausted", AtEnd)
        \/ /\ limit # NoKey /\ (later = {} \/ least >= limit)
           /\ Off("atLimit", GapAbove(where, limit))
\* Behind where: the limit is a hint, and a range key that reaches across it counts as inside.
Behind(p, where, limit) ==
    LET earlier == {u \in Items(p) : 2 * u < where}
        greatest == CHOOSE u \in earlier : \A v \in earlier : v <= u
        across == CoverAt(p, greatest) # NoSpan /\ CoverAt(p, greatest).end > limit
    IN  \/ earlier # {} /\ On(p, greatest)
        \/ earlier = {} /\ Off("exhausted", AtStart)
        \/ /\ limit # NoKey /\ (earlier = {} \/ (greatest < limit /\ ~across))
           /\ Off("atLimit", GapBelow(where, limit))

Clamped(u) == Lesser(Greater(u, lower), IF upper = NoKey THEN AtEnd ELSE upper)
SeekTo(p, u, limit) ==
    /\ prefix' = p
    /\ IF CoverAt(p, u) # NoSpan /\ (limit = NoKey \/ u < limit) THEN On(p, u) ELSE Ahead(p, 2 * u - 1, limit)

SeekGE(u, limit) == SeekTo(NoKey, Clamped(u), limit)
SeekLT(u, limit) == prefix' = NoKey /\ Behind(NoKey, 2 * Clamped(u) - 1, limit)
SeekPrefixGE(u) ==
    IF PrefixOf(Clamped(u)) # PrefixOf(u) THEN Off("error", at) /\ prefix' = PrefixOf(u)
    ELSE SeekTo(PrefixOf(u), Clamped(u), NoKey)
First == prefix' = NoKey /\ Ahead(NoKey, AtStart, NoKey)
Last == prefix' = NoKey /\ Behind(NoKey, 2 * AtEnd, NoKey)

\* Relative calls start from a position, and an error stays until the next seek.
CanMove == got.state \in {"valid", "exhausted", "atLimit"}
Next(limit) ==
    /\ CanMove /\ UNCHANGED prefix
    /\ IF prefix = NoKey \/ (limit = NoKey /\ got.state = "valid") THEN Ahead(prefix, at, limit)
       ELSE IF limit # NoKey THEN Off("error", at) ELSE Off("exhausted", AtEnd)
Prev(limit) ==
    /\ CanMove /\ UNCHANGED prefix
    /\ IF prefix = NoKey THEN Behind(prefix, at, limit) ELSE Off("error", at)
NextPrefix ==
    /\ got.state = "valid" /\ UNCHANGED prefix
    /\ IF upper # NoKey /\ PrefixOf(upper) # upper THEN Off("error", at)
       ELSE IF prefix # NoKey THEN Off("exhausted", AtEnd)
       ELSE Ahead(NoKey, 2 * (PrefixOf(at \div 2) + 10) - 1, NoKey)
\* New bounds, or new content of the batch: the position is gone.
SetOptions ==
    /\ UNCHANGED <<spans, prefix, at>> /\ got' = At("unpositioned")
    /\ lower' \in UserKeys /\ upper' \in UserKeys

Init == prefix = NoKey /\ at = AtStart /\ got = At("unpositioned") /\ lower = NoKey /\ upper = NoKey
Move ==
    /\ \/ \E u \in UserKeys, limit \in Limits : SeekGE(u, limit) \/ SeekLT(u, limit)
       \/ \E u \in UserKeys : SeekPrefixGE(u)
       \/ First \/ Last \/ NextPrefix
       \/ \E limit \in Limits : Next(limit) \/ Prev(limit)
    /\ UNCHANGED content
Spec == Init /\ [][Move \/ SetOptions]_vars
=============================================================================
