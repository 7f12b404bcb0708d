--------------------------- MODULE CombinedCursor ---------------------------
(***************************************************************************)
(* What an iterator over points and range keys promises: a cursor over the *)
(* points that no range key masks and a marker at the start of every span  *)
(* of range keys within the bounds, together with the span at its key.     *)
(*                                                                         *)
(* A point at u is the item <<u, 1>>, a marker at u the item <<u, 0>>.  A  *)
(* seek to a key inside a span leaves the cursor on a marker at that key,  *)
(* which is no item.                                                       *)
(***************************************************************************)
EXTENDS Integers, Sequences, FiniteSets

CONSTANTS UserKeys,           \* what the cursor is sought with
          PrefixOf(_),
          NoKey

VARIABLES points, spans,      \* user keys; maximal spans with equal keys, pairs <<suffix, value>>
          mask,               \* suffix from which range keys mask older points, 0: none
          lower, upper, op, pos, cover
vars == <<points, spans, mask, lower, upper, op, pos, cover>>

AtStart == <<-1, 0>>
AtEnd == <<999, 0>>
NoSpan == [nil |-> TRUE]

Low(p, u) == LET l == IF lower > u THEN lower ELSE u IN IF p > l THEN p ELSE l
Up(p, u) == LET l == IF upper # NoKey /\ upper < u THEN upper ELSE u
            IN  IF p # NoKey /\ p + 10 < l THEN p + 10 ELSE l
InBounds(u) == lower <= u /\ (upper = NoKey \/ u < upper)
\* The spans within the bounds, and within the prefix p if there is one.
Cut(p) ==
    {[s EXCEPT !.start = Low(p, s.start), !.end = Up(p, s.end)] :
        s \in {t \in spans : Low(p, t.start) < Up(p, t.end)}}
Holding(S, u) == {s \in S : s.start <= u /\ u < s.end}
Masked(u, keys) == mask # 0 /\ \E x \in keys : x[1] # 0 /\ x[1] >= mask /\ x[1] < u % 10
Items(p) ==
    LET S == Cut(p)
        shown == {u \in points : /\ InBounds(u) /\ (p = NoKey \/ PrefixOf(u) = p)
                                 /\ \A s \in Holding(S, u) : ~Masked(u, s.keys)}
    IN  {<<s.start, 0>> : s \in S} \cup {<<u, 1>> : u \in shown}
Before(a, b) == a[1] < b[1] \/ (a[1] = b[1] /\ a[2] < b[2])
LeastBehind(p, at) ==
    LET later == {x \in Items(p) : Before(at, x)}
    IN  IF later = {} THEN AtEnd ELSE CHOOSE x \in later : \A y \in later : ~Before(y, x)
GreatestBefore(p, at) ==
    LET earlier == {x \in Items(p) : Before(x, at)}
    IN  IF earlier = {} THEN AtStart ELSE CHOOSE x \in earlier : \A y \in earlier : ~Before(x, y)

Prefix == IF op[1] \in {"SeekPrefixGE", "NextInPrefix"} THEN PrefixOf(op[2]) ELSE NoKey
CoverAt(p, at) ==
    LET here == Holding(Cut(p), at[1])
    IN  IF at \in {AtStart, AtEnd} \/ here = {} THEN NoSpan ELSE CHOOSE s \in here : TRUE
Moves(p, at) == pos' = at /\ cover' = CoverAt(p, at)

Init == op = <<"none">> /\ pos = AtStart /\ cover = NoSpan

SeekTo(p, u) ==
    IF (\E s \in Cut(p) : s.start < u /\ u < s.end) THEN <<u, 0>> ELSE LeastBehind(p, <<u, -1>>)
SeekGE(u) == op' = <<"SeekGE", u>> /\ Moves(NoKey, SeekTo(NoKey, u))
SeekPrefixGE(u) == op' = <<"SeekPrefixGE", u>> /\ Moves(PrefixOf(u), SeekTo(PrefixOf(u), u))
SeekLT(u) == op' = <<"SeekLT", u>> /\ Moves(NoKey, GreatestBefore(NoKey, <<u, -1>>))
First == op' = <<"First">> /\ Moves(NoKey, LeastBehind(NoKey, AtStart))
Last == op' = <<"Last">> /\ Moves(NoKey, GreatestBefore(NoKey, AtEnd))

\* Relative positioning starts from a key: after the last one, or the first, a
\* reader seeks anew.
OnKey == op[1] \notin {"none", "SetBounds"} /\ pos \notin {AtStart, AtEnd}
Next ==
    /\ op' = IF Prefix # NoKey THEN <<"NextInPrefix", op[2]>> ELSE <<"Next">>
    /\ OnKey /\ Moves(Prefix, LeastBehind(Prefix, pos))
Prev ==
    /\ op' = <<"Prev">>
    /\ OnKey /\ Prefix = NoKey /\ Moves(NoKey, GreatestBefore(NoKey, pos))
\* From a marker NextPrefix is Next; from a point it goes behind the prefix.
NextPrefix ==
    /\ op' = <<"NextPrefix">>
    /\ OnKey /\ Prefix = NoKey
    /\ Moves(NoKey, LeastBehind(NoKey, IF pos[2] = 0 THEN pos ELSE <<PrefixOf(pos[1]) + 10, -1>>))
SetBounds(lo, up) ==
    /\ lower' = lo /\ upper' = up /\ op' = <<"SetBounds">> /\ pos' = AtStart /\ cover' = NoSpan
    /\ UNCHANGED <<points, spans, mask>>

Move ==
    /\ \/ \E u \in UserKeys : SeekGE(u) \/ SeekPrefixGE(u) \/ SeekLT(u)
       \/ First \/ Last \/ Next \/ Prev \/ NextPrefix
    /\ UNCHANGED <<points, spans, mask, lower, upper>>
Spec == Init /\ [][Move \/ \E lo, up \in UserKeys : SetBounds(lo, up)]_vars
=============================================================================
