--------------------------- MODULE FragmentCursor ---------------------------
(***************************************************************************)
(* The contract of keyspan.FragmentIterator (internal/keyspan/iter.go): a  *)
(* cursor over spans in order, no two of which overlap.  op is the last    *)
(* call and pos where it left the cursor: 0 before the first span,         *)
(* Len(spans) + 1 after the last.                                          *)
(***************************************************************************)
EXTENDS Naturals, Sequences, FiniteSets

CONSTANT UserKeys      \* what the cursor is sought with

VARIABLES spans, op, pos
vars == <<spans, op, pos>>

EndsBy(u) == Cardinality({i \in 1 .. Len(spans) : spans[i].end <= u})
StartsBelow(u) == Cardinality({i \in 1 .. Len(spans) : spans[i].start < u})

Init == op = <<"none">> /\ pos = 0

\* SeekGE stops at the span that holds u or the first behind it, SeekLT at the last
\* that starts before u.
SeekGE(u) == op' = <<"SeekGE", u>> /\ pos' = EndsBy(u) + 1
SeekLT(u) == op' = <<"SeekLT", u>> /\ pos' = StartsBelow(u)
First == op' = <<"First">> /\ pos' = 1
Last == op' = <<"Last">> /\ pos' = Len(spans)
Next == op # <<"none">> /\ pos <= Len(spans) /\ op' = <<"Next">> /\ pos' = pos + 1
Prev == op # <<"none">> /\ pos >= 1 /\ op' = <<"Prev">> /\ pos' = pos - 1

Move == \/ \E u \in UserKeys : SeekGE(u) \/ SeekLT(u)
        \/ First \/ Last \/ Next \/ Prev
Spec == Init /\ [][Move /\ UNCHANGED spans]_vars
=============================================================================
