---------------------------- MODULE OrderedCursor ----------------------------
(***************************************************************************)
(* The contract of InternalIterator (internal/base/iterator.go): a cursor  *)
(* over a sequence of keys in internal key order, restricted to the bounds *)
(* [lower, upper).  Every iterator of the read path promises this to the   *)
(* one above it.  op is the last call and pos where it left the cursor: 0  *)
(* before the first key, Len(Content) + 1 after the last.                  *)
(***************************************************************************)
EXTENDS Naturals, Sequences, FiniteSets

CONSTANT UserKeys      \* what the cursor is sought with

VARIABLES all,         \* the keys of the underlying data, in order
          lower, upper,\* the bounds
          op, pos

vars == <<all, lower, upper, op, pos>>

InBounds(key) == lower <= key.u /\ key.u < upper
Content == SelectSeq(all, InBounds)
End == Len(Content) + 1
CountBelow(u) == Cardinality({i \in 1 .. Len(Content) : Content[i].u < u})

Init == op = <<"none">> /\ pos = 0

\* Forward positioning needs a key not below lower, reverse positioning one not
\* above upper: First only without a lower bound, Last only without an upper one.
SeekGE(u) ==
    /\ lower <= u /\ u <= upper
    /\ op' = <<"SeekGE", u>> /\ pos' = CountBelow(u) + 1
SeekLT(u) ==
    /\ lower <= u /\ u <= upper
    /\ op' = <<"SeekLT", u>> /\ pos' = CountBelow(u)
First == op' = <<"First">> /\ pos' = 1
Last == op' = <<"Last">> /\ pos' = End - 1

\* SeekPrefixGE may stop anywhere behind the prefix when no key has it; its Next
\* likewise.  (The prefix of a key is the key.)
PrefixPos(from, u) ==
    IF from < End /\ Content[from].u = u THEN {from} ELSE from .. End
SeekPrefixGE(u) ==
    /\ lower <= u /\ u <= upper
    /\ op' = <<"SeekPrefixGE", u>> /\ pos' \in PrefixPos(CountBelow(u) + 1, u)

\* Relative positioning: not after the bounds changed, not forward from the end
\* nor backward from the beginning.
Positioned == op[1] \notin {"none", "SetBounds"}
InPrefixMode == op[1] \in {"SeekPrefixGE", "NextInPrefix"}
Next ==
    /\ Positioned /\ pos # End
    /\ IF InPrefixMode
       THEN /\ op' = <<"NextInPrefix", op[2]>> /\ pos' \in PrefixPos(pos + 1, op[2])
            /\ Content[pos].u = op[2]
       ELSE op' = <<"Next">> /\ pos' = pos + 1
Prev ==
    /\ Positioned /\ ~InPrefixMode /\ pos # 0
    /\ op' = <<"Prev">> /\ pos' = pos - 1
NextPrefix ==
    /\ Positioned /\ ~InPrefixMode /\ pos \in 1 .. End - 1 /\ op[1] \notin {"SeekLT", "Prev", "Last"}
    /\ op' = <<"NextPrefix">> /\ pos' = CountBelow(Content[pos].u + 1) + 1

SetBounds(lo, up) ==
    /\ lower' = lo /\ upper' = up
    /\ op' = <<"SetBounds">> /\ pos' = 0
    /\ UNCHANGED all

Move ==
    /\ \/ \E u \in UserKeys : SeekGE(u) \/ SeekLT(u) \/ SeekPrefixGE(u)
       \/ First \/ Last \/ Next \/ Prev \/ NextPrefix
    /\ UNCHANGED <<all, lower, upper>>

Spec == Init /\ [][Move \/ \E lo, up \in UserKeys : SetBounds(lo, up)]_vars
==============================================================================
