----------------------------- MODULE TablePins ------------------------------
(***************************************************************************)
(* What versions and read states promise to the table cache and to every   *)
(* reader: a table that somebody pins has not been dropped from the store, *)
(* and a dropped table never comes back.  FileRefs implements it.          *)
(***************************************************************************)
CONSTANTS Users, Tables
VARIABLES pinned,     \* the tables each reader may open
          dropped     \* the tables that are in no version any more

pinVars == <<pinned, dropped>>

PinsInit == pinned = [p \in Users |-> {}] /\ dropped = {}

\* A reader gets hold of a version or, with the empty set, lets go of it.
Pin(p, S) ==
    /\ S \cap dropped = {}
    /\ pinned' = [pinned EXCEPT ![p] = S]
    /\ UNCHANGED dropped

Drop(S) ==
    /\ \A p \in Users : S \cap pinned[p] = {}
    /\ dropped' = dropped \cup S
    /\ UNCHANGED pinned

PinsNext == \/ \E p \in Users, S \in SUBSET Tables : Pin(p, S)
            \/ \E S \in SUBSET Tables : Drop(S)
PinsSpec == PinsInit /\ [][PinsNext]_pinVars
=============================================================================
