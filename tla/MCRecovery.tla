----------------------------- MODULE MCRecovery -----------------------------
(* Crash recovery on small instances.                                      *)
EXTENDS Recovery

Bound(rot, force, comp, man, crash, large) ==
    [rot |-> rot, force |-> force, comp |-> comp, man |-> man, crash |-> crash, large |-> large]

\* Every kind of job and one crash; two crashes, of which the second may hit the
\* recovery from the first; three rotations.
AllScenarios == {Bound(1, 1, 1, 1, 1, {2}), Bound(1, 0, 0, 0, 2, {}), Bound(3, 1, 0, 0, 0, {2})}
OneRotation == {Bound(1, 0, 0, 0, 1, {})}
=============================================================================
