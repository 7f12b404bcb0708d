------------------------------ MODULE MCFiles -------------------------------
(***************************************************************************)
(* What a file needs while it is in use, on small instances: its key       *)
(* (KeyManager), its place in the store (FileRefs) and its open reader     *)
(* (TableClock).  A behaviour is one of the three, as part says; only a    *)
(* closed store may stop.                                                  *)
(***************************************************************************)
EXTENDS MCKeyManager, TableClock, FileRefs

VARIABLE part
Parts == {"keys", "files", "readers"}

FilesInit == part \in Parts /\ Init /\ RefsInit /\ ClockInit
FilesNext ==
    /\ UNCHANGED part
    /\ \/ part = "keys" /\ Next /\ UNCHANGED <<refVars, clockVars>>
       \/ part = "files" /\ RefsNext /\ UNCHANGED <<vars, clockVars>>
       \/ part = "readers" /\ ClockNext /\ UNCHANGED <<vars, refVars>>
       \/ db = "closed" /\ UNCHANGED <<vars, refVars, clockVars>>
FilesSpec == FilesInit /\ [][FilesNext]_<<part, vars, refVars, clockVars>>
=============================================================================
