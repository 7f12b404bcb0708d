---------------------------- MODULE MCLogWriter -----------------------------
(* The WAL writer on small instances: blocks of two bytes, a sync queue *)
(* of two or three slots.                                                   *)
EXTENDS LogWriter
=============================================================================
