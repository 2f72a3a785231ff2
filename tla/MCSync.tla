------------------------------ MODULE MCSync --------------------------------
(* Sync with a scheduled run and one that overlaps it; int64 is -16..15.   *)
EXTENDS Sync, MCData
=============================================================================
