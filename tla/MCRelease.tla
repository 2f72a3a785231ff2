----------------------------- MODULE MCRelease ------------------------------
(* Release with scheduled runs only; int64 is -16..15.                     *)
EXTENDS Release, MCData
=============================================================================
