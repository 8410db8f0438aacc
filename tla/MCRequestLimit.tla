-------------------------- MODULE MCRequestLimit --------------------------
(* Small instances of RequestLimit for TLC.                                *)
EXTENDS RequestLimit
=============================================================================
