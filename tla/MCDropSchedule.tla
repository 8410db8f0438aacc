--------------------------- MODULE MCDropSchedule ---------------------------
(* Small instances of DropSchedule for TLC.                                *)
EXTENDS DropSchedule

\* Longer than the interval from the second failure on.
MCBackoff == [n \in 1..3 |-> 3 * n]
=============================================================================
