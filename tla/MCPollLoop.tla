----------------------------- MODULE MCPollLoop -----------------------------
(* Small instances of PollLoop for TLC, and with them of what a poll does   *)
(* with the values it reads.                                               *)
EXTENDS PollLoop, MCReadings, TLC

CONSTANTS v1, v2

\* Cars differ in nothing: safety runs may permute them.
Symmetric == Permutations(Cars)
=============================================================================
