---------------------------- MODULE MCApiRequest ----------------------------
(* Small instances of ApiRequest for TLC.                                  *)
EXTENDS ApiRequest

CONSTANTS read, poll, lock, status

\* Everything asks the same endpoint: the requests of one poll compete.
MCUrlOf == [r \in Requests |-> status]
=============================================================================
