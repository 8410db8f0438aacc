----------------------------- MODULE RemoteCalls -----------------------------
(***************************************************************************)
(* What the agent relay promises to the companion channel, without its     *)
(* broker, its polls or its network: calls that a phone carries out, each  *)
(* at most once, in the order in which they were numbered, and none of     *)
(* which succeeds unless the phone ran a call of its number. That number   *)
(* is all an answer names: it starts over with every broker.               *)
(***************************************************************************)
EXTENDS Naturals

CONSTANTS Calls, Brokers

VARIABLES
    phase,    \* "idle", "open", "done" or "failed"
    count,    \* the last number each broker gave out
    stamp,    \* the broker and the number of a call, <<0, 0>> before it has one
    handed,   \* calls handed to the phone's connection
    ran       \* calls the phone carried out

absVars == <<phase, count, stamp, handed, ran>>

Precedes(s, t) == s[1] < t[1] \/ (s[1] = t[1] /\ s[2] < t[2])

Init ==
    /\ phase = [c \in Calls |-> "idle"]
    /\ count = [b \in Brokers |-> 0]
    /\ stamp = [c \in Calls |-> <<0, 0>>]
    /\ handed = {} /\ ran = {}

\* A broker has one call open at a time, and counts them.
Begin(c) ==
    /\ phase[c] = "idle"
    /\ \E b \in Brokers :
          /\ \A d \in Calls : stamp[d][1] = b => phase[d] /= "open"
          /\ count' = [count EXCEPT ![b] = @ + 1]
          /\ stamp' = [stamp EXCEPT ![c] = <<b, count[b] + 1>>]
    /\ phase' = [phase EXCEPT ![c] = "open"]
    /\ UNCHANGED <<handed, ran>>

\* A call that nobody waits for any more stays away from the phone.
Hand(c) ==
    /\ phase[c] = "open" /\ c \notin handed
    /\ handed' = handed \cup {c}
    /\ UNCHANGED <<phase, count, stamp, ran>>

Run(c) ==
    /\ c \in handed /\ c \notin ran
    /\ \A d \in ran : Precedes(stamp[d], stamp[c])
    /\ ran' = ran \cup {c}
    /\ UNCHANGED <<phase, count, stamp, handed>>

Succeed(c) ==
    /\ phase[c] = "open"
    /\ \E d \in ran : stamp[d][1] <= stamp[c][1] /\ stamp[d][2] = stamp[c][2]
    /\ phase' = [phase EXCEPT ![c] = "done"]
    /\ UNCHANGED <<count, stamp, handed, ran>>

Fail(c) ==
    /\ phase[c] \in {"idle", "open"}
    /\ phase' = [phase EXCEPT ![c] = "failed"]
    /\ UNCHANGED <<count, stamp, handed, ran>>

Next == \E c \in Calls : Begin(c) \/ Hand(c) \/ Run(c) \/ Succeed(c) \/ Fail(c)

Spec == Init /\ [][Next]_absVars
==============================================================================
