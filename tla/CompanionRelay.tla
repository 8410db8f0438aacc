--------------------------- MODULE CompanionRelay ---------------------------
(***************************************************************************)
(* The outbound relay to a companion phone: nothing reaches the phone, so  *)
(* its agent app posts a poll, Home Assistant holds it, and the answer is  *)
(* the next command; the phone's result rides on its next poll. One broker *)
(* per config entry holds one command in one slot. A reload closes the     *)
(* broker and makes another one under the same token.                      *)
(*                                                                         *)
(* The agent and the network are external: an answer may be lost on its    *)
(* way to the phone, an agent may give up a poll and post a new one, and   *)
(* repeats a result until a poll that carried it is answered.              *)
(***************************************************************************)
EXTENDS Naturals

CONSTANTS
    Calls,        \* calls of broker.command
    Polls,        \* HTTP requests of the agent that may be open at a time
    MaxBrokers,   \* how many brokers the entry makes, one per setup
    None

ASSUME RelayAssumption ==
    /\ MaxBrokers \in Nat \ {0}
    /\ None \notin Calls /\ None \notin Polls /\ 0 \notin Calls

Brokers == 1..MaxBrokers

VARIABLES
    made,      \* brokers made so far, the last one being the newest
    registered,\* the broker of the token, 0 while the entry is unloaded
    closed,    \* closed brokers
    fresh,     \* open brokers whose _last_seen lies within the window
    seq,       \* _seq
    slot,      \* _slot: the call whose command lies there, or None
    lock,      \* the call that holds _lock, or None
    phase,     \* where a call is
    on,        \* the broker that a call's transport was built with
    num,       \* a call's number in its id, 0 before it has one
    at,        \* where a poll is: "free", "sent", "bound", "held", "woken", "back"
    via,       \* the broker a poll was bound to, or 0
    carries,   \* the number of the answer a poll brings, or 0
    takes,     \* the command a poll returns with, or None
    current,   \* the poll the agent waits for, or None
    doing,     \* the command the agent is carrying out, or None
    answer,    \* the number of the answer it will post, or 0
    handed, ran \* history: calls claimed by a poll, calls the phone carried out

brokerVars == <<made, registered, closed, fresh, seq, slot, lock>>
callVars   == <<phase, on, num>>
pollVars   == <<at, via, carries, takes>>
agentVars  == <<current, doing, answer, ran>>
vars == <<brokerVars, callVars, pollVars, agentVars, handed>>

\* The calls _pending knows: their future is there until the caller resumes.
Pending(c) == phase[c] \in {"open", "answered", "refused"}
Ended(c) == phase[c] \in {"done", "failed"}

Init ==
    /\ made = 1 /\ registered = 1 /\ closed = {}
    /\ fresh = {}
    /\ seq = [b \in Brokers |-> 0]
    /\ slot = [b \in Brokers |-> None]
    /\ lock = [b \in Brokers |-> None]
    /\ phase = [c \in Calls |-> "idle"]
    /\ on = [c \in Calls |-> 0] /\ num = [c \in Calls |-> 0]
    /\ at = [p \in Polls |-> "free"] /\ via = [p \in Polls |-> 0]
    /\ carries = [p \in Polls |-> 0] /\ takes = [p \in Polls |-> None]
    /\ current = None /\ doing = None /\ answer = 0
    /\ handed = {} /\ ran = {}

-----------------------------------------------------------------------------
(* The callers: connect, then a verb *)

\* connect(): an agent that called in lately will do, else wait for a poll.
Connect(c) ==
    /\ phase[c] = "idle" /\ registered /= 0
    /\ on' = [on EXCEPT ![c] = registered]
    /\ phase' = [phase EXCEPT ![c] = IF registered \in fresh THEN "connected"
                                     ELSE "connecting"]
    /\ UNCHANGED <<brokerVars, num, pollVars, agentVars, handed>>

\* wait_online's timeout, or the caller is cancelled before it holds the lock.
GiveUpEarly(c) ==
    /\ phase[c] \in {"connecting", "waiting"}
    /\ phase' = [phase EXCEPT ![c] = "failed"]
    /\ UNCHANGED <<brokerVars, on, num, pollVars, agentVars, handed>>

\* Number the command, put it into the slot, wake the polls held on it.
Open(c) ==
    LET b == on[c] IN
    /\ lock' = [lock EXCEPT ![b] = c]
    /\ seq' = [seq EXCEPT ![b] = @ + 1]
    /\ num' = [num EXCEPT ![c] = seq[b] + 1]
    /\ slot' = [slot EXCEPT ![b] = c]
    /\ phase' = [phase EXCEPT ![c] = "open"]
    /\ at' = [p \in Polls |-> IF at[p] = "held" /\ via[p] = b THEN "woken" ELSE at[p]]

Free(b) == lock[b] = None /\ \A d \in Calls : ~(phase[d] = "waiting" /\ on[d] = b)

\* command(): refused on a closed broker, at once if the lock is free.
Command(c) ==
    /\ phase[c] = "connected"
    /\ IF on[c] \notin closed /\ Free(on[c]) THEN Open(c)
       ELSE /\ phase' = [phase EXCEPT ![c] = IF on[c] \in closed THEN "failed" ELSE "waiting"]
            /\ UNCHANGED <<lock, seq, num, slot, at>>
    /\ UNCHANGED <<made, registered, closed, fresh, on, via, carries, takes, agentVars, handed>>

\* A mutant: the lock is not waited for.
EnterUnlocked(c) ==
    /\ phase[c] = "waiting"
    /\ Open(c)
    /\ UNCHANGED <<made, registered, closed, fresh, on, via, carries, takes, agentVars, handed>>

\* The lock is its own now. Nothing looks at closed again.
Enter(c) ==
    /\ phase[c] = "waiting" /\ lock[on[c]] = None
    /\ Open(c)
    /\ UNCHANGED <<made, registered, closed, fresh, on, via, carries, takes, agentVars, handed>>

\* A mutant: an unclaimed command is left for a later poll.
LeaveSlot(c, outcome) ==
    LET b == on[c] IN
    /\ phase' = [phase EXCEPT ![c] = outcome]
    /\ lock' = [lock EXCEPT ![b] = None]
    /\ UNCHANGED <<made, registered, closed, fresh, seq, slot, on, num, pollVars,
                   agentVars, handed>>

\* The finally block: forget the future, withdraw an unclaimed command, unlock.
Finally(c, outcome) ==
    LET b == on[c] IN
    /\ phase' = [phase EXCEPT ![c] = outcome]
    /\ slot' = [slot EXCEPT ![b] = IF @ = c THEN None ELSE @]
    /\ lock' = [lock EXCEPT ![b] = None]
    /\ UNCHANGED <<made, registered, closed, fresh, seq, on, num, pollVars,
                   agentVars, handed>>

Resume(c) ==
    \/ phase[c] = "answered" /\ Finally(c, "done")
    \/ phase[c] \in {"refused", "shut"} /\ Finally(c, "failed")

\* The timeout, or a cancellation; it may come after the answer, too.
TimeOut(c) == (Pending(c) \/ phase[c] = "shut") /\ Finally(c, "failed")

-----------------------------------------------------------------------------
(* The agent's endpoint *)

\* A poll ends; if the agent gave it up, its answer reaches nobody.
EndPoll(p, command, broker) ==
    /\ at' = [at EXCEPT ![p] = IF current = p THEN "back" ELSE "free"]
    /\ takes' = [takes EXCEPT ![p] = IF current = p THEN command ELSE None]
    /\ carries' = [carries EXCEPT ![p] = 0]
    /\ via' = [via EXCEPT ![p] = IF current = p THEN broker ELSE 0]

\* A mutant: the lookup's miss is not answered.
ArrivesUnchecked(p) ==
    /\ at[p] = "sent"
    /\ via' = [via EXCEPT ![p] = registered]
    /\ at' = [at EXCEPT ![p] = "bound"]
    /\ UNCHANGED <<brokerVars, callVars, carries, takes, agentVars, handed>>

\* handle_agent_request: the token is looked up first, then the body is read.
\* An unknown token is answered 404 at once.
PollArrives(p) ==
    /\ at[p] = "sent"
    /\ IF registered = 0 THEN EndPoll(p, None, 0)
       ELSE /\ at' = [at EXCEPT ![p] = "bound"]
            /\ via' = [via EXCEPT ![p] = registered]
            /\ UNCHANGED <<carries, takes>>
    /\ UNCHANGED <<brokerVars, callVars, agentVars, handed>>

\* _resolve_result: whose future the answer completes.
Answered(p) ==
    {c \in Calls : on[c] = via[p] /\ num[c] = carries[p] /\ phase[c] = "open"}

\* A poll leaves with what lies in the slot, which may be nothing any more.
Take(p, b) ==
    /\ EndPoll(p, slot[b], b)
    /\ handed' = handed \cup ({slot[b]} \ {None})
    /\ slot' = [slot EXCEPT ![b] = None]

\* handle_poll up to its await: note the agent, complete the call it answers,
\* and return at once with a command that already waits.
HandlePoll(p) ==
    LET b == via[p] IN
    /\ at[p] = "bound"
    /\ fresh' = (fresh \cup {b}) \ closed
    /\ \E verdict \in {"answered", "refused"} :
          phase' = [c \in Calls |->
                      IF c \in Answered(p) THEN verdict
                      ELSE IF phase[c] = "connecting" /\ on[c] = b THEN "connected"
                      ELSE phase[c]]
    /\ IF slot[b] /= None THEN Take(p, b)
       ELSE /\ at' = [at EXCEPT ![p] = "held"] /\ carries' = [carries EXCEPT ![p] = 0]
            /\ UNCHANGED <<via, takes, slot, handed>>
    /\ UNCHANGED <<made, registered, closed, seq, lock, on, num, agentVars>>

\* The first of the polls that a command woke takes it.
PollResumes(p) ==
    /\ at[p] = "woken"
    /\ Take(p, via[p])
    /\ UNCHANGED <<made, registered, closed, fresh, seq, lock, callVars, agentVars>>

\* The hold window elapsed, with nothing to do or just after the poll was
\* woken: then the command stays in the slot for the next poll
\* (relay.py:225-227).
HoldEnds(p) ==
    /\ at[p] \in {"held", "woken"}
    /\ EndPoll(p, None, via[p])
    /\ UNCHANGED <<brokerVars, callVars, agentVars, handed>>

\* No poll for more than two holds.
GoesStale(b) ==
    /\ b \in fresh
    /\ \A p \in Polls : ~(at[p] = "held" /\ via[p] = b)
    /\ fresh' = fresh \ {b}
    /\ UNCHANGED <<made, registered, closed, seq, slot, lock, callVars, pollVars,
                   agentVars, handed>>

-----------------------------------------------------------------------------
(* The agent and the network *)

\* The agent, with nothing to carry out, posts a poll with its last answer.
AgentPolls(p) ==
    /\ current = None /\ doing = None /\ at[p] = "free"
    /\ at' = [at EXCEPT ![p] = "sent"]
    /\ carries' = [carries EXCEPT ![p] = answer]
    /\ current' = p
    /\ UNCHANGED <<brokerVars, callVars, via, takes, doing, answer, ran, handed>>

\* The agent gets its answer, and drops the result that a broker took.
PollReturns(p) ==
    /\ at[p] = "back"
    /\ at' = [at EXCEPT ![p] = "free"] /\ via' = [via EXCEPT ![p] = 0]
    /\ takes' = [takes EXCEPT ![p] = None]
    /\ current' = None
    /\ doing' = takes[p]
    /\ answer' = IF via[p] = 0 THEN answer ELSE 0
    /\ UNCHANGED <<brokerVars, callVars, carries, ran, handed>>

AgentRuns ==
    /\ doing /= None
    /\ ran' = ran \cup {doing}
    /\ answer' = num[doing]
    /\ doing' = None
    /\ UNCHANGED <<brokerVars, callVars, pollVars, current, handed>>

\* The agent stops waiting for its poll, whose answer may be on its way.
Abandon ==
    /\ at' = [p \in Polls |-> IF at[p] = "back" THEN "free" ELSE at[p]]
    /\ via' = [p \in Polls |-> IF at[p] = "back" THEN 0 ELSE via[p]]
    /\ takes' = [p \in Polls |-> None]
    /\ current' = None

\* The connection breaks.
AgentGivesUp ==
    /\ current /= None
    /\ Abandon
    /\ UNCHANGED <<brokerVars, callVars, carries, doing, answer, ran, handed>>

AgentRestarts ==
    /\ doing /= None \/ answer /= 0
    /\ Abandon
    /\ doing' = None /\ answer' = 0
    /\ UNCHANGED <<brokerVars, callVars, carries, ran, handed>>

-----------------------------------------------------------------------------
(* Setup and unload *)

\* unregister_relay and close(): the slot is emptied, every pending call fails.
Unregister ==
    /\ registered /= 0
    /\ closed' = closed \cup {registered}
    /\ slot' = [slot EXCEPT ![registered] = None]
    /\ phase' = [c \in Calls |-> IF phase[c] = "open" /\ on[c] = registered THEN "shut"
                                 ELSE phase[c]]
    /\ registered' = 0
    /\ fresh' = {}
    /\ UNCHANGED <<made, seq, lock, on, num, pollVars, agentVars, handed>>

\* register_relay: a new broker, whose numbers start over.
Register ==
    /\ registered = 0 /\ made < MaxBrokers
    /\ made' = made + 1 /\ registered' = made + 1
    /\ UNCHANGED <<closed, fresh, seq, slot, lock, callVars, pollVars, agentVars, handed>>

CallerStep(c) == Connect(c) \/ GiveUpEarly(c) \/ Command(c) \/ Enter(c) \/ Resume(c) \/ TimeOut(c)
PollStep(p) ==
    PollArrives(p) \/ HandlePoll(p) \/ PollResumes(p) \/ HoldEnds(p) \/ AgentPolls(p) \/ PollReturns(p)

Next ==
    \/ \E c \in Calls : CallerStep(c)
    \/ \E p \in Polls : PollStep(p)
    \/ \E b \in Brokers : GoesStale(b)
    \/ AgentRuns \/ AgentGivesUp \/ AgentRestarts
    \/ Unregister \/ Register

Spec == Init /\ [][Next]_vars

-----------------------------------------------------------------------------
(* Properties *)

PollPlaces == {"free", "sent", "bound", "held", "woken", "back"}
CallPlaces == {"idle", "connecting", "connected", "waiting", "open", "answered",
               "refused", "shut", "done", "failed"}

\* Types; a poll is bound to a broker that exists once it left the lookup of
\* its token.
TypeOK ==
    /\ made \in Brokers /\ registered \in {0, made}
    /\ closed \subseteq 1..made
    /\ fresh \subseteq {registered} \ {0}
    /\ seq \in [Brokers -> Nat]
    /\ slot \in [Brokers -> Calls \cup {None}] /\ lock \in [Brokers -> Calls \cup {None}]
    /\ phase \in [Calls -> CallPlaces]
    /\ on \in [Calls -> 0..MaxBrokers] /\ num \in [Calls -> Nat]
    /\ at \in [Polls -> PollPlaces] /\ via \in [Polls -> 0..MaxBrokers]
    /\ \A p \in Polls : at[p] \in {"bound", "held", "woken"} => via[p] \in Brokers
    /\ carries \in [Polls -> Nat] /\ takes \in [Polls -> Calls \cup {None}]
    /\ current \in Polls \cup {None} /\ doing \in Calls \cup {None}
    /\ answer \in Nat
    /\ handed \subseteq Calls /\ ran \subseteq Calls

\* "Drop an unclaimed command so a dead agent cannot pick up a stale tap
\* minutes later": what lies in a broker's slot is the command of the call that
\* holds its lock, so whatever path a caller leaves by, it takes it along.
SlotIsTheLockHolders ==
    \A b \in Brokers : slot[b] /= None => slot[b] = lock[b]

\* The refinement mapping: a call is open for as long as it holds the lock, and
\* its stamp is what its id and its broker's transport say of it.
callPhase ==
    [c \in Calls |-> IF Pending(c) \/ phase[c] = "shut" THEN "open"
                     ELSE IF Ended(c) THEN phase[c] ELSE "idle"]
stamp == [c \in Calls |-> IF num[c] = 0 THEN <<0, 0>> ELSE <<on[c], num[c]>>]

Promise == INSTANCE RemoteCalls WITH phase <- callPhase, count <- seq, stamp <- stamp

\* The relay keeps its promise: one call of a broker at a time, commands only
\* of calls that still wait, each run at most once and in their order, whatever
\* polls are held, lost, given up or answered late, and across a reload.
KeepsItsPromise == Promise!Spec
=============================================================================
