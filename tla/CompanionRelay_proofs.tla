----------------------- MODULE CompanionRelay_proofs -----------------------
(***************************************************************************)
(* Theorems of CompanionRelay, for any calls, polls and number of reloads: *)
(* its types, what lies in a slot, and that it implements RemoteCalls.     *)
(***************************************************************************)
EXTENDS CompanionRelay, TLAPS

-----------------------------------------------------------------------------
(* Types *)

BrokerTypes ==
    /\ made \in Brokers /\ registered \in {0, made}
    /\ closed \subseteq 1..made
    /\ fresh \subseteq {registered} \ {0}
    /\ seq \in [Brokers -> Nat]
    /\ slot \in [Brokers -> Calls \cup {None}] /\ lock \in [Brokers -> Calls \cup {None}]

CallTypes ==
    /\ phase \in [Calls -> CallPlaces]
    /\ on \in [Calls -> 0..MaxBrokers] /\ num \in [Calls -> Nat]

PollTypes ==
    /\ at \in [Polls -> PollPlaces] /\ via \in [Polls -> 0..MaxBrokers]
    /\ \A p \in Polls : at[p] \in {"bound", "held", "woken"} => via[p] \in Brokers
    /\ carries \in [Polls -> Nat] /\ takes \in [Polls -> Calls \cup {None}]

AgentTypes ==
    /\ current \in Polls \cup {None} /\ doing \in Calls \cup {None}
    /\ answer \in Nat
    /\ handed \subseteq Calls /\ ran \subseteq Calls

LEMMA Parts == TypeOK <=> BrokerTypes /\ CallTypes /\ PollTypes /\ AgentTypes
  BY DEF TypeOK, BrokerTypes, CallTypes, PollTypes, AgentTypes

LEMMA PartsNext == TypeOK' <=> BrokerTypes' /\ CallTypes' /\ PollTypes' /\ AgentTypes'
  BY DEF TypeOK, BrokerTypes, CallTypes, PollTypes, AgentTypes

\* A call that began has a broker; only the registered one is open.
MadeInv ==
    /\ \A c \in Calls : IF phase[c] = "idle" THEN on[c] = 0 ELSE on[c] \in 1..made
    /\ \A p \in Polls : via[p] \in 0..made
    /\ (1..made) \ closed \subseteq {registered}

Base == BrokerTypes /\ CallTypes /\ PollTypes /\ AgentTypes /\ MadeInv

LEMMA OpenBase ==
  ASSUME Base, NEW c \in Calls, phase[c] \in {"connected", "waiting"}, Open(c),
         UNCHANGED <<made, registered, closed, fresh, on, via, carries, takes, agentVars, handed>>
  PROVE  Base'
<1>1. on[c] \in Brokers /\ seq[on[c]] \in Nat
  BY RelayAssumption DEF Base, MadeInv, CallTypes, BrokerTypes, Brokers
<1>2. BrokerTypes'
  BY <1>1 DEF Base, BrokerTypes, Open
<1>3. CallTypes'
  BY <1>1 DEF Base, CallTypes, Open, CallPlaces
<1>4. PollTypes'
  BY <1>1 DEF Base, PollTypes, Open, PollPlaces
<1>5. AgentTypes'
  BY DEF Base, AgentTypes, agentVars
<1>6. MadeInv'
  BY DEF Base, MadeInv, CallTypes, Open
<1> QED BY <1>2, <1>3, <1>4, <1>5, <1>6 DEF Base

LEMMA FinallyBase ==
  ASSUME Base, NEW c \in Calls, phase[c] # "idle",
         Finally(c, "done") \/ Finally(c, "failed")
  PROVE  Base'
<1> USE DEF Finally
<1>1. BrokerTypes'
  BY DEF Base, BrokerTypes
<1>2. CallTypes'
  BY DEF Base, CallTypes, CallPlaces
<1>3. PollTypes' /\ AgentTypes'
  BY DEF Base, PollTypes, AgentTypes, pollVars, agentVars
<1>4. MadeInv'
  BY DEF Base, MadeInv, CallTypes, pollVars
<1> QED BY <1>1, <1>2, <1>3, <1>4 DEF Base

LEMMA CallerBase == ASSUME Base, NEW c \in Calls, CallerStep(c) PROVE Base'
<1> USE DEF brokerVars, callVars, pollVars, agentVars
<1>1. CASE Connect(c)
  <2>1. registered \in 1..made /\ registered \in 0..MaxBrokers
    BY <1>1, RelayAssumption DEF Connect, Base, BrokerTypes, Brokers
  <2>2. CallTypes' /\ MadeInv'
    BY <1>1, <2>1 DEF Connect, Base, CallTypes, CallPlaces, MadeInv
  <2> QED BY <1>1, <2>2 DEF Connect, Base, BrokerTypes, PollTypes, AgentTypes
<1>2. CASE GiveUpEarly(c)
  <2>1. CallTypes' /\ MadeInv'
    BY <1>2 DEF GiveUpEarly, Base, CallTypes, CallPlaces, MadeInv
  <2> QED BY <1>2, <2>1 DEF GiveUpEarly, Base, BrokerTypes, PollTypes, AgentTypes
<1>3. CASE Command(c)
  <2>1. CASE Open(c)
    BY <1>3, <2>1, OpenBase DEF Command
  <2>2. CASE ~Open(c)
    <3>1. CallTypes' /\ MadeInv'
      BY <1>3, <2>2 DEF Command, Base, CallTypes, CallPlaces, MadeInv
    <3> QED BY <1>3, <2>2, <3>1 DEF Command, Base, BrokerTypes, PollTypes, AgentTypes
  <2> QED BY <2>1, <2>2
<1>4. CASE Enter(c)
  BY <1>4, OpenBase DEF Enter
<1>5. CASE Resume(c) \/ TimeOut(c)
  BY <1>5, FinallyBase DEF Resume, TimeOut, Pending
<1> QED BY <1>1, <1>2, <1>3, <1>4, <1>5 DEF CallerStep

LEMMA EndPollTypes ==
  ASSUME Base, NEW p \in Polls, NEW command \in Calls \cup {None}, NEW b \in 0..made,
         EndPoll(p, command, b)
  PROVE  PollTypes' /\ \A q \in Polls : via'[q] \in 0..made
<1>1. b \in 0..MaxBrokers /\ 0 \in 0..made /\ 0 \in 0..MaxBrokers
  BY RelayAssumption DEF Base, BrokerTypes, Brokers
<1> QED BY <1>1 DEF EndPoll, Base, PollTypes, PollPlaces, MadeInv

LEMMA TakeTypes ==
  ASSUME Base, NEW p \in Polls, via[p] \in Brokers, Take(p, via[p])
  PROVE  /\ PollTypes' /\ \A q \in Polls : via'[q] \in 0..made
         /\ handed' \subseteq Calls /\ slot' \in [Brokers -> Calls \cup {None}]
<1>1. slot[via[p]] \in Calls \cup {None} /\ via[p] \in 0..made
  BY DEF Base, BrokerTypes, MadeInv
<1>2. handed' \subseteq Calls /\ slot' \in [Brokers -> Calls \cup {None}]
  BY <1>1 DEF Take, Base, BrokerTypes, AgentTypes
<1>3. EndPoll(p, slot[via[p]], via[p])
  BY DEF Take
<1>4. PollTypes' /\ \A q \in Polls : via'[q] \in 0..made
  BY <1>1, <1>3, EndPollTypes
<1> QED BY <1>2, <1>4

LEMMA PollBase == ASSUME Base, NEW p \in Polls, PollStep(p) PROVE Base'
<1> USE DEF brokerVars, callVars, pollVars, agentVars
<1>1. CASE PollArrives(p)
  <2>1. PollTypes' /\ \A q \in Polls : via'[q] \in 0..made
    <3>1. CASE registered = 0
      <4>1. 0 \in 0..made /\ EndPoll(p, None, 0)
        BY <1>1, <3>1, RelayAssumption DEF PollArrives, Base, BrokerTypes, Brokers
      <4> QED BY <4>1, EndPollTypes
    <3>2. CASE registered # 0
      <4>1. registered \in Brokers /\ registered \in 0..made
        BY <3>2, RelayAssumption DEF Base, BrokerTypes, Brokers
      <4> QED BY <1>1, <3>2, <4>1, RelayAssumption
              DEF PollArrives, Base, PollTypes, PollPlaces, MadeInv, Brokers
    <3> QED BY <3>1, <3>2
  <2> QED BY <1>1, <2>1 DEF PollArrives, Base, BrokerTypes, CallTypes, AgentTypes, MadeInv
<1>2. CASE HandlePoll(p)
  <2>1. via[p] \in Brokers /\ via[p] \in 1..made
    BY <1>2 DEF HandlePoll, Base, PollTypes, MadeInv, Brokers
  <2>2. CallTypes' /\ \A c \in Calls : phase'[c] = "idle" <=> phase[c] = "idle"
    BY <1>2 DEF HandlePoll, Base, CallTypes, CallPlaces, Answered
  <2>3. fresh' \subseteq {registered} \ {0}
    <3>1. fresh' = (fresh \cup {via[p]}) \ closed
      BY <1>2 DEF HandlePoll
    <3>2. via[p] \notin closed => via[p] = registered
      BY <2>1 DEF Base, MadeInv
    <3>3. via[p] # 0 /\ fresh \subseteq {registered} \ {0}
      BY <2>1 DEF Base, BrokerTypes
    <3> QED BY <3>1, <3>2, <3>3, Zenon
  <2>4. /\ PollTypes' /\ \A q \in Polls : via'[q] \in 0..made
        /\ handed' \subseteq Calls /\ slot' \in [Brokers -> Calls \cup {None}]
    <3>1. CASE slot[via[p]] # None
      BY <1>2, <2>1, <3>1, TakeTypes DEF HandlePoll
    <3>2. CASE slot[via[p]] = None
      BY <1>2, <2>1, <3>2 DEF HandlePoll, Base, BrokerTypes, PollTypes, PollPlaces, AgentTypes, MadeInv
    <3> QED BY <3>1, <3>2
  <2>5. BrokerTypes' /\ AgentTypes'
    BY <1>2, <2>3, <2>4 DEF HandlePoll, Base, BrokerTypes, AgentTypes
  <2>6. MadeInv'
    BY <1>2, <2>2, <2>4 DEF HandlePoll, Base, MadeInv
  <2> QED BY <2>2, <2>4, <2>5, <2>6 DEF Base
<1>3. CASE PollResumes(p)
  <2>1. via[p] \in Brokers
    BY <1>3 DEF PollResumes, Base, PollTypes
  <2>2. /\ PollTypes' /\ \A q \in Polls : via'[q] \in 0..made
        /\ handed' \subseteq Calls /\ slot' \in [Brokers -> Calls \cup {None}]
    BY <1>3, <2>1, TakeTypes DEF PollResumes
  <2> QED BY <1>3, <2>2 DEF PollResumes, Base, BrokerTypes, CallTypes, AgentTypes, MadeInv
<1>4. CASE HoldEnds(p)
  <2>1. via[p] \in 0..made /\ EndPoll(p, None, via[p])
    BY <1>4 DEF HoldEnds, Base, MadeInv
  <2>2. PollTypes' /\ \A q \in Polls : via'[q] \in 0..made
    BY <2>1, EndPollTypes
  <2> QED BY <1>4, <2>2 DEF HoldEnds, Base, BrokerTypes, CallTypes, AgentTypes, MadeInv
<1>5. CASE AgentPolls(p)
  BY <1>5 DEF AgentPolls, Base, BrokerTypes, CallTypes, PollTypes, PollPlaces, AgentTypes, MadeInv
<1>6. CASE PollReturns(p)
  <2>1. PollTypes' /\ AgentTypes'
    BY <1>6, RelayAssumption DEF PollReturns, Base, PollTypes, PollPlaces, AgentTypes
  <2>2. MadeInv'
    BY <1>6, RelayAssumption DEF PollReturns, Base, PollTypes, BrokerTypes, Brokers, MadeInv
  <2> QED BY <1>6, <2>1, <2>2 DEF PollReturns, Base, BrokerTypes, CallTypes
<1> QED BY <1>1, <1>2, <1>3, <1>4, <1>5, <1>6 DEF PollStep

LEMMA AbandonTypes ==
  ASSUME Base, Abandon, UNCHANGED carries
  PROVE  PollTypes' /\ current' \in Polls \cup {None} /\ \A q \in Polls : via'[q] \in 0..made
<1>1. 0 \in 0..made /\ 0 \in 0..MaxBrokers
  BY RelayAssumption DEF Base, BrokerTypes, Brokers
<1> QED BY <1>1 DEF Abandon, Base, PollTypes, PollPlaces, MadeInv

LEMMA OthersBase ==
  ASSUME Base,
         \/ \E b \in Brokers : GoesStale(b)
         \/ AgentRuns \/ AgentGivesUp \/ AgentRestarts \/ Unregister \/ Register
  PROVE  Base'
<1> USE DEF brokerVars, callVars, pollVars, agentVars
<1>1. ASSUME NEW b \in Brokers, GoesStale(b) PROVE Base'
  BY <1>1 DEF GoesStale, Base, BrokerTypes, CallTypes, PollTypes, AgentTypes, MadeInv
<1>2. CASE AgentRuns
  <2>1. AgentTypes'
    BY <1>2 DEF AgentRuns, Base, AgentTypes, CallTypes
  <2> QED BY <1>2, <2>1 DEF AgentRuns, Base, BrokerTypes, CallTypes, PollTypes, MadeInv
<1>3. CASE AgentGivesUp
  <2>1. PollTypes' /\ current' \in Polls \cup {None} /\ \A q \in Polls : via'[q] \in 0..made
    BY <1>3, AbandonTypes DEF AgentGivesUp
  <2> QED BY <1>3, <2>1 DEF AgentGivesUp, Base, BrokerTypes, CallTypes, AgentTypes, MadeInv
<1>4. CASE AgentRestarts
  <2>1. PollTypes' /\ current' \in Polls \cup {None} /\ \A q \in Polls : via'[q] \in 0..made
    BY <1>4, AbandonTypes DEF AgentRestarts
  <2> QED BY <1>4, <2>1 DEF AgentRestarts, Base, BrokerTypes, CallTypes, AgentTypes, MadeInv
<1>5. CASE Unregister
  <2>1. registered = made
    BY <1>5 DEF Unregister, Base, BrokerTypes
  <2>2. BrokerTypes'
    BY <1>5, <2>1, RelayAssumption DEF Unregister, Base, BrokerTypes, Brokers
  <2>3. CallTypes' /\ \A c \in Calls : phase'[c] = "idle" <=> phase[c] = "idle"
    BY <1>5 DEF Unregister, Base, CallTypes, CallPlaces
  <2>4. MadeInv'
    BY <1>5, <2>3 DEF Unregister, Base, MadeInv
  <2> QED BY <1>5, <2>2, <2>3, <2>4 DEF Unregister, Base, PollTypes, AgentTypes
<1>6. CASE Register
  <2>1. made \in 1..MaxBrokers /\ made' = made + 1 /\ made' \in 1..MaxBrokers
    BY <1>6, RelayAssumption DEF Register, Base, BrokerTypes, Brokers
  <2>2. BrokerTypes'
    BY <1>6, <2>1 DEF Register, Base, BrokerTypes, Brokers
  <2>3. (1..made') \ closed' \subseteq {registered'}
    BY <1>6, <2>1 DEF Register, Base, BrokerTypes, MadeInv
  <2>4. MadeInv'
    BY <1>6, <2>1, <2>3 DEF Register, Base, MadeInv
  <2> QED BY <1>6, <2>2, <2>4 DEF Register, Base, CallTypes, PollTypes, AgentTypes
<1> QED BY <1>1, <1>2, <1>3, <1>4, <1>5, <1>6

LEMMA BaseStep == ASSUME Base, [Next]_vars PROVE Base'
<1>1. CASE UNCHANGED vars
  BY <1>1 DEF vars, brokerVars, callVars, pollVars, agentVars, Base, BrokerTypes, CallTypes,
              PollTypes, AgentTypes, MadeInv
<1> QED BY <1>1, CallerBase, PollBase, OthersBase DEF Next

LEMMA BaseInit == Init => Base
<1> SUFFICES ASSUME Init PROVE Base
  OBVIOUS
<1>1. 1 \in Brokers /\ 0 \in 0..MaxBrokers
  BY RelayAssumption DEF Brokers
<1>2. BrokerTypes /\ CallTypes
  BY <1>1 DEF Init, BrokerTypes, CallTypes, CallPlaces
<1>3. PollTypes /\ AgentTypes
  BY <1>1 DEF Init, PollTypes, PollPlaces, AgentTypes
<1>4. MadeInv
  BY DEF Init, MadeInv
<1> QED BY <1>2, <1>3, <1>4 DEF Base

\* Every step keeps the types.
THEOREM RelayTypeOK == Spec => []TypeOK
<1>1. Base => TypeOK
  BY Parts DEF Base
<1> QED BY <1>1, BaseInit, BaseStep, PTL DEF Spec
-----------------------------------------------------------------------------
(* The lock, the numbers and what the phone was given *)

Holding == {"open", "answered", "refused", "shut"}
Unnumbered == {"idle", "connecting", "connected", "waiting"}

\* A broker's lock is held by one call of its own, whose command is the one in
\* the slot, if any.
LockInv ==
    /\ \A b \in Brokers : slot[b] # None => slot[b] = lock[b]
    /\ \A b \in Brokers : lock[b] # None => on[lock[b]] = b /\ phase[lock[b]] \in Holding
    /\ \A c \in Calls : phase[c] \in Holding => lock[on[c]] = c

\* The holder has the last number, and no two calls of a broker share one.
NumInv == \A c \in Calls :
    /\ phase[c] \in Unnumbered => num[c] = 0
    /\ phase[c] \in Holding => num[c] > 0 /\ num[c] = seq[on[c]]
    /\ num[c] > 0 => num[c] <= seq[on[c]]
    /\ \A d \in Calls \ {c} : num[c] > 0 /\ on[c] = on[d] => num[c] # num[d]

Before(d, c) == on[d] < on[c] \/ (on[d] = on[c] /\ num[d] < num[c])
Ahead(c) == c \in handed \ ran /\ \A d \in ran : Before(d, c)

\* What is on its way to the phone comes after all that it ran, because the
\* poll it waits for was bound to a broker no older than theirs.
HandInv ==
    /\ ran \subseteq handed /\ \A c \in handed : num[c] > 0
    /\ \A b \in Brokers : slot[b] \notin handed
    /\ \A p \in Polls : takes[p] # None => current = p /\ at[p] = "back" /\ Ahead(takes[p])
    /\ doing # None => current = None /\ Ahead(doing)
    /\ \A p \in Polls : at[p] = "back" => current = p
    /\ \A p \in Polls : at[p] \in {"free", "sent"} => via[p] = 0
    /\ \A p \in Polls : current = p /\ via[p] > 0 => \A d \in ran : on[d] <= via[p]

\* An answer names the number of a call that ran, of that broker or an older one.
AnswerInv ==
    /\ answer > 0 => \E d \in ran : num[d] = answer
    /\ \A p \in Polls : carries[p] > 0 =>
          /\ at[p] \in {"sent", "bound"}
          /\ \E d \in ran : num[d] = carries[p] /\ (at[p] = "bound" => on[d] <= via[p])
    /\ \A c \in Calls : phase[c] = "answered" =>
          \E d \in ran : num[d] = num[c] /\ on[d] <= on[c]

RelayInv == Base /\ LockInv /\ NumInv /\ HandInv /\ AnswerInv

\* What a call that opens finds: a broker of its own, no number, no holder.
LEMMA OpenInv ==
  ASSUME RelayInv, NEW c \in Calls, phase[c] \in {"connected", "waiting"},
         lock[on[c]] = None, Open(c),
         UNCHANGED <<made, registered, closed, fresh, on, via, carries, takes, agentVars, handed>>
  PROVE  LockInv' /\ NumInv' /\ HandInv' /\ AnswerInv'
<1> USE DEF agentVars
<1>1. /\ on[c] \in Brokers /\ seq[on[c]] \in Nat /\ seq \in [Brokers -> Nat]
      /\ num[c] = 0 /\ c \notin handed /\ c # None
      /\ phase \in [Calls -> CallPlaces] /\ num \in [Calls -> Nat]
      /\ slot \in [Brokers -> Calls \cup {None}] /\ lock \in [Brokers -> Calls \cup {None}]
  BY RelayAssumption DEF RelayInv, Base, MadeInv, CallTypes, BrokerTypes, Brokers, NumInv,
                         HandInv, Unnumbered
<1>2. \A d \in Calls : phase[d] # "idle" => on[d] \in Brokers
  BY RelayAssumption DEF RelayInv, Base, MadeInv, BrokerTypes, Brokers
<1>3. \A d \in Calls : phase[d] \in Holding => on[d] # on[c]
  BY <1>1, RelayAssumption DEF RelayInv, LockInv
<1>4. PICK n \in Nat : n = seq[on[c]] + 1 /\ n > seq[on[c]] /\ n > 0
  BY <1>1
<1>5. /\ lock' = [lock EXCEPT ![on[c]] = c] /\ slot' = [slot EXCEPT ![on[c]] = c]
      /\ seq' = [seq EXCEPT ![on[c]] = n] /\ num' = [num EXCEPT ![c] = n]
      /\ phase' = [phase EXCEPT ![c] = "open"]
  BY <1>1, <1>4 DEF Open
<1>6. LockInv'
  BY <1>1, <1>2, <1>3, <1>5 DEF RelayInv, LockInv, Holding
<1>7. \A d \in Calls : on[d] = on[c] /\ num[d] > 0 => num[d] < n
  BY <1>1, <1>4 DEF RelayInv, NumInv
<1>8. NumInv'
  <2> SUFFICES ASSUME NEW d \in Calls
               PROVE  /\ phase'[d] \in Unnumbered => num'[d] = 0
                      /\ phase'[d] \in Holding => num'[d] > 0 /\ num'[d] = seq'[on[d]]
                      /\ num'[d] > 0 => num'[d] <= seq'[on[d]]
                      /\ \A e \in Calls \ {d} : num'[d] > 0 /\ on[d] = on[e] => num'[d] # num'[e]
    BY DEF NumInv
  <2>1. CASE d = c
    BY <1>1, <1>4, <1>5, <1>7, <2>1 DEF Unnumbered, Holding
  <2>2. CASE d # c
    <3>1. num'[d] = num[d] /\ phase'[d] = phase[d]
      BY <1>1, <1>5, <2>2
    <3>2. num[d] > 0 => on[d] \in Brokers
      BY <1>2 DEF RelayInv, NumInv, Unnumbered
    <3>3. phase[d] \in Holding => seq'[on[d]] = seq[on[d]]
      BY <1>1, <1>2, <1>3, <1>5 DEF Holding
    <3>4. num[d] > 0 => num[d] <= seq'[on[d]]
      BY <1>1, <1>4, <1>5, <1>7, <3>2 DEF RelayInv, NumInv
    <3>5. \A e \in Calls \ {d} : num[d] > 0 /\ on[d] = on[e] => num[d] # num'[e]
      BY <1>1, <1>5, <1>7 DEF RelayInv, NumInv
    <3> QED BY <3>1, <3>3, <3>4, <3>5 DEF RelayInv, NumInv
  <2> QED BY <2>1, <2>2
<1>9. /\ \A d \in handed : num'[d] = num[d] /\ d # c /\ d \in Calls
      /\ ran \subseteq handed
  BY <1>1, <1>5 DEF RelayInv, Base, AgentTypes, HandInv
<1>10. \A d \in Calls : Ahead(d) => Ahead(d)'
  BY <1>9 DEF Ahead, Before
<1>11. /\ \A p \in Polls : at'[p] = at[p] \/ (at[p] = "held" /\ at'[p] = "woken")
       /\ takes \in [Polls -> Calls \cup {None}] /\ doing \in Calls \cup {None}
  BY DEF Open, RelayInv, Base, PollTypes, AgentTypes
<1>12. HandInv'
  BY <1>1, <1>5, <1>9, <1>10, <1>11 DEF RelayInv, HandInv
<1>13. AnswerInv'
  <2>1. ASSUME NEW d \in Calls, phase'[d] = "answered"
        PROVE  phase[d] = "answered" /\ num'[d] = num[d]
    BY <1>1, <1>5, <2>1
  <2> QED BY <1>9, <1>11, <2>1 DEF RelayInv, AnswerInv
<1> QED BY <1>6, <1>8, <1>12, <1>13

\* The finally block leaves no trace in the slot.
LEMMA FinallyInv ==
  ASSUME RelayInv, NEW c \in Calls, phase[c] \in Holding,
         Finally(c, "done") \/ Finally(c, "failed")
  PROVE  LockInv' /\ NumInv' /\ HandInv' /\ AnswerInv'
<1> USE DEF Finally, pollVars, agentVars
<1>1. /\ on[c] \in Brokers /\ lock[on[c]] = c /\ c # None
      /\ phase \in [Calls -> CallPlaces]
      /\ slot \in [Brokers -> Calls \cup {None}] /\ lock \in [Brokers -> Calls \cup {None}]
  BY RelayAssumption DEF RelayInv, Base, MadeInv, CallTypes, BrokerTypes, Brokers, LockInv, Holding
<1>2. /\ lock' = [lock EXCEPT ![on[c]] = None] /\ slot' = [slot EXCEPT ![on[c]] = None]
      /\ phase'[c] \in {"done", "failed"}
      /\ \A d \in Calls \ {c} : phase'[d] = phase[d]
  BY <1>1 DEF RelayInv, LockInv
<1>3. LockInv'
  BY <1>1, <1>2 DEF RelayInv, LockInv, Holding
<1>4. NumInv'
  BY <1>2 DEF RelayInv, NumInv, Holding, Unnumbered
<1>5. HandInv'
  BY <1>1, <1>2, RelayAssumption DEF RelayInv, Base, AgentTypes, HandInv, Ahead, Before
<1>6. AnswerInv'
  BY <1>2 DEF RelayInv, AnswerInv
<1> QED BY <1>3, <1>4, <1>5, <1>6

\* A call that neither holds the lock nor has a number may change its place.
LEMMA PlaceInv ==
  ASSUME RelayInv, NEW c \in Calls, phase[c] \in Unnumbered,
         phase'[c] \notin Holding,
         \A d \in Calls \ {c} : phase'[d] = phase[d] /\ on'[d] = on[d],
         phase[c] # "idle" => on'[c] = on[c],
         UNCHANGED <<brokerVars, num, pollVars, agentVars, handed>>
  PROVE  LockInv' /\ NumInv' /\ HandInv' /\ AnswerInv'
<1> USE DEF brokerVars, pollVars, agentVars
<1>1. num[c] = 0 /\ c \notin handed /\ phase[c] \notin Holding
  BY DEF RelayInv, NumInv, HandInv, Unnumbered, Holding
<1>2. \A d \in handed : on'[d] = on[d] /\ d \in Calls
  BY <1>1 DEF RelayInv, Base, AgentTypes
<1>3. LockInv'
  BY <1>1 DEF RelayInv, Base, BrokerTypes, LockInv
<1>4. NumInv'
  BY <1>1 DEF RelayInv, NumInv
<1>5. \A d \in Calls : Ahead(d) => Ahead(d)'
  BY <1>2 DEF Ahead, Before, RelayInv, HandInv
<1>6. HandInv'
  BY <1>2, <1>5 DEF RelayInv, Base, PollTypes, AgentTypes, HandInv
<1>7. AnswerInv'
  BY <1>1, <1>2 DEF RelayInv, AnswerInv, HandInv, Holding
<1> QED BY <1>3, <1>4, <1>6, <1>7

LEMMA CallerInv ==
  ASSUME RelayInv, NEW c \in Calls, CallerStep(c)
  PROVE  LockInv' /\ NumInv' /\ HandInv' /\ AnswerInv'
<1>0. phase \in [Calls -> CallPlaces] /\ on \in [Calls -> 0..MaxBrokers]
  BY DEF RelayInv, Base, CallTypes
<1>1. CASE Connect(c)
  BY <1>0, <1>1, PlaceInv DEF Connect, Unnumbered, Holding
<1>2. CASE GiveUpEarly(c)
  BY <1>0, <1>2, PlaceInv DEF GiveUpEarly, Unnumbered, Holding
<1>3. CASE Command(c)
  <2>1. CASE Open(c) /\ Free(on[c])
    BY <1>3, <2>1, OpenInv DEF Command, Free
  <2>2. CASE ~(Open(c) /\ Free(on[c]))
    BY <1>0, <1>3, <2>2, PlaceInv DEF Command, Unnumbered, Holding, brokerVars, pollVars
  <2> QED BY <2>1, <2>2
<1>4. CASE Enter(c)
  BY <1>4, OpenInv DEF Enter
<1>5. CASE Resume(c) \/ TimeOut(c)
  BY <1>5, FinallyInv DEF Resume, TimeOut, Pending, Holding
<1> QED BY <1>1, <1>2, <1>3, <1>4, <1>5 DEF CallerStep

\* What the agent's side does to the locks and the numbers: nothing, while calls
\* stay with or without them.
LEMMA KeepInv ==
  ASSUME RelayInv, UNCHANGED <<seq, lock, on, num>>,
         \A b \in Brokers : slot'[b] \in {slot[b], None},
         \A c \in Calls : (phase'[c] \in Holding <=> phase[c] \in Holding),
         \A c \in Calls : (phase'[c] \in Unnumbered <=> phase[c] \in Unnumbered)
  PROVE  LockInv' /\ NumInv'
<1>1. LockInv'
  BY RelayAssumption DEF RelayInv, Base, BrokerTypes, LockInv, Holding
<1>2. NumInv'
  BY DEF RelayInv, NumInv, Holding, Unnumbered
<1> QED BY <1>1, <1>2

\* The command that a poll finds is the last of its broker, and the poll's broker
\* is no older than any whose commands ran.
LEMMA SlotIsAhead ==
  ASSUME RelayInv, NEW p \in Polls, via[p] \in Brokers, current = p, slot[via[p]] # None
  PROVE  \A d \in ran : Before(d, slot[via[p]])
<1> DEFINE c == slot[via[p]]
<1>1. c \in Calls /\ on[c] = via[p] /\ phase[c] \in Holding /\ c \notin handed
  BY DEF RelayInv, Base, BrokerTypes, LockInv, HandInv
<1>2. num[c] = seq[on[c]]
  BY <1>1 DEF RelayInv, NumInv
<1> SUFFICES ASSUME NEW d \in ran PROVE Before(d, c)
  OBVIOUS
<1>3. d \in Calls /\ d # c /\ num[d] > 0 /\ on[d] <= via[p]
  BY <1>1 DEF RelayInv, Base, AgentTypes, HandInv, Brokers
<1>4. on[d] \in Nat /\ on[c] \in Nat /\ num[d] \in Nat /\ num[c] \in Nat
  BY <1>1, <1>3 DEF RelayInv, Base, CallTypes
<1>5. on[d] = on[c] => num[d] <= num[c] /\ num[d] # num[c]
  BY <1>1, <1>2, <1>3 DEF RelayInv, NumInv
<1> QED BY <1>1, <1>3, <1>4, <1>5 DEF Before

LEMMA TakeHand ==
  ASSUME RelayInv, NEW p \in Polls, via[p] \in Brokers, Take(p, via[p]),
         UNCHANGED <<on, num, agentVars>>
  PROVE  HandInv'
<1> USE DEF agentVars
<1> DEFINE b == via[p] c == slot[via[p]]
<1>1. /\ at' = [at EXCEPT ![p] = IF current = p THEN "back" ELSE "free"]
      /\ takes' = [takes EXCEPT ![p] = IF current = p THEN c ELSE None]
      /\ via' = [via EXCEPT ![p] = IF current = p THEN b ELSE 0]
      /\ handed' = handed \cup ({c} \ {None})
      /\ slot' = [slot EXCEPT ![b] = None]
  BY DEF Take, EndPoll
<1>2. /\ at \in [Polls -> PollPlaces] /\ takes \in [Polls -> Calls \cup {None}]
      /\ via \in [Polls -> 0..MaxBrokers] /\ slot \in [Brokers -> Calls \cup {None}]
      /\ None \notin Calls /\ handed \subseteq Calls /\ ran \subseteq handed
  BY RelayAssumption DEF RelayInv, Base, PollTypes, BrokerTypes, AgentTypes, HandInv
<1>3. c # None => /\ c \in Calls /\ on[c] = b /\ num[c] > 0 /\ c \notin handed
  BY <1>2 DEF RelayInv, LockInv, NumInv, HandInv
<1>4. \A d \in Calls : Ahead(d) => Ahead(d)'
  BY <1>1 DEF Ahead, Before
<1>5. \A e \in Calls : e = c /\ current = p => Ahead(e)'
  BY <1>1, <1>2, <1>3, SlotIsAhead DEF Ahead, Before
<1>6. ran' \subseteq handed' /\ \A d \in handed' : num'[d] > 0
  BY <1>1, <1>2, <1>3 DEF RelayInv, HandInv
<1>7. \A e \in Brokers : slot'[e] \notin handed'
  <2>1. \A e \in Brokers \ {b} : slot[e] # None => slot[e] # c
    BY <1>2, <1>3 DEF RelayInv, LockInv
  <2> QED BY <1>1, <1>2, <2>1 DEF RelayInv, HandInv
<1>8. \A q \in Polls : takes'[q] # None => current = q /\ at'[q] = "back" /\ Ahead(takes[q])'
  <2> SUFFICES ASSUME NEW q \in Polls, takes'[q] # None
               PROVE  current = q /\ at'[q] = "back" /\ Ahead(takes[q])'
    OBVIOUS
  <2>1. CASE q = p
    BY <1>1, <1>2, <1>5, <2>1 DEF Ahead, Before
  <2>2. CASE q # p
    BY <1>1, <1>2, <1>4, <2>2 DEF RelayInv, HandInv, Ahead, Before
  <2> QED BY <2>1, <2>2
<1>9. doing # None => current = None /\ Ahead(doing)'
  BY <1>4 DEF RelayInv, Base, AgentTypes, HandInv, Ahead, Before
<1>10. \A q \in Polls : /\ at'[q] = "back" => current' = q
                        /\ at'[q] \in {"free", "sent"} => via'[q] = 0
                        /\ current' = q /\ via'[q] > 0 => \A d \in ran' : on'[d] <= via'[q]
  BY <1>1, <1>2 DEF RelayInv, HandInv
<1> QED BY <1>6, <1>7, <1>8, <1>9, <1>10 DEF HandInv, Ahead, Before

\* A poll that ends takes its answer along; the other polls keep theirs.
LEMMA EndAnswer ==
  ASSUME RelayInv, NEW p \in Polls, NEW command, NEW b, EndPoll(p, command, b),
         UNCHANGED <<on, num, agentVars>>,
         \A c \in Calls : phase'[c] = "answered" =>
            \/ phase[c] = "answered"
            \/ /\ at[p] = "bound" /\ on[c] = via[p]
               /\ num[c] = carries[p] /\ carries[p] > 0
  PROVE  AnswerInv'
<1> USE DEF agentVars
<1>1. \A q \in Polls \ {p} : at'[q] = at[q] /\ via'[q] = via[q] /\ carries'[q] = carries[q]
  BY DEF EndPoll, RelayInv, Base, PollTypes
<1>2. carries'[p] = 0
  BY DEF EndPoll, RelayInv, Base, PollTypes
<1> QED BY <1>1, <1>2 DEF RelayInv, AnswerInv

LEMMA EndHand ==
  ASSUME RelayInv, NEW p \in Polls, NEW b \in {0, via[p]}, EndPoll(p, None, b),
         UNCHANGED <<on, num, slot, handed, agentVars>>
  PROVE  HandInv'
<1> USE DEF agentVars
<1>1. \A q \in Polls \ {p} : at'[q] = at[q] /\ via'[q] = via[q] /\ takes'[q] = takes[q]
  BY DEF EndPoll, RelayInv, Base, PollTypes
<1>2. /\ takes'[p] = None /\ via'[p] \in {0, via[p]}
      /\ (at'[p] = "free" /\ via'[p] = 0) \/ (at'[p] = "back" /\ current = p)
  BY DEF EndPoll, RelayInv, Base, PollTypes
<1>3. \A d \in Calls : Ahead(d) => Ahead(d)'
  BY DEF Ahead, Before
<1> QED BY <1>1, <1>2, <1>3 DEF RelayInv, Base, AgentTypes, PollTypes, HandInv

LEMMA PollInv ==
  ASSUME RelayInv, NEW p \in Polls, PollStep(p)
  PROVE  LockInv' /\ NumInv' /\ HandInv' /\ AnswerInv'
<1> USE DEF brokerVars, callVars, pollVars, agentVars
<1>0. /\ at \in [Polls -> PollPlaces] /\ takes \in [Polls -> Calls \cup {None}]
      /\ via \in [Polls -> 0..MaxBrokers] /\ carries \in [Polls -> Nat]
      /\ slot \in [Brokers -> Calls \cup {None}] /\ phase \in [Calls -> CallPlaces]
      /\ doing \in Calls \cup {None} /\ ran \subseteq Calls
      /\ None \notin Calls /\ None \notin Polls
  BY RelayAssumption DEF RelayInv, Base, PollTypes, BrokerTypes, CallTypes, AgentTypes
<1>a. ASSUME UNCHANGED <<on, num, ran, handed>> PROVE \A d : Ahead(d) => Ahead(d)'
  BY <1>a DEF Ahead, Before
<1>1. CASE PollArrives(p)
  <2>1. LockInv' /\ NumInv'
    BY <1>1, KeepInv DEF PollArrives
  <2>2. CASE registered = 0
    <3>1. EndPoll(p, None, 0)
      BY <1>1, <2>2 DEF PollArrives
    <3>2. HandInv'
      BY <1>1, <3>1, EndHand DEF PollArrives
    <3>3. AnswerInv'
      BY <1>1, <3>1, EndAnswer DEF PollArrives
    <3> QED BY <2>1, <3>2, <3>3
  <2>3. CASE registered # 0
    <3>1. /\ at' = [at EXCEPT ![p] = "bound"] /\ via' = [via EXCEPT ![p] = registered]
          /\ UNCHANGED <<carries, takes>> /\ at[p] = "sent" /\ registered = made
      BY <1>1, <2>3 DEF PollArrives, RelayInv, Base, BrokerTypes
    <3>2. \A d \in ran : on[d] <= registered
      BY <1>0, <3>1 DEF RelayInv, NumInv, HandInv, Unnumbered, Base, MadeInv
    <3>3. HandInv'
      BY <1>0, <1>1, <1>a, <3>1, <3>2 DEF PollArrives, RelayInv, HandInv
    <3>4. AnswerInv'
      BY <1>0, <1>1, <3>1, <3>2 DEF PollArrives, RelayInv, AnswerInv
    <3> QED BY <2>1, <3>3, <3>4
  <2> QED BY <2>2, <2>3
<1>2. CASE HandlePoll(p)
  <2>1. /\ via[p] \in Brokers /\ at[p] = "bound"
        /\ UNCHANGED <<seq, lock, on, num, current, doing, answer, ran>>
    BY <1>2 DEF HandlePoll, RelayInv, Base, PollTypes
  <2>2. PICK verdict \in {"answered", "refused"} :
           phase' = [c \in Calls |->
                       IF c \in Answered(p) THEN verdict
                       ELSE IF phase[c] = "connecting" /\ on[c] = via[p] THEN "connected"
                       ELSE phase[c]]
    BY <1>2 DEF HandlePoll
  <2>3. \A c \in Calls : /\ (phase'[c] \in Holding <=> phase[c] \in Holding)
                         /\ (phase'[c] \in Unnumbered <=> phase[c] \in Unnumbered)
    BY <2>2 DEF Holding, Unnumbered, Answered
  <2>4. \A c \in Calls : phase'[c] = "answered" =>
           \/ phase[c] = "answered"
           \/ /\ at[p] = "bound" /\ on[c] = via[p] /\ num[c] = carries[p] /\ carries[p] > 0
    BY <2>1, <2>2 DEF Answered, RelayInv, NumInv, Holding
  <2>5. CASE slot[via[p]] # None
    <3>1. Take(p, via[p])
      BY <1>2, <2>5 DEF HandlePoll
    <3>2. LockInv' /\ NumInv'
      BY <1>0, <2>1, <2>3, <3>1, KeepInv DEF Take
    <3>3. HandInv'
      BY <2>1, <3>1, TakeHand
    <3>4. AnswerInv'
      BY <2>1, <2>4, <3>1, EndAnswer DEF Take
    <3> QED BY <3>2, <3>3, <3>4
  <2>6. CASE slot[via[p]] = None
    <3>1. /\ at' = [at EXCEPT ![p] = "held"] /\ carries' = [carries EXCEPT ![p] = 0]
          /\ UNCHANGED <<via, takes, slot, handed>>
      BY <1>2, <2>6 DEF HandlePoll
    <3>2. LockInv' /\ NumInv'
      BY <2>1, <2>3, <3>1, KeepInv
    <3>3. HandInv'
      BY <1>0, <1>a, <2>1, <3>1 DEF RelayInv, HandInv
    <3>4. AnswerInv'
      BY <1>0, <2>1, <2>4, <3>1 DEF RelayInv, AnswerInv
    <3> QED BY <3>2, <3>3, <3>4
  <2> QED BY <2>5, <2>6
<1>3. CASE PollResumes(p)
  <2>1. via[p] \in Brokers /\ Take(p, via[p])
    BY <1>3 DEF PollResumes, RelayInv, Base, PollTypes
  <2>2. LockInv' /\ NumInv'
    BY <1>0, <1>3, <2>1, KeepInv DEF PollResumes, Take
  <2>3. HandInv'
    BY <1>3, <2>1, TakeHand DEF PollResumes
  <2>4. AnswerInv'
    BY <1>3, <2>1, EndAnswer DEF PollResumes, Take
  <2> QED BY <2>2, <2>3, <2>4
<1>4. CASE HoldEnds(p)
  <2>1. LockInv' /\ NumInv'
    BY <1>4, KeepInv DEF HoldEnds
  <2>2. HandInv'
    BY <1>4, EndHand DEF HoldEnds
  <2>3. AnswerInv'
    BY <1>4, EndAnswer DEF HoldEnds
  <2> QED BY <2>1, <2>2, <2>3
<1>5. CASE AgentPolls(p)
  <2>1. LockInv' /\ NumInv'
    BY <1>5, KeepInv DEF AgentPolls
  <2>2. HandInv'
    BY <1>0, <1>5 DEF AgentPolls, RelayInv, HandInv, Ahead, Before
  <2>3. AnswerInv'
    BY <1>0, <1>5 DEF AgentPolls, RelayInv, AnswerInv
  <2> QED BY <2>1, <2>2, <2>3
<1>6. CASE PollReturns(p)
  <2>1. LockInv' /\ NumInv'
    BY <1>6, KeepInv DEF PollReturns
  <2>2. HandInv'
    BY <1>0, <1>6 DEF PollReturns, RelayInv, HandInv, Ahead, Before
  <2>3. AnswerInv'
    BY <1>0, <1>6 DEF PollReturns, RelayInv, AnswerInv
  <2> QED BY <2>1, <2>2, <2>3
<1> QED BY <1>1, <1>2, <1>3, <1>4, <1>5, <1>6 DEF PollStep

LEMMA OthersInv ==
  ASSUME RelayInv,
         \/ \E b \in Brokers : GoesStale(b)
         \/ AgentRuns \/ AgentGivesUp \/ AgentRestarts \/ Unregister \/ Register
  PROVE  LockInv' /\ NumInv' /\ HandInv' /\ AnswerInv'
<1> USE DEF brokerVars, callVars, pollVars, agentVars
<1>0. /\ at \in [Polls -> PollPlaces] /\ takes \in [Polls -> Calls \cup {None}]
      /\ via \in [Polls -> 0..MaxBrokers] /\ carries \in [Polls -> Nat]
      /\ slot \in [Brokers -> Calls \cup {None}] /\ phase \in [Calls -> CallPlaces]
      /\ num \in [Calls -> Nat] /\ on \in [Calls -> 0..MaxBrokers]
      /\ doing \in Calls \cup {None} /\ ran \subseteq handed /\ handed \subseteq Calls
      /\ None \notin Calls /\ None \notin Polls
  BY RelayAssumption DEF RelayInv, Base, PollTypes, BrokerTypes, CallTypes, AgentTypes, HandInv
<1>1. ASSUME NEW b \in Brokers, GoesStale(b)
      PROVE  LockInv' /\ NumInv' /\ HandInv' /\ AnswerInv'
  <2>1. LockInv' /\ NumInv'
    BY <1>1, KeepInv DEF GoesStale
  <2>2. HandInv'
    BY <1>1 DEF GoesStale, RelayInv, HandInv, Ahead, Before
  <2>3. AnswerInv'
    BY <1>1 DEF GoesStale, RelayInv, AnswerInv
  <2> QED BY <2>1, <2>2, <2>3
<1>2. CASE AgentRuns
  <2>1. LockInv' /\ NumInv'
    BY <1>2, KeepInv DEF AgentRuns
  <2>2. /\ doing \in handed /\ \A p \in Polls : takes[p] = None
        /\ \A p \in Polls : current # p
    BY <1>0, <1>2 DEF AgentRuns, RelayInv, HandInv, Ahead
  <2>3. HandInv'
    BY <1>0, <1>2, <2>2 DEF AgentRuns, RelayInv, HandInv
  <2>4. AnswerInv'
    BY <1>0, <1>2, <2>2 DEF AgentRuns, RelayInv, AnswerInv
  <2> QED BY <2>1, <2>3, <2>4
<1>3. ASSUME Abandon, doing' \in {doing, None}, answer' \in {answer, 0},
             UNCHANGED <<brokerVars, callVars, carries, ran, handed>>
      PROVE  LockInv' /\ NumInv' /\ HandInv' /\ AnswerInv'
  <2>1. LockInv' /\ NumInv'
    BY <1>3, KeepInv
  <2>2. HandInv'
    BY <1>0, <1>3 DEF Abandon, RelayInv, HandInv, Ahead, Before
  <2>3. AnswerInv'
    BY <1>0, <1>3 DEF Abandon, RelayInv, AnswerInv
  <2> QED BY <2>1, <2>2, <2>3
<1>4. CASE AgentGivesUp
  BY <1>3, <1>4 DEF AgentGivesUp
<1>5. CASE AgentRestarts
  BY <1>3, <1>5 DEF AgentRestarts
<1>6. CASE Unregister
  <2>1. LockInv' /\ NumInv'
    BY <1>0, <1>6, KeepInv DEF Unregister, Holding, Unnumbered
  <2>2. HandInv'
    BY <1>0, <1>6 DEF Unregister, RelayInv, HandInv, Ahead, Before
  <2>3. AnswerInv'
    BY <1>0, <1>6 DEF Unregister, RelayInv, AnswerInv
  <2> QED BY <2>1, <2>2, <2>3
<1>7. CASE Register
  <2>1. LockInv' /\ NumInv'
    BY <1>7, KeepInv DEF Register
  <2>2. HandInv'
    BY <1>7 DEF Register, RelayInv, HandInv, Ahead, Before
  <2>3. AnswerInv'
    BY <1>7 DEF Register, RelayInv, AnswerInv
  <2> QED BY <2>1, <2>2, <2>3
<1> QED BY <1>1, <1>2, <1>4, <1>5, <1>6, <1>7

LEMMA RelayStep == ASSUME RelayInv, [Next]_vars PROVE RelayInv'
<1>1. Base'
  BY BaseStep DEF RelayInv
<1>2. CASE UNCHANGED vars
  <2>1. LockInv' /\ NumInv'
    BY <1>2, KeepInv DEF vars, brokerVars, callVars
  <2>2. HandInv' /\ AnswerInv'
    BY <1>2 DEF vars, brokerVars, callVars, pollVars, agentVars, RelayInv, HandInv, AnswerInv,
                Ahead, Before
  <2> QED BY <1>1, <2>1, <2>2 DEF RelayInv
<1>3. CASE Next
  <2>1. LockInv' /\ NumInv' /\ HandInv' /\ AnswerInv'
    BY <1>3, CallerInv, PollInv, OthersInv DEF Next
  <2> QED BY <1>1, <2>1 DEF RelayInv
<1> QED BY <1>2, <1>3

LEMMA RelayInit == Init => RelayInv
<1> SUFFICES ASSUME Init PROVE RelayInv
  OBVIOUS
<1>1. LockInv /\ NumInv
  BY DEF Init, LockInv, NumInv, Holding, Unnumbered
<1>2. HandInv /\ AnswerInv
  BY DEF Init, HandInv, AnswerInv
<1> QED BY <1>1, <1>2, BaseInit DEF RelayInv

\* What lies in a broker's slot is the command of the call that holds its lock,
\* for any number of calls, polls and reloads.
THEOREM RelaySlot == Spec => []SlotIsTheLockHolders
<1>1. RelayInv => SlotIsTheLockHolders
  BY DEF RelayInv, LockInv, SlotIsTheLockHolders
<1> QED BY <1>1, RelayInit, RelayStep, PTL DEF Spec

-----------------------------------------------------------------------------
(* The refinement *)

\* The phase of a mapped call, before and after a step.
LEMMA Mapped ==
  ASSUME NEW c \in Calls
  PROVE  /\ callPhase[c] = IF phase[c] \in Holding THEN "open"
                           ELSE IF phase[c] \in {"done", "failed"} THEN phase[c] ELSE "idle"
         /\ callPhase'[c] = IF phase'[c] \in Holding THEN "open"
                            ELSE IF phase'[c] \in {"done", "failed"} THEN phase'[c] ELSE "idle"
  BY DEF callPhase, Pending, Ended, Holding

LEMMA Stamped ==
  ASSUME Base, NEW c \in Calls, num[c] > 0
  PROVE  stamp[c] = <<on[c], num[c]>> /\ stamp[c][1] = on[c] /\ stamp[c][2] = num[c]
<1>1. num[c] # 0
  BY DEF Base, CallTypes
<1>2. stamp[c] = <<on[c], num[c]>>
  BY <1>1 DEF stamp
<1> QED BY <1>2

LEMMA PromiseInit == Init => Promise!Init
  BY DEF Init, Promise!Init, callPhase, stamp, Pending, Ended

\* A call that opens begins: its broker's other calls are over.
LEMMA OpenBegins ==
  ASSUME RelayInv, NEW c \in Calls, phase[c] \in {"connected", "waiting"},
         lock[on[c]] = None, Open(c), UNCHANGED <<on, agentVars, handed>>
  PROVE  Promise!Begin(c)
<1> USE DEF agentVars
<1>1. /\ on[c] \in Brokers /\ seq[on[c]] \in Nat /\ num[c] = 0
      /\ phase \in [Calls -> CallPlaces] /\ num \in [Calls -> Nat]
  BY RelayAssumption DEF RelayInv, Base, MadeInv, CallTypes, BrokerTypes, Brokers, NumInv,
                         Unnumbered
<1>2. \A d \in Calls : phase[d] \in Holding => on[d] # on[c]
  BY RelayAssumption DEF RelayInv, LockInv
<1>3. PICK n \in Nat : n = seq[on[c]] + 1 /\ n # 0
  BY <1>1
<1>4. /\ phase' = [phase EXCEPT ![c] = "open"] /\ num' = [num EXCEPT ![c] = n]
      /\ seq' = [seq EXCEPT ![on[c]] = @ + 1]
  BY <1>3 DEF Open
<1>5. \A d \in Calls : stamp[d][1] = on[c] => callPhase[d] # "open"
  <2> SUFFICES ASSUME NEW d \in Calls, callPhase[d] = "open" PROVE stamp[d][1] # on[c]
    OBVIOUS
  <2>1. phase[d] \in Holding
    BY Mapped
  <2>2. num[d] > 0 /\ on[d] # on[c]
    BY <1>2, <2>1 DEF RelayInv, NumInv
  <2> QED BY <2>2, Stamped DEF RelayInv
<1>6. callPhase' = [callPhase EXCEPT ![c] = "open"]
  BY <1>1, <1>4 DEF callPhase, Pending, Ended
<1>7. stamp' = [stamp EXCEPT ![c] = <<on[c], seq[on[c]] + 1>>]
  BY <1>1, <1>3, <1>4 DEF stamp
<1>8. callPhase[c] = "idle"
  BY Mapped DEF Holding
<1> QED BY <1>1, <1>4, <1>5, <1>6, <1>7, <1>8 DEF Promise!Begin

\* A call may end in failure at any time before it has ended.
LEMMA FailsAs ==
  ASSUME RelayInv, NEW c \in Calls, phase[c] \notin {"done", "failed"},
         phase' = [phase EXCEPT ![c] = "failed"],
         UNCHANGED <<seq, on, num, handed, ran>>
  PROVE  Promise!Fail(c)
<1>1. phase \in [Calls -> CallPlaces]
  BY DEF RelayInv, Base, CallTypes
<1>2. callPhase[c] \in {"idle", "open"}
  BY Mapped
<1>3. callPhase' = [callPhase EXCEPT ![c] = "failed"] /\ stamp' = stamp
  BY <1>1 DEF callPhase, stamp, Pending, Ended
<1> QED BY <1>2, <1>3 DEF Promise!Fail

\* The answer of a call that succeeds names a call that ran.
LEMMA SucceedsAs ==
  ASSUME RelayInv, NEW c \in Calls, phase[c] = "answered", Finally(c, "done")
  PROVE  Promise!Succeed(c)
<1>1. /\ phase \in [Calls -> CallPlaces] /\ phase' = [phase EXCEPT ![c] = "done"]
      /\ UNCHANGED <<seq, on, num, handed, ran>>
  BY DEF RelayInv, Base, CallTypes, Finally, agentVars
<1>2. PICK d \in ran : num[d] = num[c] /\ on[d] <= on[c]
  BY DEF RelayInv, AnswerInv
<1>3. num[d] > 0 /\ num[c] > 0 /\ d \in Calls
  BY <1>2 DEF RelayInv, Base, AgentTypes, HandInv
<1>4. stamp[d][1] <= stamp[c][1] /\ stamp[d][2] = stamp[c][2]
  BY <1>2, <1>3, Stamped DEF RelayInv
<1>5. callPhase[c] = "open"
  BY Mapped DEF Holding
<1>6. callPhase' = [callPhase EXCEPT ![c] = "done"] /\ stamp' = stamp
  BY <1>1 DEF callPhase, stamp, Pending, Ended
<1> QED BY <1>1, <1>2, <1>4, <1>5, <1>6 DEF Promise!Succeed

LEMMA CallerAs ==
  ASSUME RelayInv, NEW c \in Calls, CallerStep(c)
  PROVE  Promise!Next \/ UNCHANGED Promise!absVars
<1> USE DEF brokerVars, callVars, pollVars, agentVars
<1>0. phase \in [Calls -> CallPlaces] /\ on \in [Calls -> 0..MaxBrokers]
  BY DEF RelayInv, Base, CallTypes
<1>a. ASSUME phase[c] \in Unnumbered, phase' = [phase EXCEPT ![c] = phase'[c]],
             phase'[c] \in Unnumbered, phase[c] = "idle" \/ on' = on,
             \A d \in Calls \ {c} : on'[d] = on[d],
             UNCHANGED <<seq, num, handed, ran>>
      PROVE  UNCHANGED Promise!absVars
  <2>1. num[c] = 0
    BY <1>a DEF RelayInv, NumInv
  <2>2. callPhase' = callPhase /\ stamp' = stamp
    BY <1>0, <1>a, <2>1 DEF callPhase, stamp, Pending, Ended, Unnumbered
  <2> QED BY <1>a, <2>2 DEF Promise!absVars
<1>1. CASE Connect(c)
  BY <1>0, <1>1, <1>a DEF Connect, Unnumbered
<1>2. CASE GiveUpEarly(c)
  BY <1>2, FailsAs DEF GiveUpEarly, Promise!Next
<1>3. CASE Command(c)
  <2>1. CASE Open(c) /\ Free(on[c])
    <3>1. Promise!Begin(c)
      BY <1>3, <2>1, OpenBegins DEF Command, Free
    <3> QED BY <3>1 DEF Promise!Next
  <2>2. CASE ~(Open(c) /\ Free(on[c])) /\ on[c] \in closed
    <3>1. Promise!Fail(c)
      BY <1>3, <2>2, FailsAs DEF Command
    <3> QED BY <3>1 DEF Promise!Next
  <2>3. CASE ~(Open(c) /\ Free(on[c])) /\ on[c] \notin closed
    BY <1>0, <1>3, <1>a, <2>3 DEF Command, Unnumbered
  <2> QED BY <2>1, <2>2, <2>3
<1>4. CASE Enter(c)
  <2>1. Promise!Begin(c)
    BY <1>4, OpenBegins DEF Enter
  <2> QED BY <2>1 DEF Promise!Next
<1>5. CASE Resume(c) \/ TimeOut(c)
  <2>1. CASE phase[c] = "answered" /\ Finally(c, "done")
    BY <2>1, SucceedsAs DEF Promise!Next
  <2>2. CASE phase[c] \in Holding /\ Finally(c, "failed")
    <3>1. Promise!Fail(c)
      BY <2>2, FailsAs DEF Finally, Holding
    <3> QED BY <3>1 DEF Promise!Next
  <2> QED BY <1>5, <2>1, <2>2 DEF Resume, TimeOut, Pending, Holding
<1> QED BY <1>1, <1>2, <1>3, <1>4, <1>5 DEF CallerStep

\* Phases that map alike are no step of the abstract calls.
LEMMA SameCalls ==
  ASSUME \A c \in Calls : (phase'[c] \in Holding <=> phase[c] \in Holding),
         \A c \in Calls : phase'[c] = phase[c] \/ (phase'[c] \notin {"done", "failed"}
                                                 /\ phase[c] \notin {"done", "failed"}),
         UNCHANGED <<on, num>>
  PROVE  callPhase' = callPhase /\ stamp' = stamp
  BY DEF callPhase, stamp, Pending, Ended, Holding

LEMMA TakeAs ==
  ASSUME RelayInv, NEW p \in Polls, via[p] \in Brokers, Take(p, via[p]),
         callPhase' = callPhase, stamp' = stamp, UNCHANGED <<seq, ran>>
  PROVE  Promise!Next \/ UNCHANGED Promise!absVars
<1>1. CASE slot[via[p]] = None
  BY <1>1 DEF Take, Promise!absVars
<1>2. CASE slot[via[p]] # None
  <2>1. slot[via[p]] \in Calls /\ phase[slot[via[p]]] \in Holding /\ slot[via[p]] \notin handed
    BY <1>2 DEF RelayInv, Base, BrokerTypes, LockInv, HandInv
  <2>2. callPhase[slot[via[p]]] = "open"
    BY <2>1, Mapped
  <2>3. handed' = handed \cup {slot[via[p]]}
    BY <1>2 DEF Take
  <2>4. Promise!Hand(slot[via[p]])
    BY <2>1, <2>2, <2>3 DEF Promise!Hand
  <2> QED BY <2>1, <2>4 DEF Promise!Next
<1> QED BY <1>1, <1>2

LEMMA PollAs ==
  ASSUME RelayInv, NEW p \in Polls, PollStep(p)
  PROVE  Promise!Next \/ UNCHANGED Promise!absVars
<1> USE DEF brokerVars, callVars, pollVars, agentVars
<1>1. CASE PollArrives(p) \/ HoldEnds(p) \/ AgentPolls(p) \/ PollReturns(p)
  <2>1. UNCHANGED <<phase, on, num, seq, handed, ran>>
    BY <1>1 DEF PollArrives, HoldEnds, AgentPolls, PollReturns
  <2> QED BY <2>1, SameCalls DEF Promise!absVars
<1>2. CASE HandlePoll(p)
  <2>1. via[p] \in Brokers /\ UNCHANGED <<seq, on, num, ran>>
    BY <1>2 DEF HandlePoll, RelayInv, Base, PollTypes
  <2>2. callPhase' = callPhase /\ stamp' = stamp
    <3>1. /\ \A c \in Calls : (phase'[c] \in Holding <=> phase[c] \in Holding)
          /\ \A c \in Calls : phase'[c] = phase[c] \/ (phase'[c] \notin {"done", "failed"}
                                                      /\ phase[c] \notin {"done", "failed"})
      BY <1>2 DEF HandlePoll, Holding, Answered
    <3> QED BY <2>1, <3>1, SameCalls
  <2>3. CASE slot[via[p]] # None
    BY <1>2, <2>1, <2>2, <2>3, TakeAs DEF HandlePoll
  <2>4. CASE slot[via[p]] = None
    BY <1>2, <2>1, <2>2, <2>4 DEF HandlePoll, Promise!absVars
  <2> QED BY <2>3, <2>4
<1>3. CASE PollResumes(p)
  <2>1. via[p] \in Brokers
    BY <1>3 DEF PollResumes, RelayInv, Base, PollTypes
  <2> QED BY <1>3, <2>1, SameCalls, TakeAs DEF PollResumes
<1> QED BY <1>1, <1>2, <1>3 DEF PollStep

LEMMA OthersAs ==
  ASSUME RelayInv,
         \/ \E b \in Brokers : GoesStale(b)
         \/ AgentRuns \/ AgentGivesUp \/ AgentRestarts \/ Unregister \/ Register
  PROVE  Promise!Next \/ UNCHANGED Promise!absVars
<1> USE DEF brokerVars, callVars, pollVars, agentVars
<1>1. CASE (\E b \in Brokers : GoesStale(b)) \/ AgentGivesUp \/ AgentRestarts \/ Register
  <2>1. UNCHANGED <<phase, on, num, seq, handed, ran>>
    BY <1>1 DEF GoesStale, AgentGivesUp, AgentRestarts, Register
  <2> QED BY <2>1, SameCalls DEF Promise!absVars
<1>2. CASE AgentRuns
  <2>1. doing \in handed \ ran /\ doing \in Calls /\ ran \subseteq handed
        /\ handed \subseteq Calls /\ \A d \in ran : Before(d, doing)
    BY <1>2, RelayAssumption DEF AgentRuns, RelayInv, Base, AgentTypes, HandInv, Ahead
  <2>2. \A d \in ran : Promise!Precedes(stamp[d], stamp[doing])
    <3> SUFFICES ASSUME NEW d \in ran PROVE Promise!Precedes(stamp[d], stamp[doing])
      OBVIOUS
    <3>1. num[d] > 0 /\ num[doing] > 0 /\ d \in Calls
      BY <2>1 DEF RelayInv, HandInv
    <3>2. stamp[d] = <<on[d], num[d]>> /\ stamp[doing] = <<on[doing], num[doing]>>
      BY <2>1, <3>1, Stamped DEF RelayInv
    <3> QED BY <2>1, <3>2 DEF Before, Promise!Precedes
  <2>3. ran' = ran \cup {doing} /\ callPhase' = callPhase /\ stamp' = stamp
        /\ UNCHANGED <<seq, handed>>
    BY <1>2, SameCalls DEF AgentRuns
  <2>4. Promise!Run(doing)
    BY <2>1, <2>2, <2>3 DEF Promise!Run
  <2> QED BY <2>1, <2>4 DEF Promise!Next
<1>3. CASE Unregister
  <2>1. callPhase' = callPhase /\ stamp' = stamp
    <3>1. phase \in [Calls -> CallPlaces]
      BY DEF RelayInv, Base, CallTypes
    <3> QED BY <1>3, <3>1, SameCalls DEF Unregister, Holding
  <2> QED BY <1>3, <2>1 DEF Unregister, Promise!absVars
<1> QED BY <1>1, <1>2, <1>3

\* The broker, the polls and the agent together implement RemoteCalls: calls that
\* a phone runs at most once, in order, and that succeed only on its answer.
THEOREM RelayKeepsItsPromise == Spec => KeepsItsPromise
<1>1. ASSUME RelayInv, [Next]_vars PROVE [Promise!Next]_(Promise!absVars)
  <2>1. CASE UNCHANGED vars
    BY <2>1, SameCalls DEF vars, brokerVars, callVars, agentVars, Promise!absVars
  <2>2. CASE Next
    BY <1>1, <2>2, CallerAs, PollAs, OthersAs DEF Next
  <2> QED BY <1>1, <2>1, <2>2
<1> QED BY <1>1, PromiseInit, RelayInit, RelayStep, PTL DEF Spec, KeepsItsPromise, Promise!Spec
=============================================================================
