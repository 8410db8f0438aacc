----------------------- MODULE CommandPipeline_proofs -----------------------
(***************************************************************************)
(* Theorems about CommandPipeline for every set of commands, classes,      *)
(* fields and values, every number of cars and every user event.           *)
(***************************************************************************)
EXTENDS CommandPipeline, TLAPS

\* What replaces the type invariant's set of channels in the steps below.
LEMMA BlankType == Blank \in Channel
  BY PipelineAssumption DEF Blank, Channel

LEMMA ChannelsType ==
  ASSUME TypeOK
  PROVE  /\ stored \in Channel /\ published \in Channel /\ pollData \in Channel
         /\ refreshData \in Channel /\ car \in Channel /\ backend \in Channel
         /\ Fresh \in Channel
  BY DEF TypeOK, Fresh

\* A held field has a value of the field's type only because the holding
\* command expects something of it.
HoldOwner ==
    \A k \in Keys : holdBy[k] # NoCommand => k \in Fields(holdBy[k])

Typed == TypeOK /\ HoldOwner

LEMMA OptimisticSetType ==
  ASSUME Typed, NEW c \in Commands, OptimisticSet(c)
  PROVE  /\ snap' \in [Commands -> Channel]
         /\ stored' \in Channel /\ published' \in Channel
         /\ holdBy' \in [Keys -> Commands \cup {NoCommand}]
         /\ holdOver' \in SUBSET Keys
         /\ HoldOwner'
  <1>1. stored \in Channel /\ published \in Channel
    BY DEF Typed, TypeOK
  <1>2. stored' \in Channel
    BY <1>1, PipelineAssumption DEF OptimisticSet, Channel, Fields
  <1>3. published' \in Channel
    BY <1>1, <1>2 DEF OptimisticSet
  <1>4. snap' \in [Commands -> Channel]
    BY <1>1 DEF OptimisticSet, Typed, TypeOK
  <1>5. holdBy' \in [Keys -> Commands \cup {NoCommand}]
    BY DEF OptimisticSet, Typed, TypeOK
  <1>6. holdOver' \in SUBSET Keys
    BY DEF OptimisticSet, Typed, TypeOK
  <1>7. HoldOwner'
    BY DEF OptimisticSet, Typed, TypeOK, HoldOwner, Fields
  <1> QED BY <1>2, <1>3, <1>4, <1>5, <1>6, <1>7

LEMMA OptimisticRevertType ==
  ASSUME Typed, NEW c \in Commands, OptimisticRevert(c)
  PROVE  /\ stored' \in Channel /\ published' \in Channel
         /\ holdBy' \in [Keys -> Commands \cup {NoCommand}]
         /\ holdOver' \in SUBSET Keys
         /\ HoldOwner'
  <1>1. stored \in Channel /\ published \in Channel /\ snap[c] \in Channel
    BY DEF Typed, TypeOK
  <1>2. stored' \in Channel
    BY <1>1 DEF OptimisticRevert, Channel
  <1>3. published' \in Channel
    BY <1>1, <1>2 DEF OptimisticRevert
  <1>4. holdBy' \in [Keys -> Commands \cup {NoCommand}] /\ holdOver' \in SUBSET Keys
    BY DEF OptimisticRevert, Typed, TypeOK
  <1>5. HoldOwner'
    BY DEF OptimisticRevert, Typed, TypeOK, HoldOwner, Fields
  <1> QED BY <1>2, <1>3, <1>4, <1>5

LEMMA HoldsType ==
  ASSUME Typed, NEW data \in Channel
  PROVE  /\ WithHolds(data) \in Channel
         /\ ApplyOptimisticHold(data) =>
              /\ holdBy' \in [Keys -> Commands \cup {NoCommand}]
              /\ holdOver' \in SUBSET Keys
              /\ HoldOwner'
  <1>1. \A k \in StillPending(data) : k \in Keys /\ HoldValue(k) \in Values
    <2> SUFFICES ASSUME NEW k \in StillPending(data)
                 PROVE  k \in Keys /\ HoldValue(k) \in Values
      OBVIOUS
    <2>1. k \in Keys /\ holdBy[k] # NoCommand
      BY DEF StillPending, Held
    <2>2. holdBy[k] \in Commands /\ k \in DOMAIN Expected[holdBy[k]]
      BY <2>1 DEF Typed, TypeOK, HoldOwner, Fields
    <2> QED BY <2>1, <2>2, PipelineAssumption DEF HoldValue
  <1>2. WithHolds(data) \in Channel
    BY <1>1 DEF WithHolds, Channel
  <1>3. ASSUME ApplyOptimisticHold(data)
        PROVE  /\ holdBy' \in [Keys -> Commands \cup {NoCommand}]
               /\ holdOver' \in SUBSET Keys
               /\ HoldOwner'
    BY <1>3 DEF ApplyOptimisticHold, Typed, TypeOK, HoldOwner, Fields
  <1> QED BY <1>2, <1>3

-----------------------------------------------------------------------------
(* Type correctness *)

LEMMA FailType ==
  ASSUME Typed, NEW c \in Commands, NEW how \in Refused, Fail(c, how),
         wire' \in [Commands -> Nat], tries' \in [Commands -> Nat]
  PROVE  Typed'
  <1>1. OptimisticRevert(c)
    BY DEF Fail
  <1>2. /\ stored' \in Channel /\ published' \in Channel
        /\ holdBy' \in [Keys -> Commands \cup {NoCommand}]
        /\ holdOver' \in SUBSET Keys
        /\ HoldOwner'
    BY <1>1, OptimisticRevertType
  <1>3. phase' \in [Commands -> Phases]
    BY DEF Fail, Typed, TypeOK, Phases, Over
  <1>4. holder' \in [Classes -> Commands \cup {NoCommand}]
    BY DEF Fail, Typed, TypeOK
  <1>5. snap' \in [Commands -> Channel]
    BY BlankType DEF Fail, Typed, TypeOK
  <1> QED
    BY <1>2, <1>3, <1>4, <1>5
    DEF Fail, Typed, TypeOK, pollVars, refreshVars, entryVars, worldVars

LEMMA TypeInit == Init => Typed
  <1> SUFFICES ASSUME Init PROVE Typed
    OBVIOUS
  <1>1. /\ phase \in [Commands -> Phases]
        /\ holder \in [Classes -> Commands \cup {NoCommand}]
        /\ tries \in [Commands -> Nat] /\ wire \in [Commands -> Nat]
        /\ acted \in [Commands -> Nat]
    BY DEF Init, Phases
  <1>2. /\ snap \in [Commands -> Channel]
        /\ {stored, published, pollData, refreshData, car, backend} \subseteq Channel
    BY BlankType DEF Init
  <1>3. /\ holdBy \in [Keys -> Commands \cup {NoCommand}]
        /\ holdOver \in SUBSET Keys
        /\ HoldOwner
    BY DEF Init, HoldOwner
  <1>4. seen \in [Keys -> SUBSET Values]
    BY DEF Init, Channel
  <1> QED BY <1>1, <1>2, <1>3, <1>4 DEF Init, Typed, TypeOK

LEMMA TypeStep == Typed /\ [Next]_vars => Typed'
  <1> SUFFICES ASSUME Typed, [Next]_vars PROVE Typed'
    OBVIOUS
  <1> USE DEF commandVars, holdVars, pollVars, refreshVars, entryVars, worldVars
  <1>1. CASE UNCHANGED vars
    BY <1>1 DEF vars, Typed, TypeOK, HoldOwner
  <1>2. ASSUME NEW c \in Commands, Issue(c)
       PROVE  Typed'
    <2>1. phase' \in [Commands -> Phases]
      BY <1>2 DEF Issue, Typed, TypeOK, Phases, Over
    <2>2. OptimisticSet(c)
      BY <1>2 DEF Issue
    <2>3. HoldOwner'
      BY <2>2, OptimisticSetType
    <2> QED
      BY <1>2, <2>1, <2>2, <2>3, OptimisticSetType DEF Issue, Typed, TypeOK
  <1>3. ASSUME NEW c \in Commands, LockTimesOut(c)
       PROVE  Typed'
    BY <1>3, FailType DEF LockTimesOut, Refused, Typed, TypeOK
  <1>4. ASSUME NEW c \in Commands, DispatchRefused(c)
       PROVE  Typed'
    BY <1>4, FailType DEF DispatchRefused, Refused, Typed, TypeOK
  <1>5. ASSUME NEW c \in Commands, Dispatch(c)
       PROVE  Typed'
    <2>1. /\ phase' \in [Commands -> Phases]
          /\ holder' \in [Classes -> Commands \cup {NoCommand}]
      BY <1>5 DEF Dispatch, Typed, TypeOK, Phases, InFlight
    <2>2. tries' \in [Commands -> Nat] /\ wire' \in [Commands -> Nat]
      BY <1>5 DEF Dispatch, Typed, TypeOK
    <2> QED BY <1>5, <2>1, <2>2 DEF Dispatch, Typed, TypeOK, HoldOwner
  <1>6. ASSUME NEW c \in Commands, Resend(c)
       PROVE  Typed'
    BY <1>6 DEF Resend, Typed, TypeOK, HoldOwner
  <1>7. ASSUME NEW c \in Commands, Accepted(c)
       PROVE  Typed'
    BY <1>7, BlankType DEF Accepted, Typed, TypeOK, HoldOwner, Phases, Over
  <1>8. ASSUME NEW c \in Commands, UnclearFailure(c)
       PROVE  Typed'
    BY <1>8, FailType DEF UnclearFailure, Refused, Typed, TypeOK
  <1>9. ASSUME NEW c \in Commands, NEW refusal \in {"auth", "gone"}, Refuse(c, refusal)
       PROVE  Typed'
    <2>1. Fail(c, "failed") /\ UNCHANGED tries /\ wire[c] > 0 /\ wire' = [wire EXCEPT ![c] = @ - 1]
      BY <1>9 DEF Refuse
    <2>2. wire' \in [Commands -> Nat] /\ tries' \in [Commands -> Nat]
      BY <2>1 DEF Typed, TypeOK
    <2> QED BY <2>1, <2>2, FailType DEF Refused
  <1>10. ASSUME NEW c \in Commands, NEW refusal \in {"auth", "gone"}, FallBack(c, refusal)
        PROVE  Typed'
    BY <1>10 DEF FallBack, FallsBack, Typed, TypeOK, HoldOwner, Phases, InFlight
  <1>11. ASSUME NEW c \in Commands, CarActs(c)
        PROVE  Typed'
    <2>1. car' \in Channel
      BY <1>11, ChannelsType, PipelineAssumption DEF CarActs, Typed, Channel, Fields
    <2> QED BY <1>11, <2>1 DEF CarActs, Typed, TypeOK, HoldOwner
  <1>12. ASSUME NEW c \in Commands, SendIsLost(c)
        PROVE  Typed'
    BY <1>12 DEF SendIsLost, Typed, TypeOK, HoldOwner
  <1>13. ASSUME NEW k \in Keys, HoldWindowElapses(k)
        PROVE  Typed'
    BY <1>13 DEF HoldWindowElapses, Held, Typed, TypeOK, HoldOwner
  <1>14. CASE PollBegins
    BY <1>14 DEF PollBegins, Typed, TypeOK, HoldOwner
  <1>15. CASE PollServed
    BY <1>15, ChannelsType DEF PollServed, Typed, TypeOK, HoldOwner
  <1>16. CASE PollFails
    BY <1>16 DEF PollFails, Typed, TypeOK, HoldOwner
  <1>17. CASE PollApplies
    <2>1. ApplyOptimisticHold(pollData) /\ pollData \in Channel
      BY <1>17, ChannelsType DEF PollApplies, Typed
    <2>2. stored' \in Channel /\ pollData' \in Channel
      BY <1>17, <2>1, HoldsType, BlankType, ChannelsType DEF PollApplies, Typed
    <2> QED BY <1>17, <2>1, <2>2, HoldsType DEF PollApplies, Typed, TypeOK
  <1>18. CASE PollUpdates
    BY <1>18, ChannelsType, BlankType DEF PollUpdates, Typed, TypeOK, HoldOwner
  <1>19. CASE PollPublishes
    BY <1>19, ChannelsType, BlankType DEF PollPublishes, Typed, TypeOK, HoldOwner
  <1>20. CASE RefreshRequested
    BY <1>20 DEF RefreshRequested, Typed, TypeOK, HoldOwner
  <1>21. CASE RefreshBegins
    BY <1>21 DEF RefreshBegins, Typed, TypeOK, HoldOwner
  <1>22. CASE RefreshServed
    BY <1>22 DEF RefreshServed, Typed, TypeOK, HoldOwner
  <1>23. CASE RefreshStores
    <2>1. ApplyOptimisticHold(refreshData) /\ refreshData \in Channel
      BY <1>23, ChannelsType DEF RefreshStores, Typed
    <2>2. stored' \in Channel /\ published' \in Channel /\ pollData' \in Channel /\ refreshData' \in Channel
      BY <1>23, <2>1, HoldsType, BlankType, ChannelsType DEF RefreshStores, Typed
    <2> QED BY <1>23, <2>1, <2>2, HoldsType DEF RefreshStores, Typed, TypeOK
  <1>24. CASE RefreshFails
    BY <1>24 DEF RefreshFails, Typed, TypeOK, HoldOwner
  <1>25. CASE ToggleReadOnly
    BY <1>25 DEF ToggleReadOnly, Typed, TypeOK, HoldOwner
  <1>26. CASE ShutdownBegins
    BY <1>26 DEF ShutdownBegins, Typed, TypeOK, HoldOwner
  <1>27. CASE ShutdownDropsClient
    BY <1>27 DEF ShutdownDropsClient, Typed, TypeOK, HoldOwner
  <1>28. CASE BackendCatchesUp
    <2>1. seen' \in [Keys -> SUBSET Values]
      BY <1>28 DEF BackendCatchesUp, Typed, TypeOK, Channel
    <2> QED BY <1>28, <2>1 DEF BackendCatchesUp, Typed, TypeOK, HoldOwner
  <1>29. ASSUME NEW k \in Keys, NEW v \in Values, OwnerActs(k, v)
        PROVE  Typed'
    <2>1. car' \in Channel
      BY <1>29, ChannelsType DEF OwnerActs, Typed, Channel
    <2> QED BY <1>29, <2>1 DEF OwnerActs, Typed, TypeOK, HoldOwner
  <1>30. ASSUME NEW c \in Commands, Cancel(c)
        PROVE  Typed'
    <2>1. phase' \in [Commands -> Phases]
      BY <1>30 DEF Cancel, Typed, TypeOK, Phases, Over
    <2> QED BY <1>30, <2>1, BlankType DEF Cancel, Typed, TypeOK, HoldOwner
  <1> QED
    BY <1>30, <1>1, <1>2, <1>3, <1>4, <1>5, <1>6, <1>7, <1>8, <1>9, <1>10, <1>11, <1>12, <1>13, <1>14, <1>15,
        <1>16, <1>17, <1>18, <1>19, <1>20, <1>21, <1>22, <1>23, <1>24, <1>25, <1>26, <1>27, <1>28, <1>29
    DEF Next, Command, Poll, Refresh, Entry, World

\* Every variable of the command pipeline keeps its type, whatever the
\* commands, their classes and their optimistic fields are.
THEOREM PipelineTypeOK == Spec => []TypeOK
  <1>1. Typed => TypeOK
    BY DEF Typed
  <1> QED BY <1>1, TypeInit, TypeStep, PTL DEF Spec

-----------------------------------------------------------------------------
(* Locks, sends and holds *)

\* Every step but a command's own leaves the command's variables alone.
Bystander ==
    \/ UNCHANGED vars
    \/ \E k \in Keys : HoldWindowElapses(k)
    \/ Poll \/ Refresh \/ Entry \/ World

LEMMA BystanderLeavesCommands == Bystander => UNCHANGED commandVars
  BY DEF Bystander, vars, commandVars, HoldWindowElapses, Poll, PollBegins, PollServed,
         PollFails, PollApplies, PollUpdates, PollPublishes, Refresh, RefreshRequested,
         RefreshBegins, RefreshServed, RefreshStores, RefreshFails, Entry, ToggleReadOnly,
         ShutdownBegins, ShutdownDropsClient, World, BackendCatchesUp, OwnerActs

LEMMA StepKinds ==
  [Next]_vars <=> Bystander \/ \E c \in Commands : Command(c)
  BY DEF Next, Bystander

\* The moves of one command, as far as phase, lock and sends go: issued, busy,
\* failed, sent, still with a channel, accepted, or acted on by the world.
LEMMA CommandMoves ==
  ASSUME Typed, NEW c \in Commands, Command(c)
  PROVE  /\ \A d \in Commands \ {c} :
              phase'[d] = phase[d] /\ wire'[d] = wire[d] /\ acted'[d] = acted[d]
         /\ \/ /\ phase[c] = "idle" /\ phase'[c] \in {"queued", "dropped"}
               /\ UNCHANGED <<holder, wire, acted>>
            \/ /\ phase[c] = "queued" /\ phase'[c] = "busy"
               /\ holder' = [holder EXCEPT ![ClassOf[c]] = IF @ = c THEN NoCommand ELSE @]
               /\ UNCHANGED <<wire, acted>>
            \/ /\ phase[c] \in {"queued"} \cup InFlight /\ phase'[c] = "failed"
               /\ holder' = [holder EXCEPT ![ClassOf[c]] = IF @ = c THEN NoCommand ELSE @]
            \/ /\ phase[c] = "queued" /\ phase'[c] = "sent"
               /\ ~readOnly
               /\ holder[ClassOf[c]] = NoCommand
               /\ holder' = [holder EXCEPT ![ClassOf[c]] = c]
            \/ /\ phase[c] \in InFlight /\ phase'[c] \in InFlight
               /\ UNCHANGED holder
            \/ /\ phase[c] \in InFlight /\ phase'[c] = "accepted"
               /\ holder' = [holder EXCEPT ![ClassOf[c]] = NoCommand]
            \/ /\ phase[c] \in {"queued"} \cup InFlight /\ phase'[c] = "cancelled"
               /\ holder' = [holder EXCEPT ![ClassOf[c]] = IF @ = c THEN NoCommand ELSE @]
            \/ /\ phase'[c] = phase[c] /\ wire[c] > 0
               /\ UNCHANGED holder
  <1> USE DEF Typed, TypeOK
  <1>1. CASE Issue(c)             BY <1>1 DEF Issue
  <1>2. CASE LockTimesOut(c)      BY <1>2 DEF LockTimesOut, Fail
  <1>3. CASE DispatchRefused(c)   BY <1>3 DEF DispatchRefused, Fail
  <1>4. CASE Dispatch(c)          BY <1>4 DEF Dispatch
  <1>5. CASE Resend(c)            BY <1>5 DEF Resend, InFlight
  <1>6. CASE Accepted(c)          BY <1>6 DEF Accepted
  <1>7. CASE UnclearFailure(c)    BY <1>7 DEF UnclearFailure, Fail
  <1>8. ASSUME NEW refusal \in {"auth", "gone"}, Refuse(c, refusal)
        PROVE  /\ \A d \in Commands \ {c} :
                    phase'[d] = phase[d] /\ wire'[d] = wire[d] /\ acted'[d] = acted[d]
               /\ phase[c] \in {"queued"} \cup InFlight /\ phase'[c] = "failed"
               /\ holder' = [holder EXCEPT ![ClassOf[c]] = IF @ = c THEN NoCommand ELSE @]
    BY <1>8 DEF Refuse, Fail
  <1>9. ASSUME NEW refusal \in {"auth", "gone"}, FallBack(c, refusal)
        PROVE  /\ \A d \in Commands \ {c} :
                    phase'[d] = phase[d] /\ wire'[d] = wire[d] /\ acted'[d] = acted[d]
               /\ phase[c] \in InFlight /\ phase'[c] \in InFlight
               /\ UNCHANGED holder
    BY <1>9 DEF FallBack, FallsBack, InFlight
  <1>10. CASE CarActs(c)          BY <1>10 DEF CarActs
  <1>11. CASE SendIsLost(c)       BY <1>11 DEF SendIsLost
  <1>12. CASE Cancel(c)           BY <1>12 DEF Cancel
  <1> QED
    BY <1>1, <1>2, <1>3, <1>4, <1>5, <1>6, <1>7, <1>8, <1>9, <1>10, <1>11, <1>12 DEF Command

LEMMA LocksStep ==
  Typed /\ LockDiscipline /\ UnsentNeverActs /\ [Next]_vars
    => LockDiscipline' /\ UnsentNeverActs'
  <1> SUFFICES ASSUME Typed, LockDiscipline, UnsentNeverActs, [Next]_vars
               PROVE  LockDiscipline' /\ UnsentNeverActs'
    OBVIOUS
  <1>1. CASE Bystander
    BY <1>1, BystanderLeavesCommands DEF commandVars, LockDiscipline, UnsentNeverActs
  <1>2. ASSUME NEW c \in Commands, Command(c)
        PROVE  LockDiscipline' /\ UnsentNeverActs'
    <2>1. LockDiscipline'
      <3> SUFFICES ASSUME NEW d \in Commands
                   PROVE  holder'[ClassOf[d]] = d <=> phase'[d] \in InFlight
        BY DEF LockDiscipline
      <3>1. ClassOf[d] \in Classes /\ ClassOf[c] \in Classes /\ NoCommand \notin Commands
        BY PipelineAssumption
      <3>2. holder[ClassOf[d]] = d <=> phase[d] \in InFlight
        BY DEF LockDiscipline
      <3>3. holder[ClassOf[c]] = c <=> phase[c] \in InFlight
        BY DEF LockDiscipline
      <3> QED
        BY <1>2, <3>1, <3>2, <3>3, CommandMoves DEF Typed, TypeOK, InFlight
    <2>2. UnsentNeverActs'
      <3> SUFFICES ASSUME NEW d \in Commands,
                          phase'[d] \in {"idle", "queued", "busy", "dropped"}
                   PROVE  wire'[d] = 0 /\ acted'[d] = 0
        BY DEF UnsentNeverActs
      <3>1. phase[d] \in {"idle", "queued", "busy", "dropped"} => wire[d] = 0 /\ acted[d] = 0
        BY DEF UnsentNeverActs
      <3> QED
        BY <1>2, <3>1, CommandMoves DEF Typed, TypeOK, InFlight
    <2> QED BY <2>1, <2>2
  <1> QED BY <1>1, <1>2, StepKinds

LEMMA LocksInit == Init => LockDiscipline /\ UnsentNeverActs
  BY PipelineAssumption DEF Init, LockDiscipline, UnsentNeverActs, InFlight

\* A command is with a channel exactly while it owns the lock of its class:
\* no way out of _cariad_cmd leaks a lock or frees another command's.
THEOREM PipelineLockDiscipline == Spec => []LockDiscipline
  BY LocksInit, LocksStep, TypeInit, TypeStep, PTL DEF Spec

\* A command that never got its lock never reaches the car.
THEOREM PipelineUnsentNeverActs == Spec => []UnsentNeverActs
  BY LocksInit, LocksStep, TypeInit, TypeStep, PTL DEF Spec

\* SecondChannelAddsNoMove is not inductive: what has acted or still may act is
\* bounded by the sends so far.
SendsCounted ==
    \A c \in Commands : tries[c] <= MaxTries /\ acted[c] + wire[c] <= tries[c]

LEMMA CommandSends ==
  ASSUME Typed, UnsentNeverActs, SendsCounted, NEW c \in Commands, Command(c)
  PROVE  /\ tries'[c] <= MaxTries /\ acted'[c] + wire'[c] <= tries'[c]
         /\ \A d \in Commands \ {c} :
              tries'[d] = tries[d] /\ wire'[d] = wire[d] /\ acted'[d] = acted[d]
  <1>1. /\ tries \in [Commands -> Nat] /\ wire \in [Commands -> Nat]
        /\ acted \in [Commands -> Nat] /\ MaxTries \in Nat /\ MaxTries >= 1
    BY PipelineAssumption DEF Typed, TypeOK
  <1>2. tries[c] <= MaxTries /\ acted[c] + wire[c] <= tries[c]
    BY DEF SendsCounted
  <1>3. CASE Issue(c) \/ LockTimesOut(c) \/ DispatchRefused(c) \/ Accepted(c)
             \/ UnclearFailure(c) \/ Cancel(c)
    <2>1. UNCHANGED <<tries, wire, acted>>
      BY <1>3 DEF Issue, LockTimesOut, DispatchRefused, Accepted, UnclearFailure, Cancel, Fail
    <2> QED BY <1>1, <1>2, <2>1
  <1>4. CASE Dispatch(c)
    <2>1. wire[c] = 0 /\ acted[c] = 0
      BY <1>4 DEF Dispatch, UnsentNeverActs
    <2> QED BY <1>1, <1>2, <1>4, <2>1 DEF Dispatch
  <1>5. CASE Resend(c)
    BY <1>1, <1>2, <1>5 DEF Resend
  <1>6. ASSUME NEW refusal \in {"auth", "gone"}, Refuse(c, refusal) \/ FallBack(c, refusal)
        PROVE  /\ tries'[c] <= MaxTries /\ acted'[c] + wire'[c] <= tries'[c]
               /\ \A d \in Commands \ {c} :
                    tries'[d] = tries[d] /\ wire'[d] = wire[d] /\ acted'[d] = acted[d]
    <2>1. CASE Refuse(c, refusal)
      BY <1>1, <1>2, <2>1 DEF Refuse, Fail
    <2>2. CASE FallBack(c, refusal)
      BY <1>1, <1>2, <2>2 DEF FallBack
    <2> QED BY <1>6, <2>1, <2>2
  <1>7. CASE CarActs(c) \/ SendIsLost(c)
    BY <1>1, <1>2, <1>7 DEF CarActs, SendIsLost
  <1> QED BY <1>3, <1>4, <1>5, <1>6, <1>7 DEF Command

LEMMA SendsCountedStep ==
  Typed /\ UnsentNeverActs /\ SendsCounted /\ [Next]_vars => SendsCounted'
  <1> SUFFICES ASSUME Typed, UnsentNeverActs, SendsCounted, [Next]_vars, NEW d \in Commands
               PROVE  tries'[d] <= MaxTries /\ acted'[d] + wire'[d] <= tries'[d]
    BY DEF SendsCounted
  <1>1. CASE Bystander
    BY <1>1, BystanderLeavesCommands DEF commandVars, SendsCounted
  <1>2. ASSUME NEW c \in Commands, Command(c)
        PROVE  tries'[d] <= MaxTries /\ acted'[d] + wire'[d] <= tries'[d]
    BY <1>2, CommandSends DEF SendsCounted
  <1> QED BY <1>1, <1>2, StepKinds

\* Re-sent requests and the second channels together move the car at most
\* MaxTries times for one press.
THEOREM PipelineSecondChannelAddsNoMove == Spec => []SecondChannelAddsNoMove
  <1>1. Init => SendsCounted
    <2> SUFFICES ASSUME Init, NEW c \in Commands
                 PROVE  tries[c] <= MaxTries /\ acted[c] + wire[c] <= tries[c]
      BY DEF SendsCounted
    <2>1. tries[c] = 0 /\ acted[c] = 0 /\ wire[c] = 0 /\ MaxTries \in Nat
      BY PipelineAssumption DEF Init
    <2> QED BY <2>1
  <1>2. Typed /\ SendsCounted => SecondChannelAddsNoMove
    <2> SUFFICES ASSUME Typed, SendsCounted, NEW c \in Commands
                 PROVE  acted[c] + wire[c] <= MaxTries
      BY DEF SecondChannelAddsNoMove
    <2>1. tries[c] \in Nat /\ wire[c] \in Nat /\ acted[c] \in Nat /\ MaxTries \in Nat
      BY PipelineAssumption DEF Typed, TypeOK
    <2> QED BY <2>1 DEF SendsCounted
  <1> QED BY <1>1, <1>2, LocksInit, LocksStep, SendsCountedStep, TypeInit, TypeStep, PTL
      DEF Spec

\* Read-only mode stops the commands that already wait for a lock.
THEOREM PipelineReadOnlyStopsTheQueue == Spec => ReadOnlyStopsTheQueue
  <1>1. Typed /\ [Next]_vars =>
          [\A c \in Commands : readOnly /\ phase[c] = "queued" => phase'[c] # "sent"]_vars
    <2> SUFFICES ASSUME Typed, [Next]_vars, NEW c \in Commands,
                        readOnly, phase[c] = "queued", ~ UNCHANGED vars
                 PROVE  phase'[c] # "sent"
      OBVIOUS
    <2>1. CASE Bystander
      BY <2>1, BystanderLeavesCommands DEF commandVars
    <2>2. ASSUME NEW d \in Commands, Command(d)
          PROVE  phase'[c] # "sent"
      BY <2>2, CommandMoves DEF Typed, TypeOK, InFlight
    <2> QED BY <2>1, <2>2, StepKinds
  <1> QED BY <1>1, TypeInit, TypeStep, PTL DEF Spec, ReadOnlyStopsTheQueue

-----------------------------------------------------------------------------
(* What the optimistic layer promises *)

\* How a step may change the holds: set for the command issued now, dropped
\* for the command that fails now, or dropped by a reading.
LEMMA HoldMoves ==
  ASSUME Typed, [Next]_vars, NEW k \in Keys, holdBy'[k] # NoCommand
  PROVE  \/ holdBy'[k] = holdBy[k]
         \/ phase[holdBy'[k]] = "idle" /\ phase'[holdBy'[k]] \in {"queued", "dropped"}
  <1> USE DEF Typed, TypeOK
  <1>1. CASE Bystander
    <2>1. CASE PollApplies
      BY <2>1 DEF PollApplies, ApplyOptimisticHold
    <2>2. CASE RefreshStores
      BY <2>2 DEF RefreshStores, ApplyOptimisticHold
    <2>3. CASE ~PollApplies /\ ~RefreshStores
      BY <1>1, <2>3
      DEF Bystander, vars, holdVars, HoldWindowElapses, Poll, PollBegins, PollServed,
          PollFails, PollUpdates, PollPublishes, Refresh, RefreshRequested, RefreshBegins,
          RefreshServed, RefreshFails, Entry, ToggleReadOnly, ShutdownBegins,
          ShutdownDropsClient, World, BackendCatchesUp, OwnerActs
    <2> QED BY <2>1, <2>2, <2>3
  <1>2. ASSUME NEW c \in Commands, Issue(c)
        PROVE  \/ holdBy'[k] = holdBy[k]
               \/ phase[holdBy'[k]] = "idle" /\ phase'[holdBy'[k]] \in {"queued", "dropped"}
    BY <1>2 DEF Issue, OptimisticSet
  <1>3. ASSUME NEW c \in Commands, NEW how, Fail(c, how)
        PROVE  holdBy'[k] = holdBy[k]
    BY <1>3 DEF Fail, OptimisticRevert
  <1>4. ASSUME NEW c \in Commands, Command(c), ~Issue(c)
        PROVE  holdBy'[k] = holdBy[k]
    BY <1>3, <1>4
    DEF Command, LockTimesOut, DispatchRefused, Dispatch, Resend, Accepted, UnclearFailure,
        Refuse, FallBack, Cancel, CarActs, SendIsLost, holdVars
  <1> QED BY <1>1, <1>2, <1>4, StepKinds

\* A failing command takes its holds with it.
LEMMA FailDropsHolds ==
  ASSUME Typed, [Next]_vars, NEW c \in Commands,
         phase[c] \notin Refused, phase'[c] \in Refused, NEW k \in Keys
  PROVE  holdBy'[k] # c
  <1>1. \A d \in Commands : \A how : Fail(d, how) => (d = c => holdBy'[k] # c)
    BY PipelineAssumption DEF Fail, OptimisticRevert, Typed, TypeOK, HoldOwner
  <1>2. ~Bystander
    BY BystanderLeavesCommands DEF commandVars
  <1>3. PICK d \in Commands : Command(d)
    BY <1>2, StepKinds
  <1>4. d = c
    BY <1>3, CommandMoves
  <1>5. \E how : Fail(c, how)
    BY <1>3, <1>4
    DEF Command, Issue, LockTimesOut, DispatchRefused, Dispatch, Resend, Accepted,
        UnclearFailure, Refuse, FallBack, FallsBack, Cancel, CarActs, SendIsLost, Refused, Typed, TypeOK
  <1> QED BY <1>1, <1>5

LEMMA NoFailedHoldStep ==
  Typed /\ NoHoldOfAFailedCommand /\ [Next]_vars => NoHoldOfAFailedCommand'
  <1> SUFFICES ASSUME Typed, NoHoldOfAFailedCommand, [Next]_vars,
                      NEW k \in Keys, holdBy'[k] # NoCommand
               PROVE  phase'[holdBy'[k]] \notin Refused
    BY DEF NoHoldOfAFailedCommand
  <1>1. CASE holdBy'[k] = holdBy[k]
    <2>1. holdBy[k] \in Commands /\ phase[holdBy[k]] \notin Refused
      BY <1>1 DEF NoHoldOfAFailedCommand, Typed, TypeOK
    <2> QED BY <1>1, <2>1, FailDropsHolds
  <1>2. CASE phase'[holdBy'[k]] \in {"queued", "dropped"}
    BY <1>2 DEF Refused
  <1> QED BY <1>1, <1>2, HoldMoves

\* No field is held for a command that was reported as failed.
THEOREM PipelineNoHoldOfAFailedCommand == Spec => []NoHoldOfAFailedCommand
  <1>1. Init => NoHoldOfAFailedCommand
    BY DEF Init, NoHoldOfAFailedCommand
  <1> QED BY <1>1, NoFailedHoldStep, TypeInit, TypeStep, PTL DEF Spec

\* Where nothing is awaited between applying the holds and storing, the poll
\* never stores a snapshot that predates a hold.
NoLateStore == pollPc # "applied" /\ HoldShown

LEMMA HoldsShownByReading ==
  ASSUME Typed, NEW data \in Channel, ApplyOptimisticHold(data), stored' = WithHolds(data)
  PROVE  HoldShown'
  <1> SUFFICES ASSUME NEW k \in Keys, holdBy'[k] # NoCommand
               PROVE  stored'[k] = Expected[holdBy'[k]][k]
    BY DEF HoldShown, HoldValue
  <1>1. k \in StillPending(data) /\ holdBy'[k] = holdBy[k]
    BY DEF ApplyOptimisticHold
  <1> QED BY <1>1 DEF WithHolds, HoldValue

LEMMA NoLateStoreStep ==
  ASSUME ~TurnAwaits
  PROVE  Typed /\ NoLateStore /\ [Next]_vars => NoLateStore'
  <1> SUFFICES ASSUME Typed, NoLateStore, [Next]_vars PROVE NoLateStore'
    OBVIOUS
  <1> USE DEF commandVars, holdVars, pollVars, refreshVars, entryVars, worldVars
  <1>1. CASE PollApplies
    BY <1>1, ChannelsType, HoldsShownByReading DEF PollApplies, NoLateStore, Typed
  <1>2. CASE RefreshStores
    BY <1>2, ChannelsType, HoldsShownByReading DEF RefreshStores, NoLateStore, Typed
  <1>3. CASE Bystander /\ ~PollApplies /\ ~RefreshStores
    BY <1>3
    DEF NoLateStore, HoldShown, HoldValue, Bystander, vars, HoldWindowElapses, Poll,
        PollBegins, PollServed, PollFails, PollUpdates, PollPublishes, Refresh,
        RefreshRequested, RefreshBegins, RefreshServed, RefreshFails, Entry,
        ToggleReadOnly, ShutdownBegins, ShutdownDropsClient, World, BackendCatchesUp,
        OwnerActs
  <1>4. ASSUME NEW c \in Commands, Issue(c)
        PROVE  NoLateStore'
    BY <1>4 DEF Issue, OptimisticSet, NoLateStore, HoldShown, HoldValue, Typed, TypeOK
  <1>5. ASSUME NEW c \in Commands, NEW how, Fail(c, how)
        PROVE  NoLateStore'
    BY <1>5, PipelineAssumption
    DEF Fail, OptimisticRevert, NoLateStore, HoldShown, HoldValue, Typed, TypeOK
  <1>6. ASSUME NEW c \in Commands, Command(c), ~Issue(c), ~\E how : Fail(c, how)
        PROVE  NoLateStore'
    BY <1>6
    DEF Command, LockTimesOut, DispatchRefused, Dispatch, Resend, Accepted, UnclearFailure,
        Refuse, FallBack, Cancel, CarActs, SendIsLost, NoLateStore, HoldShown, HoldValue
  <1> QED BY <1>1, <1>2, <1>3, <1>4, <1>5, <1>6, StepKinds

\* Unless a car's turn awaits, a held value is what self.vehicles shows, however
\* many commands and reads overlap.
THEOREM PipelineHoldShown == ASSUME ~TurnAwaits PROVE Spec => []HoldShown
  <1>1. Init => NoLateStore
    BY DEF Init, NoLateStore, HoldShown
  <1>2. NoLateStore => HoldShown
    BY DEF NoLateStore
  <1> QED BY <1>1, <1>2, NoLateStoreStep, TypeInit, TypeStep, PTL DEF Spec

\* A held value disappears in no step but the store of a poll whose turn has
\* awaited since it applied the holds.
LEMMA HeldStaysShown ==
  ASSUME Typed, [Next]_vars, ~PollUpdates, NEW k \in Keys,
         holdBy[k] # NoCommand, holdBy'[k] = holdBy[k], stored[k] = HoldValue(k)
  PROVE  stored'[k] = HoldValue(k)
  <1> USE DEF commandVars, holdVars, pollVars, refreshVars, entryVars, worldVars
  <1>1. CASE PollApplies
    <2>1. CASE TurnAwaits
      BY <1>1, <2>1 DEF PollApplies
    <2>2. CASE ~TurnAwaits
      <3>1. HoldShown'
        BY <1>1, <2>2, ChannelsType, HoldsShownByReading DEF PollApplies, Typed
      <3> QED BY <3>1 DEF HoldShown, HoldValue
    <2> QED BY <2>1, <2>2
  <1>2. CASE RefreshStores
    <2>1. HoldShown'
      BY <1>2, ChannelsType, HoldsShownByReading DEF RefreshStores, Typed
    <2> QED BY <2>1 DEF HoldShown, HoldValue
  <1>3. CASE Bystander /\ ~PollApplies /\ ~RefreshStores
    BY <1>3
    DEF Bystander, vars, HoldWindowElapses, Poll, PollBegins, PollServed, PollFails,
        PollPublishes, Refresh, RefreshRequested, RefreshBegins, RefreshServed,
        RefreshFails, Entry, ToggleReadOnly, ShutdownBegins, ShutdownDropsClient, World,
        BackendCatchesUp, OwnerActs
  <1>4. ASSUME NEW c \in Commands, Issue(c)
        PROVE  stored'[k] = HoldValue(k)
    BY <1>4 DEF Issue, OptimisticSet, HoldValue, Typed, TypeOK
  <1>5. ASSUME NEW c \in Commands, NEW how, Fail(c, how)
        PROVE  stored'[k] = HoldValue(k)
    BY <1>5 DEF Fail, OptimisticRevert, HoldValue, Typed, TypeOK
  <1>6. ASSUME NEW c \in Commands, Command(c), ~Issue(c), ~\E how : Fail(c, how)
        PROVE  stored'[k] = HoldValue(k)
    BY <1>6
    DEF Command, LockTimesOut, DispatchRefused, Dispatch, Resend, Accepted, UnclearFailure,
        Refuse, FallBack, Cancel, CarActs, SendIsLost
  <1> QED BY <1>1, <1>2, <1>3, <1>4, <1>5, <1>6, StepKinds

\* However many cars and probes a poll has, a held value that is shown stays
\* shown but for the store of a poll that applied the holds before.
THEOREM PipelineHiddenByALateStoreOnly == Spec => HiddenByALateStoreOnly
  <1>1. Typed /\ [Next]_vars
        => [\A k \in Keys :
              holdBy[k] # NoCommand /\ holdBy'[k] = holdBy[k] /\ stored[k] = HoldValue(k)
                  => stored'[k] = HoldValue(k) \/ PollUpdates]_vars
    BY HeldStaysShown
  <1> QED BY <1>1, TypeInit, TypeStep, PTL DEF Spec, HiddenByALateStoreOnly

\* The strengthening of NoPhantom: what is stored was reported or is held,
\* what a failure would put back was reported, and so is every reading.
StoredIsReal == \A k \in Keys : stored[k] \in seen[k] \/ holdBy[k] # NoCommand
SnapIsReal ==
    \A c \in Commands : \A k \in Fields(c) :
        phase[c] \in {"queued"} \cup InFlight => snap[c][k] \in seen[k]
ReadingsAreReal ==
    \A k \in Keys :
        /\ backend[k] \in seen[k]
        /\ pollPc = "answered" => ~pollShared /\ pollData[k] \in seen[k]
        /\ refreshPc = "answered" => refreshData[k] \in seen[k]
NotHeldWhenIdle == \A k \in Keys : holdBy[k] # NoCommand => phase[holdBy[k]] # "idle"
Real ==
    /\ pollPc # "applied"
    /\ StoredIsReal /\ SnapIsReal /\ ReadingsAreReal /\ NotHeldWhenIdle

Disjoint == \A c, d \in Commands : c # d => Fields(c) \cap Fields(d) = {}

\* With disjoint fields a field of an idle command shows what was reported.
LEMMA IdleIsReal ==
  ASSUME Disjoint, Typed, Real, NEW c \in Commands, phase[c] = "idle", NEW k \in Fields(c)
  PROVE  k \in Keys /\ stored[k] \in seen[k]
  <1>1. k \in Keys
    BY PipelineAssumption DEF Fields
  <1>2. CASE holdBy[k] # NoCommand
    <2>1. holdBy[k] \in Commands /\ k \in Fields(holdBy[k]) /\ phase[holdBy[k]] # "idle"
      BY <1>1, <1>2 DEF Typed, TypeOK, HoldOwner, Real, NotHeldWhenIdle
    <2> QED BY <2>1 DEF Disjoint
  <1> QED BY <1>1, <1>2 DEF Real, StoredIsReal

LEMMA RealByReading ==
  ASSUME Typed, NEW data \in Channel, \A k \in Keys : data[k] \in seen[k],
         ApplyOptimisticHold(data), stored' = WithHolds(data), seen' = seen,
         UNCHANGED phase, NotHeldWhenIdle
  PROVE  StoredIsReal' /\ NotHeldWhenIdle'
  <1>1. StoredIsReal'
    BY DEF StoredIsReal, WithHolds, ApplyOptimisticHold, StillPending, Held
  <1>2. NotHeldWhenIdle'
    BY DEF NotHeldWhenIdle, ApplyOptimisticHold
  <1> QED BY <1>1, <1>2

LEMMA RealStep ==
  ASSUME ~TurnAwaits, Disjoint
  PROVE  Typed /\ Real /\ [Next]_vars => Real'
  <1> SUFFICES ASSUME Typed, Real, [Next]_vars PROVE Real'
    OBVIOUS
  <1> USE DEF commandVars, holdVars, pollVars, refreshVars, entryVars, worldVars
  <1>1. CASE PollApplies
    <2>1. pollData \in Channel /\ \A k \in Keys : pollData[k] \in seen[k]
      BY <1>1, ChannelsType DEF PollApplies, Real, ReadingsAreReal, Typed
    <2>2. StoredIsReal' /\ NotHeldWhenIdle'
      BY <1>1, <2>1, RealByReading DEF PollApplies, Real
    <2>3. SnapIsReal' /\ ReadingsAreReal' /\ pollPc' # "applied"
      BY <1>1 DEF PollApplies, Real, SnapIsReal, ReadingsAreReal
    <2> QED BY <2>2, <2>3 DEF Real
  <1>2. CASE RefreshStores
    <2>1. refreshData \in Channel /\ \A k \in Keys : refreshData[k] \in seen[k]
      BY <1>2, ChannelsType DEF RefreshStores, Real, ReadingsAreReal, Typed
    <2>2. StoredIsReal' /\ NotHeldWhenIdle'
      BY <1>2, <2>1, RealByReading DEF RefreshStores, Real
    <2>3. SnapIsReal' /\ ReadingsAreReal' /\ pollPc' # "applied"
      BY <1>2 DEF RefreshStores, Real, SnapIsReal, ReadingsAreReal, Fresh
    <2> QED BY <2>2, <2>3 DEF Real
  <1>3. CASE BackendCatchesUp
    <2>1. \A k \in Keys : seen[k] \subseteq seen'[k] /\ backend'[k] \in seen'[k]
      BY <1>3 DEF BackendCatchesUp
    <2>2. StoredIsReal' /\ NotHeldWhenIdle'
      BY <1>3, <2>1 DEF BackendCatchesUp, Real, StoredIsReal, NotHeldWhenIdle
    <2>3. SnapIsReal'
      BY <1>3, <2>1, PipelineAssumption DEF BackendCatchesUp, Real, SnapIsReal, Fields
    <2>4. ReadingsAreReal'
      BY <1>3, <2>1 DEF BackendCatchesUp, Real, ReadingsAreReal
    <2> QED BY <1>3, <2>2, <2>3, <2>4 DEF BackendCatchesUp, Real
  <1>4. CASE Bystander /\ ~PollApplies /\ ~RefreshStores /\ ~BackendCatchesUp
    <2>1. /\ phase' = phase /\ snap' = snap /\ holdBy' = holdBy /\ stored' = stored
          /\ seen' = seen /\ backend' = backend /\ pollPc' # "applied"
      BY <1>4
      DEF Bystander, vars, Real, HoldWindowElapses, Poll, PollBegins, PollServed, PollFails,
          PollUpdates, PollPublishes, Refresh, RefreshRequested, RefreshBegins,
          RefreshServed, RefreshFails, Entry, ToggleReadOnly, ShutdownBegins,
          ShutdownDropsClient, World, OwnerActs
    <2>2. StoredIsReal' /\ NotHeldWhenIdle' /\ SnapIsReal'
      BY <2>1 DEF Real, StoredIsReal, NotHeldWhenIdle, SnapIsReal
    <2>3. /\ pollPc' = "answered" =>
               \/ pollPc = "answered" /\ pollShared' = pollShared /\ pollData' = pollData
               \/ ~pollShared' /\ pollData' = backend
          /\ refreshPc' = "answered" =>
               \/ refreshPc = "answered" /\ refreshData' = refreshData
               \/ refreshData' = backend
      BY <1>4
      DEF Bystander, vars, HoldWindowElapses, Poll, PollBegins, PollServed, PollFails,
          PollUpdates, PollPublishes, Refresh, RefreshRequested, RefreshBegins,
          RefreshServed, RefreshFails, Entry, ToggleReadOnly, ShutdownBegins,
          ShutdownDropsClient, World, OwnerActs
    <2>4. ReadingsAreReal'
      BY <2>1, <2>3 DEF Real, ReadingsAreReal
    <2> QED BY <2>1, <2>2, <2>4 DEF Real
  <1>5. ASSUME NEW c \in Commands, Issue(c)
        PROVE  Real'
    <2>1. OptimisticSet(c) /\ phase[c] = "idle" /\ phase'[c] \in {"queued", "dropped"}
      BY <1>5 DEF Issue, Typed, TypeOK
    <2>2. \A k \in Fields(c) : k \in Keys /\ stored[k] \in seen[k]
      BY <2>1, IdleIsReal
    <2>3. SnapIsReal'
      BY <1>5, <2>1, <2>2 DEF Issue, OptimisticSet, Real, SnapIsReal, Typed, TypeOK
    <2>4. StoredIsReal'
      BY <1>5, <2>1, PipelineAssumption DEF Issue, OptimisticSet, Real, StoredIsReal, Typed, TypeOK
    <2>5. NotHeldWhenIdle'
      BY <1>5, <2>1 DEF Issue, OptimisticSet, Real, NotHeldWhenIdle, Typed, TypeOK
    <2> QED BY <1>5, <2>3, <2>4, <2>5 DEF Issue, Real, ReadingsAreReal
  <1>6. ASSUME NEW c \in Commands, NEW how, Fail(c, how), phase[c] \in {"queued"} \cup InFlight, how \in Refused
        PROVE  Real'
    <2>1. OptimisticRevert(c)
      BY <1>6 DEF Fail
    <2>2. \A k \in Fields(c) : k \in Keys /\ snap[c][k] \in seen[k]
      BY <1>6, PipelineAssumption DEF Real, SnapIsReal, Fields
    <2>3. StoredIsReal'
      BY <1>6, <2>1, <2>2 DEF Fail, OptimisticRevert, Real, StoredIsReal, Typed, TypeOK
    <2>4. SnapIsReal'
      BY <1>6 DEF Fail, Real, SnapIsReal, Refused, InFlight, Typed, TypeOK
    <2>5. NotHeldWhenIdle'
      BY <1>6, <2>1 DEF Fail, OptimisticRevert, Real, NotHeldWhenIdle, Refused, Typed, TypeOK
    <2> QED BY <1>6, <2>3, <2>4, <2>5 DEF Fail, Real, ReadingsAreReal
  <1>7. ASSUME NEW c \in Commands, Dispatch(c) \/ Resend(c) \/ Accepted(c) \/ Cancel(c)
                                     \/ CarActs(c) \/ SendIsLost(c)
        PROVE  Real'
    <2>1. UNCHANGED <<holdBy, stored, pollPc, pollShared, pollData, refreshPc, refreshData,
                      backend, seen>>
      BY <1>7 DEF Dispatch, Resend, Accepted, Cancel, CarActs, SendIsLost
    <2>2. StoredIsReal' /\ ReadingsAreReal' /\ pollPc' # "applied"
      BY <2>1 DEF Real, StoredIsReal, ReadingsAreReal
    <2>3. /\ \A d \in Commands : phase[d] # "idle" => phase'[d] # "idle"
          /\ \A d \in Commands : phase'[d] \in {"queued"} \cup InFlight =>
               phase[d] \in {"queued"} \cup InFlight /\ snap'[d] = snap[d]
      BY <1>7 DEF Dispatch, Resend, Accepted, Cancel, CarActs, SendIsLost, InFlight, Typed, TypeOK
    <2>4. NotHeldWhenIdle'
      BY <2>1, <2>3 DEF Real, NotHeldWhenIdle, Typed, TypeOK
    <2>5. SnapIsReal'
      BY <2>1, <2>3 DEF Real, SnapIsReal
    <2> QED BY <2>2, <2>4, <2>5 DEF Real
  <1>8. ASSUME NEW c \in Commands, NEW refusal \in {"auth", "gone"}, FallBack(c, refusal)
        PROVE  Real'
    BY <1>8
    DEF FallBack, FallsBack, Real, StoredIsReal, SnapIsReal, ReadingsAreReal,
        NotHeldWhenIdle, InFlight, Typed, TypeOK
  <1>9. ASSUME NEW c \in Commands, Command(c)
        PROVE  Real'
    <2>1. LockTimesOut(c) \/ DispatchRefused(c) \/ UnclearFailure(c)
            \/ (\E r \in {"auth", "gone"} : Refuse(c, r))
          => /\ \E how \in Refused : Fail(c, how)
             /\ phase[c] \in {"queued"} \cup InFlight
      BY DEF LockTimesOut, DispatchRefused, UnclearFailure, Refuse, Refused
    <2> QED BY <1>5, <1>6, <1>7, <1>8, <1>9, <2>1 DEF Command
  <1> QED BY <1>1, <1>2, <1>3, <1>4, <1>9, StepKinds

\* Unless a car's turn awaits, and with commands that never set the same field,
\* self.vehicles never keeps a value nobody vouches for. Once two commands share a field, the
\* revert of the second can bring back the value of a first that never ran.
THEOREM PipelineNoPhantom == ASSUME ~TurnAwaits, Disjoint PROVE Spec => []NoPhantom
  <1>1. Init => Real
    BY PipelineAssumption
    DEF Init, Real, StoredIsReal, SnapIsReal, ReadingsAreReal, NotHeldWhenIdle, InFlight, Channel
  <1>2. Real => NoPhantom
    BY DEF Real, StoredIsReal, NoPhantom, Vouched
  <1> QED BY <1>1, <1>2, RealStep, TypeInit, TypeStep, PTL DEF Spec
=============================================================================
