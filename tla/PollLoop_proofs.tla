--------------------------- MODULE PollLoop_proofs ---------------------------
(***************************************************************************)
(* Theorems of PollLoop, for any cars, tolerance and window, with what     *)
(* each assumes about the instance.                                        *)
(***************************************************************************)
EXTENDS PollLoop, TLAPS

-----------------------------------------------------------------------------
(* Types *)

\* TypeOK but for the end of authFails, which rests on what stops the loop:
\* flags and counters, sets, per-car functions, the disk.
FlagsTyped ==
    /\ loop \in Busy \cup {"off", "sleeping", "ended"}
    /\ started \in BOOLEAN /\ reauth \in BOOLEAN
    /\ success \in BOOLEAN /\ saving \in BOOLEAN
    /\ authFails \in Nat /\ deadPolls \in 0..2

SetsTyped ==
    /\ known \subseteq Cars /\ polled \subseteq Cars /\ served \subseteq Cars
    /\ todo \subseteq Cars /\ manual \subseteq Cars /\ shown \subseteq Cars
    /\ account \subseteq Cars /\ device \subseteq Cars /\ disabled \subseteq Cars

CarsTyped ==
    /\ dataAge \in [Cars -> Ages] /\ fresh \in [Cars -> Ages]
    /\ failures \in [Cars -> 0..Tolerance]
    /\ lastGood \in [Cars -> Ages \cup {Never}]

Files  == [cars : SUBSET Cars, saved : Ages, ages : [Cars -> Ages]]
Ghosts == [cars : SUBSET Cars, ages : [Cars -> Ages], reads : SUBSET Cars]
DiskTyped == file \in Files /\ ghost \in {Never} \cup Ghosts

Typed == FlagsTyped /\ SetsTyped /\ CarsTyped /\ DiskTyped

LEMMA OlderType == \A a \in Ages : Older(a) \in Ages
  BY PollAssumption DEF Older, Ages

LEMMA ForgetType ==
  ASSUME Forget
  PROVE  /\ polled' \subseteq Cars /\ served' \subseteq Cars /\ todo' \subseteq Cars
         /\ fresh' \in [Cars -> Ages]
  BY PollAssumption DEF Forget, Ages

LEMMA FailedType ==
  ASSUME NEW vins, CarsTyped
  PROVE  Failed(vins) \in [Cars -> 0..Tolerance]
  BY PollAssumption DEF Failed, CarsTyped

LEMMA NoteAuthType ==
  ASSUME NEW dead \in BOOLEAN, FlagsTyped, NoteAuth(dead)
  PROVE  authFails' \in Nat /\ started' \in BOOLEAN /\ reauth' \in BOOLEAN
<1>1. authFails' \in Nat
  <2>1. authFails \in Nat
    BY DEF FlagsTyped
  <2> QED BY <2>1 DEF NoteAuth
<1>2. started' = started \/ started' = FALSE
  BY Zenon DEF NoteAuth
<1>3. reauth' = reauth \/ reauth' = TRUE
  BY Zenon DEF NoteAuth
<1> QED BY <1>1, <1>2, <1>3 DEF FlagsTyped

LEMMA StoreType ==
  ASSUME NEW vins, CarsTyped, Store(vins)
  PROVE  /\ dataAge' \in [Cars -> Ages] /\ saving' \in BOOLEAN
         /\ loop' \in Busy \cup {"off", "sleeping", "ended"}
  BY DEF Store, CarsTyped, Busy

LEMMA LoopOnType ==
  ASSUME LoopOn
  PROVE  Forget /\ loop' \in Busy \cup {"off", "sleeping", "ended"}
  BY DEF LoopOn

\* The loop's own steps keep the types.
LEMMA LoopStepType ==
  ASSUME Typed, LoopStep PROVE Typed'
<1> USE PollAssumption DEF pollVars, carVars, diskVars, haVars, worldVars
<1>0. FlagsTyped /\ SetsTyped /\ CarsTyped /\ DiskTyped
  BY DEF Typed
<1>1. CASE WakeUp
  <2>1. FlagsTyped' /\ CarsTyped' /\ DiskTyped'
    BY <1>0, <1>1 DEF WakeUp, FlagsTyped, CarsTyped, DiskTyped, Busy
  <2>2. SetsTyped'
    BY <1>0, <1>1 DEF WakeUp, SetsTyped, ActiveVins
  <2> QED BY <2>1, <2>2 DEF Typed
<1>2. ASSUME NEW good \in SUBSET Cars, NEW dead \in BOOLEAN, GatherReturns(good, dead)
      PROVE  Typed'
  <2>1. FlagsTyped'
    <3>1. authFails' \in Nat /\ started' \in BOOLEAN /\ reauth' \in BOOLEAN
      BY <1>0, <1>2, NoteAuthType DEF GatherReturns
    <3>2. deadPolls' \in 0..2
      BY <1>0, <1>2 DEF GatherReturns, FlagsTyped
    <3> QED BY <1>0, <1>2, <3>1, <3>2 DEF GatherReturns, FlagsTyped, Busy
  <2>2. SetsTyped' /\ DiskTyped'
    BY <1>0, <1>2 DEF GatherReturns, SetsTyped, DiskTyped
  <2>3. CarsTyped'
    BY <1>0, <1>2 DEF GatherReturns, CarsTyped, Ages
  <2> QED BY <2>1, <2>2, <2>3 DEF Typed
<1>3. ASSUME NEW v \in Cars, NEW now \in BOOLEAN, Settle(v, now)
      PROVE  Typed'
  <2>1. /\ dataAge' \in [Cars -> Ages] /\ saving' \in BOOLEAN
        /\ loop' \in Busy \cup {"off", "sleeping", "ended"}
    <3>1. CASE Store(polled \ {v})
      BY <1>0, <3>1, StoreType
    <3>2. CASE UNCHANGED <<dataAge, saving, loop>>
      BY <1>0, <3>2 DEF FlagsTyped, CarsTyped
    <3> QED BY <1>3, <3>1, <3>2 DEF Settle
  <2>2. fresh' \in [Cars -> Ages]
    <3>1. /\ fresh \in [Cars -> Ages] /\ dataAge[v] \in Ages /\ fresh[v] \in Ages
          /\ 0 \in Ages
      BY <1>0 DEF CarsTyped, Ages
    <3>2. fresh' = [fresh EXCEPT ![v] = IF ~now THEN dataAge[v]
                                        ELSE IF v \in served THEN fresh[v] ELSE 0]
      BY <1>3 DEF Settle
    <3> QED BY <3>1, <3>2
  <2>3. failures' \in [Cars -> 0..Tolerance] /\ lastGood' \in [Cars -> Ages \cup {Never}]
    <3>1. Failed({v}) \in [Cars -> 0..Tolerance]
      BY <1>0, FailedType
    <3>2. Book(v, now)
      BY <1>3 DEF Settle
    <3> QED BY <1>0, <3>1, <3>2 DEF Book, CarsTyped, Ages
  <2>4. SetsTyped'
    BY <1>0, <1>3 DEF Settle, SetsTyped
  <2>5. FlagsTyped' /\ CarsTyped' /\ DiskTyped'
    BY <1>0, <1>3, <2>1, <2>2, <2>3 DEF Settle, FlagsTyped, CarsTyped, DiskTyped
  <2> QED BY <2>4, <2>5 DEF Typed
<1>4. CASE StoreFresh
  <2>1. Store(polled)
    BY <1>4 DEF StoreFresh
  <2>2. FlagsTyped' /\ CarsTyped' /\ DiskTyped'
    BY <1>0, <1>4, <2>1, StoreType DEF StoreFresh, FlagsTyped, CarsTyped, DiskTyped
  <2>3. SetsTyped'
    BY <1>0, <1>4 DEF StoreFresh, SetsTyped
  <2> QED BY <2>2, <2>3 DEF Typed
<1>5. CASE Push
  <2>1. Forget /\ loop' \in Busy \cup {"off", "sleeping", "ended"}
    BY <1>5, LoopOnType DEF Push
  <2>2. FlagsTyped' /\ CarsTyped' /\ DiskTyped'
    BY <1>0, <1>5, <2>1, ForgetType DEF Push, FlagsTyped, CarsTyped, DiskTyped
  <2>3. SetsTyped'
    BY <1>0, <1>5, <2>1, ForgetType DEF Push, SetsTyped
  <2> QED BY <2>2, <2>3 DEF Typed
<1>6. CASE PortalInteraction
  <2>1. Forget /\ failures' \in [Cars -> 0..Tolerance]
    BY <1>0, <1>6, FailedType DEF PortalInteraction
  <2>2. FlagsTyped' /\ CarsTyped' /\ DiskTyped'
    BY <1>0, <1>6, <2>1, ForgetType DEF PortalInteraction, FlagsTyped, CarsTyped, DiskTyped
  <2>3. SetsTyped'
    BY <1>0, <1>6, <2>1, ForgetType DEF PortalInteraction, SetsTyped
  <2> QED BY <2>2, <2>3 DEF Typed
<1>7. CASE AuthenticationError
  <2>1. Forget
    BY <1>7 DEF AuthenticationError
  <2>2. FlagsTyped'
    <3>1. /\ started' \in BOOLEAN /\ reauth' \in BOOLEAN
          /\ success' \in BOOLEAN /\ saving' = saving
      BY <1>7, Zenon DEF AuthenticationError
    <3>2. /\ loop' \in Busy \cup {"off", "sleeping", "ended"}
          /\ authFails' = authFails /\ deadPolls' \in 0..2
      BY <1>7 DEF AuthenticationError
    <3> QED BY <1>0, <3>1, <3>2 DEF FlagsTyped
  <2>3. CarsTyped' /\ DiskTyped'
    BY <1>0, <1>7, <2>1, ForgetType DEF AuthenticationError, CarsTyped, DiskTyped
  <2>4. SetsTyped'
    BY <1>0, <1>7, <2>1, ForgetType DEF AuthenticationError, SetsTyped
  <2> QED BY <2>2, <2>3, <2>4 DEF Typed
<1>8. CASE OtherError
  <2>1. Forget /\ loop' \in Busy \cup {"off", "sleeping", "ended"}
    BY <1>8, LoopOnType DEF OtherError
  <2>2. failures' \in [Cars -> 0..Tolerance]
    BY <1>0, <1>8, FailedType DEF OtherError
  <2>3. FlagsTyped'
    BY <1>0, <1>8, <2>1 DEF OtherError, FlagsTyped
  <2>4. CarsTyped' /\ DiskTyped'
    BY <1>0, <1>8, <2>1, <2>2, ForgetType DEF OtherError, CarsTyped, DiskTyped
  <2>5. SetsTyped'
    BY <1>0, <1>8, <2>1, ForgetType DEF OtherError, SetsTyped
  <2> QED BY <2>3, <2>4, <2>5 DEF Typed
<1> QED BY <1>1, <1>2, <1>3, <1>4, <1>5, <1>6, <1>7, <1>8 DEF LoopStep

LEMMA GoneType ==
  ASSUME Typed, Gone, ghost' \in {Never} \cup Ghosts
  PROVE  Typed'
<1> USE PollAssumption DEF worldVars
<1>0. FlagsTyped /\ SetsTyped /\ CarsTyped /\ DiskTyped
  BY DEF Typed
<1>1. Forget
  BY DEF Gone
<1>2. FlagsTyped'
  <2>1. /\ started' \in BOOLEAN /\ reauth' = reauth
        /\ success' \in BOOLEAN /\ saving' \in BOOLEAN
    BY Zenon DEF Gone
  <2>2. /\ loop' \in Busy \cup {"off", "sleeping", "ended"}
        /\ authFails' \in Nat /\ deadPolls' \in 0..2
    BY DEF Gone
  <2> QED BY <1>0, <2>1, <2>2 DEF FlagsTyped
<1>3. SetsTyped' /\ DiskTyped'
  BY <1>0, <1>1, ForgetType DEF Gone, SetsTyped, DiskTyped
<1>4. CarsTyped'
  BY <1>1, ForgetType DEF Gone, CarsTyped, Ages
<1> QED BY <1>2, <1>3, <1>4 DEF Typed

LEMMA SetupType ==
  ASSUME Typed, NEW vins \in SUBSET Cars, NEW good \in SUBSET Cars,
         NEW blank \in SUBSET Cars, NEW genuine \in BOOLEAN,
         Setup(vins, genuine, good, blank)
  PROVE  Typed'
<1> USE PollAssumption DEF pollVars
<1>0. FlagsTyped /\ SetsTyped /\ CarsTyped /\ DiskTyped
  BY DEF Typed
<1>1. PICK restored \in SUBSET Cars :
         /\ known' = restored \cup good \cup blank
         /\ dataAge' = [v \in Cars |-> IF v \in good THEN 0
                                       ELSE IF v \in restored THEN file.ages[v] ELSE Window]
         /\ lastGood' = SeedLastGood(restored)
  BY <1>0 DEF Setup, DiskTyped, Files
<1>2. dataAge' \in [Cars -> Ages] /\ lastGood' \in [Cars -> Ages \cup {Never}]
  BY <1>0, <1>1 DEF SeedLastGood, DiskTyped, Files, Ages
<1>3. FlagsTyped'
  <2>1. /\ started' \in BOOLEAN /\ reauth' \in BOOLEAN
        /\ success' \in BOOLEAN /\ saving' \in BOOLEAN
    BY Zenon DEF Setup
  <2>2. /\ loop' \in Busy \cup {"off", "sleeping", "ended"}
        /\ authFails' \in Nat /\ deadPolls' \in 0..2
    BY DEF Setup
  <2> QED BY <2>1, <2>2 DEF FlagsTyped
<1>4. CarsTyped' /\ DiskTyped'
  <2>1. failures' \in [Cars -> 0..Tolerance]
    BY DEF Setup
  <2>2. UNCHANGED <<fresh, file, ghost>>
    BY DEF Setup
  <2> QED BY <1>0, <1>2, <2>1, <2>2 DEF CarsTyped, DiskTyped
<1>5. SetsTyped'
  BY <1>0, <1>1 DEF Setup, SetsTyped
<1> QED BY <1>3, <1>4, <1>5 DEF Typed

\* So does everything beside the loop.
LEMMA OtherStepType ==
  ASSUME Typed,
         \/ Load \/ RefreshStarts \/ Save \/ Unload \/ Crash \/ World
         \/ \E good \in SUBSET Cars : RefreshReturns(good) \/ GhostSaves(good)
  PROVE  Typed'
<1> USE PollAssumption DEF pollVars, carVars, diskVars, haVars, worldVars
<1>0. FlagsTyped /\ SetsTyped /\ CarsTyped /\ DiskTyped
  BY DEF Typed
<1>1. CASE Load
  BY <1>1, SetupType DEF Load
<1>2. CASE RefreshStarts
  <2>1. FlagsTyped' /\ CarsTyped' /\ DiskTyped'
    BY <1>0, <1>2 DEF RefreshStarts, FlagsTyped, CarsTyped, DiskTyped
  <2>2. SetsTyped'
    BY <1>0, <1>2 DEF RefreshStarts, SetsTyped, ActiveVins
  <2> QED BY <2>1, <2>2 DEF Typed
<1>3. ASSUME NEW good \in SUBSET Cars, RefreshReturns(good) PROVE Typed'
  <2>1. FlagsTyped' /\ SetsTyped' /\ DiskTyped'
    BY <1>0, <1>3 DEF RefreshReturns, FlagsTyped, SetsTyped, DiskTyped
  <2>2. CarsTyped'
    BY <1>0, <1>3 DEF RefreshReturns, CarsTyped, Ages
  <2> QED BY <2>1, <2>2 DEF Typed
<1>4. ASSUME NEW good \in SUBSET Cars, GhostSaves(good) PROVE Typed'
  <2>1. ghost \in Ghosts
    BY <1>0, <1>4 DEF GhostSaves, DiskTyped
  <2>2. [v \in Cars |-> IF v \in good THEN 0 ELSE ghost.ages[v]] \in [Cars -> Ages]
    BY <2>1 DEF Ghosts, Ages
  <2>3. DiskTyped'
    BY <1>4, <2>1, <2>2 DEF GhostSaves, Snapshot, DiskTyped, Ghosts, Files, Ages
  <2>4. FlagsTyped' /\ SetsTyped' /\ CarsTyped'
    BY <1>0, <1>4 DEF GhostSaves, FlagsTyped, SetsTyped, CarsTyped
  <2> QED BY <2>3, <2>4 DEF Typed
<1>5. CASE Save
  <2>1. DiskTyped'
    BY <1>0, <1>5 DEF Save, Snapshot, DiskTyped, CarsTyped, SetsTyped, Files, Ages
  <2>2. FlagsTyped' /\ SetsTyped' /\ CarsTyped'
    BY <1>0, <1>5 DEF Save, FlagsTyped, SetsTyped, CarsTyped
  <2> QED BY <2>1, <2>2 DEF Typed
<1>6. CASE Unload
  <2>1. ghost' \in {Never} \cup Ghosts
    BY <1>0, <1>6 DEF Unload, SetsTyped, CarsTyped, Ghosts
  <2> QED BY <1>6, <2>1, GoneType DEF Unload
<1>7. CASE Crash
  BY <1>7, GoneType DEF Crash
<1>8. CASE Tick
  <2>1. FlagsTyped' /\ SetsTyped'
    BY <1>0, <1>8 DEF Tick, FlagsTyped, SetsTyped
  <2>2. CarsTyped'
    BY <1>0, <1>8, OlderType DEF Tick, CarsTyped
  <2>3. file' \in Files
    BY <1>0, <1>8, OlderType DEF Tick, Snapshot, DiskTyped, Files
  <2>4. ghost' \in {Never} \cup Ghosts
    <3>1. CASE ghost = Never
      BY <1>8, <3>1 DEF Tick
    <3>2. CASE ghost /= Never
      <4>1. ghost \in Ghosts
        BY <1>0, <3>2 DEF DiskTyped
      <4>2. [v \in Cars |-> Older(ghost.ages[v])] \in [Cars -> Ages]
        BY <4>1, OlderType DEF Ghosts
      <4> QED BY <1>8, <3>2, <4>1, <4>2 DEF Tick, Ghosts
    <3> QED BY <3>1, <3>2
  <2> QED BY <2>1, <2>2, <2>3, <2>4 DEF Typed, DiskTyped
<1>9. ASSUME NEW v \in Cars, Leave(v) \/ Disable(v) \/ Enable(v) PROVE Typed'
  <2>1. FlagsTyped' /\ CarsTyped' /\ DiskTyped'
    BY <1>0, <1>9 DEF Leave, Disable, Enable, FlagsTyped, CarsTyped, DiskTyped
  <2>2. SetsTyped'
    BY <1>0, <1>9 DEF Leave, Disable, Enable, SetsTyped
  <2> QED BY <2>1, <2>2 DEF Typed
<1> QED BY <1>1, <1>2, <1>3, <1>4, <1>5, <1>6, <1>7, <1>8, <1>9 DEF World

\* Every variable keeps its type, for any cars, tolerance and window; the count
\* of failed polls is a number.
LEMMA PollTyped == Spec => []Typed
<1>1. ASSUME Init PROVE Typed
  <2>1. FlagsTyped
    <3>1. /\ started \in BOOLEAN /\ reauth \in BOOLEAN
          /\ success \in BOOLEAN /\ saving \in BOOLEAN
      BY <1>1, Zenon DEF Init
    <3>2. /\ loop \in Busy \cup {"off", "sleeping", "ended"}
          /\ authFails \in Nat /\ deadPolls \in 0..2
      BY <1>1 DEF Init
    <3> QED BY <3>1, <3>2 DEF FlagsTyped
  <2>2. SetsTyped
    BY <1>1 DEF Init, SetsTyped
  <2>3. CarsTyped
    BY <1>1, PollAssumption DEF Init, CarsTyped, Ages
  <2>4. DiskTyped
    BY <1>1, PollAssumption DEF Init, DiskTyped, Files, Nothing, Snapshot, Ages
  <2> QED BY <2>1, <2>2, <2>3, <2>4 DEF Typed
<1>2. Typed /\ [Next]_vars => Typed'
  <2>1. ASSUME Typed, Next PROVE Typed'
    BY <2>1, LoopStepType, OtherStepType DEF Next
  <2>2. ASSUME Typed, UNCHANGED vars PROVE Typed'
    <3>1. FlagsTyped' /\ SetsTyped' /\ CarsTyped' /\ DiskTyped'
      BY <2>2 DEF Typed, vars, pollVars, carVars, diskVars, haVars, worldVars,
                         FlagsTyped, SetsTyped, CarsTyped, DiskTyped
    <3> QED BY <3>1 DEF Typed
  <2> QED BY <2>1, <2>2
<1> QED BY <1>1, <1>2, PTL DEF Spec

-----------------------------------------------------------------------------
(* The loop runs as long as the entry is started *)

LEMMA LoopRunsStep ==
  ASSUME "portal" \notin Escapes, LoopRunsWhileStarted, [Next]_vars PROVE LoopRunsWhileStarted'
<1> USE DEF LoopRunsWhileStarted, pollVars, carVars, diskVars, haVars, worldVars
<1>1. CASE LoopStep
  <2>1. CASE WakeUp
    BY <2>1 DEF WakeUp
  <2>2. ASSUME NEW good \in SUBSET Cars, NEW dead \in BOOLEAN, GatherReturns(good, dead)
        PROVE  LoopRunsWhileStarted'
    BY <2>2 DEF GatherReturns
  <2>3. ASSUME NEW v \in Cars, NEW now \in BOOLEAN, Settle(v, now) PROVE LoopRunsWhileStarted'
    BY <2>3 DEF Settle, Store
  <2>4. CASE StoreFresh
    BY <2>4 DEF StoreFresh, Store
  <2>5. CASE Push
    BY <2>5 DEF Push, LoopOn
  <2>6. CASE AuthenticationError
    BY <2>6 DEF AuthenticationError
  <2>7. CASE OtherError
    BY <2>7 DEF OtherError, LoopOn
  <2> QED BY <1>1, <2>1, <2>2, <2>3, <2>4, <2>5, <2>6, <2>7 DEF LoopStep, PortalInteraction
<1>2. CASE Load
  BY <1>2 DEF Load, Setup
<1>3. CASE Unload \/ Crash
  BY <1>3 DEF Unload, Crash, Gone
<1>4. CASE UNCHANGED <<started, loop>>
  BY <1>4
<1>5. CASE RefreshStarts \/ Save \/ World
  BY <1>4, <1>5 DEF RefreshStarts, Save, World, Tick, Leave, Disable, Enable
<1>6. ASSUME NEW good \in SUBSET Cars, RefreshReturns(good) \/ GhostSaves(good)
      PROVE  LoopRunsWhileStarted'
  BY <1>4, <1>6 DEF RefreshReturns, GhostSaves
<1>7. CASE UNCHANGED vars
  BY <1>4, <1>7 DEF vars
<1> QED BY <1>1, <1>2, <1>3, <1>5, <1>6, <1>7 DEF Next

\* Whatever a poll raises, a portal interaction apart, the loop runs as long as
\* the entry is started.
THEOREM PollLoopRuns ==
  ASSUME "portal" \notin Escapes PROVE Spec => []LoopRunsWhileStarted
<1>1. Init => LoopRunsWhileStarted
  BY DEF Init, LoopRunsWhileStarted
<1>2. LoopRunsWhileStarted /\ [Next]_vars => LoopRunsWhileStarted'
  BY LoopRunsStep
<1> QED BY <1>1, <1>2, PTL DEF Spec

-----------------------------------------------------------------------------
(* Reauth exactly when two polls in a row died of authentication *)

\* While the loop may still read, nothing has stopped it; whatever asks for
\* reauth stops it; and until then the coordinator's count is the history's.
ReauthInv ==
    /\ ReauthExactlyWhenDead
    /\ ReauthGate /\ loop \in {"reading", "sleeping"} => started
    /\ ReauthGate /\ Loaded /\ started => ~reauth
    /\ ReauthGate /\ Loaded /\ ~reauth => authFails = deadPolls

LEMMA ReauthStep ==
  ASSUME Typed, ReauthInv, [Next]_vars PROVE ReauthInv'
<1> SUFFICES ASSUME ReauthGate PROVE ReauthInv'
  BY DEF ReauthInv, ReauthExactlyWhenDead
<1> USE DEF ReauthInv, ReauthExactlyWhenDead, Loaded, pollVars, carVars, diskVars,
            haVars, worldVars
<1>1. CASE LoopStep
  <2>1. CASE WakeUp
    BY <2>1 DEF WakeUp
  <2>2. ASSUME NEW good \in SUBSET Cars, NEW dead \in BOOLEAN, GatherReturns(good, dead)
        PROVE  ReauthInv'
    <3>1. /\ loop = "reading" /\ loop' = "settling" /\ started /\ ~reauth
          /\ authFails = deadPolls /\ deadPolls \in 0..2 /\ deadPolls /= 2
      BY <2>2 DEF Typed, GatherReturns, FlagsTyped
    <3>2. CASE polled = {}
      BY <2>2, <3>1, <3>2 DEF GatherReturns, NoteAuth
    <3>3. CASE polled /= {} /\ ~dead
      <4>1. deadPolls' = 0 /\ authFails' = 0 /\ UNCHANGED <<reauth, started>>
        BY <2>2, <3>3 DEF GatherReturns, NoteAuth
      <4> QED BY <3>1, <4>1
    <3>4. CASE polled /= {} /\ dead
      <4>1. deadPolls' = deadPolls + 1 /\ authFails' = authFails + 1
        BY <2>2, <3>1, <3>4 DEF GatherReturns, NoteAuth
      <4>2. CASE authFails' >= 2
        <5>1. reauth' /\ ~started'
          BY <2>2, <3>4, <4>2 DEF GatherReturns, NoteAuth
        <5>2. deadPolls' = 2
          BY <3>1, <4>1, <4>2
        <5> QED BY <3>1, <5>1, <5>2
      <4>3. CASE ~(authFails' >= 2)
        <5>1. UNCHANGED <<reauth, started>>
          BY <2>2, <3>4, <4>3 DEF GatherReturns, NoteAuth
        <5>2. deadPolls' /= 2
          BY <3>1, <4>1, <4>3
        <5> QED BY <3>1, <4>1, <5>1, <5>2
      <4> QED BY <4>2, <4>3
    <3> QED BY <3>2, <3>3, <3>4
  <2>3. ASSUME NEW v \in Cars, NEW now \in BOOLEAN, Settle(v, now) PROVE ReauthInv'
    BY <2>3 DEF Settle, Store
  <2>4. CASE StoreFresh
    BY <2>4 DEF StoreFresh, Store
  <2>5. CASE Push
    BY <2>5 DEF Push, LoopOn
  <2>6. CASE PortalInteraction
    BY <2>6 DEF PortalInteraction
  <2>7. CASE AuthenticationError
    BY <2>7 DEF AuthenticationError
  <2>8. CASE OtherError
    BY <2>8 DEF OtherError, LoopOn
  <2> QED BY <1>1, <2>1, <2>2, <2>3, <2>4, <2>5, <2>6, <2>7, <2>8 DEF LoopStep
<1>2. CASE Load
  BY <1>2 DEF Load, Setup
<1>3. CASE Unload \/ Crash
  BY <1>3 DEF Unload, Crash, Gone
<1>4. CASE UNCHANGED <<started, loop, reauth, deadPolls, authFails>>
  BY <1>4
<1>5. CASE RefreshStarts \/ Save \/ World
  BY <1>4, <1>5 DEF RefreshStarts, Save, World, Tick, Leave, Disable, Enable
<1>6. ASSUME NEW good \in SUBSET Cars, RefreshReturns(good) \/ GhostSaves(good)
      PROVE  ReauthInv'
  BY <1>4, <1>6 DEF RefreshReturns, GhostSaves
<1>7. CASE UNCHANGED vars
  BY <1>4, <1>7 DEF vars
<1> QED BY <1>1, <1>2, <1>3, <1>5, <1>6, <1>7 DEF Next

\* In an entry with the gate, reauth is asked for exactly when two polls in a
\* row failed authentication for every car, or the account was refused,
\* through any errors, refreshes, reloads and crashes.
THEOREM PollReauthExactlyWhenDead == Spec => []ReauthExactlyWhenDead
<1>1. Init => ReauthInv
  BY DEF Init, ReauthInv, ReauthExactlyWhenDead, Loaded
<1>2. Typed /\ ReauthInv /\ [Next]_vars => ReauthInv'
  BY ReauthStep
<1>3. ReauthInv => ReauthExactlyWhenDead
  BY DEF ReauthInv
<1> QED BY <1>1, <1>2, <1>3, PollTyped, PTL DEF Spec

\* The count of polls in a row that failed authentication ends at two.
CountEnds == authFails \in 0..2

\* A poll that counts has found fewer than two: at two, reauth was asked for
\* and the loop has not read since.
LEMMA CountStep ==
  ASSUME ReauthInv, CountEnds, [Next]_vars PROVE CountEnds'
<1> USE DEF CountEnds
<1>1. CASE UNCHANGED authFails
  BY <1>1
<1>2. ASSUME NEW good \in SUBSET Cars, NEW dead \in BOOLEAN, GatherReturns(good, dead)
      PROVE  CountEnds'
  <2>1. CASE ~ReauthGate
    BY <1>2, <2>1 DEF GatherReturns, NoteAuth
  <2>2. CASE ReauthGate
    <3>1. loop = "reading"
      BY <1>2 DEF GatherReturns
    <3>2. authFails = deadPolls /\ deadPolls /= 2
      BY <2>2, <3>1 DEF ReauthInv, ReauthExactlyWhenDead, Loaded
    <3> QED BY <1>2, <3>2 DEF GatherReturns, NoteAuth
  <2> QED BY <2>1, <2>2
<1>3. CASE Load \/ Unload \/ Crash
  <2>1. authFails' = 0
    BY <1>3 DEF Load, Setup, Unload, Crash, Gone
  <2> QED BY <2>1
<1>4. CASE WakeUp \/ StoreFresh \/ Push \/ PortalInteraction \/ AuthenticationError
           \/ OtherError \/ RefreshStarts \/ Save \/ Tick
  <2>1. authFails' = authFails
    BY <1>4 DEF WakeUp, StoreFresh, Push, PortalInteraction, AuthenticationError,
                OtherError, RefreshStarts, Save, Tick
  <2> QED BY <1>1, <2>1
<1>5. ASSUME NEW v \in Cars, NEW now \in BOOLEAN, Settle(v, now) PROVE CountEnds'
  BY <1>1, <1>5 DEF Settle
<1>6. ASSUME NEW good \in SUBSET Cars, RefreshReturns(good) \/ GhostSaves(good)
      PROVE  CountEnds'
  BY <1>1, <1>6 DEF RefreshReturns, GhostSaves
<1>7. ASSUME NEW v \in Cars, Leave(v) \/ Disable(v) \/ Enable(v) PROVE CountEnds'
  BY <1>1, <1>7 DEF Leave, Disable, Enable
<1>8. CASE UNCHANGED vars
  BY <1>1, <1>8 DEF vars
<1> QED BY <1>2, <1>3, <1>4, <1>5, <1>6, <1>7, <1>8 DEF Next, LoopStep, World

\* Every variable keeps its type, for any cars, tolerance and window; and
\* whatever runs beside the polls, none of them is a third dead one in a row.
THEOREM PollTypeOK == Spec => []TypeOK
<1>1. Init => ReauthInv /\ CountEnds
  BY DEF Init, ReauthInv, ReauthExactlyWhenDead, Loaded, CountEnds
<1>2. Typed /\ ReauthInv /\ CountEnds /\ [Next]_vars
      => ReauthInv' /\ CountEnds'
  BY ReauthStep, CountStep
<1>3. Typed /\ CountEnds => TypeOK
  BY DEF Typed, FlagsTyped, SetsTyped, CarsTyped, DiskTyped, Files, Ghosts, TypeOK, CountEnds
<1> QED BY <1>1, <1>2, <1>3, PollTyped, PTL DEF Spec

-----------------------------------------------------------------------------
(* One failure hides nothing *)

\* What an entry that started with a snapshot keeps: whoever may still write
\* the snapshot knows every car of the account, so every car of a loaded entry
\* has the time of a last good read.
SeededInv ==
    /\ account \subseteq file.cars
    /\ ghost /= Never => account \subseteq ghost.cars
    /\ Loaded => account \subseteq known
    /\ saving => Loaded
    /\ Loaded => \A v \in known : lastGood[v] /= Never

LEMMA SeededStep ==
  ASSUME Typed, SeededInv, [Next]_vars PROVE SeededInv'
<1> USE PollAssumption DEF SeededInv, Loaded, pollVars, carVars, diskVars, haVars, worldVars
<1>0. FlagsTyped /\ SetsTyped /\ CarsTyped /\ DiskTyped
  BY DEF Typed
<1>1. CASE LoopStep
  <2>1. UNCHANGED <<account, file, ghost, known>>
    BY <1>1 DEF LoopStep, WakeUp, GatherReturns, Settle, StoreFresh, Push,
                PortalInteraction, AuthenticationError, OtherError
  <2>2. loop /= "off" /\ loop' /= "off"
    BY <1>1 DEF LoopStep, WakeUp, GatherReturns, Settle, StoreFresh, Store, Push, LoopOn,
                PortalInteraction, AuthenticationError, OtherError
  <2>3. \A v \in known : lastGood'[v] /= Never
    <3>1. CASE UNCHANGED lastGood
      BY <2>2, <3>1
    <3>2. ASSUME NEW v \in Cars, NEW now \in BOOLEAN, Book(v, now)
          PROVE  \A w \in known : lastGood'[w] /= Never
      BY <1>0, <2>2, <3>2 DEF Book, CarsTyped, SetsTyped
    <3> QED BY <1>1, <3>1, <3>2 DEF LoopStep, WakeUp, GatherReturns, Settle, StoreFresh,
                   Push, PortalInteraction, AuthenticationError, OtherError
  <2> QED BY <2>1, <2>2, <2>3
<1>2. ASSUME NEW vins \in SUBSET Cars, NEW good \in SUBSET Cars,
             NEW blank \in SUBSET Cars, NEW genuine \in BOOLEAN,
             Setup(vins, genuine, good, blank)
      PROVE  SeededInv'
  <2> DEFINE restored == IF genuine THEN file.cars \cap vins ELSE file.cars
  <2>1. account \subseteq restored /\ restored \subseteq Cars
    BY <1>0, <1>2 DEF Setup, DiskTyped, Files
  <2>2. good \subseteq account /\ blank \subseteq account \ restored
    BY <1>2 DEF Setup
  <2>3. known' = restored
    BY <1>2, <2>1, <2>2 DEF Setup
  <2>4. lastGood' = [v \in Cars |-> IF v \in restored THEN file.saved ELSE Never]
    BY <1>2 DEF Setup, SeedLastGood
  <2>5. file.saved /= Never
    BY <1>0 DEF DiskTyped, Files, Ages
  <2>6. UNCHANGED <<file, ghost, account>> /\ saving' = FALSE /\ loop' = "sleeping"
    BY <1>2 DEF Setup
  <2> QED BY <2>1, <2>3, <2>4, <2>5, <2>6
<1>3. CASE RefreshStarts
  BY <1>3 DEF RefreshStarts
<1>4. ASSUME NEW good \in SUBSET Cars, RefreshReturns(good) PROVE SeededInv'
  BY <1>4 DEF RefreshReturns
<1>5. ASSUME NEW good \in SUBSET Cars, GhostSaves(good) PROVE SeededInv'
  <2>1. file'.cars = ghost.cars
    BY <1>5 DEF GhostSaves, Snapshot
  <2> QED BY <1>5, <2>1 DEF GhostSaves
<1>6. CASE Save
  <2>1. file'.cars = known
    BY <1>6 DEF Save, Snapshot
  <2> QED BY <1>6, <2>1 DEF Save
<1>7. CASE Unload
  BY <1>7 DEF Unload, Gone
<1>8. CASE Crash
  BY <1>8 DEF Crash, Gone
<1>9. CASE Tick
  <2>1. file'.cars = file.cars
    BY <1>9 DEF Tick, Snapshot
  <2>2. ghost' /= Never => ghost /= Never /\ ghost'.cars = ghost.cars
    BY <1>0, <1>9 DEF Tick, DiskTyped, Ghosts
  <2>3. Loaded => \A v \in known : lastGood'[v] /= Never
    BY <1>0, <1>9, OlderType DEF Tick, CarsTyped, SetsTyped, Ages
  <2> QED BY <1>9, <2>1, <2>2, <2>3 DEF Tick
<1>10. ASSUME NEW v \in Cars, Leave(v) \/ Disable(v) \/ Enable(v) PROVE SeededInv'
  BY <1>10 DEF Leave, Disable, Enable
<1>11. CASE UNCHANGED vars
  BY <1>11 DEF vars
<1> QED BY <1>1, <1>2, <1>3, <1>4, <1>5, <1>6, <1>7, <1>8, <1>9, <1>10, <1>11
           DEF Next, Load, World

\* While the entry stays loaded, nothing changes which cars it knows.
LEMMA KnownStays ==
  ASSUME [Next]_vars, Loaded, Loaded' PROVE known' = known
<1> USE DEF Loaded, pollVars, carVars, diskVars, haVars, worldVars
<1>1. CASE LoopStep
  BY <1>1 DEF LoopStep, WakeUp, GatherReturns, Settle, StoreFresh, Push,
              PortalInteraction, AuthenticationError, OtherError
<1>2. CASE Load \/ Unload \/ Crash
  BY <1>2 DEF Load, Setup, Unload, Crash, Gone
<1>3. CASE RefreshStarts \/ Save \/ World
  BY <1>3 DEF RefreshStarts, Save, World, Tick, Leave, Disable, Enable
<1>4. ASSUME NEW good \in SUBSET Cars, RefreshReturns(good) \/ GhostSaves(good)
      PROVE  known' = known
  BY <1>4 DEF RefreshReturns, GhostSaves
<1>5. CASE UNCHANGED vars
  BY <1>5 DEF vars
<1> QED BY <1>1, <1>2, <1>3, <1>4, <1>5 DEF Next

\* In an entry that started with a snapshot, a car on display is hidden only by
\* Tolerance failures in a row, by its device going or by an unload.
THEOREM PollOneFailureHidesNothing ==
  ASSUME Installed PROVE Spec => OneFailureHidesNothing
<1>1. Init => SeededInv
  BY DEF Init, SeededInv, Snapshot, Loaded
<1>2. Typed /\ SeededInv /\ [Next]_vars => SeededInv'
  BY SeededStep
<1>3. Typed /\ Typed' /\ SeededInv /\ SeededInv' /\ [Next]_vars
        => [\A v \in Cars :
               Available(v) /\ ~NeverRead(v) /\ ~Available(v)'
               /\ Loaded' /\ v \in device' \ disabled' => failures'[v] = Tolerance]_vars
  <2> SUFFICES ASSUME Typed, Typed', SeededInv, SeededInv', [Next]_vars, NEW v \in Cars,
                      Available(v), ~Available(v)', Loaded', v \in device' \ disabled'
               PROVE  failures'[v] = Tolerance
    OBVIOUS
  <2>1. v \in known'
    BY KnownStays DEF Available
  <2>2. lastGood'[v] /= Never
    BY <2>1 DEF SeededInv
  <2>3. ~IsVehicleAvailable(v)'
    BY <2>1, <2>2 DEF Available
  <2>4. failures'[v] \in 0..Tolerance /\ ~(failures'[v] < Tolerance)
    BY <2>3 DEF Typed, IsVehicleAvailable, CarsTyped
  <2> QED BY <2>4, PollAssumption
<1> QED BY <1>1, <1>2, <1>3, PollTyped, PTL DEF Spec, OneFailureHidesNothing

-----------------------------------------------------------------------------
(* Past the tolerance nothing outdated is shown *)

\* A car's data is at least as young as its last good read says, except for
\* what this poll has booked and not yet stored; and what it will store is.
Young(v) == lastGood[v] /= Never => dataAge[v] <= lastGood[v]
Booked(v) == loop = "settling" /\ v \in served \ todo /\ failures[v] = 0

AgesInv ==
    /\ \A v \in Cars : Young(v) \/ Booked(v)
    /\ loop = "settling" =>
          /\ todo \subseteq polled /\ served \subseteq polled
          /\ \A v \in served \cap todo : fresh[v] = 0
          /\ \A v \in polled \ todo : lastGood[v] /= Never => fresh[v] <= lastGood[v]
    /\ ghost = Never
    /\ saving => Loaded
    /\ ~Loaded => \A v \in file.cars : file.ages[v] <= file.saved

\* What a turn does to the others of the poll, and to the car itself.
LEMMA SettleAges ==
  ASSUME Typed, AgesInv, NEW v \in Cars, NEW now \in BOOLEAN, Settle(v, now)
  PROVE  AgesInv'
<1> USE PollAssumption DEF carVars, diskVars, haVars, worldVars
<1>0. SetsTyped /\ CarsTyped /\ loop = "settling" /\ v \in todo
  BY DEF Typed, Settle
<1>1. UNCHANGED <<polled, ghost, file>> /\ todo' = todo \ {v}
  BY DEF Settle
<1>2. Young(v) /\ dataAge[v] \in Ages /\ lastGood[v] \in Ages \cup {Never}
  BY <1>0 DEF AgesInv, Booked, CarsTyped
<1>3. \A w \in Cars \ {v} : /\ failures'[w] = failures[w] /\ lastGood'[w] = lastGood[w]
                            /\ fresh'[w] = fresh[w]
  BY <1>0 DEF Settle, Book, Failed, CarsTyped
<1>4. CASE now
  <2>1. /\ failures'[v] = 0 /\ lastGood'[v] = 0 /\ fresh'[v] = 0
        /\ served' = served \cup {v} /\ UNCHANGED <<dataAge, saving, loop>>
    BY <1>0, <1>4 DEF Settle, Book, CarsTyped, AgesInv
  <2>2. \A w \in Cars : Young(w)' \/ Booked(w)'
    <3>1. Booked(v)'
      BY <1>0, <1>1, <2>1 DEF Booked
    <3>2. \A w \in Cars \ {v} : Young(w)' \/ Booked(w)'
      BY <1>0, <1>1, <1>3, <2>1 DEF AgesInv, Young, Booked
    <3> QED BY <3>1, <3>2
  <2>3. \A w \in served' \cap todo' : fresh'[w] = 0
    BY <1>0, <1>1, <1>3, <2>1 DEF AgesInv, SetsTyped
  <2>4. \A w \in polled' \ todo' : lastGood'[w] /= Never => fresh'[w] <= lastGood'[w]
    BY <1>0, <1>1, <1>3, <2>1 DEF AgesInv, SetsTyped
  <2> QED BY <1>0, <1>1, <2>1, <2>2, <2>3, <2>4 DEF AgesInv, Loaded
<1>5. CASE ~now
  <2>1. /\ lastGood' = lastGood /\ fresh'[v] = dataAge[v] /\ served' = served \ {v}
    BY <1>0, <1>5 DEF Settle, Book, CarsTyped
  <2>2. \A w \in polled \ todo' : lastGood[w] /= Never => fresh'[w] <= lastGood[w]
    BY <1>0, <1>1, <1>2, <1>3, <2>1 DEF AgesInv, Young, SetsTyped
  <2>3. CASE UNCHANGED <<dataAge, saving, loop>>
    <3>1. \A w \in Cars : Young(w)' \/ Booked(w)'
      BY <1>0, <1>1, <1>2, <1>3, <2>1, <2>3 DEF AgesInv, Young, Booked
    <3>2. \A w \in served' \cap todo' : fresh'[w] = 0
      BY <1>0, <1>1, <1>3, <2>1 DEF AgesInv, SetsTyped
    <3> QED BY <1>0, <1>1, <2>1, <2>2, <2>3, <3>1, <3>2 DEF AgesInv, Loaded
  <2>4. CASE todo' = {} /\ Store(polled \ {v})
    <3>1. \A w \in Cars : Young(w)'
      <4>1. \A w \in polled \ {v} : dataAge'[w] = fresh[w] /\ fresh'[w] = fresh[w]
        BY <1>0, <1>3, <2>4 DEF Store, SetsTyped
      <4>2. \A w \in polled \ {v} : Young(w)'
        BY <1>1, <2>1, <2>2, <2>4, <4>1 DEF Young
      <4>3. \A w \in Cars \ polled : Young(w) /\ dataAge'[w] = dataAge[w]
        BY <1>0, <2>4 DEF AgesInv, Booked, Store
      <4>4. dataAge'[v] = dataAge[v]
        BY <2>4 DEF Store
      <4> QED BY <1>2, <2>1, <4>2, <4>3, <4>4 DEF Young
    <3>2. loop' = "tailing"
      BY <2>4 DEF Store
    <3> QED BY <1>1, <3>1, <3>2 DEF AgesInv, Loaded
  <2> QED BY <1>5, <2>3, <2>4 DEF Settle
<1> QED BY <1>4, <1>5

\* Nothing but a turn moves a settling poll, and only a good one sets a time.
LEMMA AgesStep ==
  ASSUME ~Reloads, Typed, AgesInv, [Next]_vars PROVE AgesInv'
<1> USE DEF pollVars, carVars, diskVars, haVars, worldVars, Loaded
<1>0. SetsTyped /\ CarsTyped /\ DiskTyped
  BY DEF Typed
<1>1. ASSUME UNCHANGED <<dataAge, failures, lastGood, ghost, file, saving>>,
             loop /= "settling", loop' /= "settling", loop /= "off", loop' /= "off"
      PROVE  AgesInv'
  BY <1>1 DEF AgesInv, Young, Booked
<1>2. CASE WakeUp \/ Push \/ AuthenticationError
  BY <1>1, <1>2 DEF WakeUp, Push, AuthenticationError, LoopOn
<1>3. CASE PortalInteraction \/ OtherError
  <2>1. /\ UNCHANGED <<dataAge, lastGood, ghost, file, saving>>
        /\ loop \notin {"settling", "off"} /\ loop' \notin {"settling", "off"}
    BY <1>3 DEF PortalInteraction, OtherError, LoopOn
  <2> QED BY <2>1 DEF AgesInv, Young, Booked
<1>4. ASSUME NEW good \in SUBSET Cars, NEW dead \in BOOLEAN, GatherReturns(good, dead)
      PROVE  AgesInv'
  <2>1. /\ UNCHANGED <<dataAge, lastGood, ghost, file, saving, polled>>
        /\ loop = "reading" /\ loop' = "settling" /\ todo' = polled /\ served' = good
        /\ good \subseteq polled
        /\ fresh' = [v \in Cars |-> IF v \in good THEN 0 ELSE Window]
    BY <1>4 DEF GatherReturns
  <2>2. \A v \in Cars : Young(v)'
    BY <2>1 DEF AgesInv, Young, Booked
  <2> QED BY <1>0, <2>1, <2>2 DEF AgesInv
<1>5. ASSUME NEW v \in Cars, NEW now \in BOOLEAN, Settle(v, now) PROVE AgesInv'
  BY <1>5, SettleAges
<1>6. CASE StoreFresh
  <2>1. /\ loop = "settling" /\ loop' = "tailing" /\ todo = {}
        /\ UNCHANGED <<failures, lastGood, ghost, file, polled>>
        /\ dataAge' = [v \in Cars |-> IF v \in polled THEN fresh[v] ELSE dataAge[v]]
    BY <1>6 DEF StoreFresh, Store
  <2>2. \A v \in Cars : Young(v)'
    BY <2>1 DEF AgesInv, Young, Booked
  <2> QED BY <2>1, <2>2 DEF AgesInv
<1>7. ASSUME NEW vins \in SUBSET Cars, NEW good \in SUBSET Cars,
             NEW blank \in SUBSET Cars, NEW genuine \in BOOLEAN,
             Setup(vins, genuine, good, blank)
      PROVE  AgesInv'
  <2>1. PICK restored \in SUBSET file.cars :
          /\ dataAge' = [v \in Cars |-> IF v \in good THEN 0
                                        ELSE IF v \in restored THEN file.ages[v] ELSE Window]
          /\ lastGood' = [v \in Cars |-> IF v \in restored THEN file.saved ELSE Never]
    BY <1>7 DEF Setup, SeedLastGood
  <2>2. /\ \A v \in file.cars : file.ages[v] <= file.saved
        /\ file.saved \in Nat
    BY <1>0, <1>7, PollAssumption DEF Setup, AgesInv, DiskTyped, Files, Ages
  <2>3. \A v \in Cars : Young(v)'
    BY <2>1, <2>2 DEF Young
  <2>4. loop' = "sleeping" /\ UNCHANGED <<ghost, file>>
    BY <1>7 DEF Setup
  <2> QED BY <2>3, <2>4 DEF AgesInv
<1>8. CASE RefreshStarts
  BY <1>8 DEF RefreshStarts, AgesInv, Young, Booked
<1>9. ASSUME NEW good \in SUBSET Cars, RefreshReturns(good) PROVE AgesInv'
  <2>1. /\ UNCHANGED <<loop, pollVars, failures, lastGood, diskVars>>
        /\ dataAge' = [v \in Cars |-> IF v \in good THEN 0 ELSE dataAge[v]]
    BY <1>9 DEF RefreshReturns
  <2>2. \A v \in Cars : Young(v) => Young(v)'
    BY <1>0, <2>1, PollAssumption DEF Young, CarsTyped, Ages
  <2>3. \A v \in Cars : Booked(v) => Booked(v)'
    BY <2>1 DEF Booked
  <2> QED BY <2>1, <2>2, <2>3 DEF AgesInv
<1>10. ASSUME NEW good \in SUBSET Cars, GhostSaves(good) PROVE AgesInv'
  BY <1>10 DEF GhostSaves, AgesInv
<1>11. CASE Save
  BY <1>11 DEF Save, AgesInv, Young, Booked
<1>12. CASE Unload \/ Crash
  BY <1>12 DEF Unload, Crash
<1>13. CASE Tick
  <2>1. \A a, b \in Ages : a <= b => Older(a) <= Older(b)
    BY PollAssumption DEF Ages, Older
  <2>2. \A v \in Cars : Young(v)'
    <3>1. loop /= "settling"
      BY <1>13 DEF Tick
    <3>2. \A v \in Cars : Young(v)
      BY <3>1 DEF AgesInv, Booked
    <3>3. \A v \in Cars :
             /\ dataAge'[v] = Older(dataAge[v])
             /\ lastGood'[v] = IF lastGood[v] = Never THEN Never ELSE Older(lastGood[v])
      BY <1>13 DEF Tick
    <3> QED BY <1>0, <2>1, <3>2, <3>3 DEF Young, CarsTyped
  <2>3. \A v \in file.cars : file.ages[v] <= file.saved => file'.ages[v] <= file'.saved
    <3>1. /\ file'.saved = Older(file.saved)
          /\ \A v \in Cars : file'.ages[v] = Older(file.ages[v])
      BY <1>13 DEF Tick, Snapshot
    <3> QED BY <1>0, <2>1, <3>1 DEF DiskTyped, Files
  <2>4. file'.cars = file.cars
    BY <1>13 DEF Tick, Snapshot
  <2>5. /\ UNCHANGED <<loop, saving>> /\ loop /= "settling"
        /\ ghost = Never => ghost' = Never
    BY <1>13 DEF Tick
  <2> QED BY <2>2, <2>3, <2>4, <2>5 DEF AgesInv
<1>14. ASSUME NEW v \in Cars, Leave(v) \/ Disable(v) \/ Enable(v) PROVE AgesInv'
  BY <1>14 DEF Leave, Disable, Enable, AgesInv, Young, Booked
<1>15. CASE UNCHANGED vars
  BY <1>15 DEF vars, AgesInv, Young, Booked
<1> QED BY <1>2, <1>3, <1>4, <1>5, <1>6, <1>7, <1>8, <1>9, <1>10, <1>11, <1>12, <1>13,
           <1>14, <1>15 DEF Next, LoopStep, Load, World

\* Until the first reload, a car that failed too often is on display only with
\* data read within the window.
THEOREM PollNotShownPastWindow ==
  ASSUME ~Reloads PROVE Spec => []NotShownPastWindow
<1>1. Init => AgesInv
  BY PollAssumption DEF Init, AgesInv, Young, Booked, Loaded, Nothing, Snapshot
<1>2. Typed /\ AgesInv /\ [Next]_vars => AgesInv'
  BY AgesStep
<1>3. Typed /\ AgesInv => NotShownPastWindow
  <2> SUFFICES ASSUME Typed, AgesInv, NEW v \in Cars, Available(v), failures[v] = Tolerance
               PROVE  dataAge[v] < Window
    BY DEF NotShownPastWindow
  <2>1. lastGood[v] /= Never /\ lastGood[v] < Window
    BY PollAssumption DEF Available, IsVehicleAvailable
  <2>2. Young(v)
    BY PollAssumption DEF AgesInv, Booked
  <2>3. dataAge[v] \in Nat /\ lastGood[v] \in Nat
    BY <2>1, PollAssumption DEF Typed, CarsTyped, Ages
  <2> QED BY <2>1, <2>2, <2>3, PollAssumption DEF Young
<1> QED BY <1>1, <1>2, <1>3, PollTyped, PTL DEF Spec

-----------------------------------------------------------------------------
(* Data does not go back *)

\* What a settling poll will store is no older than what is there: a good read
\* is new, and a car without one keeps what it has. Without refreshes nothing
\* else writes a car's data before the store.
BackInv ==
    /\ manual = {}
    /\ loop = "settling" =>
          /\ todo \subseteq polled
          /\ \A v \in served \cap todo : fresh[v] = 0
          /\ \A v \in polled \ todo : fresh[v] <= dataAge[v]

\* A turn, which the last car's may end with the store.
LEMMA SettleKeepsData ==
  ASSUME Typed, BackInv, NEW v \in Cars, NEW now \in BOOLEAN, Settle(v, now)
  PROVE  BackInv' /\ \A w \in Cars : dataAge'[w] <= dataAge[w]
<1> USE PollAssumption DEF haVars, worldVars
<1>1. /\ SetsTyped /\ CarsTyped /\ loop = "settling" /\ v \in todo
      /\ polled' = polled /\ manual' = manual /\ todo' = todo \ {v}
      /\ served' = IF now THEN served \cup {v} ELSE served \ {v}
  BY DEF Typed, Settle
<1>2. /\ \A w \in Cars \ {v} : fresh'[w] = fresh[w]
      /\ fresh'[v] = IF now THEN 0 ELSE dataAge[v]
  BY <1>1 DEF Settle, CarsTyped, BackInv
<1>3. \A w \in Cars : dataAge[w] \in Nat /\ dataAge[w] <= dataAge[w]
  BY <1>1 DEF CarsTyped, Ages
<1>4. CASE UNCHANGED <<dataAge, saving, loop>>
  <2>1. \A w \in served' \cap todo' : fresh'[w] = 0
    BY <1>1, <1>2 DEF BackInv, SetsTyped
  <2>2. \A w \in polled' \ todo' : fresh'[w] <= dataAge'[w]
    BY <1>1, <1>2, <1>3, <1>4 DEF BackInv, SetsTyped
  <2> QED BY <1>1, <1>3, <1>4, <2>1, <2>2 DEF BackInv
<1>5. CASE todo' = {} /\ ~now /\ Store(polled \ {v})
  <2>1. \A w \in polled \ {v} : dataAge'[w] = fresh'[w] /\ fresh'[w] <= dataAge[w]
    BY <1>1, <1>2, <1>5 DEF Store, BackInv, SetsTyped
  <2>2. \A w \in Cars \ (polled \ {v}) : dataAge'[w] = dataAge[w]
    BY <1>1, <1>5 DEF Store, CarsTyped
  <2>3. \A w \in Cars : dataAge'[w] <= dataAge[w]
    BY <1>3, <2>1, <2>2
  <2> QED BY <1>1, <1>5, <2>3 DEF BackInv, Store
<1> QED BY <1>4, <1>5 DEF Settle

LEMMA BackStep ==
  ASSUME ~Refreshes, Typed, BackInv, [Next]_vars
  PROVE  /\ BackInv'
         /\ \A v \in Cars : dataAge'[v] > dataAge[v] => Tick \/ ~Loaded \/ ~Loaded'
<1> USE DEF pollVars, carVars, diskVars, haVars, worldVars
<1>0. /\ SetsTyped /\ CarsTyped
      /\ \A v \in Cars : dataAge[v] \in Nat /\ ~(dataAge[v] > dataAge[v])
  BY PollAssumption DEF Typed, CarsTyped, Ages
<1>1. ASSUME UNCHANGED <<dataAge, manual>>, loop' # "settling"
      PROVE  BackInv' /\ \A v \in Cars : ~(dataAge'[v] > dataAge[v])
  BY <1>0, <1>1 DEF BackInv
<1>2. CASE WakeUp \/ Push \/ PortalInteraction \/ AuthenticationError \/ OtherError
  BY <1>1, <1>2 DEF WakeUp, Push, PortalInteraction, AuthenticationError, OtherError, LoopOn
<1>3. ASSUME NEW good \in SUBSET Cars, NEW dead \in BOOLEAN, GatherReturns(good, dead)
      PROVE  BackInv' /\ \A v \in Cars : ~(dataAge'[v] > dataAge[v])
  BY <1>0, <1>3 DEF GatherReturns, BackInv, SetsTyped
<1>4. ASSUME NEW v \in Cars, NEW now \in BOOLEAN, Settle(v, now)
      PROVE  BackInv' /\ \A w \in Cars : ~(dataAge'[w] > dataAge[w])
  <2>1. BackInv' /\ \A w \in Cars : dataAge'[w] <= dataAge[w]
    BY <1>4, SettleKeepsData
  <2>2. \A w \in Cars : dataAge'[w] \in Nat
    <3>1. dataAge' \in [Cars -> Ages]
      BY <1>0, <1>4 DEF Settle, Store, CarsTyped
    <3> QED BY <3>1, PollAssumption DEF Ages
  <2> QED BY <1>0, <2>1, <2>2
<1>5. CASE StoreFresh
  <2>1. /\ loop = "settling" /\ loop' = "tailing" /\ todo = {} /\ manual' = manual
        /\ dataAge' = [v \in Cars |-> IF v \in polled THEN fresh[v] ELSE dataAge[v]]
    BY <1>5 DEF StoreFresh, Store
  <2>2. \A v \in Cars : ~(dataAge'[v] > dataAge[v])
    BY <1>0, <2>1, PollAssumption DEF BackInv, CarsTyped, Ages
  <2> QED BY <2>1, <2>2 DEF BackInv
<1>6. ASSUME NEW vins \in SUBSET Cars, NEW good \in SUBSET Cars,
             NEW blank \in SUBSET Cars, NEW genuine \in BOOLEAN,
             Setup(vins, genuine, good, blank)
      PROVE  BackInv' /\ ~Loaded
  BY <1>6 DEF Setup, BackInv
<1>7. CASE RefreshStarts \/ \E good \in SUBSET Cars : RefreshReturns(good)
  BY <1>7 DEF RefreshStarts, RefreshReturns, BackInv
<1>8. ASSUME NEW good \in SUBSET Cars, GhostSaves(good)
      PROVE  BackInv' /\ \A v \in Cars : ~(dataAge'[v] > dataAge[v])
  BY <1>0, <1>8 DEF GhostSaves, BackInv
<1>9. CASE Save \/ UNCHANGED vars
  BY <1>0, <1>9 DEF Save, vars, BackInv
<1>10. CASE Unload \/ Crash
  BY <1>10 DEF Unload, Crash, Gone, Loaded, BackInv, Forget
<1>11. CASE Tick
  BY <1>11 DEF Tick, BackInv
<1>12. ASSUME NEW v \in Cars, Leave(v) \/ Disable(v) \/ Enable(v)
       PROVE  BackInv' /\ \A w \in Cars : ~(dataAge'[w] > dataAge[w])
  BY <1>0, <1>12 DEF Leave, Disable, Enable, BackInv
<1> QED BY <1>2, <1>3, <1>4, <1>5, <1>6, <1>7, <1>8, <1>9, <1>10, <1>11, <1>12
        DEF Next, LoopStep, Load, World

\* As long as nobody refreshes beside the poll, no poll makes the data of a car
\* older, whichever of its cars are read, revived or left without data.
THEOREM PollDataNeverGoesBack ==
  ASSUME ~Refreshes PROVE Spec => DataNeverGoesBack
<1>1. Init => BackInv
  BY DEF Init, BackInv
<1>2. Typed /\ BackInv /\ [Next]_vars
      => BackInv' /\ [\A v \in Cars : dataAge'[v] > dataAge[v]
                                          => Tick \/ ~Loaded \/ ~Loaded']_vars
  BY BackStep
<1> QED BY <1>1, <1>2, PollTyped, PTL DEF Spec, DataNeverGoesBack
=============================================================================
