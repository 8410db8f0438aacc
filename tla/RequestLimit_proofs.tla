------------------------ MODULE RequestLimit_proofs ------------------------
(***************************************************************************)
(* Theorems of RequestLimit, for all delays that LimitAssumption orders,   *)
(* any precision of the app's clock and any number of trips.               *)
(***************************************************************************)
EXTENDS RequestLimit, TLAPS

-----------------------------------------------------------------------------
(* Types *)

Flags == unsaved \in BOOLEAN /\ late \in BOOLEAN

Deadlines ==
    /\ pause \in 0..Pause /\ savedPause \in 0..Pause /\ barred \in 0..Pause
    /\ probe \in 0..ProbeGap /\ gap \in 0..WriteGap /\ savedGap \in 0..WriteGap
    /\ sinceAlert \in 0..ProbeGap /\ sinceTap \in 0..ProbeGap /\ dataAge \in 0..Pause

Places ==
    /\ kind \in Alerts \cup {"none"} /\ alert \in Alerts \cup {"none"}
    /\ baseline \in 0..MaxTrips \cup {None} /\ trips \in 0..MaxTrips
    /\ entry \in {"up", "closing", "down"}
    /\ walk \in {"none", "read", "details", "command", "sync"}

LEMMA Parts == TypeOK <=> Flags /\ Deadlines /\ Places
  BY DEF TypeOK, Flags, Deadlines, Places

LEMMA PartsNext == TypeOK' <=> Flags' /\ Deadlines' /\ Places'
  BY DEF TypeOK, Flags, Deadlines, Places

\* One tick takes deadlines down to zero and ages up to where they are cut.
LEMMA TickBounds ==
  ASSUME NEW n \in Nat, NEW left \in 0..n
  PROVE  Less(left) \in 0..n /\ More(left, n) \in 0..n
  BY DEF Less, More

LEMMA TripType ==
  ASSUME Deadlines, Places, alert # "none", Trip
  PROVE  /\ pause' \in 0..Pause /\ probe' \in 0..ProbeGap /\ barred' \in 0..Pause
         /\ sinceAlert' \in 0..ProbeGap /\ kind' \in Alerts \cup {"none"}
         /\ baseline' \in 0..MaxTrips \cup {None}
  BY LimitAssumption DEF Deadlines, Places, Trip

LEMMA ReadType ==
  ASSUME Flags, Deadlines, Places, Read PROVE Flags' /\ Deadlines' /\ Places'
<1> USE LimitAssumption DEF channelVars, savedVars, entryVars, carVars, seenVars
<1>1. CASE ReadBegins
  BY <1>1 DEF ReadBegins, Flags, Deadlines, Places
<1>2. CASE ReadSeesAlert
  <2>1. Flags'
    BY <1>2, Zenon DEF ReadSeesAlert, Flags
  <2> QED BY <1>2, <2>1, TripType DEF ReadSeesAlert, Deadlines, Places
<1>3. CASE ReadOverview
  <2>1. PICK tile \in {None, trips} : Lift \/ NoteTile(tile)
    BY <1>3 DEF ReadOverview
  <2>2. Flags'
    BY <1>3, Zenon DEF ReadOverview, Flags
  <2>3. /\ UNCHANGED <<probe, sinceAlert>> /\ pause' \in 0..Pause /\ barred' \in 0..Pause
        /\ kind' \in Alerts \cup {"none"} /\ baseline' \in 0..MaxTrips \cup {None}
    BY <2>1 DEF Lift, NoteTile, Deadlines, Places
  <2> QED BY <1>3, <2>2, <2>3 DEF ReadOverview, Deadlines, Places
<1>4. CASE ReadDetails
  <2>1. Flags'
    BY <1>4, Zenon DEF ReadDetails, Flags
  <2> QED BY <1>4, <2>1, TripType DEF ReadDetails, Deadlines, Places
<1>5. CASE ReadFails
  BY <1>5 DEF ReadFails, Flags, Deadlines, Places
<1>6. CASE ReadPersists
  BY <1>6 DEF ReadPersists, Persist, Flags, Deadlines, Places
<1> QED BY <1>1, <1>2, <1>3, <1>4, <1>5, <1>6 DEF Read

LEMMA AskType ==
  ASSUME Flags, Deadlines, Places, Ask PROVE Flags' /\ Deadlines' /\ Places'
<1> USE LimitAssumption DEF channelVars, savedVars, entryVars, carVars, seenVars, Persist, Tap
<1>1. CASE Refused
  BY <1>1 DEF Refused, Flags, Deadlines, Places
<1>2. CASE GateSeesAlert
  BY <1>2, TripType DEF GateSeesAlert, Flags, Deadlines, Places
<1>3. CASE Command
  BY <1>3 DEF Command, Flags, Deadlines, Places
<1>4. CASE CommandEnds
  <2>1. Flags'
    BY <1>4, Zenon DEF CommandEnds, Flags
  <2> QED BY <1>4, <2>1, TripType DEF CommandEnds, Deadlines, Places
<1>5. CASE Sync
  <2>1. Flags'
    BY <1>5, Zenon DEF Sync, Flags
  <2> QED BY <1>5, <2>1 DEF Sync, NoteProbe, Deadlines, Places
<1>6. CASE SyncEnds
  <2>1. Flags'
    BY <1>6, Zenon DEF SyncEnds, Flags
  <2> QED BY <1>6, <2>1, TripType DEF SyncEnds, Deadlines, Places
<1>7. CASE Reset
  BY <1>7 DEF Reset, Flags, Deadlines, Places
<1> QED BY <1>1, <1>2, <1>3, <1>4, <1>5, <1>6, <1>7 DEF Ask

LEMMA LifeType ==
  ASSUME Flags, Deadlines, Places, Life PROVE Flags' /\ Deadlines' /\ Places'
<1> USE LimitAssumption DEF channelVars, savedVars, entryVars, carVars, seenVars
<1>1. CASE UnloadBegins
  BY <1>1 DEF UnloadBegins, Flags, Deadlines, Places
<1>2. CASE Unloads
  <2>1. Flags'
    BY <1>2, Zenon DEF Unloads, Forget, Flags
  <2> QED BY <1>2, <2>1 DEF Unloads, Forget, Deadlines, Places
<1>3. CASE CloseGivesUp
  <2>1. Flags'
    BY <1>3, Zenon DEF CloseGivesUp, Forget, Flags
  <2> QED BY <1>3, <2>1 DEF CloseGivesUp, Forget, LoseStamp, Deadlines, Places
<1>4. CASE Crash
  <2>1. Flags'
    BY <1>4, Zenon DEF Crash, Forget, Flags
  <2> QED BY <1>4, <2>1 DEF Crash, Forget, LoseStamp, Deadlines, Places
<1>5. CASE LatePersists
  <2>1. Flags'
    BY <1>5, Zenon DEF LatePersists, Flags
  <2> QED BY <1>5, <2>1 DEF LatePersists, Deadlines, Places
<1>6. CASE Setup
  BY <1>6 DEF Setup, Flags, Deadlines, Places
<1> QED BY <1>1, <1>2, <1>3, <1>4, <1>5, <1>6 DEF Life

LEMMA WorldType ==
  ASSUME Flags, Deadlines, Places, World PROVE Flags' /\ Deadlines' /\ Places'
<1> USE LimitAssumption DEF channelVars, savedVars, entryVars, carVars, seenVars
<1>1. CASE Tick
  <2>1. Deadlines'
    BY <1>1, TickBounds DEF Tick, Deadlines
  <2> QED BY <1>1, <2>1 DEF Tick, Flags, Places
<1>2. CASE AlertShows
  BY <1>2 DEF AlertShows, Flags, Deadlines, Places
<1>3. CASE CarSends
  BY <1>3 DEF CarSends, Flags, Deadlines, Places
<1>4. CASE CarDrives
  BY <1>4 DEF CarDrives, Flags, Deadlines, Places
<1> QED BY <1>1, <1>2, <1>3, <1>4 DEF World

LEMMA TypeStep == ASSUME TypeOK, [Next]_vars PROVE TypeOK'
<1>1. CASE UNCHANGED vars
  BY <1>1 DEF vars, channelVars, savedVars, entryVars, carVars, seenVars, TypeOK
<1> QED BY <1>1, Parts, PartsNext, ReadType, AskType, LifeType, WorldType DEF Next

LEMMA TypeInit == Init => TypeOK
<1> SUFFICES ASSUME Init PROVE TypeOK
  OBVIOUS
<1>1. Flags
  BY Zenon DEF Init, Flags
<1>2. Deadlines /\ Places
  BY LimitAssumption DEF Init, Deadlines, Places
<1> QED BY <1>1, <1>2, Parts

\* Every step keeps the types and the ranges of the deadlines.
THEOREM LimitTypeOK == Spec => []TypeOK
  BY TypeInit, TypeStep, PTL DEF Spec
-----------------------------------------------------------------------------
(* The pause *)

\* A pause that no probe may touch is the pause, and not the power budget's; an
\* entry that is not set up has none.
BarredInv ==
    /\ barred \in {0, pause}
    /\ barred > 0 => kind # "budget"
    /\ entry = "down" => pause = 0 /\ barred = 0 /\ kind = "none" /\ walk = "none"

\* What is left of the probe's gap covers the time since the last tap and the
\* last alert.
ProbeInv ==
    Limited /\ kind = "budget" =>
        probe + sinceTap >= ProbeGap /\ probe + sinceAlert >= ProbeGap

\* So does what is left of the write gap, in the channel, or in the entry's data
\* once the channel is gone. Only a command and a sync run with a stamp that
\* is not stored.
StampInv ==
    /\ entry # "down" => gap + sinceTap >= WriteGap
    /\ entry # "down" /\ walk \notin {"command", "sync"} => savedGap = gap
    /\ entry = "down" => ~unsaved /\ gap = 0 /\ savedGap + sinceTap >= WriteGap

LimitInv == TypeOK /\ BarredInv /\ ProbeInv /\ StampInv

LEMMA TripInv ==
  ASSUME TypeOK, BarredInv, alert # "none", entry # "down", entry' # "down", Trip
  PROVE  BarredInv' /\ (sinceTap' \in Nat => ProbeInv')
<1>1. BarredInv'
  BY LimitAssumption DEF Trip, BarredInv, TypeOK, Limited, Alerts
<1>2. probe' = ProbeGap /\ sinceAlert' = 0
  BY DEF Trip
<1> QED BY <1>1, <1>2, LimitAssumption DEF ProbeInv

LEMMA ReadStep == ASSUME LimitInv, Read PROVE BarredInv' /\ ProbeInv' /\ StampInv'
<1> USE LimitAssumption DEF channelVars, savedVars, entryVars, carVars, seenVars
<1>0. TypeOK /\ BarredInv /\ ProbeInv /\ StampInv
  BY DEF LimitInv
<1>1. CASE ReadBegins
  BY <1>0, <1>1 DEF ReadBegins, BarredInv, ProbeInv, StampInv, Limited
<1>2. CASE ReadSeesAlert
  <2>1. entry # "down" /\ entry' = entry /\ sinceTap' \in Nat
    BY <1>0, <1>2 DEF ReadSeesAlert, BarredInv, TypeOK
  <2>2. BarredInv' /\ ProbeInv'
    BY <1>0, <1>2, <2>1, TripInv DEF ReadSeesAlert
  <2> QED BY <1>0, <1>2, <2>1, <2>2 DEF ReadSeesAlert, StampInv
<1>3. CASE ReadOverview
  <2>1. PICK tile \in {None, trips} : Lift \/ NoteTile(tile)
    BY <1>3 DEF ReadOverview
  <2>2. BarredInv' /\ ProbeInv'
    BY <1>0, <1>3, <2>1 DEF ReadOverview, Lift, NoteTile, BarredInv, ProbeInv, Limited
  <2> QED BY <1>0, <1>3, <2>2 DEF ReadOverview, StampInv
<1>4. CASE ReadDetails
  <2>1. entry # "down" /\ entry' = entry /\ sinceTap' \in Nat
    BY <1>0, <1>4 DEF ReadDetails, BarredInv, TypeOK
  <2>2. CASE alert # "none"
    BY <1>0, <1>4, <2>1, <2>2, TripInv DEF ReadDetails, StampInv
  <2>3. CASE alert = "none"
    BY <1>0, <1>4, <2>1, <2>3 DEF ReadDetails, BarredInv, ProbeInv, StampInv, Limited
  <2> QED BY <2>2, <2>3
<1>5. CASE ReadFails
  BY <1>0, <1>5 DEF ReadFails, BarredInv, ProbeInv, StampInv, Limited
<1>6. CASE ReadPersists
  BY <1>0, <1>6 DEF ReadPersists, Persist, BarredInv, ProbeInv, StampInv, Limited
<1> QED BY <1>1, <1>2, <1>3, <1>4, <1>5, <1>6 DEF Read

LEMMA AskStep == ASSUME LimitInv, Ask PROVE BarredInv' /\ ProbeInv' /\ StampInv'
<1> USE LimitAssumption DEF channelVars, savedVars, entryVars, carVars, seenVars, Persist, Tap
<1>0. TypeOK /\ BarredInv /\ ProbeInv /\ StampInv
  BY DEF LimitInv
<1>1. CASE Refused
  BY <1>0, <1>1 DEF Refused, BarredInv, ProbeInv, StampInv, Limited
<1>2. CASE GateSeesAlert
  <2>1. entry # "down" /\ entry' = entry /\ sinceTap' \in Nat
    BY <1>0, <1>2 DEF GateSeesAlert, MayAsk, TypeOK
  <2>2. BarredInv' /\ ProbeInv'
    BY <1>0, <1>2, <2>1, TripInv DEF GateSeesAlert
  <2> QED BY <1>0, <1>2, <2>2 DEF GateSeesAlert, MayAsk, StampInv
<1>3. CASE Command
  BY <1>0, <1>3 DEF Command, MayAsk, BarredInv, ProbeInv, StampInv, Limited
<1>4. CASE CommandEnds
  <2>1. entry # "down" /\ entry' = entry /\ sinceTap' \in Nat
    BY <1>0, <1>4 DEF CommandEnds, BarredInv, TypeOK
  <2>2. BarredInv' /\ ProbeInv'
    <3>1. CASE alert # "none" /\ Trip
      BY <1>0, <2>1, <3>1, TripInv
    <3>2. CASE UNCHANGED <<pause, kind, probe, baseline, seenVars, alert>>
      BY <1>0, <1>4, <3>2 DEF CommandEnds, BarredInv, ProbeInv, Limited
    <3> QED BY <1>4, <3>1, <3>2 DEF CommandEnds
  <2> QED BY <1>0, <1>4, <2>1, <2>2 DEF CommandEnds, StampInv
<1>5. CASE Sync
  <2>1. BarredInv'
    BY <1>0, <1>5 DEF Sync, MayAsk, BarredInv, Limited
  <2>2. ProbeInv'
    BY <1>0, <1>5 DEF Sync, NoteProbe, MayProbe, TypeOK, ProbeInv, Limited
  <2>3. StampInv'
    BY <1>0, <1>5 DEF Sync, MayAsk, StampInv
  <2> QED BY <2>1, <2>2, <2>3
<1>6. CASE SyncEnds
  <2>1. entry # "down" /\ entry' = entry /\ sinceTap' \in Nat
    BY <1>0, <1>6 DEF SyncEnds, BarredInv, TypeOK
  <2>2. BarredInv' /\ ProbeInv'
    <3>1. CASE alert # "none" /\ Trip
      BY <1>0, <2>1, <3>1, TripInv
    <3>2. CASE pause' = 0 /\ kind' = "none" /\ barred' = 0
      BY <2>1, <3>2 DEF BarredInv, ProbeInv, Limited
    <3>3. CASE UNCHANGED <<pause, kind, probe, baseline, seenVars, alert>>
      BY <1>0, <1>6, <3>3 DEF SyncEnds, BarredInv, ProbeInv, Limited
    <3> QED BY <1>6, <3>1, <3>2, <3>3 DEF SyncEnds
  <2> QED BY <1>0, <1>6, <2>1, <2>2 DEF SyncEnds, StampInv
<1>7. CASE Reset
  BY <1>0, <1>7 DEF Reset, BarredInv, ProbeInv, StampInv, Limited
<1> QED BY <1>1, <1>2, <1>3, <1>4, <1>5, <1>6, <1>7 DEF Ask

LEMMA LifeStep == ASSUME LimitInv, Life PROVE BarredInv' /\ ProbeInv' /\ StampInv'
<1> USE LimitAssumption DEF channelVars, savedVars, entryVars, carVars, seenVars
<1>0. TypeOK /\ BarredInv /\ ProbeInv /\ StampInv
  BY DEF LimitInv
<1>1. CASE UnloadBegins
  BY <1>0, <1>1 DEF UnloadBegins, BarredInv, ProbeInv, StampInv, Limited
<1>2. ASSUME Forget PROVE BarredInv' /\ ProbeInv'
  BY <1>2 DEF Forget, BarredInv, ProbeInv, Limited
<1>3. CASE Unloads
  BY <1>0, <1>2, <1>3 DEF Unloads, Forget, StampInv
<1>4. ASSUME LoseStamp, Forget, UNCHANGED savedVars PROVE StampInv'
  BY <1>0, <1>4 DEF LoseStamp, Forget, StampInv, TypeOK
<1>5. CASE CloseGivesUp
  BY <1>2, <1>4, <1>5 DEF CloseGivesUp
<1>6. CASE Crash
  BY <1>2, <1>4, <1>6 DEF Crash
<1>7. CASE LatePersists
  BY <1>0, <1>7 DEF LatePersists, BarredInv, ProbeInv, StampInv, Limited
<1>8. CASE Setup
  BY <1>0, <1>8 DEF Setup, BarredInv, ProbeInv, StampInv, Limited
<1> QED BY <1>1, <1>3, <1>5, <1>6, <1>7, <1>8 DEF Life

\* A tick takes from a deadline what it adds to an age that is not yet cut.
LEMMA TickCovers ==
  ASSUME NEW left \in Nat, NEW cap \in Nat, NEW age \in 0..cap, NEW need \in Nat,
         need <= cap, left + age >= need
  PROVE  Less(left) + More(age, cap) >= need
  BY DEF Less, More

LEMMA WorldStep == ASSUME LimitInv, World PROVE BarredInv' /\ ProbeInv' /\ StampInv'
<1> USE LimitAssumption DEF channelVars, savedVars, entryVars, carVars, seenVars
<1>0. TypeOK /\ BarredInv /\ ProbeInv /\ StampInv
  BY DEF LimitInv
<1>1. CASE Tick
  <2>1. /\ probe \in Nat /\ gap \in Nat /\ savedGap \in Nat
        /\ sinceTap \in 0..ProbeGap /\ sinceAlert \in 0..ProbeGap
    BY <1>0 DEF TypeOK
  <2>2. BarredInv'
    BY <1>0, <1>1 DEF Tick, Less, BarredInv, TypeOK
  <2>3. ASSUME Limited', kind' = "budget"
        PROVE  probe' + sinceTap' >= ProbeGap /\ probe' + sinceAlert' >= ProbeGap
    <3>1. probe + sinceTap >= ProbeGap /\ probe + sinceAlert >= ProbeGap
      BY <1>0, <1>1, <2>3 DEF Tick, Less, Limited, ProbeInv, TypeOK
    <3> QED BY <1>1, <2>1, <3>1, TickCovers DEF Tick
  <2>4. StampInv'
    <3>1. entry # "down" => gap' + sinceTap' >= WriteGap
      BY <1>0, <1>1, <2>1, TickCovers DEF Tick, StampInv
    <3>2. entry = "down" => savedGap' + sinceTap' >= WriteGap
      BY <1>0, <1>1, <2>1, TickCovers DEF Tick, StampInv
    <3> QED BY <1>0, <1>1, <3>1, <3>2 DEF Tick, Less, StampInv
  <2> QED BY <2>2, <2>3, <2>4 DEF ProbeInv
<1>2. CASE AlertShows
  BY <1>0, <1>2 DEF AlertShows, BarredInv, ProbeInv, StampInv, Limited
<1>3. CASE CarSends
  BY <1>0, <1>3 DEF CarSends, BarredInv, ProbeInv, StampInv, Limited
<1>4. CASE CarDrives
  BY <1>0, <1>4 DEF CarDrives, BarredInv, ProbeInv, StampInv, Limited
<1> QED BY <1>1, <1>2, <1>3, <1>4 DEF World

LEMMA LimitStep == ASSUME LimitInv, [Next]_vars PROVE LimitInv'
<1>1. TypeOK'
  BY TypeStep DEF LimitInv
<1>2. CASE UNCHANGED vars
  BY <1>1, <1>2 DEF vars, channelVars, savedVars, entryVars, carVars, seenVars, LimitInv,
                    BarredInv, ProbeInv, StampInv, Limited
<1> QED BY <1>1, <1>2, ReadStep, AskStep, LifeStep, WorldStep DEF Next, LimitInv

LEMMA LimitInit == Init => LimitInv
  BY TypeInit, LimitAssumption DEF Init, LimitInv, BarredInv, ProbeInv, StampInv, Limited

\* What a tap needs: it is the command's or the sync's, with its gap run down.
LEMMA TapIs ==
  ASSUME LimitInv, Next, Taps
  PROVE  /\ (Command /\ ~Limited) \/ (Sync /\ walk' = "sync")
         /\ Limited => MayProbe
         /\ entry = "up" /\ gap = 0
<1>1. Command \/ Sync
  BY DEF Taps, Next, Read, Ask, Life, World, ReadBegins, ReadSeesAlert, ReadOverview,
         ReadDetails, ReadFails, ReadPersists, Refused, GateSeesAlert, CommandEnds, SyncEnds,
         Reset, UnloadBegins, Unloads, CloseGivesUp, Crash, LatePersists, Setup, Forget, Tick,
         AlertShows, CarSends, CarDrives, entryVars
<1> QED BY <1>1 DEF Taps, Command, Sync, MayAsk

\* No tap is made while a pause runs that no probe may touch.
THEOREM LimitPauseIsAbsolute == Spec => PauseIsAbsolute
<1>1. ASSUME LimitInv, [Next]_vars PROVE [Taps => barred = 0]_vars
  <2> SUFFICES ASSUME Next, Taps PROVE barred = 0
    BY <1>1
  <2>1. Limited => kind = "budget"
    BY <1>1, TapIs DEF MayProbe
  <2> QED BY <1>1, <2>1 DEF LimitInv, BarredInv, Limited, TypeOK
<1> QED BY <1>1, LimitInit, LimitStep, PTL DEF Spec, PauseIsAbsolute

\* Under the power budget's pause only a sync taps, and one gap after the last
\* tap and the last alert.
THEOREM LimitProbesAreRare == Spec => ProbesAreRare
<1>1. ASSUME LimitInv, [Next]_vars
      PROVE  [Taps /\ Limited => walk' = "sync" /\ sinceTap = ProbeGap
                                 /\ sinceAlert = ProbeGap]_vars
  <2> SUFFICES ASSUME Next, Taps, Limited
               PROVE  walk' = "sync" /\ sinceTap = ProbeGap /\ sinceAlert = ProbeGap
    BY <1>1
  <2>1. walk' = "sync" /\ kind = "budget" /\ probe = 0
    BY <1>1, TapIs DEF MayProbe
  <2> QED BY <1>1, <2>1, LimitAssumption DEF LimitInv, ProbeInv, TypeOK
<1> QED BY <1>1, LimitInit, LimitStep, PTL DEF Spec, ProbesAreRare

\* Two taps are a write gap apart over any number of reloads.
THEOREM LimitTapsApart == Spec => TapsApart
<1>1. ASSUME LimitInv, [Next]_vars PROVE [Taps => sinceTap >= WriteGap]_vars
  <2> SUFFICES ASSUME Next, Taps PROVE sinceTap >= WriteGap
    BY <1>1
  <2>1. entry = "up" /\ gap = 0
    BY <1>1, TapIs
  <2> QED BY <1>1, <2>1, LimitAssumption DEF LimitInv, StampInv, TypeOK
<1> QED BY <1>1, LimitInit, LimitStep, PTL DEF Spec, TapsApart
=============================================================================
