---------------------------- MODULE RequestLimit ----------------------------
(***************************************************************************)
(* The companion channel's pause: an app that shows the car's request      *)
(* limit pauses commands for twelve hours, over restarts. Only a pause for *)
(* the app's own power-budget alert may be probed, by a sync tap, and once *)
(* per gap. New car data, a new trip, an accepted sync or the user end it. *)
(*                                                                         *)
(* A deadline is what is left of it in ticks, and a time its age, counted  *)
(* as far as it matters; only the order of the three delays does. The app, *)
(* the car and its owner are external: an alert shows at once, later, or   *)
(* because the owner used the app.                                         *)
(***************************************************************************)
EXTENDS Integers

CONSTANTS
    WriteGap,     \* _WRITE_MIN_INTERVAL_S
    ProbeGap,     \* _LIMIT_PROBE_GAP_S
    Pause,        \* _RATE_LIMIT_BACKOFF_S
    Rounding,     \* the precision of the app's "synchronised ... ago"
    MaxTrips      \* bound: trips of the car

ASSUME LimitAssumption ==
    /\ WriteGap \in Nat \ {0} /\ ProbeGap \in Nat /\ Pause \in Nat
    /\ WriteGap < ProbeGap /\ ProbeGap < Pause
    /\ Rounding \in Nat /\ MaxTrips \in Nat

None == -1
Alerts == {"budget", "backend"}

VARIABLES
    pause,      \* what is left of _rate_limited_until
    kind,       \* _limit_kind
    probe,      \* what is left of the gap after _limit_probe_at
    gap,        \* what is left of the gap after _last_write_at
    baseline,   \* _pause_trip_tile
    savedPause, savedGap,    \* the same deadlines in the entry's data
    entry,      \* "up", "closing" while close() waits for the walk, "down"
    walk,       \* who drives the app: "none", "read", "details", "command", "sync"
    unsaved,    \* a read whose walk ended has not persisted yet
    late,       \* a caller of an unloaded entry has still to persist
    alert,      \* the limit alert on the app's screen, or "none"
    trips,      \* the car's trips
    dataAge,    \* since the car last sent data
    barred,     \* history: what is left of a pause that no probe may touch
    sinceAlert, \* history: since an alert was last seen
    sinceTap    \* history: since the last tap whose stamp no crash lost

channelVars == <<pause, kind, probe, gap, baseline>>
savedVars   == <<savedPause, savedGap>>
entryVars   == <<entry, walk, unsaved, late>>
carVars     == <<trips, dataAge>>
seenVars    == <<barred, sinceAlert>>
vars == <<channelVars, savedVars, entryVars, alert, carVars, seenVars, sinceTap>>

Init ==
    /\ pause = 0 /\ kind = "none" /\ probe = 0 /\ gap = 0 /\ baseline = None
    /\ savedPause = 0 /\ savedGap = 0
    /\ entry = "up" /\ walk = "none" /\ unsaved = FALSE /\ late = FALSE
    /\ alert = "none" /\ trips = 0 /\ dataAge = Pause
    /\ barred = 0 /\ sinceAlert = ProbeGap /\ sinceTap = ProbeGap

Limited == pause > 0
MayProbe == kind = "budget" /\ probe = 0

-----------------------------------------------------------------------------
(* What the steps of a walk do to the pause *)

\* A mutant: the newest alert decides the kind.
TripSoftening ==
    /\ kind' = alert
    /\ probe' = ProbeGap /\ pause' = Pause
    /\ barred' = IF alert = "backend" \/ barred > 0 THEN Pause ELSE 0
    /\ sinceAlert' = 0
    /\ UNCHANGED baseline

\* A mutant: the pause is added to what is left of it.
TripExtending ==
    /\ kind' = IF Limited /\ alert = "budget" THEN kind ELSE alert
    /\ probe' = ProbeGap /\ pause' = pause + Pause
    /\ barred' = IF alert = "backend" \/ barred > 0 THEN Pause ELSE 0
    /\ sinceAlert' = 0
    /\ UNCHANGED baseline

\* _trip_rate_limit: a power-budget alert never softens a pause that runs for
\* another reason.
Trip ==
    /\ kind' = IF Limited /\ alert = "budget" THEN kind ELSE alert
    /\ probe' = ProbeGap /\ pause' = Pause
    /\ barred' = IF alert = "backend" \/ barred > 0 THEN Pause ELSE 0
    /\ sinceAlert' = 0
    /\ UNCHANGED baseline

\* _lift_pause
Lift ==
    /\ pause' = 0 /\ kind' = "none" /\ baseline' = None
    /\ barred' = 0
    /\ UNCHANGED <<probe, sinceAlert>>

\* A tap that asks the car for something is stamped before it is made.
Tap == gap' = WriteGap /\ sinceTap' = 0

\* _persist_companion_rate_limit. What the run restored or stamped is stored.
Persist == savedPause' = pause' /\ savedGap' = gap'

-----------------------------------------------------------------------------
(* Reads *)

ReadBegins ==
    /\ entry = "up" /\ walk = "none" /\ ~unsaved
    /\ walk' = "read"
    /\ UNCHANGED <<channelVars, savedVars, entry, unsaved, late, alert, carVars, seenVars, sinceTap>>

\* _close_dialogs: the alert trips the pause before BACK closes it. One that
\* does not close ends the read.
ReadSeesAlert ==
    /\ walk = "read" /\ alert # "none"
    /\ Trip
    /\ \/ alert' = "none" /\ UNCHANGED <<walk, unsaved>>
       \/ walk' = "none" /\ unsaved' = TRUE /\ UNCHANGED alert
    /\ UNCHANGED <<gap, savedVars, entry, late, carVars, sinceTap>>

\* _lift_pause_on_new_car_data: the earliest time the line can mean lies after
\* the pause began.
NewCarData(age) == Limited /\ age < Pause - pause

\* _lift_pause_on_new_trip: the first tile of a pause is what later ones are
\* compared with.
NewTrip(tile) == Limited /\ tile # None /\ baseline # None /\ tile # baseline

NoteTile(tile) ==
    /\ baseline' = IF ~Limited THEN None
                   ELSE IF baseline = None THEN tile ELSE baseline
    /\ UNCHANGED <<pause, kind, probe, seenVars>>

\* The line and the tile may each be missing: an old age, a tile of None.
ReadOverview ==
    /\ walk = "read" /\ alert = "none"
    /\ walk' = "details"
    /\ \E age \in dataAge..(dataAge + Rounding) \cup {Pause}, tile \in {None, trips} :
          IF NewCarData(age) \/ NewTrip(tile) THEN Lift ELSE NoteTile(tile)
    /\ UNCHANGED <<gap, savedVars, entry, unsaved, late, alert, carVars, sinceTap>>

\* The detail walks and the way back; an alert they meet trips the pause, and
\* the walk back closes it.
ReadDetails ==
    /\ walk = "details"
    /\ walk' = "none" /\ unsaved' = TRUE
    /\ alert' = "none"
    /\ IF alert # "none" THEN Trip ELSE UNCHANGED <<pause, kind, probe, baseline, seenVars>>
    /\ UNCHANGED <<gap, savedVars, entry, late, carVars, sinceTap>>

\* The phone is lost: the screen is left as it is.
ReadFails ==
    /\ walk \in {"read", "details"}
    /\ walk' = "none" /\ unsaved' = TRUE
    /\ UNCHANGED <<channelVars, savedVars, entry, late, alert, carVars, seenVars, sinceTap>>

\* The poll or the refresh that the read belongs to gets to its end.
ReadPersists ==
    /\ unsaved
    /\ unsaved' = FALSE
    /\ UNCHANGED channelVars /\ Persist
    /\ UNCHANGED <<entry, walk, late, alert, carVars, seenVars, sinceTap>>

-----------------------------------------------------------------------------
(* Commands *)

MayAsk == entry = "up" /\ walk = "none" /\ (Limited => MayProbe)

\* _command_gate: under a pause or within the gap nothing is tapped.
Refused ==
    /\ entry = "up" /\ walk = "none"
    /\ Limited \/ gap > 0
    /\ UNCHANGED channelVars /\ Persist
    /\ UNCHANGED <<entryVars, alert, carVars, seenVars, sinceTap>>

\* An alert is up, of an earlier request or of the owner's: the gate leaves it.
\* A sync gets here with one that does not close.
GateSeesAlert ==
    /\ MayAsk /\ gap = 0
    /\ alert # "none" /\ Trip
    /\ UNCHANGED gap /\ Persist
    /\ UNCHANGED <<entryVars, alert, carVars, sinceTap>>

\* do_action and the settings commands, up to the tap.
Command ==
    /\ MayAsk /\ ~Limited /\ gap = 0
    /\ alert = "none"
    /\ walk' = "command" /\ Tap
    /\ UNCHANGED <<pause, kind, probe, baseline, savedVars, entry, unsaved, late, alert,
                   carVars, seenVars>>

\* The look after the tap, and the way back: an alert fails the command. A
\* look that fails leaves it there.
CommandEnds ==
    /\ walk = "command"
    /\ walk' = "none"
    /\ \/ alert # "none" /\ Trip /\ alert' = "none"
       \/ UNCHANGED <<pause, kind, probe, baseline, seenVars, alert>>
    /\ UNCHANGED gap /\ Persist
    /\ UNCHANGED <<entry, unsaved, late, carVars, sinceTap>>

\* A mutant: a probe counts only once the app answered it.
NoteProbeUncounted == UNCHANGED probe

\* A probe is counted before anything else can refuse it.
NoteProbe == probe' = IF Limited THEN ProbeGap ELSE probe

\* sync_vehicle up to its tap. An alert of an earlier request is closed and not
\* taken for an answer; without the button nothing is tapped.
Sync ==
    /\ MayAsk /\ NoteProbe
    /\ \/ gap = 0 /\ walk' = "sync" /\ Tap /\ alert' = "none" /\ UNCHANGED savedVars
       \/ /\ alert' \in (IF gap = 0 THEN {"none", alert} ELSE {alert})
          /\ UNCHANGED <<walk, pause, gap, sinceTap>> /\ Persist
    /\ UNCHANGED <<pause, kind, baseline, entry, unsaved, late, carVars, seenVars>>

\* Refused by an alert; or taken, which ends the pause; or neither is known.
SyncEnds ==
    /\ walk = "sync"
    /\ walk' = "none"
    /\ \/ alert # "none" /\ Trip /\ alert' = "none"
       \/ /\ alert = "none"
          /\ pause' = 0 /\ kind' = "none" /\ barred' = 0
          /\ UNCHANGED <<probe, baseline, sinceAlert, alert>>
       \/ UNCHANGED <<pause, kind, probe, baseline, seenVars, alert>>
    /\ UNCHANGED gap /\ Persist
    /\ UNCHANGED <<entry, unsaved, late, carVars, sinceTap>>

\* async_reset_companion_cooldown: it takes no lock.
Reset ==
    /\ entry = "up"
    /\ pause' = 0 /\ kind' = "none" /\ barred' = 0
    /\ UNCHANGED <<probe, gap, baseline, sinceAlert>> /\ Persist
    /\ UNCHANGED <<entryVars, alert, carVars, sinceTap>>

-----------------------------------------------------------------------------
(* Unload, crash and setup *)

\* The channel is gone: nothing is known but what the entry stored.
Forget ==
    /\ pause' = 0 /\ kind' = "none" /\ probe' = 0 /\ gap' = 0 /\ baseline' = None
    /\ barred' = 0
    /\ entry' = "down" /\ walk' = "none" /\ unsaved' = FALSE

UnloadBegins ==
    /\ entry = "up"
    /\ entry' = "closing"
    /\ UNCHANGED <<channelVars, savedVars, walk, unsaved, late, alert, carVars, seenVars, sinceTap>>

\* No walk is left and the client is dropped. The poll is cancelled; a refresh
\* under way, or a command that waited for a lock, still has its end to run.
Unloads ==
    /\ entry = "closing" /\ walk = "none"
    /\ Forget
    /\ late' \in {TRUE, late}
    /\ UNCHANGED <<savedVars, alert, carVars, sinceAlert, sinceTap>>

\* The stamp of a tap that nobody stored is lost with the channel.
LoseStamp == sinceTap' = IF savedGap < gap THEN ProbeGap ELSE sinceTap

\* close() waited a minute: the connection is closed under the walk, whose
\* caller comes to its end with no client left.
CloseGivesUp ==
    /\ entry = "closing" /\ walk # "none"
    /\ Forget /\ LoseStamp
    /\ late' \in (IF walk \in {"command", "sync"} THEN {TRUE} ELSE {TRUE, late})
    /\ UNCHANGED <<savedVars, alert, carVars, sinceAlert>>

Crash ==
    /\ entry # "down" \/ late
    /\ Forget /\ LoseStamp
    /\ late' = FALSE
    /\ UNCHANGED <<savedVars, alert, carVars, sinceAlert>>

\* A mutant: a client that is gone has sent nothing, and that is stored.
LatePersistsAll ==
    /\ late
    /\ late' = FALSE
    /\ savedPause' = 0 /\ savedGap' = 0
    /\ UNCHANGED <<channelVars, entry, walk, unsaved, alert, carVars, seenVars, sinceTap>>

\* _persist_companion_rate_limit without a client: no pause is what it stores.
LatePersists ==
    /\ late
    /\ late' = FALSE
    /\ savedPause' = 0
    /\ UNCHANGED <<channelVars, savedGap, entry, walk, unsaved, alert, carVars, seenVars, sinceTap>>

\* async_setup: restore_rate_limit and restore_last_write.
Setup ==
    /\ entry = "down"
    /\ entry' = "up"
    /\ pause' = savedPause /\ barred' = savedPause
    /\ gap' = savedGap
    /\ UNCHANGED <<kind, probe, baseline, savedVars, walk, unsaved, late, alert, carVars,
                   sinceAlert, sinceTap>>

-----------------------------------------------------------------------------
(* The car, its owner and the app *)

Less(left) == IF left = 0 THEN 0 ELSE left - 1
More(age, cap) == IF age < cap THEN age + 1 ELSE age

Tick ==
    /\ pause' = Less(pause) /\ barred' = Less(barred)
    /\ probe' = Less(probe) /\ gap' = Less(gap)
    /\ savedPause' = Less(savedPause) /\ savedGap' = Less(savedGap)
    /\ dataAge' = More(dataAge, Pause)
    /\ sinceAlert' = More(sinceAlert, ProbeGap) /\ sinceTap' = More(sinceTap, ProbeGap)
    /\ UNCHANGED <<kind, baseline, entryVars, alert, trips>>

AlertShows ==
    /\ alert = "none"
    /\ alert' \in Alerts
    /\ UNCHANGED <<channelVars, savedVars, entryVars, carVars, seenVars, sinceTap>>

CarSends ==
    /\ dataAge' = 0
    /\ UNCHANGED <<channelVars, savedVars, entryVars, alert, trips, seenVars, sinceTap>>

CarDrives ==
    /\ trips < MaxTrips
    /\ trips' = trips + 1 /\ dataAge' = 0
    /\ UNCHANGED <<channelVars, savedVars, entryVars, alert, seenVars, sinceTap>>

Read == ReadBegins \/ ReadSeesAlert \/ ReadOverview \/ ReadDetails \/ ReadFails \/ ReadPersists
Ask  == Refused \/ GateSeesAlert \/ Command \/ CommandEnds \/ Sync \/ SyncEnds \/ Reset
Life == UnloadBegins \/ Unloads \/ CloseGivesUp \/ Crash \/ LatePersists \/ Setup
World == Tick \/ AlertShows \/ CarSends \/ CarDrives

Next == Read \/ Ask \/ Life \/ World

Spec == Init /\ [][Next]_vars

-----------------------------------------------------------------------------
(* Properties *)

\* Types and the ranges of the deadlines.
TypeOK ==
    /\ pause \in 0..Pause /\ savedPause \in 0..Pause /\ barred \in 0..Pause
    /\ probe \in 0..ProbeGap /\ gap \in 0..WriteGap /\ savedGap \in 0..WriteGap
    /\ kind \in Alerts \cup {"none"} /\ alert \in Alerts \cup {"none"}
    /\ baseline \in 0..MaxTrips \cup {None} /\ trips \in 0..MaxTrips
    /\ entry \in {"up", "closing", "down"}
    /\ walk \in {"none", "read", "details", "command", "sync"}
    /\ unsaved \in BOOLEAN /\ late \in BOOLEAN
    /\ dataAge \in 0..Pause
    /\ sinceAlert \in 0..ProbeGap /\ sinceTap \in 0..ProbeGap

Taps == walk = "none" /\ walk' \in {"command", "sync"}

\* After a backend alert the tap is a request that would extend the lockout:
\* none is made for the length of the pause, whatever other alerts are seen and
\* however often it is restored, unless the car's news, an accepted sync or the
\* user ended it.
PauseIsAbsolute == [][Taps => barred = 0]_vars

\* A power-budget pause is tapped through by the sync alone, one gap after the
\* last tap and one gap after the last alert.
ProbesAreRare ==
    [][Taps /\ Limited => walk' = "sync" /\ sinceTap = ProbeGap /\ sinceAlert = ProbeGap]_vars

\* Taps stay a minute apart, also over a reload: only a crash or a close that
\* gave up waiting can lose the stamp.
TapsApart == [][Taps => sinceTap >= WriteGap]_vars

\* "So an account lockout is not cleared just by restarting HA": while no entry
\* is set up, nothing but time takes the stored pause away.
RestartKeepsThePause ==
    [][entry = "down" => savedPause' >= Less(savedPause)]_vars
=============================================================================
