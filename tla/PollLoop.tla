------------------------------ MODULE PollLoop ------------------------------
(***************************************************************************)
(* The background poll of one config entry: setup's first reads, the loop  *)
(* with its failure bookkeeping and its exits, the manual refresh beside   *)
(* it, the snapshot that survives a restart, and what Home Assistant makes *)
(* of it: entity availability, devices and the reauth prompt.              *)
(*                                                                         *)
(* Time is counted in ticks, a fraction of _STALE_CACHE_WINDOW; an age     *)
(* stops growing at Window. How long the loop sleeps is DropSchedule's     *)
(* business: here it wakes up sooner or later.                             *)
(***************************************************************************)
EXTENDS Naturals

CONSTANTS
    Cars,
    Tolerance,    \* _FAILURE_TOLERANCE: 3
    Window,       \* _STALE_CACHE_WINDOW, in ticks
    Never,        \* no time at all
    ReauthGate,   \* a Porsche or a passwordless device-login entry
    Supplement,   \* a read-only channel is armed beside the primary
    Escapes,      \* what may reach the loop's outer handler
    Installed,    \* the entry starts with a snapshot of every car
    Reloads, Refreshes, Owner  \* which of the world's acts an instance has

ASSUME PollAssumption ==
    /\ Tolerance \in Nat \ {0} /\ Window \in Nat \ {0}
    /\ Never \notin Nat
    /\ ReauthGate \in BOOLEAN /\ Supplement \in BOOLEAN
    /\ Escapes \subseteq {"portal", "auth", "other"}
    /\ Installed \in BOOLEAN
    /\ Reloads \in BOOLEAN /\ Refreshes \in BOOLEAN /\ Owner \in BOOLEAN

VARIABLES
    loop,       \* where _poll_loop is; "off" while the entry is not loaded
    started,    \* _started
    known,      \* the keys of self.vehicles
    dataAge,    \* history: age of the read that a car's data came from
    failures,   \* vehicle_failure_count, up to Tolerance
    lastGood,   \* age of vehicle_last_good_at, or Never
    authFails,  \* _auth_fail_polls
    polled, served,         \* this poll's vins, those with new data
    todo, fresh,            \* those not yet booked, the age of what update will store
    manual,     \* vins of the manual refresh in flight
    success,    \* last_update_success
    shown,      \* the keys of coordinator.data
    file,       \* the stored snapshot
    saving,     \* a delayed save is due
    ghost,      \* what an unloaded coordinator will still save, or Never
    account,    \* cars on the account
    device, disabled,       \* devices in the registry, those the user disabled
    reauth,     \* Home Assistant shows the reauth prompt
    deadPolls   \* history

pollVars  == <<polled, served, todo, fresh>>
carVars   == <<known, dataAge, failures, lastGood>>
diskVars  == <<file, saving, ghost>>
haVars    == <<success, shown>>
worldVars == <<account, device, disabled>>
vars == <<loop, started, authFails, deadPolls, reauth, manual, pollVars, carVars,
          diskVars, haVars, worldVars>>

Ages   == 0..Window
Busy   == {"reading", "settling", "tailing"}
Loaded == loop /= "off"
Snapshot(cars, saved, ages) == [cars |-> cars, saved |-> saved, ages |-> ages]
Nothing == Snapshot({}, Window, [v \in Cars |-> Window])
Older(a) == IF a < Window THEN a + 1 ELSE Window

Init ==
    /\ loop = "off" /\ started = FALSE
    /\ known = {} /\ shown = {} /\ manual = {}
    /\ dataAge = [v \in Cars |-> Window]
    /\ failures = [v \in Cars |-> 0]
    /\ lastGood = [v \in Cars |-> Never]
    /\ authFails = 0 /\ deadPolls = 0 /\ reauth = FALSE
    /\ polled = {} /\ served = {} /\ todo = {} /\ fresh = [v \in Cars |-> Window]
    /\ success = TRUE
    /\ file = IF Installed THEN Snapshot(Cars, 0, [v \in Cars |-> 0]) ELSE Nothing
    /\ saving = FALSE /\ ghost = Never
    /\ account = Cars
    /\ device = IF Installed THEN Cars ELSE {}
    /\ disabled = {}

-----------------------------------------------------------------------------
(* Setup *)

\* A VIN whose device the user disabled is left alone.
ActiveVins(vins) == vins \ disabled

\* A mutant: the restored cars get no time of a last good read.
SeedNothing(cars) == [v \in Cars |-> Never]

\* _seed_last_good_from_snapshot: the time of the save.
SeedLastGood(cars) == [v \in Cars |-> IF v \in cars THEN file.saved ELSE Never]

\* Restore the snapshot, enumerate the account (a genuine enumeration prunes
\* the cars that left it; a fallback, the portal's or the snapshot's list,
\* does not), read every active car once. A car that neither the snapshot nor
\* this read knows does not enter self.vehicles.
Setup(vins, genuine, good, blank) ==
    LET restored == IF genuine THEN file.cars \cap vins ELSE file.cars
    IN /\ ~Loaded
       /\ vins /= {}
       /\ IF genuine THEN vins = account ELSE vins \subseteq account \cup file.cars
       /\ good \subseteq ActiveVins(vins) \cap account
       /\ blank \subseteq ((ActiveVins(vins) \cap account) \ good) \ restored
       /\ known' = restored \cup good \cup blank
       /\ dataAge' = [v \in Cars |-> IF v \in good THEN 0
                                     ELSE IF v \in restored THEN file.ages[v] ELSE Window]
       /\ lastGood' = SeedLastGood(restored)
       /\ failures' = [v \in Cars |-> 0]
       /\ loop' = "sleeping" /\ started' = TRUE
       /\ authFails' = 0 /\ deadPolls' = 0 /\ reauth' = FALSE
       /\ saving' = FALSE
       /\ success' = TRUE /\ shown' = known'
       /\ device' = device \cup known'
       /\ UNCHANGED <<manual, pollVars, file, ghost, account, disabled>>

-----------------------------------------------------------------------------
(* The loop *)

WakeUp ==
    /\ loop = "sleeping" /\ started
    /\ loop' = "reading"
    /\ polled' = ActiveVins(known)
    /\ UNCHANGED <<started, authFails, deadPolls, reauth, manual, served, todo,
                   fresh, carVars, diskVars, haVars, worldVars>>

\* A mutant: a poll in which a car answered leaves the count where it was.
NoteAuthNoReset(dead) ==
    /\ authFails' = IF dead THEN authFails + 1 ELSE authFails
    /\ IF dead /\ authFails' >= 2
       THEN started' = FALSE /\ reauth' = TRUE
       ELSE UNCHANGED <<started, reauth>>

\* A mutant: reauth is asked for, and the loop polls on.
NoteAuthKeepsOn(dead) ==
    IF ReauthGate /\ polled /= {}
    THEN /\ authFails' = IF dead THEN authFails + 1 ELSE 0
         /\ reauth' = (reauth \/ (dead /\ authFails' >= 2))
         /\ UNCHANGED started
    ELSE UNCHANGED <<authFails, started, reauth>>

\* _entry_auth_dead and _trigger_reauth: dead tells that every read of this
\* poll failed authentication.
NoteAuth(dead) ==
    IF ReauthGate /\ polled /= {}
    THEN /\ authFails' = IF dead THEN authFails + 1 ELSE 0
         /\ IF dead /\ authFails' >= 2
            THEN started' = FALSE /\ reauth' = TRUE
            ELSE UNCHANGED <<started, reauth>>
    ELSE UNCHANGED <<authFails, started, reauth>>

\* Every get_status has returned or raised.
GatherReturns(good, dead) ==
    /\ loop = "reading"
    /\ good \subseteq polled \cap account
    /\ dead => good = {} /\ polled /= {}
    /\ NoteAuth(dead)
    /\ served' = good /\ todo' = polled
    /\ fresh' = [v \in Cars |-> IF v \in good THEN 0 ELSE Window]
    /\ deadPolls' = CASE dead -> IF deadPolls < 2 THEN deadPolls + 1 ELSE 2
                      [] polled = {} -> deadPolls
                      [] OTHER -> 0
    /\ loop' = "settling"
    /\ UNCHANGED <<manual, polled, carVars, diskVars, haVars, worldVars>>

\* A mutant: a failure is noted, not counted.
FailedOnce(vins) == [v \in Cars |-> IF v \in vins THEN 1 ELSE failures[v]]

\* vehicle_failure_count of the cars in vins goes up by one.
Failed(vins) ==
    [v \in Cars |-> IF v \in vins /\ failures[v] < Tolerance
                    THEN failures[v] + 1 ELSE failures[v]]

\* A mutant: a failed poll renews the time of the last good one.
BookRenewed(v, now) ==
    /\ failures' = IF now THEN [failures EXCEPT ![v] = 0] ELSE Failed({v})
    /\ lastGood' = [lastGood EXCEPT ![v] = 0]

\* The counts and times of one car: now tells that it has new data.
Book(v, now) ==
    /\ failures' = IF now THEN [failures EXCEPT ![v] = 0] ELSE Failed({v})
    /\ lastGood' = IF now THEN [lastGood EXCEPT ![v] = 0] ELSE lastGood

\* self.vehicles.update(fresh), and a save within 30 seconds.
Store(vins) ==
    /\ dataAge' = [v \in Cars |-> IF v \in vins THEN fresh[v] ELSE dataAge[v]]
    /\ saving' = TRUE
    /\ loop' = "tailing"

\* One car's turn. A car without data may be revived by a supplementary
\* channel, one with data may fail to parse; a car left without keeps the dict
\* that self.vehicles holds at this moment. The turn of the next car awaits.
Settle(v, now) ==
    /\ loop = "settling" /\ v \in todo
    /\ now => v \in served \/ (Supplement /\ v \in account)
    /\ Book(v, now)
    /\ fresh' = [fresh EXCEPT ![v] = IF ~now THEN dataAge[v]
                                     ELSE IF v \in served THEN @ ELSE 0]
    /\ served' = IF now THEN served \cup {v} ELSE served \ {v}
    /\ todo' = todo \ {v}
    /\ IF todo' = {} /\ ~now THEN Store(polled \ {v})
       ELSE UNCHANGED <<dataAge, saving, loop>>
    /\ UNCHANGED <<started, authFails, deadPolls, reauth, manual, polled, known, file,
                   ghost, haVars, worldVars>>

StoreFresh ==
    /\ loop = "settling" /\ todo = {}
    /\ Store(polled)
    /\ UNCHANGED <<started, authFails, deadPolls, reauth, manual, pollVars, known,
                   failures, lastGood, file, ghost, haVars, worldVars>>

\* Back to the while; what this poll held is gone.
Forget == /\ polled' = {} /\ served' = {} /\ todo' = {}
          /\ fresh' = [v \in Cars |-> Window]
LoopOn == Forget /\ loop' = IF started THEN "sleeping" ELSE "ended"

\* _async_push_update, after the best-effort refreshes: a success publishes
\* this poll's cars and removes the devices of those no longer among them.
Push ==
    /\ loop = "tailing"
    /\ IF served /= {}
       THEN /\ device' = device \ (shown \ polled)
            /\ disabled' = disabled \ (shown \ polled)
            /\ shown' = polled
            /\ success' = TRUE
       ELSE /\ success' = FALSE
            /\ UNCHANGED <<shown, device, disabled>>
    /\ LoopOn
    /\ UNCHANGED <<started, authFails, deadPolls, reauth, manual, carVars, diskVars,
                   account>>

-----------------------------------------------------------------------------
(* The outer handler: what is raised outside the per-VIN part *)

PortalInteraction ==
    /\ "portal" \in Escapes
    /\ loop = "reading"
    /\ failures' = Failed(known)
    /\ success' = FALSE
    /\ Forget /\ loop' = "ended"
    /\ UNCHANGED <<started, authFails, deadPolls, reauth, manual, known,
                   dataAge, lastGood, diskVars, shown, worldVars>>

AuthenticationError ==
    /\ "auth" \in Escapes
    /\ loop = "reading"
    /\ started' = FALSE /\ reauth' = TRUE
    /\ success' = FALSE
    /\ deadPolls' = 2
    /\ Forget /\ loop' = "ended"
    /\ UNCHANGED <<authFails, manual, carVars, diskVars, shown, worldVars>>

\* A mutant: any other error leaves the loop, too.
OtherErrorReturns ==
    /\ "other" \in Escapes
    /\ loop \in {"reading", "tailing"}
    /\ failures' = Failed(known)
    /\ success' = FALSE
    /\ Forget /\ loop' = "ended"
    /\ UNCHANGED <<started, authFails, deadPolls, reauth, manual, known,
                   dataAge, lastGood, diskVars, shown, worldVars>>

\* It is raised while reading or in the tail. What a car's turn calls catches
\* its own errors; one that it let through would leave the cars before it
\* booked and not stored, which is not modelled.
OtherError ==
    /\ "other" \in Escapes
    /\ loop \in {"reading", "tailing"}
    /\ failures' = Failed(known)
    /\ success' = FALSE
    /\ LoopOn
    /\ UNCHANGED <<started, authFails, deadPolls, reauth, manual, known,
                   dataAge, lastGood, diskVars, shown, worldVars>>

-----------------------------------------------------------------------------
(* Beside the loop *)

\* _async_update_data, asked for by every command. While the loop is stopped
\* it answers from the cache, and Home Assistant takes that for a success.
RefreshStarts ==
    /\ Refreshes /\ Loaded /\ manual = {}
    /\ IF started /\ ActiveVins(known) /= {}
       THEN manual' = ActiveVins(known) /\ UNCHANGED haVars
       ELSE success' = TRUE /\ shown' = known /\ UNCHANGED manual
    /\ UNCHANGED <<loop, started, authFails, deadPolls, reauth, pollVars, carVars,
                   diskVars, worldVars>>

RefreshReturns(good) ==
    /\ manual /= {}
    /\ good \subseteq manual \cap account
    /\ dataAge' = [v \in Cars |-> IF v \in good THEN 0 ELSE dataAge[v]]
    /\ success' = TRUE /\ shown' = known
    /\ manual' = {}
    /\ UNCHANGED <<loop, started, authFails, deadPolls, reauth, pollVars, known,
                   failures, lastGood, diskVars, worldVars>>

\* The delayed save: the time of the save is stored, not that of the reads.
Save ==
    /\ saving
    /\ saving' = FALSE
    /\ file' = Snapshot(known, 0, dataAge)
    /\ UNCHANGED <<loop, started, authFails, deadPolls, reauth, manual, pollVars, carVars,
                   ghost, haVars, worldVars>>

\* What the entry has lost once it is not loaded.
Gone ==
    /\ loop' = "off" /\ started' = FALSE /\ saving' = FALSE
    /\ Forget /\ known' = {} /\ shown' = {} /\ manual' = {}
    /\ failures' = [v \in Cars |-> 0] /\ lastGood' = [v \in Cars |-> Never]
    /\ dataAge' = [v \in Cars |-> Window]
    /\ authFails' = 0 /\ deadPolls' = 0 /\ success' = TRUE
    /\ UNCHANGED <<reauth, file, worldVars>>

\* A reload's first half. A poll in flight goes on: it publishes nothing any
\* more, but it and a delayed save still write the snapshot. Only one such
\* coordinator is kept: a second reload waits for it.
Unload ==
    /\ Reloads /\ Loaded /\ ghost = Never
    /\ ghost' = IF saving \/ loop \in Busy
                THEN [cars |-> known, ages |-> dataAge,
                      reads |-> IF loop \in Busy \ {"tailing"} THEN polled ELSE {}]
                ELSE Never
    /\ Gone

GhostSaves(good) ==
    /\ ghost /= Never
    /\ good \subseteq ghost.reads \cap account
    /\ file' = Snapshot(ghost.cars, 0,
                        [v \in Cars |-> IF v \in good THEN 0 ELSE ghost.ages[v]])
    /\ ghost' = Never
    /\ UNCHANGED <<loop, started, authFails, deadPolls, reauth, manual, pollVars, carVars,
                   saving, haVars, worldVars>>

\* Home Assistant goes down at once: no delayed save happens.
Crash ==
    /\ Reloads /\ Loaded
    /\ ghost' = Never
    /\ Gone

-----------------------------------------------------------------------------
(* The world *)

\* A poll's results are booked long before a tick is over.
Tick ==
    /\ loop \notin {"settling", "tailing"}
    /\ dataAge' = [v \in Cars |-> Older(dataAge[v])]
    /\ lastGood' = [v \in Cars |-> IF lastGood[v] = Never THEN Never ELSE Older(lastGood[v])]
    /\ file' = Snapshot(file.cars, Older(file.saved), [v \in Cars |-> Older(file.ages[v])])
    /\ ghost' = IF ghost = Never THEN Never
                ELSE [ghost EXCEPT !.ages = [v \in Cars |-> Older(ghost.ages[v])]]
    /\ UNCHANGED <<loop, started, authFails, deadPolls, reauth, manual, pollVars, known,
                   failures, saving, haVars, worldVars>>

Leave(v) ==
    /\ Owner
    /\ v \in account /\ account' = account \ {v}
    /\ UNCHANGED <<loop, started, authFails, deadPolls, reauth, manual, pollVars, carVars,
                   diskVars, haVars, device, disabled>>

Disable(v) ==
    /\ Owner
    /\ v \in device \ disabled
    /\ disabled' = disabled \cup {v}
    /\ UNCHANGED <<loop, started, authFails, deadPolls, reauth, manual, pollVars, carVars,
                   diskVars, haVars, account, device>>

Enable(v) ==
    /\ Owner
    /\ v \in disabled
    /\ disabled' = disabled \ {v}
    /\ UNCHANGED <<loop, started, authFails, deadPolls, reauth, manual, pollVars, carVars,
                   diskVars, haVars, account, device>>

-----------------------------------------------------------------------------
LoopStep ==
    \/ WakeUp
    \/ \E good \in SUBSET Cars, dead \in BOOLEAN : GatherReturns(good, dead)
    \/ \E v \in Cars, now \in BOOLEAN : Settle(v, now)
    \/ StoreFresh
    \/ Push
    \/ PortalInteraction \/ AuthenticationError \/ OtherError

Load ==
    \E vins, good, blank \in SUBSET Cars, genuine \in BOOLEAN :
        Setup(vins, genuine, good, blank)

World ==
    \/ Tick
    \/ \E v \in Cars : Leave(v) \/ Disable(v) \/ Enable(v)

Next ==
    \/ LoopStep
    \/ Load
    \/ RefreshStarts
    \/ \E good \in SUBSET Cars : RefreshReturns(good) \/ GhostSaves(good)
    \/ Save \/ Unload \/ Crash
    \/ World

Spec == Init /\ [][Next]_vars

\* The loop task is scheduled by asyncio, every request of a poll ends
\* (ApiRequest's EveryCallEnds) and time passes.
FairSpec == Spec /\ WF_vars(LoopStep) /\ WF_vars(Tick)

-----------------------------------------------------------------------------
(* What Home Assistant shows *)

\* is_vehicle_available.
IsVehicleAvailable(v) ==
    \/ failures[v] < Tolerance
    \/ lastGood[v] /= Never /\ lastGood[v] < Window

\* The available property of an entity of car v.
Available(v) ==
    /\ Loaded /\ v \in known \cap (device \ disabled)
    /\ success \/ lastGood[v] /= Never
    /\ IsVehicleAvailable(v)

-----------------------------------------------------------------------------
(* Properties *)

\* Every variable keeps its type, and the count of polls in a row that failed
\* authentication ends at two: the second one stops the loop
\* (coordinator.py:2809-2824), so no poll is left that could be the third.
TypeOK ==
    /\ loop \in Busy \cup {"off", "sleeping", "ended"}
    /\ started \in BOOLEAN /\ reauth \in BOOLEAN
    /\ success \in BOOLEAN /\ saving \in BOOLEAN
    /\ authFails \in 0..2 /\ deadPolls \in 0..2
    /\ \A vins \in {known, polled, served, todo, manual, shown, account, device,
                    disabled} : vins \subseteq Cars
    /\ dataAge \in [Cars -> Ages] /\ fresh \in [Cars -> Ages]
    /\ failures \in [Cars -> 0..Tolerance]
    /\ lastGood \in [Cars -> Ages \cup {Never}]
    /\ file \in [cars : SUBSET Cars, saved : Ages, ages : [Cars -> Ages]]
    /\ ghost \in {Never} \cup [cars : SUBSET Cars, ages : [Cars -> Ages],
                                reads : SUBSET Cars]

\* The loop ends only when the entry stops: whatever a poll raises, the next
\* one is tried (coordinator.py:5738-5810). A portal interaction is the one
\* exception: its branch returns (5754).
LoopRunsWhileStarted == started => loop \notin {"off", "ended"}

\* A car whose data is held is hidden only after Tolerance failed polls in a
\* row: "a single failed poll should not flip every entity on the vehicle to
\* unavailable" (coordinator.py:684-686).
NeverRead(v) == dataAge[v] = Window /\ lastGood[v] = Never
OneFailureHidesNothing ==
    [][\A v \in Cars :
          Available(v) /\ ~NeverRead(v) /\ ~Available(v)'
          /\ Loaded' /\ v \in device' \ disabled' => failures'[v] = Tolerance]_vars

\* Past the tolerance a car is shown only with data younger than the window:
\* "without serving truly outdated data" (coordinator.py:691-698).
NotShownPastWindow ==
    \A v \in Cars : Available(v) /\ failures[v] = Tolerance => dataAge[v] < Window

\* While an entry is loaded only time makes a car's data older: reconcile keeps
\* "the recorded value so the km sensor never jumps backwards"
\* (vehicle_cache.py:250). It does not hold beside refreshes: one that returns
\* between a car's turn and the store has its data overwritten.
DataNeverGoesBack ==
    [][\A v \in Cars : dataAge'[v] > dataAge[v] => Tick \/ ~Loaded \/ ~Loaded']_vars

\* A car whose data is outdated does not stay on display for ever: it is read
\* again or hidden, or the entry is unloaded.
Outdated(v) == Available(v) /\ dataAge[v] = Window
OutdatedIsHidden == \A v \in Cars : Outdated(v) ~> ~Outdated(v)

\* Reauth is asked for after two polls in a row in which every read failed
\* authentication, or when the account as such was refused (both stand as
\* deadPolls = 2), then at once and never earlier, whatever refreshes, errors
\* and reloads come in between.
ReauthExactlyWhenDead ==
    ReauthGate /\ Loaded => (reauth <=> deadPolls = 2)
=============================================================================
