-------------------------- MODULE CommandPipeline --------------------------
(***************************************************************************)
(* Remote commands of one vehicle, from the entity's call to the car, and  *)
(* the two readers whose snapshots race with them:                         *)
(*                                                                         *)
(*   - coordinator._cariad_cmd_optimistic: show the expected value, wait   *)
(*     for the lock of the command's class, send, and revert on failure;   *)
(*   - coordinator._poll_loop: the periodic read, which stores its         *)
(*     snapshot and much later publishes it;                               *)
(*   - coordinator._async_update_data: the read after every command.       *)
(*                                                                         *)
(* A step runs from one await to the next: the integration is one asyncio  *)
(* event loop, so what the code does between two awaits is atomic.         *)
(* A command is issued once; pressing a button twice is two commands with  *)
(* the same expectation.                                                   *)
(***************************************************************************)
EXTENDS Naturals

CONSTANTS
    Commands,          \* the commands the user or an automation issues
    Classes,           \* lock classes (lock, climate, charging, ...)
    Keys,              \* the vehicle fields commands set optimistically
    Values,            \* what a field can read
    ClassOf,           \* coordinator._COMMAND_CLASS
    Expected,          \* the optimistic fields of each command, maybe none
    Fallback,          \* the second channel of each command: "mbb", "official"
                       \* or "none" (brand, options, armed connector, method)
    MaxTries,          \* sends of one command by its first channel: the
                       \* re-sends of all its requests by base._request
    TurnAwaits,        \* TRUE when the poll awaits between a car's turn and the
                       \* store of all: in other cars' turns, and once an hour in
                       \* run_v3_probe_pass at the end of a turn
    MaxOwnerActs,      \* bound on changes made at the car itself
    UserEvents,        \* what else a user does: "readOnly" switches the mode,
                       \* "reload" unloads the entry, "refresh" asks for a read,
                       \* "cancel" stops the script that called the service
    NoCommand          \* the absence of a command

ASSUME PipelineAssumption ==
    /\ ClassOf \in [Commands -> Classes]
    /\ \A c \in Commands :
          /\ DOMAIN Expected[c] \subseteq Keys
          /\ \A k \in DOMAIN Expected[c] : Expected[c][k] \in Values
    /\ Fallback \in [Commands -> {"none", "mbb", "official"}]
    /\ MaxTries \in Nat \ {0}
    /\ TurnAwaits \in BOOLEAN
    /\ MaxOwnerActs \in Nat
    /\ UserEvents \subseteq {"readOnly", "reload", "refresh", "cancel"}
    /\ NoCommand \notin Commands
    /\ Values # {}

VARIABLES
    phase,       \* where each command is
    holder,      \* per class, the command that has the asyncio.Lock
    tries,       \* sends of each command on its primary channel
    wire,        \* sends of each command the car has not acted on or lost
    acted,       \* how often the car carried out each command
    snap,        \* what _optimistic_set returned: the values before it
    holdBy,      \* _optimistic_hold: the command whose value is held
    holdOver,    \* held keys whose window has elapsed
    stored,      \* self.vehicles[vin]
    published,   \* what the entities read: coordinator.data[vin]
    pollPc, pollData, pollShared, pollOk,
    refreshPc, refreshData, refreshWanted,
    readOnly, started, client,
    car, backend, ownerActs,
    seen         \* history: the values the backend ever reported

commandVars == <<phase, holder, tries, wire, acted, snap>>
holdVars    == <<holdBy, holdOver>>
pollVars    == <<pollPc, pollData, pollShared, pollOk>>
refreshVars == <<refreshPc, refreshData, refreshWanted>>
entryVars   == <<readOnly, started, client>>
worldVars   == <<car, backend, ownerActs, seen>>
vars == <<commandVars, holdVars, stored, published, pollVars, refreshVars,
          entryVars, worldVars>>

InFlight == {"sent", "mbb", "official"}
Refused  == {"failed", "busy"}
Over     == Refused \cup {"accepted", "dropped", "cancelled"}
Phases   == {"idle", "queued"} \cup InFlight \cup Over

Fields(c) == DOMAIN Expected[c]
Channel   == [Keys -> Values]
HoldValue(k) == Expected[holdBy[k]][k]
Held == {k \in Keys : holdBy[k] # NoCommand}

\* A local variable out of scope.
Blank == [k \in Keys |-> CHOOSE v \in Values : TRUE]

Init ==
    /\ phase = [c \in Commands |-> "idle"]
    /\ holder = [k \in Classes |-> NoCommand]
    /\ tries = [c \in Commands |-> 0]
    /\ wire = [c \in Commands |-> 0]
    /\ acted = [c \in Commands |-> 0]
    /\ car \in Channel
    /\ backend = car /\ stored = car /\ published = car
    /\ snap = [c \in Commands |-> Blank]
    /\ holdBy = [k \in Keys |-> NoCommand] /\ holdOver = {}
    /\ pollPc = "idle" /\ pollData = Blank /\ pollShared = FALSE /\ pollOk = FALSE
    /\ refreshPc = "idle" /\ refreshData = Blank /\ refreshWanted = FALSE
    /\ readOnly = FALSE /\ started = TRUE /\ client = TRUE
    /\ ownerActs = 0
    /\ seen = [k \in Keys |-> {car[k]}]

-----------------------------------------------------------------------------
(* The optimistic layer *)

\* Show the expected values now, hold them against the next reads, and keep
\* what they replaced.
OptimisticSet(c) ==
    /\ snap' = [snap EXCEPT ![c] = stored]
    /\ stored' = [k \in Keys |-> IF k \in Fields(c) THEN Expected[c][k] ELSE stored[k]]
    /\ published' = IF Fields(c) = {} THEN published ELSE stored'
    /\ holdBy' = [k \in Keys |-> IF k \in Fields(c) THEN c ELSE holdBy[k]]
    /\ holdOver' = holdOver \ Fields(c)

\* Faulty variants of OptimisticRevert.
RevertReplacesEntry(c) ==
    /\ stored' = [k \in Fields(c) |-> snap[c][k]]
    /\ published' = IF Fields(c) = {} THEN published ELSE stored'
    /\ holdBy' = [k \in Keys |-> IF k \in Fields(c) THEN NoCommand ELSE holdBy[k]]
    /\ holdOver' = holdOver \ Fields(c)

RevertKeepsHold(c) ==
    /\ stored' = [k \in Keys |-> IF k \in Fields(c) THEN snap[c][k] ELSE stored[k]]
    /\ published' = IF Fields(c) = {} THEN published ELSE stored'
    /\ UNCHANGED holdVars

RevertKeepsValue(c) ==
    /\ holdBy' = [k \in Keys |-> IF k \in Fields(c) THEN NoCommand ELSE holdBy[k]]
    /\ holdOver' = holdOver \ Fields(c)
    /\ UNCHANGED <<stored, published>>

\* Put the snapshot back and drop the holds on its keys, whoever set them.
OptimisticRevert(c) ==
    /\ stored' = [k \in Keys |-> IF k \in Fields(c) THEN snap[c][k] ELSE stored[k]]
    /\ published' = IF Fields(c) = {} THEN published ELSE stored'
    /\ holdBy' = [k \in Keys |-> IF k \in Fields(c) THEN NoCommand ELSE holdBy[k]]
    /\ holdOver' = holdOver \ Fields(c)

\* A faulty StillPending: only a confirming reading ends a hold.
PendingForEver(data) == {k \in Held : data[k] # HoldValue(k)}

\* The keys on which a read must still show the held value: neither elapsed
\* nor confirmed by the reading.
StillPending(data) ==
    {k \in Held : k \notin holdOver /\ data[k] # HoldValue(k)}

\* A faulty WithHolds: the hold is kept but the reading is not corrected.
WithoutHolds(data) == data

WithHolds(data) ==
    [k \in Keys |-> IF k \in StillPending(data) THEN HoldValue(k) ELSE data[k]]

ApplyOptimisticHold(data) ==
    /\ holdBy' = [k \in Keys |-> IF k \in StillPending(data) THEN holdBy[k] ELSE NoCommand]
    /\ holdOver' = {}

HoldWindowElapses(k) ==
    /\ k \in Held \ holdOver
    /\ holdOver' = holdOver \cup {k}
    /\ UNCHANGED <<commandVars, holdBy, stored, published, pollVars, refreshVars,
                   entryVars, worldVars>>

-----------------------------------------------------------------------------
(* A command *)

\* Without a client _cariad_cmd logs and returns, so nothing is reverted.
Issue(c) ==
    /\ phase[c] = "idle"
    /\ phase' = [phase EXCEPT ![c] = IF client THEN "queued" ELSE "dropped"]
    /\ OptimisticSet(c)
    /\ UNCHANGED <<holder, tries, wire, acted, pollVars, refreshVars, entryVars, worldVars>>

\* A faulty Fail: the command is put back in the queue.
FailRequeues(c, how) ==
    /\ phase' = [phase EXCEPT ![c] = "queued"]
    /\ holder' = [holder EXCEPT ![ClassOf[c]] = IF @ = c THEN NoCommand ELSE @]
    /\ UNCHANGED <<snap, holdVars, stored, published, acted, pollVars, refreshVars,
                   entryVars, worldVars>>

\* The failing end of a command: release the lock if it has it, then revert.
Fail(c, how) ==
    /\ phase' = [phase EXCEPT ![c] = how]
    /\ holder' = [holder EXCEPT ![ClassOf[c]] = IF @ = c THEN NoCommand ELSE @]
    /\ OptimisticRevert(c)
    /\ snap' = [snap EXCEPT ![c] = Blank]
    /\ UNCHANGED <<acted, pollVars, refreshVars, entryVars, worldVars>>

\* A faulty LockTimesOut: busy is reported, but the send goes out all the same.
LockTimesOutAndSends(c) ==
    /\ phase[c] = "queued"
    /\ holder[ClassOf[c]] # NoCommand
    /\ Fail(c, "busy")
    /\ wire' = [wire EXCEPT ![c] = @ + 1]
    /\ UNCHANGED tries

\* wait_for(lock.acquire(), _COMMAND_LOCK_TIMEOUT) gave up.
LockTimesOut(c) ==
    /\ phase[c] = "queued"
    /\ holder[ClassOf[c]] # NoCommand
    /\ Fail(c, "busy")
    /\ UNCHANGED <<tries, wire>>

\* The lock is free but the command may not go out: read-only mode is on, or
\* a reload took the client away while the command was queued.
DispatchRefused(c) ==
    /\ phase[c] = "queued"
    /\ holder[ClassOf[c]] = NoCommand
    /\ readOnly \/ ~client
    /\ Fail(c, "failed")
    /\ UNCHANGED <<tries, wire>>

\* A faulty Dispatch: the mode is not read again once the lock is there.
DispatchIgnoresMode(c) ==
    /\ phase[c] = "queued"
    /\ holder[ClassOf[c]] = NoCommand
    /\ client
    /\ holder' = [holder EXCEPT ![ClassOf[c]] = c]
    /\ phase' = [phase EXCEPT ![c] = "sent"]
    /\ tries' = [tries EXCEPT ![c] = 1]
    /\ wire' = [wire EXCEPT ![c] = @ + 1]
    /\ UNCHANGED <<acted, snap, holdVars, stored, published, pollVars, refreshVars,
                   entryVars, worldVars>>

Dispatch(c) ==
    /\ phase[c] = "queued"
    /\ holder[ClassOf[c]] = NoCommand
    /\ ~readOnly /\ client
    /\ holder' = [holder EXCEPT ![ClassOf[c]] = c]
    /\ phase' = [phase EXCEPT ![c] = "sent"]
    /\ tries' = [tries EXCEPT ![c] = 1]
    /\ wire' = [wire EXCEPT ![c] = @ + 1]
    /\ UNCHANGED <<acted, snap, holdVars, stored, published, pollVars, refreshVars,
                   entryVars, worldVars>>

\* base._request answers a 5xx, a network error or a first 401 by sending again,
\* for each request of the command; MaxTries is what they make in all.
Resend(c) ==
    /\ phase[c] = "sent"
    /\ tries[c] < MaxTries
    /\ tries' = [tries EXCEPT ![c] = @ + 1]
    /\ wire' = [wire EXCEPT ![c] = @ + 1]
    /\ UNCHANGED <<phase, holder, acted, snap, holdVars, stored, published, pollVars,
                   refreshVars, entryVars, worldVars>>

\* A faulty Accepted: the lock is not released.
AcceptedKeepsLock(c) ==
    /\ phase[c] \in InFlight
    /\ phase' = [phase EXCEPT ![c] = "accepted"]
    /\ snap' = [snap EXCEPT ![c] = Blank]
    /\ refreshWanted' = TRUE
    /\ UNCHANGED <<holder, tries, wire, acted, holdVars, stored, published, pollVars,
                   refreshPc, refreshData, entryVars, worldVars>>

\* A channel took the command: release the lock, then ask for a refresh.
Accepted(c) ==
    /\ phase[c] \in InFlight
    /\ phase' = [phase EXCEPT ![c] = "accepted"]
    /\ holder' = [holder EXCEPT ![ClassOf[c]] = NoCommand]
    /\ snap' = [snap EXCEPT ![c] = Blank]
    /\ refreshWanted' = TRUE
    /\ UNCHANGED <<tries, wire, acted, holdVars, stored, published, pollVars,
                   refreshPc, refreshData, entryVars, worldVars>>

\* The error says nothing about the car: 5xx, timeout, 429, our own guards. On
\* a second channel the first one's refusal is what surfaces.
UnclearFailure(c) ==
    /\ phase[c] \in InFlight
    /\ Fail(c, "failed")
    /\ UNCHANGED <<tries, wire>>

\* A refusal sends the command to its second channel, once: MBB answers an
\* auth refusal (401, 403), the official Skoda API a 404 ("gone") too. Either
\* way this send did not reach the car.
FallsBack(c, refusal) ==
    /\ phase[c] = "sent"
    /\ \/ Fallback[c] = "mbb" /\ refusal = "auth"
       \/ Fallback[c] = "official"

Refuse(c, refusal) ==
    /\ phase[c] \in InFlight
    /\ wire[c] > 0
    /\ ~FallsBack(c, refusal)
    /\ Fail(c, "failed")
    /\ wire' = [wire EXCEPT ![c] = @ - 1]
    /\ UNCHANGED tries

\* A faulty FallBack: an answer that proves nothing opens the second channel.
FallBackUnproven(c, refusal) ==
    /\ FallsBack(c, refusal)
    /\ phase' = [phase EXCEPT ![c] = Fallback[c]]
    /\ wire' = [wire EXCEPT ![c] = @ + 1]
    /\ UNCHANGED <<holder, tries, acted, snap, holdVars, stored, published, pollVars,
                   refreshVars, entryVars, worldVars>>

FallBack(c, refusal) ==
    /\ wire[c] > 0
    /\ FallsBack(c, refusal)
    /\ phase' = [phase EXCEPT ![c] = Fallback[c]]
    /\ UNCHANGED <<holder, tries, wire, acted, snap, holdVars, stored, published,
                   pollVars, refreshVars, entryVars, worldVars>>

\* asyncio cancels the call: the lock is released, but CancelledError is no
\* Exception, so nothing is reverted.
Cancel(c) ==
    /\ "cancel" \in UserEvents
    /\ phase[c] \in {"queued"} \cup InFlight
    /\ phase' = [phase EXCEPT ![c] = "cancelled"]
    /\ holder' = [holder EXCEPT ![ClassOf[c]] = IF @ = c THEN NoCommand ELSE @]
    /\ snap' = [snap EXCEPT ![c] = Blank]
    /\ UNCHANGED <<tries, wire, acted, holdVars, stored, published, pollVars,
                   refreshVars, entryVars, worldVars>>

-----------------------------------------------------------------------------
(* The car and its backend (not under src/) *)

\* The car carries out a send, maybe long after the answer to it.
CarActs(c) ==
    /\ wire[c] > 0
    /\ wire' = [wire EXCEPT ![c] = @ - 1]
    /\ acted' = [acted EXCEPT ![c] = @ + 1]
    /\ car' = [k \in Keys |-> IF k \in Fields(c) THEN Expected[c][k] ELSE car[k]]
    /\ UNCHANGED <<phase, holder, tries, snap, holdVars, stored, published, pollVars,
                   refreshVars, entryVars, backend, ownerActs, seen>>

SendIsLost(c) ==
    /\ wire[c] > 0
    /\ wire' = [wire EXCEPT ![c] = @ - 1]
    /\ UNCHANGED <<phase, holder, tries, acted, snap, holdVars, stored, published,
                   pollVars, refreshVars, entryVars, worldVars>>

\* Somebody uses the key or the maker's app.
OwnerActs(k, v) ==
    /\ ownerActs < MaxOwnerActs
    /\ ownerActs' = ownerActs + 1
    /\ car' = [car EXCEPT ![k] = v]
    /\ UNCHANGED <<commandVars, holdVars, stored, published, pollVars, refreshVars,
                   entryVars, backend, seen>>

BackendCatchesUp ==
    /\ backend # car
    /\ backend' = car
    /\ seen' = [k \in Keys |-> seen[k] \cup {car[k]}]
    /\ UNCHANGED <<commandVars, holdVars, stored, published, pollVars, refreshVars,
                   entryVars, car, ownerActs>>

-----------------------------------------------------------------------------
(* The poll *)

\* The dict the poll carries: its own, or the very object in self.vehicles.
Fresh == IF pollShared THEN stored ELSE pollData

PollBegins ==
    /\ pollPc = "idle" /\ started /\ client
    /\ pollPc' = "reading"
    /\ UNCHANGED <<commandVars, holdVars, stored, published, pollData, pollShared,
                   pollOk, refreshVars, entryVars, worldVars>>

PollServed ==
    /\ pollPc = "reading"
    /\ pollPc' = "answered" /\ pollData' = backend /\ pollShared' = FALSE /\ pollOk' = TRUE
    /\ UNCHANGED <<commandVars, holdVars, stored, published, refreshVars, entryVars, worldVars>>

\* The read failed: the old dict itself becomes the poll's result. The push
\* at the end of the cycle is skipped unless another car was read.
PollFails ==
    /\ pollPc = "reading"
    /\ pollPc' = IF TurnAwaits THEN "applied" ELSE "updated"
    /\ pollShared' = TRUE
    /\ pollOk' \in (IF TurnAwaits THEN BOOLEAN ELSE {FALSE})
    /\ UNCHANGED <<commandVars, holdVars, stored, published, pollData, refreshVars,
                   entryVars, worldVars>>

\* Apply the holds to the reading. Unless the turn awaits, nothing runs before the
\* result is stored.
PollApplies ==
    /\ pollPc = "answered"
    /\ ApplyOptimisticHold(pollData)
    /\ IF TurnAwaits
       THEN /\ pollPc' = "applied"
            /\ pollData' = WithHolds(pollData)
            /\ UNCHANGED <<stored, pollShared>>
       ELSE /\ pollPc' = "updated"
            /\ stored' = WithHolds(pollData)
            /\ pollShared' = TRUE
            /\ pollData' = Blank
    /\ UNCHANGED <<commandVars, published, pollOk, refreshVars, entryVars, worldVars>>

\* self.vehicles.update(fresh)
PollUpdates ==
    /\ pollPc = "applied"
    /\ pollPc' = "updated"
    /\ stored' = Fresh
    /\ pollShared' = TRUE /\ pollData' = Blank
    /\ UNCHANGED <<commandVars, holdVars, published, pollOk, refreshVars,
                   entryVars, worldVars>>

\* _async_push_update(fresh), after every best-effort read of the cycle. It
\* does nothing once the entry is shutting down.
PollPublishes ==
    /\ pollPc = "updated"
    /\ pollPc' = "idle"
    /\ published' = IF pollOk /\ started THEN Fresh ELSE published
    /\ pollShared' = FALSE /\ pollData' = Blank /\ pollOk' = FALSE
    /\ UNCHANGED <<commandVars, holdVars, stored, refreshVars,
                   entryVars, worldVars>>

-----------------------------------------------------------------------------
(* The refresh after a command *)

\* A command that was accepted asks for it too, but so do services and buttons.
RefreshRequested ==
    /\ "refresh" \in UserEvents
    /\ ~refreshWanted
    /\ refreshWanted' = TRUE
    /\ UNCHANGED <<commandVars, holdVars, stored, published, pollVars, refreshPc,
                   refreshData, entryVars, worldVars>>

RefreshBegins ==
    /\ refreshPc = "idle" /\ refreshWanted
    /\ refreshWanted' = FALSE
    /\ IF started /\ client
       THEN refreshPc' = "reading" /\ UNCHANGED published
       ELSE published' = stored /\ UNCHANGED refreshPc
    /\ UNCHANGED <<commandVars, holdVars, stored, pollVars, refreshData, entryVars, worldVars>>

RefreshServed ==
    /\ refreshPc = "reading"
    /\ refreshPc' = "answered" /\ refreshData' = backend
    /\ UNCHANGED <<commandVars, holdVars, stored, published, pollVars, refreshWanted,
                   entryVars, worldVars>>

\* Store and publish in one go; a poll under way keeps the dict it had.
RefreshStores ==
    /\ refreshPc = "answered"
    /\ refreshPc' = "idle"
    /\ ApplyOptimisticHold(refreshData)
    /\ stored' = WithHolds(refreshData)
    /\ published' = stored'
    /\ pollData' = Fresh /\ pollShared' = FALSE
    /\ refreshData' = Blank
    /\ UNCHANGED <<commandVars, pollPc, pollOk, refreshWanted, entryVars, worldVars>>

RefreshFails ==
    /\ refreshPc = "reading"
    /\ refreshPc' = "idle"
    /\ published' = stored
    /\ UNCHANGED <<commandVars, holdVars, stored, pollVars, refreshData, refreshWanted,
                   entryVars, worldVars>>

-----------------------------------------------------------------------------
(* The entry *)

ToggleReadOnly ==
    /\ "readOnly" \in UserEvents
    /\ readOnly' = ~readOnly
    /\ UNCHANGED <<commandVars, holdVars, stored, published, pollVars, refreshVars,
                   started, client, worldVars>>

ShutdownBegins ==
    /\ "reload" \in UserEvents
    /\ started
    /\ started' = FALSE
    /\ UNCHANGED <<commandVars, holdVars, stored, published, pollVars, refreshVars,
                   readOnly, client, worldVars>>

ShutdownDropsClient ==
    /\ ~started /\ client
    /\ client' = FALSE
    /\ UNCHANGED <<commandVars, holdVars, stored, published, pollVars, refreshVars,
                   readOnly, started, worldVars>>

Command(c) ==
    \/ Issue(c) \/ LockTimesOut(c) \/ DispatchRefused(c) \/ Dispatch(c)
    \/ Resend(c) \/ Accepted(c) \/ UnclearFailure(c) \/ Cancel(c)
    \/ \E refusal \in {"auth", "gone"} : Refuse(c, refusal) \/ FallBack(c, refusal)
    \/ CarActs(c) \/ SendIsLost(c)

Poll    == PollBegins \/ PollServed \/ PollFails \/ PollApplies \/ PollUpdates \/ PollPublishes
Refresh == RefreshRequested \/ RefreshBegins \/ RefreshServed \/ RefreshStores \/ RefreshFails
Entry   == ToggleReadOnly \/ ShutdownBegins \/ ShutdownDropsClient
World   == BackendCatchesUp \/ \E k \in Keys, v \in Values : OwnerActs(k, v)

Next ==
    \/ \E c \in Commands : Command(c)
    \/ \E k \in Keys : HoldWindowElapses(k)
    \/ Poll \/ Refresh \/ Entry \/ World

Spec == Init /\ [][Next]_vars

-----------------------------------------------------------------------------
(* Properties *)

\* Every variable stays in its type.
TypeOK ==
    /\ phase \in [Commands -> Phases]
    /\ holder \in [Classes -> Commands \cup {NoCommand}]
    /\ tries \in [Commands -> Nat]
    /\ wire \in [Commands -> Nat]
    /\ acted \in [Commands -> Nat]
    /\ snap \in [Commands -> Channel]
    /\ holdBy \in [Keys -> Commands \cup {NoCommand}]
    /\ holdOver \in SUBSET Keys
    /\ {stored, published, pollData, refreshData, car, backend} \subseteq Channel
    /\ pollPc \in {"idle", "reading", "answered", "applied", "updated"}
    /\ pollShared \in BOOLEAN /\ pollOk \in BOOLEAN
    /\ refreshPc \in {"idle", "reading", "answered"}
    /\ refreshWanted \in BOOLEAN
    /\ readOnly \in BOOLEAN /\ started \in BOOLEAN /\ client \in BOOLEAN
    /\ ownerActs \in Nat
    /\ seen \in [Keys -> SUBSET Values]

\* The lock of a class and the commands agree: a command is with a channel
\* exactly while it owns its class's lock. So two commands of one class are
\* never with the car together, and no way out of _cariad_cmd (busy, read-only,
\* lost client, failure, fallback) leaks a lock or frees another's.
LockDiscipline ==
    \A c \in Commands : holder[ClassOf[c]] = c <=> phase[c] \in InFlight

\* A command that never got its lock ("busy"), or found no client, never
\* reaches the car, not even later. The code's history is a busy command that
\* was sent unlocked after the timeout and moved the car twice.
UnsentNeverActs ==
    \A c \in Commands :
        phase[c] \in {"idle", "queued", "busy", "dropped"} => wire[c] = 0 /\ acted[c] = 0

\* One press moves the car no more often than _request sent it on the first
\* channel: the second channel adds none, because only a refusal of a send that
\* never reached the car opens it (_SKODA_FALLBACK_STATUSES).
SecondChannelAddsNoMove ==
    \A c \in Commands : acted[c] + wire[c] <= MaxTries

\* No value is held against the backend for a command the user was told has
\* failed, whichever commands on the same field came between.
NoHoldOfAFailedCommand ==
    \A k \in Keys : holdBy[k] # NoCommand => phase[holdBy[k]] \notin Refused

\* While a command's value is held, self.vehicles shows it: no read in flight
\* since before the command snaps the field back (_apply_optimistic_hold).
HoldShown ==
    \A k \in Keys : holdBy[k] # NoCommand => stored[k] = HoldValue(k)

\* Only the store of a poll whose turn has awaited since it applied the holds
\* hides a value that is held and shown: no refresh, command, failure of another
\* command or end of a window does (_apply_optimistic_hold).
HiddenByALateStoreOnly ==
    [][\A k \in Keys :
          holdBy[k] # NoCommand /\ holdBy'[k] = holdBy[k] /\ stored[k] = HoldValue(k)
              => stored'[k] = HoldValue(k) \/ PollUpdates]_vars

Undecided(k) == \E c \in Commands : k \in Fields(c) /\ phase[c] \in {"queued"} \cup InFlight

\* What can justify showing v for field k: the backend reported it, a hold or
\* an undecided command covers the field, or a command that set it succeeded.
Vouched(k, v) ==
    \/ v \in seen[k]
    \/ holdBy[k] # NoCommand
    \/ Undecided(k)
    \/ \E c \in Commands : k \in Fields(c) /\ Expected[c][k] = v /\ phase[c] = "accepted"

\* self.vehicles never keeps a value nobody vouches for: after a failure the
\* field is back at something that was once true.
NoPhantom == \A k \in Keys : Vouched(k, stored[k])

\* Switching read-only mode on also stops the commands already queued.
ReadOnlyStopsTheQueue ==
    [][\A c \in Commands : readOnly /\ phase[c] = "queued" => phase'[c] # "sent"]_vars

-----------------------------------------------------------------------------
(* Liveness: answers come (every request has a timeout), a waiter either gets *)
(* the lock or times out, the poll runs for ever and is sometimes served,     *)
(* holds elapse and the backend catches up with the car.                      *)

Answered(c) == Accepted(c) \/ UnclearFailure(c)

Fairness ==
    /\ \A c \in Commands :
          /\ WF_vars(Answered(c))
          /\ WF_vars(LockTimesOut(c) \/ DispatchRefused(c) \/ Dispatch(c))
          /\ WF_vars(CarActs(c) \/ SendIsLost(c))
    /\ \A k \in Keys : WF_vars(HoldWindowElapses(k))
    /\ WF_vars(PollBegins) /\ WF_vars(PollServed \/ PollFails) /\ SF_vars(PollServed)
    /\ WF_vars(PollApplies \/ PollUpdates \/ PollPublishes)
    /\ WF_vars(RefreshBegins) /\ WF_vars(RefreshServed \/ RefreshFails)
    /\ WF_vars(RefreshStores)
    /\ WF_vars(BackendCatchesUp)

FairSpec == Spec /\ Fairness

\* Every press ends: with an outcome, and never stuck behind a lock.
EveryCommandEnds ==
    \A c \in Commands : phase[c] = "queued" ~> phase[c] \in Over

\* Whatever was overlapped, reverted or overwritten, an entry that stays up
\* ends up showing the car as it is.
DashboardSettles ==
    <>[](~started \/ (stored = car /\ published = car))
=============================================================================
