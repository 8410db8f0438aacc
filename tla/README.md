# Verification of vwgroup-connect-ha

TLA+ models of the Home Assistant integration `vag_connect`
(`src/custom_components/vag_connect/`), the TLC instances that check them and
the TLAPS proofs about them. Paths below are relative to that directory unless
they start with `tests/`.

## 1. The system

One *config entry* is one account with a maker (VW, Audi, Škoda, SEAT/CUPRA,
Porsche, VW North America). Everything of an entry runs on Home Assistant's
single asyncio event loop: what the code does between two `await`s is atomic,
and every `await` is a place where anything else may run. That is the
granularity of all models here.

| part | state it keeps | operations | talks to |
|---|---|---|---|
| coordinator (`coordinator.py`) | `self.vehicles`, `vehicle_success`, `vehicle_failure_count`, `vehicle_last_good_at`, optimistic holds, class locks, `_started`, `_auth_fail_polls`, drop anchor/mark/streak, portal 5xx streak | setup, `_poll_loop`, `_async_update_data`, commands, push of results, shutdown | brand client, entities, device registry, vehicle cache |
| brand client (`cariad/api/base.py` and the brands) | bearer, refresh lock, refresh history, rate-limit lockout, 5xx memory | `_request`, `_refresh_tokens`, `get_status`, `command_*` | identity provider, the maker's backend |
| supplementary channels (`cariad/auth/_eu_data_act.py`, `cariad/_authproxy.py`, `cariad/api/skoda_official.py`, `cariad/_mbb.py`) | cookies, data requests, quota, operation lists | read-only reads, a second way to send a command | the coordinator's poll, the portal |
| vehicle cache (`cariad/vehicle_cache.py`) | the stored snapshot and drop state | load, delayed save, reconcile | coordinator, disk |
| push managers (`cariad/push/`) | connection state, back-off, circuit breaker | start, stop, reconnect loop | broker, coordinator |
| companion channel (`companion/channel.py`, `client.py`) | the request-limit pause with its kind and probe, the write stamp, the screen lock; the app's screens are the rest of its state | reads, commands, syncs and settings, each a walk of taps through the maker's app on a phone; close | coordinator (persists pause and stamp), a transport to the phone |
| companion relay (`companion/relay.py`, `relay_transport.py`) | one broker per entry: slot, lock, pending futures, numbers, freshness | `command`, `handle_poll`, close, register | the channel, the agent app's long polls |
| entities (`sensor.py`, `lock.py`, ...) | none of their own | read `coordinator.data`, call commands | coordinator |
| config flow, repairs, reporters | dialogues, notices | | user |

Interactions that matter: the poll, the refresh after each command and the
optimistic layer all write `self.vehicles`; all requests of a client share one
bearer, one refresh budget and one lockout; the cache carries state over a
restart; the device registry decides which cars are polled, and the poll decides
which devices exist.

What is hard in this code, and what would make each part correct:

- **Commands.** A command shows its effect before it is sent, waits for a lock,
  may be re-sent by the request layer and again by a second channel, may be
  cancelled, and races with two readers that began before it. Correct: a car gets
  what the user was told it got, nothing is held for a command that failed, and
  the dashboard ends up at the truth.
- **Requests.** Retries recurse for four causes with one counter; refreshes are
  single-flight under a budget that protects the account. Correct: bounded
  sends, one mint per expiry, no leaked lock, silence during a lockout.
- **Polling.** One failure must not hide a car, outdated data must not stay, the
  loop must survive anything, reauth must be asked for exactly when it helps.
- **Schedule.** Polls aim at the portal's next drop and retry for a late one; a
  feed that has died must not be polled at the retry rate for ever, over any
  number of restarts.
- **Relay.** The phone cannot be dialled: its agent posts polls that are held
  until a command is there. Polls overlap, answers get lost, results come late,
  a reload replaces the broker. Correct: the phone runs each command at most
  once and in order, never one whose caller went on while it lay in the slot,
  and no call succeeds without an answer.
- **Pause.** The app shows when the car's request limit is reached; then nothing
  may be tapped for twelve hours, over restarts, but for rare probes of one
  kind. Correct: no tap under a pause, whatever alerts, restores and late
  callers do to its fields.
- **Settings.** A value is staged on a page of the app and sent by Save, which
  sends all that is staged; walks are cut short by lost connections and unloads.
  Correct: one call's value per Save, success only for what the car has, no two
  walks on one screen.
- **Readings.** A car is read over several channels, some of them frozen, late or
  contradicting themselves, and the result is laid over what was known. Correct:
  live beats batch, the newest position and date win, nothing known is blanked,
  nothing goes back, and reading the same data again changes nothing.
- **Not modelled yet:** reconnect loops of the push managers, login locks, token
  store (section 8).

`PROJECT.json` lists the components with their status and all hazards at the
line where they bite.

## 2. Modules

| module | models | run by | proved in |
|---|---|---|---|
| `CommandPipeline` | optimistic commands and the two readers, one vehicle | `MCCommandPipeline` | `CommandPipeline_proofs` |
| `ApiRequest` | the requests of one client | `MCApiRequest` | `ApiRequest_proofs` |
| `PollLoop` | setup, loop, availability, reauth, snapshot, devices | `MCPollLoop` | `PollLoop_proofs` |
| `DropSchedule` | how long the loop sleeps | `MCDropSchedule` | `DropSchedule_proofs` |
| `RemoteCalls` | abstract: what the relay promises | implemented by `CompanionRelay` | `CompanionRelay_proofs` |
| `CompanionRelay` | broker, callers, polls, agent, reload | `MCCompanionRelay` | `CompanionRelay_proofs` |
| `RequestLimit` | the companion channel's pause, probes and write gap | `MCRequestLimit` | `RequestLimit_proofs` |
| `ScreenEdits` | the screen lock and the calls that save a setting | `MCScreenEdits` | `ScreenEdits_proofs` |
| `Readings` | merge of the channels, reconcile with the stored snapshot | `MCReadings`, with `MCPollLoop` | `Readings_proofs` |

The first four cut the entry along its awaits. `CommandPipeline` takes an answer to a
request as one step and bounds the sends of a press, the re-sends of all requests
it makes together, by `MaxTries`; what happens inside is
`ApiRequest`. `PollLoop` wakes up sooner or later; when is `DropSchedule`.
`PollLoop`'s fairness assumes that reads end, which is `ApiRequest`'s
`EveryCallEnds`. Definitions that begin a comment with "a mutant" or "faulty"
are broken variants, used nowhere in a specification, that show that a property
can fail.

### CommandPipeline

`phase[c]` is where command `c` is in `_cariad_cmd_optimistic` / `_cariad_cmd`:
idle, queued for the class lock, sent, with the `mbb` or `official` second
channel, or over (accepted, failed, busy, dropped, cancelled). `holder` is the
owner of each `asyncio.Lock`, `snap[c]` what `_optimistic_set` returned,
`holdBy`/`holdOver` the entries of `_optimistic_hold` and their expiry, `stored`
is `self.vehicles[vin]`, `published` is `coordinator.data[vin]`. The poll is five
positions (begin, answer, apply holds, `update(fresh)`, push), the refresh three.
`car` and `backend` are the world: a send arrives or is lost, and the backend
reports the car with a delay. `wire` is the sends under way, `acted` counts what
the car did, `seen` is every value the backend ever reported. With
`TurnAwaits` the poll awaits between applying the holds to a read and storing it:
in the turns of the cars that follow, and once an hour at the end of a car's own
turn, in `run_v3_probe_pass` (coordinator.py:5516). `pollShared` is the aliasing
of a served dict with the stored one.

### ApiRequest

One call is a stack of `_request` frames: `attempt` and `mayRefresh` are the
innermost frame's `_attempt` and `retry`, `outer` the outer frames of the
SEAT/CUPRA override, the only ones that catch anything (403, next header set).
`token` numbers the bearers; those up to `expired` are refused. `minter` is the
owner of `_refresh_lock`, `bookings` the history of the last hour, `lockout` the
ticks left of the account's pause, `spent` the endpoints that only answer 5xx.
Each answer of the server is an action: success, 401, 429 with or without
Retry-After, 430, 5xx, 403, other refusals, network error. `StepsLeft(r)` bounds
the steps that call `r` still has: seven for every send its frames may yet make
(`SendsLeft`), and where it stands between two sends (`Stage`). Every step of a
call takes it down and nobody else's step touches it (`CallsWindDown`).

### PollLoop

`loop` is where `_poll_loop` is: sleeping, reading (the gather), settling (one
car's turn at a time, with an await between), tailing (reconcile to push), ended,
off. `known` is the keys of `self.vehicles`, `shown` those of `coordinator.data`.
Ages are counted in fractions of `_STALE_CACHE_WINDOW` and stop at `Window`.
`file` is the stored snapshot, `saving` a delayed save, `ghost` what an unloaded
coordinator still saves. `Available(v)` is the entities' `available` and
`is_vehicle_available` put together. `dataAge` and `deadPolls` are history: the
true age of the data shown, and the polls in a row in which every read failed
authentication (2 also when the account was refused outright).

### DropSchedule

`capture` is when the newest data was captured, `anchor` is
`_newest_capture_at`, which is rebuilt from an age and falls short of it by up to
`Jitter`; `mark` and `streak` are `_drop_anchor_high_water` and
`_drop_overdue_streak`, `file` their stored copy. `Decide` is the code from the
top of the `while` to the `sleep`. `Crash` also stands for a reload whose setup
reads the store before the delayed save is written.

### CompanionRelay and RemoteCalls

`slot[b]`, `lock[b]`, `seq[b]` are those of broker `b`, one per setup; `closed`
and `registered` are the registry's view, `fresh` the brokers whose agent called
lately. A call is connecting, connected, waiting for the lock, open (its future
is in `_pending`), answered, refused, shut, or over; `num[c]` is its number in
`c<seq>` and `on[c]` the broker its transport was built with. A poll is sent,
bound to a broker by its token, held, woken, or back. The agent waits for one
poll but may have given up another that the server still holds; it keeps a
result until a broker took it. `CallerStep` is `command()` cut at its awaits,
`PollStep` `handle_agent_request` and `handle_poll` cut at theirs. The heartbeat
fields are data and left out; a verb is its call.

`RemoteCalls` has no polls, slots or agent: a call begins with the next number of
a broker that has none open, is handed out while its caller waits, runs at most
once and after all that ran before, and succeeds only if the phone ran a call of
its number on this broker or an older one. `Promise` in `CompanionRelay` is the
refinement mapping: a call counts as open while it holds the lock.

### RequestLimit

`pause`, `probe` and `gap` are what is left of `_rate_limited_until`, of the
probe gap after `_limit_probe_at` and of the write gap after `_last_write_at`;
`kind` is `_limit_kind`, `baseline` `_pause_trip_tile`, `savedPause` and
`savedGap` the entry's data. `walk` is who drives the app, `late` a caller of an
unloaded entry that has still to persist. The alert on the app's screen, the
car's trips and its data are the world's. `barred` (what is left of a pause that
no probe may touch), `sinceTap` and `sinceAlert` are history.

### ScreenEdits

`pc[w]` is where a call or a read is: waiting for the screen lock, at the gate,
opening its page, looking, staging, checking, saving, undoing, on its way home.
`staged`, `sending` and `saved` are what the app's page shows unsaved, what it is
sending, and what the car has, per field. `Gate` is `_command_gate`'s search for
the overview, `PressOnce` one turn of `_return_to_overview`. Three kinds of page
differ in how a value is staged, confirmed and taken back: the charge limit's
slider, climate switches, departure timers. `GivesUp` is a close that waited
`_CLOSE_WAIT_S` in vain and closes the connection under the walk, whose last tap
(`stray`) may land later; `unsettled` is `mark_unsettled`.

It takes from the code's comments and constants, rather than checks: that the
settle period is long enough for such a tap; that a tap sent before a connection
was lost lands before what follows on a new one; that callers of an unloaded
entry are refused before the next setup; that a slider page which closes itself
has saved.

### Readings

Pure functions, so operators and no variables. `Sources` are what the channels
delivered, in order of trust; `Merge(s)` is `merge_channels`, `FieldOwner(s, x)`
the source a field ends up with after gap filling, live supersede and the two
freshest-capture overrides. `Reconcile(p, f)` is `reconcile`, one operator per
stage in the code's order; `ResolveSoc` the rules for a contested charge level.
`Fields` has one or two fields of every class that the code treats alike. A
value is a number, `None` unset; 0 is a false one, and a time stamp of 0 one that
does not parse. `pack_energy` is the energy ratio in per cent.

`PollLoop`'s turns and refreshes call both, on values it does not tell apart, so
`MCPollLoop` extends `MCReadings`, whose five ASSUMEs TLC evaluates before it
starts: `MergeChecked` on all orders of up to three channels, `SocChecked`,
`OtherChecked` and `StandsChecked` on snapshots in which the fields vary that the
properties tell apart, `DisagreementsChecked` on the examples of section 4.

## 3. Runs

| run | question | properties |
|---|---|---|
| `pipeline_locks` | two commands of one class, MBB second channel, resends, refreshes, read-only switching, reload, cancellation: is the lock ever leaked, stolen or bypassed, and can a second channel make the car move more often than the first one might? | `LockDiscipline`, `UnsentNeverActs`, `ReadOnlyStopsTheQueue`, `SecondChannelAddsNoMove` |
| `pipeline_overlap` | two commands on one field, a poll that awaits between a car's turn and the store, a change at the car, cancellation: is a field held for a failed command, and does anything but that late store hide a held value? | `NoHoldOfAFailedCommand`, `HiddenByALateStoreOnly` |
| `pipeline_live` | a poll that stores at the end of a car's turn, two fields of one class, the official second channel: do held values stay visible and reverted ones go, does every command end, and the dashboard settle on the car? | `TypeOK`, `HoldShown`, `NoPhantom`, `EveryCommandEnds`, `DashboardSettles` |
| `request_refresh` | SEAT/CUPRA with 403 chains, proactive re-mints, expiries and failing mints | `SendsBounded`, `TypeOK`, `NoNeedlessMint`, `MinterWaits`, `CallsWindDown` |
| `request_retry` | 429, 430, 5xx, network errors and 401s of two requests | `SendsBounded`, `EveryCallEnds`, `NoSendWhileLockedOut` |
| `poll_live` | two cars, refreshes, errors that reach the outer handler | `LoopRunsWhileStarted`, `NotShownPastWindow`, `OneFailureHidesNothing`, `OutdatedIsHidden` |
| `poll_reauth` | a passwordless entry over reloads, crashes, every way out of the loop and the owner's acts | `TypeOK`, `ReauthExactlyWhenDead`, `OneFailureHidesNothing` |
| `drop_budget` | days and nights, late drops, jitter, outages, restarts, crashes | `TypeOK`, `FastPollsBounded`, `DropRefillsTheBudget` |
| `relay_promise` | two calls, two polls, one reload; lost answers, polls given up, restarts of the agent, late results: does the broker implement `RemoteCalls`? | `TypeOK`, `SlotIsTheLockHolders`, `KeepsItsPromise` |
| `limit_pause` | reads, commands, syncs, both kinds of alert, trips, resets, reloads and crashes, without a bound on time: is anything tapped that must not be? | `TypeOK`, `PauseIsAbsolute`, `ProbesAreRare`, `TapsApart` |
| `limit_forgotten` | does the stored pause survive an unload? **violated** | `RestartKeepsThePause` |
| `setting_edits` | two calls that save any two of two climate switches, the charge limit and a timer, beside reads, over lost connections, an app that refuses or dies, and unloads under a walk | `TypeOK`, `NoTapFromBefore`, `SendsOneChange`, `DoneMeansSaved` |

### Bounds, and why they are enough

- *Commands:* two. A lock is contended by two; an overlap of snapshots and
  reverts needs two. Three commands of a class only lengthen the queue, and the
  proofs cover any number.
- *Fields and values:* Booleans, one or two fields: properties compare a value
  with the commanded one only.
- *`MaxTries`* 2 where a resend matters (locks, second channel), 1 elsewhere.
  *`MaxOwnerActs`* 1: a change at the car that no command made.
- *Requests:* two, on one endpoint, so that they share token, lockout and 5xx
  memory. `MaxRetries` 1 or 2 instead of 3: every branch compares `_attempt` with
  the maximum, and the bound on sends is stated in terms of it and proved for all.
  `MaxRefreshes` 2, `MaxExpiries` 1 or 2, `MaxMintFailures` 1: enough to spend the
  budget and to meet a second expiry.
- *Cars:* two where one car's turn can fall between another's read and store,
  one where the question is about the entry. `Tolerance` 2 (3 in the code) and
  `Window` 2 ticks: failures can reach the tolerance before and after the window.
- *`DropSchedule`:* Interval 5, Floor 3, Buffer 2, Retry 1, three decisions'
  worth of budget, 24 units of time: four intervals, so that a drop lands, is
  missed, retried for, given up and lands again. One lost save. The proofs hold
  for all values that `ScheduleAssumption` allows and without the bound on time.

- *Relay:* two calls contend for a lock and a slot and make late results
  possible; two polls are the one the agent waits for and one it gave up; two
  brokers are a reload. Calls and polls are symmetric.
- *`RequestLimit`:* WriteGap 1, ProbeGap 3, Pause 6 keep the order of the code's
  60 s, 1200 s and 12 h, with room for a probe inside a pause and a tap between
  probes; two trips are a tile that changes. Time itself is not bounded.
- *`ScreenEdits`:* two calls, with the same field, two fields of one page, or two
  pages of different kinds; two values; one read; two presses on a way home, so
  that it may end short of it.

`CHECK_DEADLOCK FALSE` is given where the system really stops: commands are
issued once, calls end, an ended loop is not restarted, `DropSchedule`'s clock is
bounded, and so are the relay's calls and brokers.

### Fairness

- `CommandPipeline`: every request ends (each has a timeout), a waiter gets the
  lock or times out (`_COMMAND_LOCK_TIMEOUT`), the poll goes on and is served
  again and again (strong fairness of `PollServed`: a backend that never answers
  again shows nothing new), holds elapse, the backend catches up with the car. No
  fairness of user actions. `DashboardSettles` excepts an entry that was unloaded.
- `ApiRequest`: weak fairness of the steps of each request (asyncio schedules
  what is ready, every HTTP call has a timeout, every `sleep` ends). None of the
  clock or the world: a call ends even if a lockout never runs down.
- `PollLoop`: weak fairness of the loop's steps and of time.

## 4. What disagrees with the code's own words

A run that TLC finishes with a counterexample:

1. **An unload can erase the stored pause** (`limit_forgotten`). "So an account
   lockout survives an HA restart" (coordinator.py:9435), but
   `_persist_companion_rate_limit` takes the pause of a client that
   `async_shutdown` has already set to None to be 0.0 (9449) and stores that. A
   command that waited for its class lock, or a refresh, that ends after the
   unload is enough; the next setup restores no pause. The write stamp, which is
   read with a default of its own, survives.

### Observations without a run

Found while modelling, at the lines given; stated here so that they are not lost.

- `_SKODA_FALLBACK_STATUSES` (coordinator.py:10653) lets 401/403/404 send the
  command on the official channel, as proof that nothing was carried out; but
  `_request` re-sends a POST after a 5xx or a network error (base.py:1803, 1843),
  and the status is the last send's. So a car may move twice for one command;
  `SecondChannelAddsNoMove` is what is left of the comment: the second channel
  adds no move to those the first one's resends may cause.
- `headers` are popped from the keyword arguments that every retry passes on
  (base.py:1730): a retry lacks what its caller gave, a SecToken among them.
- The push takes the cars it polled for those of the account and removes the
  others' devices (coordinator.py:7668). A disabled car is not polled, and
  without a device it is no longer disabled.
- Numbers start over with every broker (relay.py:178), so a result that the agent
  still holds from before a reload completes the new broker's call of that number
  (254). `RemoteCalls` allows it: an answer may be of an older broker.
- A call that waits for the relay's lock while `close()` runs enters after it and
  waits its whole timeout (relay.py:173): nobody will take its command.
- `_pause_trip_tile` is cleared when a read finds no pause or a new trip lifts it
  (channel.py:790), but not by a reset or an accepted sync; a pause that follows
  before the next read is compared with the tile of the one before.
- The gate of a sync closes an alert it finds without taking it for the limit
  (channel.py:2950), a backend alert of an earlier request as well.
- A poll that is cancelled at unload does not persist the pause its read has just
  tripped (coordinator.py:5594): it is lost with the channel.
- No snapshot should claim to be electric and a hybrid (vehicle_cache.py:717, and
  the docstring of `tests/test_1403_flags_survive_a_poll.py`, 25), but a read
  by a channel that says `is_electric` and does not see the engine, reconciled
  with a hybrid's snapshot, gives both: the fresh flag stays and the carried fuel
  raises the other (746). `ReconcileClaimsBoth` proves that such snapshots exist.
- A charge level that the portal contests is resolved against the last one so
  that it does not "flip between two numbers on a parked car"
  (vehicle_cache.py:542). Reading one delivery again and again does flip it where
  the odometer is contested too: the lower reading is kept (592), the rule for a
  car that has moved compares the delivery's with it (354), and so drops at every
  poll the level shown at the last one. It also flips on a charging car, where
  energy picks the lower candidate (337) and charging, at the next poll, the
  higher (340). `ReconcileParkedCarAlternates`, `ReconcileChargingCarAlternates`;
  `ReconcileRepeatChangesNothing` says when a repeated delivery is harmless. Its
  last condition came out of its proof: a pack's energy halfway between two
  candidates lets the level move once more.
- A live channel's `target_soc` and odometer are overwritten by a candidate the
  batch feed contests (vehicle_cache.py:592): only the charge level is guarded
  (582), although live telemetry "must therefore always beat the batch feed's"
  (_channel_merge.py:63). `field_sources` still names the live channel.
  `ReadingsTargetIsReplaced`; `LiveReadingStands` leaves the target out.
- A `last_seen_at` that does not parse replaces one that does
  (vehicle_cache.py:669), and then any older one is accepted; `OnlyForward`
  excepts it.
- A freshest position brings its heading only if it has one
  (_channel_merge.py:232): the heading shown may be another channel's. And the
  freshest position wins over a preferred channel's, though a note says that the
  preferred channel's older fix is shown (540).
- `merge_channels` keeps another car's source out of the gaps it fills, but not
  out of the live supersede, the freshest position and the freshest `last_seen`
  (_channel_merge.py:155).
- A push connection that ends cleanly sets STOPPED (skoda_mqtt.py:413) while its
  loop goes on; a stop() in that window returns at once (254).
- Two overlapping failing commands on one field: the second revert restores the
  first one's optimistic value (coordinator.py:10165). The next read corrects it.
- With several cars, or while the hourly probe pass runs (coordinator.py:5516), a
  command issued between a car's turn and the store of all (5534) is overwritten
  by the older read, hold or not; and a push can republish a value that a failure
  has reverted (5690).
- "They only ever grow" (vehicle_cache.py:250): the reconcile of a car's turn
  keeps the odometer from going back, but a refresh that stores newer data
  between that turn and the store of all is overwritten by the older. With
  refreshes TLC finds `DataNeverGoesBack` of `PollLoop` violated in nine states;
  `PollDataNeverGoesBack` shows that it takes a refresh.
- The 401 branch restarts `_attempt` (base.py:1748): up to `2*(MaxRetries+1)`
  sends, 8 rather than the 4 one reads off the docstring. Proactive re-mints
  check the lockout before their await and send after it (1724). A 429's hold
  overwrites a 430's longer one (1666).
- SEAT/CUPRA: other retries advance the header-set index (seat_cupra.py:195), and
  nested handlers count one refused read several times (240).
- A portal interaction ends the loop (coordinator.py:5754); a failed first read
  of a car without a snapshot leaves it out of every later poll (2548, 5235); a
  dead entry that supplementary reads still serve is stopped (5265); the stored
  `saved_at` is renewed while data is stale (8524), so that a restart opens the
  window anew.

## 5. Proofs

All theorems are checked by TLAPS for every value of the constants that the
named ASSUMEs allow; TLC evaluates those assumptions on every run.

| theorem | under | argument |
|---|---|---|
| `PipelineTypeOK`, `RequestTypeOK`, `DropTypeOK`, `RelayTypeOK`, `LimitTypeOK`, `EditsTypeOK` | | one step per action |
| `PipelineLockDiscipline`, `PipelineUnsentNeverActs` | | inductive together: only a holder sends, so an unsent command has nothing under way |
| `PipelineReadOnlyStopsTheQueue` | | only `Dispatch` leaves the queue for `sent` |
| `PipelineNoHoldOfAFailedCommand` | | with types; a failing command's revert drops the holds on its keys, and no later action gives a hold to a command that is over |
| `PipelineSecondChannelAddsNoMove` | | `SendsCounted`: what the car did and what is under way for it are at most the sends so far, and those at most `MaxTries` |
| `PipelineHiddenByALateStoreOnly` | | every action but `PollUpdates` keeps or installs held values |
| `PipelineHoldShown` | no await between turn and store | then `pollPc # "applied"`, and the same lemma, `HeldStaysShown`, serves |
| `PipelineNoPhantom` | no await between turn and store, commands on disjoint fields | strengthened by: what is stored was reported or is held, what a revert would restore was reported, and so was every reading |
| `RequestMinterWaits`, `RequestNoNeedlessMint` | | `Mints`: the minter waits with the current bearer, whoever refreshes was refused for an expired one or saw the bearer age, and the bearers, counting one more for a current one that has expired or ages, are at most one more than the expiries |
| `RequestSendsBounded` | | `CallBudget`, below |
| `RequestStepsLeft`, `RequestCallsWindDown` | | with `CallBudget`: each of a call's steps takes its `StepsLeft` down, no other step touches it |
| `RequestNoSendWhileLockedOut` | no proactive re-mint | every path to a send passes the first check |
| `PollLoopRuns` | no portal interaction | inductive as it stands |
| `PollReauthExactlyWhenDead`, `PollTypeOK` | | `ReauthInv`: while the loop may read nothing has stopped it, and its count is the history's; the types follow step by step, and that `authFails` ends at two follows from both (`CountStep`) |
| `PollOneFailureHidesNothing` | a snapshot of every car | `SeededInv`: the cars of the account are in every snapshot, so every known car has a time of a last good read |
| `PollNotShownPastWindow` | no reload | `AgesInv`: data is never older than the last good read it is judged by, except within the turn that has just booked it |
| `PollDataNeverGoesBack` | no refreshes | `BackInv`: what a turn has prepared to store is no older than what is shown; a refresh between the two is what breaks it (section 4) |
| `DropFastPollsBounded`, `DropRefills` | | `DropInv`, below |
| `RelaySlot`, `RelayKeepsItsPromise` | | `RelayInv`, below; the second by a simulation, one abstract step or none per action |
| `LimitPauseIsAbsolute`, `LimitProbesAreRare`, `LimitTapsApart` | | `LimitInv`: a barred pause is the pause and not of the budget's kind; what is left of the probe gap and the time since the last tap and alert add up to a gap; so do the write gap, in the channel or stored, and the time since the last tap |
| `MergeLiveBeatsBatch`, `MergePinIsTheFreshest`, `MergeSeenIsTheLatest` | | the first of a set of sources and the first of the latest exist (`LeastExists`, `NewestIs`, from well-foundedness and finite sets); the field's owner is that one |
| `ReadingsLiveReadingStands` | one car's sources | the merge's owner is live, and no stage of reconcile touches a live charge level |
| `ReconcileNothingBlanked`, `ReconcileOnlyForward`, `ReconcilePhantomIsGone` | | `ReconciledAre`: what each field is after all stages, from one lemma per stage; a choice among candidates is one of them |
| `ReconcileRepeatChangesNothing` | `Settled` | field by field: the healed result is the result, and each rule chosen again gives its own choice (`ResolvedAgain`) |
| `ReconcileParkedCarAlternates`, `ReconcileChargingCarAlternates`, `ReadingsTargetIsReplaced`, `ReconcileClaimsBoth` | | witnesses, section 4 |
| `EditsNoTapFromBefore`, `EditsSendOneChange`, `EditsDoneMeansSaved` | | `EditsInv`, below |

`CallBudget` counts what a call may still send: what is left of its counter, the
send that comes next, what the 403 handlers around it may begin (`Chain`), and
what a 401 that restarts the counter would add. That this and what was sent never
pass the limit needs the number of handlers that can still catch (`Chance`): only
a frame whose counter is 0 goes on with the fallback headers, so there is one
before the refresh, and the restart adds a second. With no retries at all the
SEAT/CUPRA limit would be too low, hence `MaxRetries >= 1`. Seven times the same
count, plus where the call stands between two sends, is a measure: every step of
the call lowers it, so that whether a call ends is left to fairness alone.

`DropInv` is why the retry budget survives restarts. Each mark, in memory or in
the cache, has either *seen* the newest drop (it lies within the jitter of its
capture) or is *unseen*, older by more than an anchor must advance; `Jitter <=
Advance` makes that a dichotomy, so jitter is never mistaken for a drop. A seen
mark accounts for `1 + min(streak, MaxStreak - 1)` retries, and no more have
been made, but for one whose save is still due, which only a crash can lose. An
unseen mark moves with the first decision by day, and while a landed drop waits
for that decision both marks are unseen. Polls aimed at a drop are at most two
because the first ends past `capture - Jitter + Interval + Buffer` and the
second, at least `Floor` later, past every anchor's due time.

`RelayInv` needs, beside the lock (`LockInv`: a broker's lock is held by one call
of its own, whose command is the one in the slot), that the holder has its
broker's last number (`NumInv`), and two facts about the phone. `HandInv`: a
command on its way comes after all that ran, because the poll it travels on was
bound to a broker no older than theirs; that is what keeps runs in order over a
reload. `AnswerInv`: a result names the number of a call that ran on the broker
it reaches or an older one; that it may be an older one is why the abstract
`Succeed` cannot ask for more.

`EditsInv` follows a value through a page. Where a call looks, nothing is staged
(the gate begins at the overview, and a page that was left took its values
along); while it stages only its field is; where it presses Save its value is, or
nothing any more. After Save the app sends that value or nothing, and the page
shows it, or is gone, or the car has it: so a page that is quiet and shows the
value has saved it. And a tap that outlived its connection finds the phone marked
and nobody at it, and a Save among them finds what its call had checked.

Only model-checked: liveness (`EveryCommandEnds`, `DashboardSettles`,
`EveryCallEnds`, `OutdatedIsHidden`), which the prover cannot do. Conditions that
the code does need, because the property fails without them: `HoldShown` with no
await between turn and store, `NoSendWhileLockedOut` without proactive re-mints,
`NotShownPastWindow` without reloads, `LoopRunsWhileStarted` without portal
interactions (section 4). `DataNeverGoesBack` is in no run: TLC finds it holds
without refreshes, as is proved, and fails with them, which is an observation.

## 6. Abstractions

Payloads are Booleans per field or only an age. Holds end by time or by a
confirming read; times are not compared except in `PollLoop`, `DropSchedule` and
the lockout. Reconciliation of a read with its predecessor is left out of
`CommandPipeline` and `PollLoop`: it changes field values that no property there
tells apart; `Readings` has it, without the stale mark of a position, the verdict
on closures, the companion's read stamps, `total_range_km`, `source_channel` and
the per-value capture times. Logging, notices and wording are left out. Bodies of parsers and
request formats are left out; whether a read parses is a choice (`Settle`).

Four steps the code could take are outside the models. A helper of a car's turn
that lets an exception through (they are written to catch their own) would leave
the cars before it booked and not stored; `OtherError` comes while reading or in
the tail only. Several raw names of one field may be contested at once, and the
last of them decides (vehicle_cache.py:552); `Readings` has one set of candidates
per field. A tap of `ScreenEdits` may miss or stage another of its control's
values, but never lands on another control. And a full re-login is one step of
`ApiRequest`: the SEAT/CUPRA login's last resort, a `_get` of the user id
(seat_cupra.py:290) made while `_refresh_lock` is held, is not among the requests.
(A 401 to it would have its own refresh wait for the lock that its task holds.)

## 7. Not modelled, and why

- Parsing of portal pages and mapping of payloads to `VehicleData`: data.
- OAuth exchanges: sequential, with a foreign server; their result is a choice
  of `ApiRequest`.
- Entities, config flow, diagnostics, reporters: no shared state, or none that a
  property of the entry depends on.
- Of the companion channel: `_switch_timer`, which taps a switch on the timers'
  list; the parsing of screens and of detail pages; the presets; resources.
  Transports are commands with a timeout; what a lost one leaves behind is in
  `ScreenEdits`.
- Push managers, portal, authproxy, feature states, entry migration: sections 4
  (one observation) and 8.

## 8. Plan

1. *Push managers* (`cariad/push/base.py`, `skoda_mqtt.py`, `*_fcm.py`): start,
   stop, the reconnect loop, the breaker and its automatic reset. After stop no
   loop; the breaker holds.
2. *Feature states and wake budget*; *EU Data Act kick-off and login lock*; the
   *token store* with rotation, cancellation and crash.
3. *Composition*: `ScreenEdits` over `RemoteCalls`, whose calls are its taps and
   dumps; `ApiRequest` as the implementation of a channel that sends at most
   `SendLimit` times and ends, which `CommandPipeline` and `PollLoop` assume;
   `PollLoop`'s sleep refined by `DropSchedule`.
4. *Proofs*: `NoSendWhileLockedOut` with the window that proactive re-mints leave
   made explicit, as `HiddenByALateStoreOnly` does for the holds; the measure of
   a command, as `StepsLeft` is of a call.
