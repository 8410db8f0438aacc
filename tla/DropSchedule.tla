---------------------------- MODULE DropSchedule ----------------------------
(***************************************************************************)
(* How long _poll_loop sleeps between two polls of an EU Data Act entry.   *)
(* The portal hands out a snapshot, a drop, every 15 minutes or so. The    *)
(* loop aims each poll at the next drop and, when that one is overdue,     *)
(* polls again soon; #1850 gave those retries a budget that a restart does *)
(* not refill and only a drop that lands does. A sustained outage of the   *)
(* portal widens the sleep.                                                *)
(*                                                                         *)
(* The units of time are arbitrary: only the order of the parameters and   *)
(* their sums count.                                                       *)
(***************************************************************************)
EXTENDS Integers

CONSTANTS
    Interval,    \* the configured scan interval, at least Floor
    Floor,       \* _CC_MIN_INTERVAL_S: 180
    Buffer,      \* _DROP_BUFFER_S: 60
    Retry,       \* _DROP_RETRY_S: 60
    MaxStreak,   \* _DROP_RETRY_MAX_STREAK: 3
    Advance,     \* _DROP_ANCHOR_ADVANCE_S: 1
    Jitter,      \* how far a rebuilt anchor falls behind the capture time
    Backoff,     \* _PORTAL_5XX_BACKOFF_S: <<300, 900, 1800>>
    None,
    MaxTime, MaxCrashes   \* bounds on the clock and on lost saves

ASSUME ScheduleAssumption ==
    /\ Interval \in Nat /\ Floor \in Nat /\ Buffer \in Nat /\ Retry \in Nat
    /\ Jitter \in Nat /\ Advance \in Nat
    /\ Floor <= Interval /\ Buffer + Jitter <= Floor /\ Retry <= Floor
    /\ 0 < Floor /\ Jitter <= Advance
    /\ MaxStreak \in Nat \ {0}
    /\ Backoff \in [1..3 -> Nat]
    /\ None \notin Int
    /\ MaxTime \in Nat /\ MaxCrashes \in Nat

VARIABLES
    pc,       \* "decide", "asleep" or "poll"
    now,
    capture,  \* when the newest data of any car was captured, or None
    anchor,   \* _newest_capture_at, or None
    mark,     \* _drop_anchor_high_water, or None
    streak,   \* _drop_overdue_streak
    outage,   \* the portal's last read was a portal_error
    errors,   \* _consecutive_portal_5xx
    sleep,    \* the sleep chosen last
    file,     \* drop_state in the vehicle cache
    saving,   \* a save of it is due within 30 seconds
    aligned, retried,  \* history, since the last drop landed: polls sooner than
                       \* Interval, aimed at a drop or retrying for one
    landed,            \* history: a drop landed since the last decision by day
    lost               \* history: saves that a crash prevented

schedVars == <<anchor, mark, streak, errors, sleep>>
vars == <<pc, now, capture, schedVars, outage, file, saving, aligned, retried, landed, lost>>

Stored(m, s) == [anchor |-> m, streak |-> s]
AtLeast(a, b) == IF a < b THEN b ELSE a
AtMost(a, b) == IF a > b THEN b ELSE a

\* The setup has read every car once, which may have met an outage.
Init ==
    /\ pc = "decide" /\ now = 0
    /\ capture = None /\ anchor = None /\ mark = None
    /\ streak = 0 /\ errors = 0 /\ sleep = 0
    /\ outage \in BOOLEAN
    /\ file = Stored(None, 0) /\ saving = FALSE
    /\ aligned = 0 /\ retried = 0 /\ landed = FALSE /\ lost = 0

-----------------------------------------------------------------------------
(* The decision *)

\* A mutant: any change of the anchor counts as a drop.
AnchorDiffers(previous, current) ==
    current /= None /\ previous /= current

\* _drop_anchor_advanced: forward only, and by more than the jitter.
AnchorAdvanced(previous, current) ==
    /\ current /= None
    /\ previous /= None => current - previous > Advance

DropOverdue(a) == a /= None /\ a + Interval + Buffer <= now

\* _drop_anchored_sleep_s.
AnchoredSleep(s) ==
    LET remaining == IF ~DropOverdue(anchor) THEN anchor + Interval + Buffer - now
                     ELSE IF s >= MaxStreak THEN Interval ELSE Retry
    IN AtLeast(AtMost(remaining, Interval), Floor)

\* A mutant: by night the mark follows the anchor, too, but refills nothing.
CountMarkingByNight(night) ==
    /\ mark' = IF AnchorAdvanced(mark, anchor) THEN anchor ELSE mark
    /\ streak' = CASE night -> streak
                   [] AnchorAdvanced(mark, anchor) -> 0
                   [] DropOverdue(anchor) -> streak + 1
                   [] OTHER -> streak

\* Count the overdue polls, by day only; a drop that landed starts over.
Count(night) ==
    IF ~night /\ AnchorAdvanced(mark, anchor)
    THEN mark' = anchor /\ streak' = 0
    ELSE /\ streak' = IF ~night /\ DropOverdue(anchor) THEN streak + 1 ELSE streak
         /\ UNCHANGED mark

\* A mutant: the streak of failures grows without end.
NoteOutageUncapped(n) == IF outage THEN n + 1 ELSE 0

\* _note_portal_outage: saturates at the last of the backoffs.
NoteOutage(n) == IF outage THEN AtMost(n + 1, 3) ELSE 0

\* _portal_5xx_backoff_s
BackoffOf(n) == IF n = 0 THEN 0 ELSE Backoff[AtMost(n, 3)]

\* By night the interval is doubled and nothing is aligned.
Decide(night) ==
    /\ pc = "decide"
    /\ Count(night)
    /\ errors' = NoteOutage(errors)
    /\ sleep' = AtLeast(IF night THEN 2 * Interval
                        ELSE IF anchor = None THEN Interval ELSE AnchoredSleep(streak'),
                        BackoffOf(errors'))
    /\ saving' = (saving \/ streak' /= streak \/ mark' /= mark)
    /\ IF sleep' >= Interval THEN UNCHANGED <<aligned, retried>>
       ELSE IF DropOverdue(anchor) THEN retried' = retried + 1 /\ UNCHANGED aligned
       ELSE aligned' = aligned + 1 /\ UNCHANGED retried
    /\ landed' = (landed /\ (night \/ anchor = None))
    /\ pc' = "asleep"
    /\ UNCHANGED <<now, capture, anchor, outage, file, lost>>

-----------------------------------------------------------------------------
(* The rest of the loop *)

\* Every sleep outlasts the delay of a save.
Sleep ==
    /\ pc = "asleep"
    /\ now + sleep <= MaxTime
    /\ now' = now + sleep
    /\ file' = IF saving THEN Stored(mark, streak) ELSE file
    /\ saving' = FALSE
    /\ pc' = "poll"
    /\ UNCHANGED <<capture, schedVars, outage, aligned, retried, landed, lost>>

\* A poll brings a drop captured at t, or none; the anchor is rebuilt from the
\* age of the newest data, and so falls a little short of its capture time.
Poll(t, jitter, failed) ==
    /\ pc = "poll"
    /\ \/ /\ t /= None /\ t <= now
          /\ capture /= None => t > capture + Advance + Jitter
          /\ capture' = t
          /\ aligned' = 0 /\ retried' = 0 /\ landed' = TRUE /\ lost' = 0
       \/ t = None /\ UNCHANGED <<capture, aligned, retried, landed, lost>>
    /\ anchor' = IF capture' = None THEN anchor ELSE capture' - jitter
    /\ outage' = failed
    /\ pc' = "decide"
    /\ UNCHANGED <<now, mark, streak, errors, sleep, file, saving>>

-----------------------------------------------------------------------------
(* Restarts *)

\* A mutant: the streak is not stored.
RestoreAnchorOnly(stored) ==
    /\ mark' = IF stored.anchor = None THEN None ELSE AtMost(stored.anchor, now)
    /\ streak' = 0

\* drop_state_from_cache
Restore(stored) ==
    /\ mark' = IF stored.anchor = None THEN None ELSE AtMost(stored.anchor, now)
    /\ streak' = AtMost(stored.streak, MaxStreak)

\* The loop of the restarted entry starts with no anchor, and again after the
\* setup's read.
Restarted ==
    /\ anchor' = None /\ errors' = 0 /\ sleep' = 0
    /\ outage' \in BOOLEAN /\ saving' = FALSE
    /\ pc' = "decide"
    /\ UNCHANGED <<now, capture, aligned, retried, landed>>

\* Home Assistant stops in order: the final write saves what is due.
Restart ==
    /\ now < MaxTime
    /\ file' = IF saving THEN Stored(mark, streak) ELSE file
    /\ Restore(file')
    /\ Restarted
    /\ UNCHANGED lost

\* A crash, or a reload whose setup reads the store before the delayed save.
Crash ==
    /\ now < MaxTime
    /\ saving /\ lost < MaxCrashes
    /\ lost' = lost + 1
    /\ Restore(file)
    /\ Restarted
    /\ UNCHANGED file

-----------------------------------------------------------------------------
Next ==
    \/ \E night \in BOOLEAN : Decide(night)
    \/ Sleep
    \/ \E t \in 0..now \cup {None}, jitter \in 0..Jitter, failed \in BOOLEAN :
          Poll(t, jitter, failed)
    \/ Restart
    \/ Crash

Spec == Init /\ [][Next]_vars

-----------------------------------------------------------------------------
(* Properties *)

\* Every variable keeps its type.
TypeOK ==
    /\ pc \in {"decide", "asleep", "poll"}
    /\ now \in Nat /\ capture \in Nat \cup {None}
    /\ anchor \in Int \cup {None} /\ mark \in Int \cup {None}
    /\ streak \in Nat /\ errors \in 0..3 /\ sleep \in Nat
    /\ file \in [anchor : Int \cup {None}, streak : Nat]
    /\ outage \in BOOLEAN /\ saving \in BOOLEAN /\ landed \in BOOLEAN
    /\ aligned \in Nat /\ retried \in Nat /\ lost \in Nat

\* A feed that has stopped costs the account a bounded number of polls beyond
\* the configured rate, over any number of restarts: MaxStreak retries and two
\* aimed at the next drop, plus one for each save that a crash prevented
\* (#1850, coordinator.py:476-493).
FastPollsBounded == retried <= MaxStreak + lost /\ aligned <= 2

\* The first drop that lands refills the budget and alignment resumes, however
\* the entry was restarted meanwhile and even if it landed by night
\* (coordinator.py:489-491).
DropRefillsTheBudget ==
    [][landed /\ ~landed' /\ pc = "decide" => streak' = 0 /\ mark' = anchor]_vars
=============================================================================
