----------------------------- MODULE ScreenEdits -----------------------------
(***************************************************************************)
(* Settings saved through the maker's app on the companion phone. A call   *)
(* opens a page, stages one value there, and taps the page's Save, which   *)
(* sends whatever is staged. Reads walk the same screen. The screen lock   *)
(* admits one walk at a time; an unload waits for the walk that holds it,  *)
(* then closes the connection, under the walk if it must.                  *)
(*                                                                         *)
(* The app and the connection are external: a tap lands on the control it  *)
(* aims at, but may miss or stage another of that control's values than    *)
(* the one asked for; the app may refuse or die, the connection may drop   *)
(* at any step, and a tap sent last may land after the connection closed.  *)
(***************************************************************************)
EXTENDS Naturals

CONSTANTS
    Edits, Reads,    \* calls that save a setting, and polls' walks
    Fields, Values,
    Plans,           \* what the calls ask for: a field and a value each
    Pages, PageOf,   \* the page a field is on
    Slider, Timers,  \* the charge limit's page, the departure timers' pages;
                     \* the other pages hold climate switches
    MaxPresses,      \* presses of one way home
    None

Walks == Edits \cup Reads

ASSUME EditsAssumption ==
    /\ Plans \subseteq [Edits -> Fields \X Values]
    /\ PageOf \in [Fields -> Pages]
    /\ Slider \in Pages /\ Timers \subseteq Pages \ {Slider}
    /\ {"overview", "gone"} \cap Pages = {}
    /\ None \notin Walks /\ None \notin Values
    /\ Edits \cap Reads = {}
    /\ MaxPresses \in Nat

VARIABLES
    plan,      \* what each call asks for
    pc,        \* where a walk is
    outcome,   \* what an edit on its way home will report
    presses,   \* presses left of the way home
    walker,    \* who holds the screen lock, or None
    entry,     \* "up", "closing", "down"
    unsettled, \* mark_unsettled: a walk waits before it begins
    page,      \* the app's page; "gone" when the app is not on screen
    staged,    \* values staged and not saved, per field, or None
    sending,   \* what the app is sending after Save, per field, or None
    saved,     \* the values the car has
    stray      \* a tap still on its way from a closed connection, or None:
               \* what it does, and the walk it is of

callVars  == <<pc, outcome>>
lockVars  == <<presses, walker, entry, unsettled>>
phoneVars == <<page, staged, sending, saved, stray>>
vars == <<plan, callVars, lockVars, phoneVars>>

Nothing == [f \in Fields |-> None]

Init ==
    /\ plan \in Plans
    /\ pc = [w \in Walks |-> "idle"] /\ outcome = [c \in Edits |-> None]
    /\ presses = 0 /\ walker = None /\ entry = "up" /\ unsettled = FALSE
    /\ page = "overview" /\ staged = Nothing /\ sending = Nothing
    /\ saved \in [Fields -> Values]
    /\ stray = None

Field(c) == plan[c][1]
Value(c) == plan[c][2]

Shown(f) == IF staged[f] # None THEN staged[f] ELSE saved[f]
Here(c) == page = PageOf[Field(c)]
OnSlider(c) == PageOf[Field(c)] = Slider
OnTimer(c) == PageOf[Field(c)] \in Timers
OnClimate(c) == ~OnSlider(c) /\ ~OnTimer(c)

Goto(w, place) == pc' = [pc EXCEPT ![w] = place]

-----------------------------------------------------------------------------
(* Leaving a page *)

\* The app's own way out, or BACK; neither saves. The slider's and a timer's page
\* may only discard a pending value and stay; a climate page goes, and what is
\* staged goes with it.
Press ==
    /\ page \in Pages
    /\ staged' = Nothing
    /\ page' \in {"overview"} \cup
                 (IF staged # Nothing /\ page \in {Slider} \cup Timers THEN {page} ELSE {})

\* One turn of _return_to_overview, whose press may miss.
PressOnce ==
    /\ presses > 0 /\ presses' = presses - 1
    /\ Press \/ UNCHANGED <<page, staged>>

AtHome == page = "overview"

\* The walk is over: the lock is free, whatever the screen shows.
End(w, place) ==
    /\ Goto(w, IF w \in Reads THEN "idle" ELSE place)
    /\ walker' = None /\ presses' = 0

\* On its way home a call has been decided.
Result(w) == IF pc[w] = "home" /\ w \in Edits THEN outcome[w] ELSE "failed"

WayHome(w) ==
    /\ pc[w] = "home"
    /\ \/ /\ ~AtHome /\ PressOnce
          /\ UNCHANGED <<pc, walker>>
       \/ /\ AtHome \/ presses = 0
          /\ End(w, Result(w))
          /\ UNCHANGED <<page, staged>>
    /\ UNCHANGED <<outcome, entry, unsettled, sending, saved, stray>>

\* A mutant: the lock stays taken.
LostWithLock(w) ==
    /\ walker = w
    /\ Goto(w, IF w \in Reads THEN "idle" ELSE Result(w))
    /\ UNCHANGED <<outcome, lockVars, phoneVars>>

\* The connection is lost and not to be had again: the screen stays as it is. A
\* tap sent before has landed or never will: what follows on a new connection
\* comes after it.
Lost(w) ==
    /\ walker = w
    /\ End(w, Result(w))
    /\ UNCHANGED <<outcome, entry, unsettled, phoneVars>>

-----------------------------------------------------------------------------
(* The lock *)

Ask(w) ==
    /\ pc[w] = "idle" /\ entry = "up"
    /\ Goto(w, "waiting")
    /\ UNCHANGED <<outcome, lockVars, phoneVars>>

\* _ScreenLock.acquire and the foregrounding of the app: refused once the entry
\* closes; after an unload that could not see the phone idle it waits.
Begin(w) ==
    /\ pc[w] = "waiting" /\ walker = None
    /\ IF entry # "up" THEN /\ Goto(w, IF w \in Reads THEN "idle" ELSE "failed")
                            /\ UNCHANGED <<presses, walker, page>>
       ELSE /\ ~unsettled
            /\ Goto(w, "gate") /\ walker' = w /\ presses' = MaxPresses
            /\ page' = IF page = "gone" THEN "overview" ELSE page
    /\ UNCHANGED <<outcome, entry, unsettled, staged, sending, saved, stray>>

-----------------------------------------------------------------------------
(* The walk *)

\* A mutant: a call that finds its page open goes on from there.
GateOnThePage(w) ==
    /\ pc[w] = "gate"
    /\ \/ AtHome /\ Goto(w, "open") /\ UNCHANGED <<presses, walker, page, staged>>
       \/ /\ w \in Edits /\ Here(w) /\ Goto(w, "look")
          /\ UNCHANGED <<presses, walker, page, staged>>
       \/ ~AtHome /\ PressOnce /\ UNCHANGED <<pc, walker>>
       \/ ~AtHome /\ presses = 0 /\ End(w, "failed") /\ UNCHANGED <<page, staged>>
    /\ UNCHANGED <<outcome, entry, unsettled, sending, saved, stray>>

\* _command_gate, and the way a read begins: every walk starts from the
\* overview. From another page it goes home first, or taps nothing.
Gate(w) ==
    /\ pc[w] = "gate"
    /\ \/ AtHome /\ Goto(w, "open") /\ UNCHANGED <<presses, walker, page, staged>>
       \/ ~AtHome /\ PressOnce /\ UNCHANGED <<pc, walker>>
       \/ ~AtHome /\ presses = 0 /\ End(w, "failed") /\ UNCHANGED <<page, staged>>
    /\ UNCHANGED <<outcome, entry, unsettled, sending, saved, stray>>

\* _walk_to_detail. A read turns back from the page it opened.
Open(w) ==
    /\ pc[w] = "open" /\ AtHome
    /\ page' \in (IF w \in Edits THEN {PageOf[Field(w)]} ELSE Pages)
    /\ presses' = MaxPresses
    /\ Goto(w, IF w \in Edits THEN "look" ELSE "home")
    /\ UNCHANGED <<outcome, walker, entry, unsettled, staged, sending, saved, stray>>

\* A value that the page shows already needs no tap.
Look(c) ==
    /\ pc[c] = "look" /\ Here(c)
    /\ IF Shown(Field(c)) = Value(c)
       THEN Goto(c, "home") /\ outcome' = [outcome EXCEPT ![c] = "done"]
       ELSE Goto(c, "stage") /\ UNCHANGED outcome
    /\ UNCHANGED <<lockVars, phoneVars>>

StageTo(f, v) == staged' = [staged EXCEPT ![f] = IF v = saved[f] THEN None ELSE v]

\* A tap on the field's control stages a value, which need not be the target:
\* the value there already, if it missed. No tap lands on another control.
TapControl(c) ==
    /\ pc[c] = "stage" /\ Here(c)
    /\ \E v \in Values : StageTo(Field(c), v)
    /\ Goto(c, "check")
    /\ UNCHANGED <<outcome, lockVars, page, sending, saved, stray>>

\* _move_charge_slider, _set_timer_days and _set_timer_clock tap again until the
\* page shows the target, a bounded number of times; _stage_climate_setting
\* taps once.
MoveSlider(c)    == OnSlider(c) /\ TapControl(c)
SetTimer(c)      == OnTimer(c) /\ TapControl(c)
SwitchSetting(c) == OnClimate(c) /\ TapControl(c)

\* A mutant: Save is pressed on what was tapped, not on what is shown.
CheckNothing(c) ==
    /\ pc[c] = "check" /\ Here(c)
    /\ Goto(c, "save")
    /\ UNCHANGED <<outcome, lockVars, phoneVars>>

\* What the page shows right before Save must be the target. A slider or a wheel
\* may be corrected by another tap.
Check(c) ==
    /\ pc[c] = "check" /\ Here(c)
    /\ IF Shown(Field(c)) = Value(c) THEN Goto(c, "save")
       ELSE ~OnClimate(c) /\ Goto(c, "stage")
    /\ UNCHANGED <<outcome, lockVars, phoneVars>>

\* What the app is sending once Save is pressed: what is staged, on top of what
\* an earlier Save still sends.
PressSave ==
    /\ staged # Nothing
    /\ sending' = [f \in Fields |-> IF staged[f] # None THEN staged[f] ELSE sending[f]]

\* Save is the one tap that sends. It needs the button, which only a staged
\* value brings up.
Save(c) ==
    /\ pc[c] = "save" /\ Here(c) /\ PressSave
    /\ Goto(c, "saving")
    /\ UNCHANGED <<outcome, lockVars, page, staged, saved, stray>>

\* The app is done with what was saved, as far as its screens tell.
Settled(c) == pc[c] = "saving" /\ sending = Nothing /\ staged = Nothing

Decide(c, good) ==
    /\ outcome' = [outcome EXCEPT ![c] = IF good THEN "done" ELSE "failed"]
    /\ Goto(c, "home")
    /\ UNCHANGED <<lockVars, staged, sending, saved, stray>>

\* A mutant: a page that is still up with the new value on it has saved it.
ConfirmByPage(c) ==
    /\ OnSlider(c) /\ pc[c] = "saving"
    /\ \/ AtHome /\ Decide(c, TRUE)
       \/ Here(c) /\ Decide(c, Shown(Field(c)) = Value(c))
    /\ UNCHANGED page

\* _await_charge_target_saved: the app left edit mode with the new value on the
\* page, or closed the page, which counts as saved.
ConfirmTarget(c) ==
    /\ OnSlider(c) /\ Settled(c)
    /\ \/ AtHome /\ Decide(c, TRUE)
       \/ Here(c) /\ Decide(c, Shown(Field(c)) = Value(c))
    /\ UNCHANGED page

\* _await_climate_settings_saved; then the page is opened again and read.
ConfirmSetting(c) ==
    /\ OnClimate(c) /\ Settled(c) /\ (AtHome \/ Here(c))
    /\ page' = PageOf[Field(c)]
    /\ Decide(c, Shown(Field(c)) = Value(c))

\* _await_timer_saved: a page that stays up has not saved. The list's row is
\* checked, then the timer's page again.
ConfirmTimer(c) ==
    /\ OnTimer(c) /\ Settled(c) /\ AtHome
    /\ page' = PageOf[Field(c)]
    /\ Decide(c, Shown(Field(c)) = Value(c))

\* A control is missing, an alert is up, the call is cancelled, or the app did
\* not confirm: what was staged is taken back first, if the call still can.
Abort(c) ==
    /\ pc[c] \in {"open", "look", "stage", "check", "save", "saving"}
    /\ outcome' = [outcome EXCEPT ![c] = "failed"]
    /\ \/ Goto(c, "home")
       \/ pc[c] \in {"stage", "check", "save"} /\ Goto(c, "undo")
    /\ UNCHANGED <<lockVars, phoneVars>>

AbortRead(r) ==
    /\ pc[r] = "open"
    /\ Goto(r, "home")
    /\ UNCHANGED <<outcome, lockVars, phoneVars>>

\* What was staged is gone, or the way back could not be tapped.
Restore(c) ==
    /\ pc[c] = "undo" /\ Goto(c, "home")
    /\ UNCHANGED <<outcome, lockVars, sending, saved, stray>>

\* _discard_charge_target: the toolbar's Cancel. If it did not take, the screen
\* is left alone.
DiscardTarget(c) ==
    /\ OnSlider(c)
    /\ \/ Here(c) /\ staged' = Nothing /\ UNCHANGED page /\ Restore(c)
       \/ /\ pc[c] = "undo" /\ End(c, "failed")
          /\ UNCHANGED <<outcome, entry, unsettled, phoneVars>>

\* _leave_climate_settings: a switch is tapped back before the page is left.
SwitchBack(c) ==
    /\ OnClimate(c) /\ Restore(c) /\ UNCHANGED page
    /\ \/ Here(c) /\ staged' = [staged EXCEPT ![Field(c)] = None]
       \/ UNCHANGED staged

\* _cancel_timer_page, _cancel_compose_page: Cancel, or X and the page may stay.
CancelTimer(c) ==
    /\ OnTimer(c) /\ Restore(c)
    /\ \/ Here(c) /\ staged' = Nothing /\ page' \in {page, "overview"}
       \/ UNCHANGED <<page, staged>>

-----------------------------------------------------------------------------
(* Unload and setup *)

CloseBegins ==
    /\ entry = "up"
    /\ entry' = "closing"
    /\ UNCHANGED <<callVars, presses, walker, unsettled, phoneVars>>

\* acquire_to_close got the lock. A tap that never got its answer marks the
\* phone all the same.
Closes ==
    /\ entry = "closing" /\ walker = None
    /\ entry' = "down" /\ unsettled' \in {unsettled, TRUE}
    /\ UNCHANGED <<callVars, presses, walker, phoneVars>>

\* The tap a walk may have sent last, which has not landed.
LastTaps(w) ==
    {None, [tap |-> "press", of |-> w]} \cup
        (IF pc[w] \in {"stage", "save"} THEN {[tap |-> pc[w], of |-> w]} ELSE {})

\* A mutant: the phone is not marked.
GivesUpUnmarked ==
    /\ entry = "closing" /\ walker # None
    /\ entry' = "down"
    /\ End(walker, Result(walker))
    /\ stray' \in LastTaps(walker)
    /\ UNCHANGED <<outcome, unsettled, page, staged, sending, saved>>

\* The wait ran out: the connection is closed under the walk, and the phone
\* marked unsettled.
GivesUp ==
    /\ entry = "closing" /\ walker # None
    /\ entry' = "down" /\ unsettled' = TRUE
    /\ End(walker, Result(walker))
    /\ stray' \in LastTaps(walker)
    /\ UNCHANGED <<outcome, page, staged, sending, saved>>

\* The settle period is over. It is taken to be long enough for the phone.
Settles ==
    /\ unsettled /\ stray = None
    /\ unsettled' = FALSE
    /\ UNCHANGED <<callVars, presses, walker, entry, phoneVars>>

Setup ==
    /\ entry = "down" /\ \A w \in Walks : pc[w] # "waiting"
    /\ entry' = "up"
    /\ UNCHANGED <<callVars, presses, walker, unsettled, phoneVars>>

-----------------------------------------------------------------------------
(* The app *)

AppSaves ==
    /\ sending # Nothing
    /\ saved' = [f \in Fields |-> IF sending[f] # None THEN sending[f] ELSE saved[f]]
    /\ staged' = Nothing /\ sending' = Nothing
    /\ page' \in (IF page \in Pages THEN {page, "overview"} ELSE {page})
    /\ UNCHANGED <<callVars, lockVars, stray>>

\* The car's limit, or an error: the page keeps what is staged.
AppRefuses ==
    /\ sending # Nothing
    /\ sending' = Nothing
    /\ UNCHANGED <<callVars, lockVars, page, staged, saved, stray>>

AppDies ==
    /\ page # "gone"
    /\ page' = "gone" /\ staged' = Nothing /\ sending' \in {sending, Nothing}
    /\ UNCHANGED <<callVars, lockVars, saved, stray>>

\* The tap that outlived its connection lands, on whatever is there.
StrayLands ==
    /\ stray # None
    /\ stray' = None
    /\ \/ stray.tap = "press" /\ Press /\ UNCHANGED sending
       \/ /\ stray.tap = "stage" /\ Here(stray.of)
          /\ \E v \in Values : StageTo(Field(stray.of), v)
          /\ UNCHANGED <<page, sending>>
       \/ stray.tap = "save" /\ Here(stray.of) /\ PressSave /\ UNCHANGED <<page, staged>>
       \/ UNCHANGED <<page, staged, sending>>
    /\ UNCHANGED <<callVars, lockVars, saved>>

EditStep(c) ==
    \/ Look(c) \/ MoveSlider(c) \/ SetTimer(c) \/ SwitchSetting(c) \/ Check(c) \/ Save(c)
    \/ ConfirmTarget(c) \/ ConfirmSetting(c) \/ ConfirmTimer(c) \/ Abort(c)
    \/ DiscardTarget(c) \/ SwitchBack(c) \/ CancelTimer(c)
WalkStep(w) == Begin(w) \/ Gate(w) \/ Open(w) \/ WayHome(w)

Step ==
    \/ \E w \in Walks : Ask(w) \/ WalkStep(w) \/ Lost(w)
    \/ \E c \in Edits : EditStep(c)
    \/ \E r \in Reads : AbortRead(r)
    \/ CloseBegins \/ Closes \/ GivesUp \/ Settles \/ Setup
    \/ AppSaves \/ AppRefuses \/ AppDies \/ StrayLands

Next == Step /\ UNCHANGED plan

Spec == Init /\ [][Next]_vars

-----------------------------------------------------------------------------
(* Properties *)

Walking == {"gate", "open", "look", "stage", "check", "save", "saving", "undo", "home"}
Taps == [tap : {"press"}, of : Walks] \cup [tap : {"stage", "save"}, of : Edits]
Partly == [Fields -> Values \cup {None}]

\* The variables have their types, and the lock is held by exactly the walk that
\* is under way: no walk drives the screen without it, none keeps it once over.
TypeOK ==
    /\ plan \in Plans
    /\ pc \in [Walks -> Walking \cup {"idle", "waiting", "done", "failed"}]
    /\ outcome \in [Edits -> {None, "done", "failed"}]
    /\ presses \in 0 .. MaxPresses
    /\ walker \in Walks \cup {None}
    /\ \A w \in Walks : walker = w <=> pc[w] \in Walking
    /\ entry \in {"up", "closing", "down"} /\ unsettled \in BOOLEAN
    /\ page \in Pages \cup {"overview", "gone"}
    /\ staged \in Partly /\ sending \in Partly /\ saved \in [Fields -> Values]
    /\ stray \in Taps \cup {None}

\* A new connection's walk does not read or tap the screen while a tap of the
\* connection that an unload closed may still land on it.
NoTapFromBefore == stray # None => walker = None

Only(c) == [f \in Fields |-> IF f = Field(c) THEN Value(c) ELSE None]
Sends(c) == pc[c] = "save" \/ (stray # None /\ stray = [tap |-> "save", of |-> c])

\* What the app starts to send is the one value of the call that pressed Save:
\* never what an earlier walk, cut short, left staged on the page, and never a
\* value that a tap went astray to.
SendsOneChange ==
    [][sending' \notin {sending, Nothing} =>
         \E c \in Edits : Sends(c) /\ staged = Only(c)]_vars

\* A call that reports its value saved has been so: the car has that value at
\* the moment the call decides.
DoneMeansSaved ==
    [][\A c \in Edits : outcome[c] # "done" /\ outcome'[c] = "done"
                          => saved[Field(c)] = Value(c)]_vars
=============================================================================
