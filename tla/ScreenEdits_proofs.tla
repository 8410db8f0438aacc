------------------------- MODULE ScreenEdits_proofs -------------------------
(***************************************************************************)
(* Theorems of ScreenEdits, for any calls, plans, fields, values and pages *)
(* that EditsAssumption allows.                                            *)
(***************************************************************************)
EXTENDS ScreenEdits, TLAPS

-----------------------------------------------------------------------------
(* Types *)

Places == Walking \cup {"idle", "waiting", "done", "failed"}
ReadPlaces == {"idle", "waiting", "gate", "open", "home"}

\* An edit on its way home, or to it, has been decided.
CallTypes ==
    /\ plan \in Plans
    /\ pc \in [Walks -> Places]
    /\ outcome \in [Edits -> {None, "done", "failed"}]
    /\ presses \in 0 .. MaxPresses
    /\ walker \in Walks \cup {None}
    /\ \A w \in Walks : walker = w <=> pc[w] \in Walking
    /\ \A c \in Edits : pc[c] \in {"undo", "home"} => outcome[c] \in {"done", "failed"}
    /\ \A r \in Reads : pc[r] \in ReadPlaces

EntryTypes == entry \in {"up", "closing", "down"} /\ unsettled \in BOOLEAN

PhoneTypes ==
    /\ page \in Pages \cup {"overview", "gone"}
    /\ staged \in Partly /\ sending \in Partly /\ saved \in [Fields -> Values]

StrayType == stray \in Taps \cup {None}

Types == CallTypes /\ EntryTypes /\ PhoneTypes /\ StrayType

LEMMA Parts == Types => TypeOK
  BY DEF Types, TypeOK, CallTypes, EntryTypes, PhoneTypes, StrayType, Places

LEMMA PlanType ==
  ASSUME CallTypes, NEW c \in Edits
  PROVE  Field(c) \in Fields /\ Value(c) \in Values /\ PageOf[Field(c)] \in Pages
  BY EditsAssumption DEF CallTypes, Field, Value

\* A walk that is under way goes on, or ends; the others are not under way.
LEMMA GoesOn ==
  ASSUME CallTypes, NEW w \in Walks, walker = w, NEW place \in Walking, Goto(w, place),
         UNCHANGED <<plan, walker>>, presses' \in 0 .. MaxPresses,
         outcome' \in [Edits -> {None, "done", "failed"}],
         \A c \in Edits : outcome'[c] # outcome[c] => outcome'[c] \in {"done", "failed"},
         w \in Edits /\ place \in {"undo", "home"} => outcome'[w] \in {"done", "failed"},
         w \in Reads => place \in ReadPlaces
  PROVE  CallTypes'
<1>1. pc' = [pc EXCEPT ![w] = place] /\ pc \in [Walks -> Places] /\ Walking \subseteq Places
  BY DEF Goto, CallTypes, Places
<1>2. pc' \in [Walks -> Places]
  BY <1>1
<1>3. \A v \in Walks : walker' = v <=> pc'[v] \in Walking
  BY <1>1 DEF CallTypes
<1>4. \A c \in Edits : pc'[c] \in {"undo", "home"} => outcome'[c] \in {"done", "failed"}
  BY <1>1 DEF CallTypes, Walks
<1>5. \A r \in Reads : pc'[r] \in ReadPlaces
  BY <1>1 DEF CallTypes, Walks
<1> QED BY <1>2, <1>3, <1>4, <1>5 DEF CallTypes, Places, Walking, ReadPlaces

LEMMA Ends ==
  ASSUME CallTypes, NEW w \in Walks, walker = w, NEW place \in {"done", "failed"},
         End(w, place), UNCHANGED <<plan, outcome>>
  PROVE  CallTypes'
<1>1. PICK end \in {"idle", "done", "failed"} : pc' = [pc EXCEPT ![w] = end]
  BY DEF End, Goto
<1>2. pc' \in [Walks -> Places]
  BY <1>1 DEF CallTypes, Places
<1>3. \A v \in Walks : walker' = v <=> pc'[v] \in Walking
  BY <1>1, EditsAssumption DEF CallTypes, End, Walking
<1>4. \A c \in Edits : pc'[c] \in {"undo", "home"} => outcome'[c] \in {"done", "failed"}
  BY <1>1 DEF CallTypes, Walks
<1>5. 0 \in 0 .. MaxPresses
  BY EditsAssumption
<1>6. \A r \in Reads : pc'[r] \in ReadPlaces
  BY DEF CallTypes, End, Goto, Walks, ReadPlaces
<1> QED BY <1>2, <1>3, <1>4, <1>5, <1>6 DEF CallTypes, End, Places, Walking, ReadPlaces

LEMMA PressOnceType ==
  ASSUME presses \in 0 .. MaxPresses, PressOnce PROVE presses' \in 0 .. MaxPresses
  BY EditsAssumption DEF PressOnce

LEMMA ResultType ==
  ASSUME CallTypes, NEW w \in Walks PROVE Result(w) \in {"done", "failed"}
  BY DEF CallTypes, Result

LEMMA PressType ==
  ASSUME PhoneTypes, Press
  PROVE  page' \in Pages \cup {"overview", "gone"} /\ staged' \in Partly
<1>1. Nothing \in Partly
  BY DEF Nothing, Partly
<1> QED BY <1>1 DEF Press, PhoneTypes, Partly

LEMMA StageType ==
  ASSUME CallTypes, PhoneTypes, NEW c \in Edits, NEW v \in Values, StageTo(Field(c), v)
  PROVE  staged' \in Partly
  BY PlanType DEF StageTo, PhoneTypes, Partly

LEMMA PressSaveType ==
  ASSUME PhoneTypes, PressSave PROVE sending' \in Partly
  BY DEF PressSave, PhoneTypes, Partly

LEMMA WalkType ==
  ASSUME Types, NEW w \in Walks, Ask(w) \/ WalkStep(w) \/ Lost(w), plan' = plan
  PROVE  Types'
<1> USE DEF callVars, lockVars, phoneVars
<1>0. CallTypes /\ EntryTypes /\ PhoneTypes /\ StrayType
  BY DEF Types
<1>a. MaxPresses \in 0 .. MaxPresses /\ None \notin Walks
  BY EditsAssumption
<1>b. \A v \in Walks : walker = v <=> pc[v] \in Walking
  BY DEF Types, CallTypes
<1>1. CASE Ask(w)
  <2>1. CallTypes'
    BY <1>1 DEF Ask, Goto, Types, CallTypes, Places, Walking, ReadPlaces, Walks
  <2> QED BY <1>0, <1>1, <2>1 DEF Ask, Types, EntryTypes, PhoneTypes, StrayType
<1>2. CASE Begin(w)
  <2>1. EntryTypes'
    BY <1>0, <1>2, Zenon DEF Begin, EntryTypes
  <2>2. PhoneTypes' /\ StrayType'
    BY <1>0, <1>2 DEF Begin, PhoneTypes, StrayType
  <2>3. CallTypes'
    <3>1. CASE entry # "up"
      <4>1. PICK place \in {"idle", "failed"} : pc' = [pc EXCEPT ![w] = place]
        BY <1>2, <3>1 DEF Begin, Goto
      <4>2. \A r \in Reads : pc'[r] \in ReadPlaces
        BY <1>0, <1>2, <3>1, <4>1 DEF Begin, Goto, CallTypes, ReadPlaces, Walks
      <4> QED BY <1>0, <1>2, <3>1, <4>1, <4>2 DEF Begin, CallTypes, Places, Walking, Walks, ReadPlaces
    <3>2. CASE entry = "up"
      <4>1. /\ pc' = [pc EXCEPT ![w] = "gate"] /\ walker' = w /\ walker = None
            /\ presses' = MaxPresses /\ outcome' = outcome
        BY <1>2, <3>2 DEF Begin, Goto
      <4>2. \A v \in Walks : pc[v] \notin Walking
        BY <1>a, <1>b, <4>1
      <4>3. pc' \in [Walks -> Places] /\ \A v \in Walks : walker' = v <=> pc'[v] \in Walking
        BY <1>0, <4>1, <4>2 DEF CallTypes, Places, Walking
      <4>4. \A c \in Edits : pc'[c] \in {"undo", "home"} => outcome[c] \in {"done", "failed"}
        BY <1>0, <4>1 DEF CallTypes, Walks
      <4>5. \A r \in Reads : pc'[r] \in ReadPlaces
        BY <1>0, <4>1 DEF CallTypes, ReadPlaces, Walks
      <4> QED BY <1>0, <1>a, <4>1, <4>3, <4>4, <4>5 DEF CallTypes, Places, Walking, ReadPlaces
    <3> QED BY <3>1, <3>2
  <2> QED BY <2>1, <2>2, <2>3 DEF Types
<1>3. CASE Gate(w)
  <2>1. walker = w
    BY <1>3, <1>b DEF Gate, Walking
  <2>2. EntryTypes'
    BY <1>0, <1>3, Zenon DEF Gate, EntryTypes
  <2>3. PhoneTypes' /\ StrayType'
    BY <1>0, <1>3, PressType DEF Gate, PressOnce, PhoneTypes, StrayType
  <2>4. CallTypes'
    <3>1. CASE Goto(w, "open") /\ UNCHANGED <<presses, walker>>
      BY <1>0, <1>3, <2>1, <3>1, GoesOn DEF Gate, CallTypes, Walking, ReadPlaces
    <3>2. CASE PressOnce /\ UNCHANGED <<pc, walker>>
      <4>1. presses' \in 0 .. MaxPresses
        BY <1>0, <3>2, PressOnceType DEF CallTypes
      <4> QED BY <1>0, <1>3, <3>2, <4>1 DEF Gate, CallTypes, ReadPlaces
    <3>3. CASE End(w, "failed")
      BY <1>0, <1>3, <2>1, <3>3, Ends DEF Gate
    <3> QED BY <1>3, <3>1, <3>2, <3>3 DEF Gate
  <2> QED BY <2>2, <2>3, <2>4 DEF Types
<1>4. CASE Open(w)
  <2>1. walker = w
    BY <1>4, <1>b DEF Open, Walking
  <2>2. EntryTypes'
    BY <1>0, <1>4, Zenon DEF Open, EntryTypes
  <2>3. PhoneTypes' /\ StrayType'
    BY <1>0, <1>4, PlanType DEF Open, PhoneTypes, StrayType
  <2>4. CallTypes'
    <3>1. CASE w \in Edits
      <4>1. w \notin Reads /\ Goto(w, "look") /\ presses' = MaxPresses
        BY <1>4, <3>1, EditsAssumption DEF Open
      <4>2. UNCHANGED <<walker, outcome>> /\ outcome \in [Edits -> {None, "done", "failed"}]
        BY <1>0, <1>4 DEF Open, CallTypes
      <4> QED BY <1>0, <1>a, <2>1, <4>1, <4>2, GoesOn DEF Walking
    <3>2. CASE w \notin Edits
      BY <1>0, <1>4, <1>a, <2>1, <3>2, GoesOn DEF Open, CallTypes, Walking, ReadPlaces
    <3> QED BY <3>1, <3>2
  <2> QED BY <2>2, <2>3, <2>4 DEF Types
<1>5. CASE WayHome(w)
  <2>1. walker = w
    BY <1>5, <1>b DEF WayHome, Walking
  <2>2. EntryTypes'
    BY <1>0, <1>5, Zenon DEF WayHome, EntryTypes
  <2>3. PhoneTypes' /\ StrayType'
    BY <1>0, <1>5, PressType DEF WayHome, PressOnce, PhoneTypes, StrayType
  <2>4. CallTypes'
    <3>1. CASE PressOnce /\ UNCHANGED <<pc, walker>>
      <4>1. presses' \in 0 .. MaxPresses
        BY <1>0, <3>1, PressOnceType DEF CallTypes
      <4> QED BY <1>0, <1>5, <3>1, <4>1 DEF WayHome, CallTypes, ReadPlaces
    <3>2. CASE End(w, Result(w))
      BY <1>0, <1>5, <2>1, <3>2, Ends, ResultType DEF WayHome
    <3> QED BY <1>5, <3>1, <3>2 DEF WayHome
  <2> QED BY <2>2, <2>3, <2>4 DEF Types
<1>6. CASE Lost(w)
  <2>1. EntryTypes'
    BY <1>0, <1>6, Zenon DEF Lost, EntryTypes
  <2>2. CallTypes'
    BY <1>0, <1>6, Ends, ResultType DEF Lost
  <2> QED BY <1>0, <1>6, <2>1, <2>2 DEF Lost, Types, PhoneTypes, StrayType
<1> QED BY <1>1, <1>2, <1>3, <1>4, <1>5, <1>6 DEF WalkStep

LEMMA EditType ==
  ASSUME Types, NEW c \in Edits, EditStep(c), plan' = plan
  PROVE  Types'
<1> USE DEF callVars, lockVars, phoneVars
<1>0. /\ CallTypes /\ EntryTypes /\ PhoneTypes /\ StrayType
      /\ c \in Walks /\ outcome \in [Edits -> {None, "done", "failed"}]
      /\ presses \in 0 .. MaxPresses
      /\ pc[c] \in Walking => walker = c
  BY DEF Types, CallTypes, Walks
<1>a. c \notin Reads
  BY EditsAssumption
<1>1. CASE Look(c)
  <2>1. walker = c
    BY <1>0, <1>1 DEF Look, Walking
  <2>2. CallTypes'
    <3>1. \/ Goto(c, "stage") /\ outcome' = outcome
          \/ Goto(c, "home") /\ outcome' = [outcome EXCEPT ![c] = "done"]
      BY <1>1 DEF Look
    <3>2. CASE Goto(c, "stage") /\ outcome' = outcome
      BY <1>0, <1>1, <2>1, <1>a, <3>2, GoesOn DEF Look, Walking
    <3>3. CASE Goto(c, "home") /\ outcome' = [outcome EXCEPT ![c] = "done"]
      <4>1. outcome' \in [Edits -> {None, "done", "failed"}] /\ outcome'[c] = "done"
            /\ \A d \in Edits : outcome'[d] # outcome[d] => outcome'[d] \in {"done", "failed"}
        BY <1>0, <3>3
      <4> QED BY <1>0, <1>1, <2>1, <1>a, <3>3, <4>1, GoesOn DEF Look, Walking
    <3> QED BY <3>1, <3>2, <3>3
  <2> QED BY <1>0, <1>1, <2>2, Zenon DEF Look, Types, EntryTypes, PhoneTypes, StrayType
<1>2. CASE TapControl(c)
  <2>1. walker = c
    BY <1>0, <1>2 DEF TapControl, Walking
  <2>2. CallTypes'
    BY <1>0, <1>2, <2>1, <1>a, GoesOn DEF TapControl, Walking
  <2>3. PhoneTypes'
    BY <1>0, <1>2, StageType DEF TapControl, PhoneTypes
  <2> QED BY <1>0, <1>2, <2>2, <2>3, Zenon DEF TapControl, Types, EntryTypes, StrayType
<1>3. CASE Check(c)
  <2>1. walker = c
    BY <1>0, <1>3 DEF Check, Walking
  <2>2. CallTypes'
    BY <1>0, <1>3, <2>1, <1>a, GoesOn DEF Check, Walking
  <2> QED BY <1>0, <1>3, <2>2, Zenon DEF Check, Types, EntryTypes, PhoneTypes, StrayType
<1>4. CASE Save(c)
  <2>1. walker = c
    BY <1>0, <1>4 DEF Save, Walking
  <2>2. CallTypes'
    BY <1>0, <1>4, <2>1, <1>a, GoesOn DEF Save, Walking
  <2>3. PhoneTypes'
    BY <1>0, <1>4, PressSaveType DEF Save, PhoneTypes
  <2> QED BY <1>0, <1>4, <2>2, <2>3, Zenon DEF Save, Types, EntryTypes, StrayType
<1>5. ASSUME pc[c] = "saving", NEW good \in BOOLEAN, Decide(c, good),
             page' \in {page, PageOf[Field(c)]}
      PROVE  Types'
  <2>1. walker = c
    BY <1>0, <1>5 DEF Walking
  <2>2. PICK result \in {"done", "failed"} : outcome' = [outcome EXCEPT ![c] = result]
    BY <1>5 DEF Decide
  <2>3. CallTypes'
    <3>1. outcome' \in [Edits -> {None, "done", "failed"}] /\ outcome'[c] \in {"done", "failed"}
          /\ \A d \in Edits : outcome'[d] # outcome[d] => outcome'[d] \in {"done", "failed"}
      BY <1>0, <2>2
    <3> QED BY <1>0, <1>5, <2>1, <1>a, <3>1, GoesOn DEF Decide, Walking
  <2>4. PhoneTypes'
    BY <1>0, <1>5, PlanType DEF Decide, PhoneTypes
  <2> QED BY <1>0, <1>5, <2>3, <2>4, Zenon DEF Decide, Types, EntryTypes, StrayType
<1>6. CASE ConfirmTarget(c) \/ ConfirmSetting(c) \/ ConfirmTimer(c)
  BY <1>5, <1>6 DEF ConfirmTarget, ConfirmSetting, ConfirmTimer, Settled
<1>7. CASE Abort(c)
  <2>1. walker = c
    BY <1>0, <1>7 DEF Abort, Walking
  <2>2. CallTypes'
    <3>1. outcome' \in [Edits -> {None, "done", "failed"}] /\ outcome'[c] = "failed"
          /\ \A d \in Edits : outcome'[d] # outcome[d] => outcome'[d] \in {"done", "failed"}
      BY <1>0, <1>7 DEF Abort
    <3>2. PICK place \in {"home", "undo"} : Goto(c, place)
      BY <1>7 DEF Abort
    <3> QED BY <1>0, <1>7, <2>1, <1>a, <3>1, <3>2, GoesOn DEF Abort, Walking
  <2> QED BY <1>0, <1>7, <2>2, Zenon DEF Abort, Types, EntryTypes, PhoneTypes, StrayType
<1>8. ASSUME Restore(c), staged' \in Partly, page' \in {page, "overview"}
      PROVE  Types'
  <2>1. walker = c /\ outcome[c] \in {"done", "failed"}
    BY <1>0, <1>8 DEF Restore, Walking, CallTypes
  <2>2. CallTypes'
    BY <1>0, <1>8, <2>1, <1>a, GoesOn DEF Restore, Walking
  <2>3. PhoneTypes'
    BY <1>0, <1>8 DEF Restore, PhoneTypes
  <2> QED BY <1>0, <1>8, <2>2, <2>3, Zenon DEF Restore, Types, EntryTypes, StrayType
<1>9. Nothing \in Partly /\ staged \in Partly /\ [staged EXCEPT ![Field(c)] = None] \in Partly
  BY <1>0 DEF Nothing, Partly, PhoneTypes
<1>10. CASE DiscardTarget(c)
  <2>1. CASE Restore(c) /\ staged' = Nothing /\ UNCHANGED page
    BY <1>8, <1>9, <2>1
  <2>2. CASE pc[c] = "undo" /\ End(c, "failed") /\ UNCHANGED <<outcome, entry, unsettled, phoneVars>>
    <3>1. CallTypes'
      BY <1>0, <2>2, Ends DEF Walking
    <3> QED BY <1>0, <2>2, <3>1, Zenon DEF Types, EntryTypes, PhoneTypes, StrayType
  <2> QED BY <1>10, <2>1, <2>2 DEF DiscardTarget
<1>11. CASE SwitchBack(c) \/ CancelTimer(c)
  BY <1>8, <1>9, <1>11 DEF SwitchBack, CancelTimer
<1> QED BY <1>1, <1>2, <1>3, <1>4, <1>6, <1>7, <1>10, <1>11
        DEF EditStep, MoveSlider, SetTimer, SwitchSetting

LEMMA OtherType ==
  ASSUME Types, plan' = plan,
         \/ \E r \in Reads : AbortRead(r)
         \/ CloseBegins \/ Closes \/ GivesUp \/ Settles \/ Setup
         \/ AppSaves \/ AppRefuses \/ AppDies \/ StrayLands
  PROVE  Types'
<1> USE DEF callVars, lockVars, phoneVars
<1>0. CallTypes /\ EntryTypes /\ PhoneTypes /\ StrayType
  BY DEF Types
<1>1. ASSUME NEW r \in Reads, AbortRead(r) PROVE Types'
  <2>1. r \in Walks /\ r \notin Edits /\ walker = r
    BY <1>0, <1>1, EditsAssumption DEF AbortRead, CallTypes, Walks, Walking
  <2>2. CallTypes'
    BY <1>0, <1>1, <2>1, GoesOn DEF AbortRead, Walking, ReadPlaces, CallTypes
  <2> QED BY <1>0, <1>1, <2>2, Zenon DEF AbortRead, Types, EntryTypes, PhoneTypes, StrayType
<1>2. CASE CloseBegins \/ Closes \/ Settles \/ Setup
  <2>1. EntryTypes'
    BY <1>0, <1>2, Zenon DEF CloseBegins, Closes, Settles, Setup, EntryTypes
  <2>2. UNCHANGED <<pc, outcome, presses, walker, phoneVars>>
    BY <1>2 DEF CloseBegins, Closes, Settles, Setup
  <2> QED BY <1>0, <2>1, <2>2 DEF Types, CallTypes, PhoneTypes, StrayType
<1>3. CASE GivesUp
  <2>1. walker \in Walks
    BY <1>0, <1>3 DEF GivesUp, CallTypes
  <2>2. EntryTypes'
    BY <1>3, Zenon DEF GivesUp, EntryTypes
  <2>3. CallTypes'
    BY <1>0, <1>3, <2>1, Ends, ResultType DEF GivesUp
  <2>4. StrayType'
    <3>1. pc[walker] \in {"stage", "save"} => walker \in Edits
      BY <1>0, <2>1 DEF CallTypes, Walks, ReadPlaces
    <3> QED BY <1>3, <2>1, <3>1 DEF GivesUp, LastTaps, StrayType, Taps
  <2> QED BY <1>0, <1>3, <2>2, <2>3, <2>4 DEF GivesUp, Types, PhoneTypes
<1>4. CASE AppSaves \/ AppRefuses \/ AppDies
  <2>1. PhoneTypes'
    BY <1>0, <1>4 DEF AppSaves, AppRefuses, AppDies, PhoneTypes, Partly, Nothing
  <2>2. UNCHANGED <<pc, outcome, presses, walker, entry, unsettled, stray>>
    BY <1>4 DEF AppSaves, AppRefuses, AppDies
  <2> QED BY <1>0, <2>1, <2>2, Zenon DEF Types, CallTypes, EntryTypes, StrayType
<1>5. CASE StrayLands
  <2>1. /\ UNCHANGED <<pc, outcome, presses, walker, entry, unsettled, saved>> /\ stray' = None
    BY <1>5 DEF StrayLands
  <2>2. PhoneTypes'
    <3>1. CASE Press /\ UNCHANGED sending
      BY <1>0, <2>1, <3>1, PressType DEF PhoneTypes
    <3>2. CASE stray.tap = "stage" /\ (\E v \in Values : StageTo(Field(stray.of), v))
               /\ UNCHANGED <<page, sending>>
      <4>1. stray.of \in Edits
        BY <1>0, <1>5, <3>2 DEF StrayLands, StrayType, Taps
      <4> QED BY <1>0, <2>1, <3>2, <4>1, StageType DEF PhoneTypes
    <3>3. CASE PressSave /\ UNCHANGED <<page, staged>>
      BY <1>0, <2>1, <3>3, PressSaveType DEF PhoneTypes
    <3>4. CASE UNCHANGED <<page, staged, sending>>
      BY <1>0, <2>1, <3>4 DEF PhoneTypes
    <3> QED BY <1>5, <3>1, <3>2, <3>3, <3>4 DEF StrayLands
  <2> QED BY <1>0, <2>1, <2>2, Zenon DEF Types, CallTypes, EntryTypes, StrayType
<1> QED BY <1>1, <1>2, <1>3, <1>4, <1>5

LEMMA TypesStep == ASSUME Types, [Next]_vars PROVE Types'
<1>1. CASE UNCHANGED vars
  BY <1>1, Zenon DEF vars, callVars, lockVars, phoneVars, Types, CallTypes, EntryTypes,
                     PhoneTypes, StrayType
<1> QED BY <1>1, WalkType, EditType, OtherType DEF Next, Step

LEMMA TypesInit == Init => Types
<1> SUFFICES ASSUME Init PROVE Types
  OBVIOUS
<1>1. CallTypes
  BY EditsAssumption DEF Init, CallTypes, Places, Walking, ReadPlaces, Walks
<1>2. EntryTypes
  BY Zenon DEF Init, EntryTypes
<1>3. PhoneTypes /\ StrayType
  BY DEF Init, PhoneTypes, StrayType, Nothing, Partly
<1> QED BY <1>1, <1>2, <1>3 DEF Types

\* Every step keeps the types, and the lock with the walk under way.
THEOREM EditsTypeOK == Spec => []TypeOK
  BY Parts, TypesInit, TypesStep, PTL DEF Spec
-----------------------------------------------------------------------------
(* What is staged, and who staged it *)

Clean(values) == \A f \in Fields : values[f] = None

\* At most the call's own field is staged, to any value, or to the value asked for.
OnlyMine(c) == \A f \in Fields : staged[f] # None => f = Field(c)
AsAsked(c)  == OnlyMine(c) /\ staged[Field(c)] \in {None, Value(c)}

\* Values are staged on a page, not at the overview and not in a dead app.
PageInv == ~Clean(staged) => page \in Pages

\* A call stages on a page that it found clean, and saves what it checked. After
\* Save the app sends that value, or nothing any more.
EditInv == \A c \in Edits :
    /\ pc[c] = "look" => Clean(staged)
    /\ pc[c] \in {"stage", "check"} => OnlyMine(c)
    /\ pc[c] = "save" => AsAsked(c)
    /\ pc[c] = "saving" =>
          /\ Clean(sending) \/ sending[Field(c)] = Value(c)
          /\ \/ page = "gone" \/ staged[Field(c)] = Value(c)
             \/ Clean(staged) /\ Clean(sending) /\ saved[Field(c)] = Value(c)

\* A tap that outlived its connection finds the phone marked and nobody at it; a
\* Save among them finds what its call had checked.
StrayInv ==
    /\ stray # None => unsettled
    /\ unsettled => walker = None
    /\ stray # None /\ stray.tap = "save" => AsAsked(stray.of)

EditsInv == Types /\ PageInv /\ EditInv /\ StrayInv

LEMMA NothingIsClean ==
  /\ Clean(Nothing)
  /\ \A values \in Partly : Clean(values) => values = Nothing
  BY DEF Clean, Nothing, Partly

\* No tap is on its way while a walk is under way.
LEMMA WalkerAlone ==
  ASSUME StrayInv, NEW w \in Walks, walker = w PROVE stray = None /\ ~unsettled
<1>1. walker # None
  BY EditsAssumption
<1> QED BY <1>1, Zenon DEF StrayInv

LEMMA StrayKeeps ==
  ASSUME StrayInv, NEW w \in Walks, walker = w, UNCHANGED <<unsettled, stray>>
  PROVE  StrayInv'
<1>1. stray = None /\ ~unsettled
  BY WalkerAlone
<1>2. stray' = None /\ ~unsettled'
  BY <1>1, Zenon
<1> QED BY <1>2, Zenon DEF StrayInv

\* A walk that is not at its page owes nothing, and the others are not under way.
LEMMA AwayFromPage ==
  ASSUME CallTypes, NEW w \in Walks, walker = w, NEW place,
         place \notin {"look", "stage", "check", "save", "saving"}, Goto(w, place)
  PROVE  EditInv'
<1> SUFFICES ASSUME NEW c \in Edits
             PROVE  pc'[c] \notin {"look", "stage", "check", "save", "saving"}
  BY DEF EditInv
<1>1. c \in Walks /\ pc \in [Walks -> Places]
  BY DEF Walks, CallTypes
<1>2. CASE c = w
  BY <1>1, <1>2 DEF Goto
<1>3. CASE c # w
  BY <1>1, <1>3 DEF Goto, CallTypes, Walking
<1> QED BY <1>2, <1>3

LEMMA NobodyWalks ==
  ASSUME CallTypes, walker = None, NEW c \in Edits
  PROVE  pc[c] \notin {"look", "stage", "check", "save", "saving"}
  BY EditsAssumption DEF CallTypes, Walking, Walks

LEMMA WalkInv ==
  ASSUME EditsInv, NEW w \in Walks, Ask(w) \/ WalkStep(w) \/ Lost(w), plan' = plan
  PROVE  PageInv' /\ EditInv' /\ StrayInv'
<1> USE DEF callVars, lockVars, phoneVars
<1>0. CallTypes /\ PhoneTypes /\ PageInv /\ EditInv /\ StrayInv /\ pc \in [Walks -> Places]
  BY DEF EditsInv, Types, CallTypes
<1>a. "overview" \notin Pages /\ "gone" \notin Pages
  BY EditsAssumption
<1>b. \A v \in Walks : walker = v <=> pc[v] \in Walking
  BY <1>0 DEF CallTypes
<1>c. ASSUME Press PROVE PageInv'
  BY <1>c, NothingIsClean DEF Press, PageInv, Clean
<1>1. CASE Ask(w)
  <2>1. \A c \in Edits : pc'[c] = pc[c] \/ pc'[c] = "waiting"
    BY <1>0, <1>1 DEF Ask, Goto, Walks
  <2>2. EditInv'
    BY <1>0, <1>1, <2>1 DEF Ask, EditInv, Clean, OnlyMine, AsAsked, Field, Value
  <2>3. PageInv' /\ StrayInv'
    BY <1>0, <1>1, Zenon DEF Ask, PageInv, StrayInv, Clean, OnlyMine, AsAsked, Field, Value
  <2> QED BY <2>2, <2>3
<1>2. CASE Begin(w)
  <2>1. walker = None /\ UNCHANGED <<unsettled, staged, sending, saved, stray>>
    BY <1>2 DEF Begin
  <2>2. EditInv'
    <3>1. \A c \in Edits : pc'[c] \in {pc[c], "gate", "failed", "idle"}
      BY <1>0, <1>2 DEF Begin, Goto, Walks
    <3> QED BY <1>0, <2>1, <3>1, NobodyWalks DEF EditInv
  <2>3. PageInv'
    BY <1>0, <1>2, <1>a DEF Begin, PageInv, Clean
  <2>4. StrayInv'
    <3>1. CASE entry # "up"
      BY <1>0, <1>2, <3>1, Zenon DEF Begin, StrayInv, OnlyMine, AsAsked, Field, Value
    <3>2. CASE entry = "up"
      <4>1. ~unsettled /\ unsettled' = unsettled /\ stray' = stray
        BY <1>2, <3>2, Zenon DEF Begin
      <4>2. stray = None
        BY <1>0, <4>1, Zenon DEF StrayInv
      <4> QED BY <4>1, <4>2, Zenon DEF StrayInv
    <3> QED BY <3>1, <3>2
  <2> QED BY <2>2, <2>3, <2>4
<1>3. CASE Gate(w)
  <2>1. walker = w
    BY <1>3, <1>b DEF Gate, Walking
  <2>2. StrayInv'
    BY <1>0, <1>3, <2>1, StrayKeeps DEF Gate
  <2>3. PageInv'
    <3>1. Press \/ UNCHANGED <<page, staged>>
      BY <1>3 DEF Gate, PressOnce
    <3> QED BY <1>0, <1>c, <3>1 DEF PageInv, Clean
  <2>4. EditInv'
    <3>1. PICK place \in {"open", "gate", "idle", "failed"} : Goto(w, place)
      <4>1. CASE UNCHANGED pc
        BY <1>0, <1>3, <4>1 DEF Gate, Goto
      <4>2. CASE Goto(w, "open") \/ End(w, "failed")
        BY <4>2 DEF End
      <4> QED BY <1>3, <4>1, <4>2 DEF Gate
    <3> QED BY <1>0, <2>1, <3>1, AwayFromPage
  <2> QED BY <2>2, <2>3, <2>4
<1>4. CASE Open(w)
  <2>1. walker = w /\ Clean(staged)
    BY <1>0, <1>4, <1>a, <1>b DEF Open, Walking, AtHome, PageInv
  <2>2. StrayInv'
    BY <1>0, <1>4, <2>1, StrayKeeps DEF Open
  <2>3. PageInv'
    BY <1>4, <2>1 DEF Open, PageInv, Clean
  <2>4. EditInv'
    <3>1. CASE w \notin Edits
      BY <1>0, <1>4, <2>1, <3>1, AwayFromPage DEF Open
    <3>2. CASE w \in Edits
      <4>1. \A c \in Edits : \/ pc'[c] = "look"
                             \/ pc'[c] \notin {"look", "stage", "check", "save", "saving"}
        BY <1>0, <1>4, <1>b, <2>1, <3>2 DEF Open, Goto, Walking, Walks
      <4> QED BY <1>4, <2>1, <4>1 DEF Open, EditInv, Clean
    <3> QED BY <3>1, <3>2
  <2> QED BY <2>2, <2>3, <2>4
<1>5. CASE WayHome(w)
  <2>1. walker = w
    BY <1>5, <1>b DEF WayHome, Walking
  <2>2. StrayInv'
    BY <1>0, <1>5, <2>1, StrayKeeps DEF WayHome
  <2>3. PageInv'
    <3>1. Press \/ UNCHANGED <<page, staged>>
      BY <1>5 DEF WayHome, PressOnce
    <3> QED BY <1>0, <1>c, <3>1 DEF PageInv, Clean
  <2>4. EditInv'
    <3>1. PICK place \in {"home", "idle", "done", "failed"} : Goto(w, place)
      <4>1. CASE UNCHANGED pc
        BY <1>0, <1>5, <4>1 DEF WayHome, Goto
      <4>2. CASE End(w, Result(w))
        BY <1>0, <4>2, ResultType DEF End
      <4> QED BY <1>5, <4>1, <4>2 DEF WayHome
    <3> QED BY <1>0, <2>1, <3>1, AwayFromPage
  <2> QED BY <2>2, <2>3, <2>4
<1>6. CASE Lost(w)
  <2>1. PICK place \in {"idle", "done", "failed"} : Goto(w, place)
    BY <1>0, <1>6, ResultType DEF Lost, End
  <2>2. EditInv'
    BY <1>0, <1>6, <2>1, AwayFromPage DEF Lost
  <2>3. StrayInv'
    BY <1>0, <1>6, StrayKeeps DEF Lost
  <2> QED BY <1>0, <1>6, <2>2, <2>3 DEF Lost, PageInv, Clean
<1> QED BY <1>1, <1>2, <1>3, <1>4, <1>5, <1>6 DEF WalkStep

LEMMA EditStepInv ==
  ASSUME EditsInv, NEW c \in Edits, EditStep(c), plan' = plan
  PROVE  PageInv' /\ EditInv' /\ StrayInv'
<1> USE DEF callVars, lockVars, phoneVars
<1>0. /\ CallTypes /\ PhoneTypes /\ PageInv /\ EditInv /\ StrayInv
      /\ pc \in [Walks -> Places] /\ c \in Walks
      /\ pc[c] \in Walking => walker = c
      /\ staged \in [Fields -> Values \cup {None}] /\ sending \in [Fields -> Values \cup {None}]
  BY DEF EditsInv, Types, CallTypes, PhoneTypes, Partly, Walks
<1>a. Field(c) \in Fields /\ Value(c) \in Values /\ PageOf[Field(c)] \in Pages /\ None \notin Values
  BY <1>0, PlanType, EditsAssumption
<1>b. walker = c
  BY <1>0 DEF EditStep, Look, MoveSlider, SetTimer, SwitchSetting, TapControl, Check, Save,
              ConfirmTarget, ConfirmSetting, ConfirmTimer, Settled, Abort, DiscardTarget,
              SwitchBack, CancelTimer, Restore, Walking
<1>c. UNCHANGED <<unsettled, stray>>
  BY DEF EditStep, Look, MoveSlider, SetTimer, SwitchSetting, TapControl, Check, Save,
         ConfirmTarget, ConfirmSetting, ConfirmTimer, Decide, Abort, DiscardTarget,
         SwitchBack, CancelTimer, Restore
<1>d. StrayInv'
  BY <1>0, <1>b, <1>c, StrayKeeps
\* What a step owes is owed by this call alone.
<1>e. ASSUME NEW place \in {"look", "stage", "check", "save", "saving"}, Goto(c, place)
      PROVE  /\ pc'[c] = place
             /\ \A d \in Edits \ {c} : pc'[d] \notin {"look", "stage", "check", "save", "saving"}
  BY <1>0, <1>b, <1>e DEF Goto, CallTypes, Walking, Walks
<1>1. CASE Look(c)
  <2>1. PageInv'
    BY <1>0, <1>1 DEF Look, PageInv, Clean
  <2>2. CASE Goto(c, "home")
    BY <1>0, <1>b, <1>d, <2>1, <2>2, AwayFromPage
  <2>3. CASE Goto(c, "stage")
    <3>1. Clean(staged) /\ staged' = staged
      BY <1>0, <1>1 DEF Look, EditInv
    <3>2. EditInv'
      BY <1>e, <2>3, <3>1 DEF EditInv, Clean, OnlyMine
    <3> QED BY <1>d, <2>1, <3>2
  <2> QED BY <1>1, <2>2, <2>3 DEF Look
<1>2. CASE TapControl(c)
  <2>1. PageInv'
    BY <1>2, <1>a DEF TapControl, PageInv, Here
  <2>2. OnlyMine(c)
    BY <1>0, <1>2 DEF TapControl, EditInv
  <2>3. \A f \in Fields : f # Field(c) => staged'[f] = staged[f]
    BY <1>0, <1>2 DEF TapControl, StageTo
  <2>4. EditInv'
    BY <1>2, <1>e, <2>2, <2>3 DEF TapControl, EditInv, OnlyMine, Field
  <2> QED BY <1>d, <2>1, <2>4
<1>3. CASE Check(c)
  <2>1. PageInv' /\ OnlyMine(c) /\ staged' = staged
    BY <1>0, <1>3 DEF Check, PageInv, Clean, EditInv
  <2>2. CASE Goto(c, "save") /\ Shown(Field(c)) = Value(c)
    <3>1. AsAsked(c)
      BY <2>1, <2>2 DEF Shown, AsAsked
    <3>2. EditInv'
      BY <1>e, <2>1, <2>2, <3>1 DEF EditInv, AsAsked, OnlyMine, Field, Value
    <3> QED BY <1>d, <2>1, <3>2
  <2>3. CASE Goto(c, "stage")
    <3>1. EditInv'
      BY <1>e, <2>1, <2>3 DEF EditInv, OnlyMine, Field
    <3> QED BY <1>d, <2>1, <3>1
  <2> QED BY <1>3, <2>2, <2>3 DEF Check
<1>4. CASE Save(c)
  <2>1. PageInv' /\ AsAsked(c) /\ staged' = staged
    BY <1>0, <1>4 DEF Save, PageInv, Clean, EditInv
  <2>2. staged[Field(c)] = Value(c)
    <3>1. ~Clean(staged)
      BY <1>0, <1>4, NothingIsClean DEF Save, PressSave, Partly
    <3> QED BY <2>1, <3>1 DEF Clean, AsAsked, OnlyMine
  <2>3. sending'[Field(c)] = Value(c)
    BY <1>4, <1>a, <2>2 DEF Save, PressSave
  <2>4. EditInv'
    BY <1>4, <1>e, <2>1, <2>2, <2>3 DEF Save, EditInv, Field, Value
  <2> QED BY <1>d, <2>1, <2>4
<1>5. CASE ConfirmTarget(c) \/ ConfirmSetting(c) \/ ConfirmTimer(c)
  <2>1. Goto(c, "home") /\ staged' = staged /\ page' \in {page} \cup Pages
    BY <1>5, <1>a DEF ConfirmTarget, ConfirmSetting, ConfirmTimer, Decide
  <2>2. PageInv'
    BY <1>0, <2>1 DEF PageInv, Clean
  <2> QED BY <1>0, <1>b, <1>d, <2>1, <2>2, AwayFromPage
<1>6. CASE Abort(c)
  <2>1. PageInv'
    BY <1>0, <1>6 DEF Abort, PageInv, Clean
  <2>2. EditInv'
    BY <1>0, <1>6, <1>b, AwayFromPage DEF Abort
  <2> QED BY <1>d, <2>1, <2>2
<1>7. CASE DiscardTarget(c) \/ SwitchBack(c) \/ CancelTimer(c)
  <2>1. PICK place \in {"home", "idle", "failed"} : Goto(c, place)
    BY <1>7 DEF DiscardTarget, SwitchBack, CancelTimer, Restore, End
  <2>2. EditInv'
    BY <1>0, <1>b, <2>1, AwayFromPage
  <2>3. PageInv'
    <3>1. \/ staged' = Nothing
          \/ page' = page /\ (staged' = staged \/ staged' = [staged EXCEPT ![Field(c)] = None])
      BY <1>7 DEF DiscardTarget, SwitchBack, CancelTimer
    <3>2. staged' = Nothing \/ (page' = page /\ (Clean(staged) => Clean(staged')))
      BY <1>0, <3>1 DEF Clean
    <3> QED BY <1>0, <3>2, NothingIsClean DEF PageInv, Clean
  <2> QED BY <1>d, <2>2, <2>3
<1> QED BY <1>1, <1>2, <1>3, <1>4, <1>5, <1>6, <1>7
        DEF EditStep, MoveSlider, SetTimer, SwitchSetting

LEMMA OtherInv ==
  ASSUME EditsInv, plan' = plan,
         \/ \E r \in Reads : AbortRead(r)
         \/ CloseBegins \/ Closes \/ GivesUp \/ Settles \/ Setup
         \/ AppSaves \/ AppRefuses \/ AppDies \/ StrayLands
  PROVE  PageInv' /\ EditInv' /\ StrayInv'
<1> USE DEF callVars, lockVars, phoneVars
<1>0. /\ CallTypes /\ PhoneTypes /\ StrayType /\ PageInv /\ EditInv /\ StrayInv
      /\ staged \in [Fields -> Values \cup {None}] /\ sending \in [Fields -> Values \cup {None}]
  BY DEF EditsInv, Types, PhoneTypes, Partly
<1>a. "overview" \notin Pages /\ "gone" \notin Pages /\ None \notin Values
  BY EditsAssumption
<1>b. \A c \in Edits : Field(c) \in Fields /\ Value(c) \in Values /\ PageOf[Field(c)] \in Pages
  BY <1>0, PlanType
<1>1. ASSUME NEW r \in Reads, AbortRead(r) PROVE PageInv' /\ EditInv' /\ StrayInv'
  <2>1. r \in Walks /\ walker = r
    BY <1>0, <1>1 DEF AbortRead, CallTypes, Walks, Walking
  <2>2. EditInv'
    BY <1>0, <1>1, <2>1, AwayFromPage DEF AbortRead
  <2>3. StrayInv'
    BY <1>0, <1>1, <2>1, StrayKeeps DEF AbortRead
  <2> QED BY <1>0, <1>1, <2>2, <2>3 DEF AbortRead, PageInv, Clean
<1>2. CASE CloseBegins \/ Closes \/ Settles \/ Setup
  <2>1. UNCHANGED <<pc, walker, phoneVars>>
    BY <1>2 DEF CloseBegins, Closes, Settles, Setup
  <2>2. PageInv' /\ EditInv'
    BY <1>0, <2>1 DEF PageInv, EditInv, Clean, OnlyMine, AsAsked, Field, Value
  <2>3. \/ unsettled' = unsettled
        \/ unsettled' = TRUE /\ walker = None
        \/ unsettled' = FALSE /\ stray = None
    BY <1>2, Zenon DEF CloseBegins, Closes, Settles, Setup
  <2>4. StrayInv'
    <3>. walker' = walker /\ stray' = stray
      BY <2>1
    <3>1. /\ stray' # None => unsettled'
          /\ unsettled' => walker' = None
      <4>1. CASE unsettled' = unsettled
        BY <1>0, <4>1, Zenon DEF StrayInv
      <4>2. CASE unsettled' = TRUE /\ walker = None
        BY <4>2, Zenon
      <4>3. CASE unsettled' = FALSE /\ stray = None
        BY <4>3, Zenon
      <4> QED BY <2>3, <4>1, <4>2, <4>3, Zenon
    <3>2. stray # None /\ stray.tap = "save" => AsAsked(stray.of)
      BY <1>0, Zenon DEF StrayInv
    <3>3. stray' # None /\ stray'.tap = "save" => AsAsked(stray.of)'
      BY <2>1, <3>2 DEF AsAsked, OnlyMine, Field, Value
    <3> QED BY <3>1, <3>3, Zenon DEF StrayInv
  <2> QED BY <2>2, <2>4
<1>3. CASE GivesUp
  <2>1. walker \in Walks /\ walker # None
    BY <1>0, <1>3 DEF GivesUp, CallTypes
  <2>2. PICK place \in {"idle", "done", "failed"} : Goto(walker, place)
    BY <1>0, <1>3, <2>1, ResultType DEF GivesUp, End
  <2>3. EditInv'
    BY <1>0, <2>1, <2>2, AwayFromPage
  <2>4. PageInv'
    BY <1>0, <1>3 DEF GivesUp, PageInv, Clean
  <2>5. stray' # None /\ stray'.tap = "save" => pc[walker] = "save" /\ stray'.of = walker
    BY <1>3 DEF GivesUp, LastTaps
  <2>6. pc[walker] = "save" => AsAsked(walker)
    <3>1. pc[walker] = "save" => walker \in Edits
      BY <1>0, <2>1 DEF CallTypes, ReadPlaces, Walks
    <3> QED BY <1>0, <3>1 DEF EditInv
  <2>7. stray' # None /\ stray'.tap = "save" => AsAsked(stray.of)'
    BY <1>3, <2>5, <2>6 DEF GivesUp, AsAsked, OnlyMine, Field, Value
  <2>8. unsettled' = TRUE /\ walker' = None
    BY <1>3 DEF GivesUp, End
  <2> QED BY <2>3, <2>4, <2>7, <2>8 DEF StrayInv
<1>4. CASE AppSaves \/ AppRefuses \/ AppDies
  <2>1. /\ UNCHANGED <<plan, pc, walker, unsettled, stray>>
        /\ staged' = Nothing \/ UNCHANGED <<staged, page>>
    BY <1>4 DEF AppSaves, AppRefuses, AppDies
  <2>2. PageInv'
    BY <1>0, <2>1, NothingIsClean DEF PageInv, Clean
  <2>3. \A c \in Edits : AsAsked(c) => AsAsked(c)'
    BY <1>b, <2>1, NothingIsClean DEF AsAsked, OnlyMine, Clean, Field, Value
  <2>4. StrayInv'
    <3>1. stray # None /\ stray.tap = "save" => stray.of \in Edits
      BY <1>0 DEF StrayType, Taps
    <3>2. stray # None /\ stray.tap = "save" => AsAsked(stray.of)
      BY <1>0, Zenon DEF StrayInv
    <3>3. stray # None /\ stray.tap = "save" => AsAsked(stray.of)'
      BY <2>1, <2>3, <3>1, <3>2 DEF AsAsked, OnlyMine, Field, Value
    <3>4. /\ stray' # None => unsettled'
          /\ unsettled' => walker' = None
      BY <1>0, <2>1, Zenon DEF StrayInv
    <3>5. stray' # None /\ stray'.tap = "save" => AsAsked(stray.of)'
      BY <2>1, <3>3, Zenon
    <3> QED BY <3>4, <3>5, Zenon DEF StrayInv
  <2>5. EditInv'
    <3> SUFFICES ASSUME NEW c \in Edits
                 PROVE  /\ pc[c] = "look" => Clean(staged)'
                        /\ pc[c] \in {"stage", "check"} => OnlyMine(c)'
                        /\ pc[c] = "save" => AsAsked(c)'
                        /\ pc[c] = "saving" =>
                              /\ Clean(sending)' \/ sending'[Field(c)] = Value(c)
                              /\ \/ page' = "gone" \/ staged'[Field(c)] = Value(c)
                                 \/ Clean(staged)' /\ Clean(sending)' /\ saved'[Field(c)] = Value(c)
      BY <2>1 DEF EditInv, Field, Value
    <3>1. pc[c] = "look" => Clean(staged)'
      BY <1>0, <2>1, NothingIsClean DEF EditInv, Clean
    <3>2. pc[c] \in {"stage", "check"} => OnlyMine(c)'
      BY <1>0, <2>1, NothingIsClean DEF EditInv, Clean, OnlyMine, Field
    <3>3. pc[c] = "save" => AsAsked(c)'
      BY <1>0, <2>3 DEF EditInv
    <3>4. ASSUME pc[c] = "saving"
          PROVE  /\ Clean(sending)' \/ sending'[Field(c)] = Value(c)
                 /\ \/ page' = "gone" \/ staged'[Field(c)] = Value(c)
                    \/ Clean(staged)' /\ Clean(sending)' /\ saved'[Field(c)] = Value(c)
      <4>1. /\ Clean(sending) \/ sending[Field(c)] = Value(c)
            /\ \/ page = "gone" \/ staged[Field(c)] = Value(c)
               \/ Clean(staged) /\ Clean(sending) /\ saved[Field(c)] = Value(c)
        BY <1>0, <3>4 DEF EditInv
      <4>2. CASE AppSaves
        <5>1. ~Clean(sending)
          BY <1>0, <4>2, NothingIsClean DEF AppSaves, Partly
        <5>2. sending[Field(c)] = Value(c) /\ Value(c) # None
          BY <1>a, <1>b, <4>1, <5>1
        <5>3. saved'[Field(c)] = Value(c)
          BY <1>b, <4>2, <5>2 DEF AppSaves
        <5>4. Clean(staged)' /\ Clean(sending)'
          BY <4>2, NothingIsClean DEF AppSaves, Clean
        <5> QED BY <5>3, <5>4
      <4>3. CASE AppRefuses
        <5>1. Clean(sending)' /\ UNCHANGED <<page, staged, saved>>
          BY <4>3, NothingIsClean DEF AppRefuses, Clean
        <5> QED BY <4>1, <5>1 DEF Clean
      <4>4. CASE AppDies
        <5>1. page' = "gone" /\ sending' \in {sending, Nothing}
          BY <4>4 DEF AppDies
        <5> QED BY <4>1, <5>1, NothingIsClean DEF Clean
      <4> QED BY <1>4, <4>2, <4>3, <4>4
    <3> QED BY <3>1, <3>2, <3>3, <3>4
  <2> QED BY <2>2, <2>4, <2>5
<1>5. CASE StrayLands
  <2>1. walker = None /\ UNCHANGED <<pc, walker, unsettled>> /\ stray' = None
    BY <1>0, <1>5, Zenon DEF StrayLands, StrayInv
  <2>2. EditInv'
    BY <1>0, <2>1, NobodyWalks DEF EditInv
  <2>3. StrayInv'
    BY <1>0, <2>1, Zenon DEF StrayInv
  <2>4. PageInv'
    <3>1. CASE Press
      BY <3>1, NothingIsClean DEF Press, PageInv, Clean
    <3>2. CASE stray.tap = "stage" /\ Here(stray.of) /\ UNCHANGED page
      <4>1. stray.of \in Edits
        BY <1>0, <1>5, <3>2 DEF StrayLands, StrayType, Taps
      <4> QED BY <1>b, <3>2, <4>1 DEF Here, PageInv
    <3>3. CASE UNCHANGED <<page, staged>>
      BY <1>0, <3>3 DEF PageInv, Clean
    <3> QED BY <1>5, <3>1, <3>2, <3>3 DEF StrayLands
  <2> QED BY <2>2, <2>3, <2>4
<1> QED BY <1>1, <1>2, <1>3, <1>4, <1>5

LEMMA EditsStep == ASSUME EditsInv, [Next]_vars PROVE EditsInv'
<1>1. Types'
  BY TypesStep DEF EditsInv
<1>2. CASE UNCHANGED vars
  BY <1>1, <1>2, Zenon DEF vars, callVars, lockVars, phoneVars, EditsInv, PageInv, EditInv,
                           StrayInv, Clean, OnlyMine, AsAsked, Field, Value
<1>3. CASE Next
  <2>1. PageInv' /\ EditInv' /\ StrayInv'
    BY <1>3, WalkInv, EditStepInv, OtherInv DEF Next, Step
  <2> QED BY <1>1, <2>1 DEF EditsInv
<1> QED BY <1>2, <1>3

LEMMA EditsInit == Init => EditsInv
<1> SUFFICES ASSUME Init PROVE EditsInv
  OBVIOUS
<1>1. PageInv
  BY NothingIsClean DEF Init, PageInv
<1>2. \A c \in Edits : pc[c] = "idle"
  BY DEF Init, Walks
<1>3. StrayInv
  BY Zenon DEF Init, StrayInv
<1> QED BY <1>1, <1>2, <1>3, TypesInit DEF EditsInv, EditInv

-----------------------------------------------------------------------------
(* Theorems *)

\* No walk is under way while a tap of a closed connection may still land.
THEOREM EditsNoTapFromBefore == Spec => []NoTapFromBefore
<1>1. EditsInv => NoTapFromBefore
  BY Zenon DEF EditsInv, StrayInv, NoTapFromBefore
<1> QED BY <1>1, EditsInit, EditsStep, PTL DEF Spec

LEMMA StagedIsOnly ==
  ASSUME EditsInv, NEW c \in Edits, AsAsked(c), staged # Nothing PROVE staged = Only(c)
<1>1. staged \in [Fields -> Values \cup {None}] /\ Field(c) \in Fields
  BY PlanType DEF EditsInv, Types, PhoneTypes, Partly
<1>2. ~Clean(staged)
  BY <1>1, NothingIsClean DEF Partly
<1>3. staged[Field(c)] = Value(c) /\ \A f \in Fields : f # Field(c) => staged[f] = None
  BY <1>2 DEF Clean, AsAsked, OnlyMine
<1> QED BY <1>1, <1>3 DEF Only

\* What the app starts to send is one call's value, alone, whatever walks were cut
\* short before and whichever taps outlived their connection.
THEOREM EditsSendOneChange == Spec => SendsOneChange
<1>1. ASSUME EditsInv, [Next]_vars
      PROVE  [sending' \notin {sending, Nothing} =>
                 \E c \in Edits : Sends(c) /\ staged = Only(c)]_vars
  <2> SUFFICES ASSUME Step, sending' \notin {sending, Nothing}
               PROVE  \E c \in Edits : Sends(c) /\ staged = Only(c)
    BY <1>1 DEF Next
  <2>1. \/ \E c \in Edits : Save(c)
        \/ StrayLands /\ stray.tap = "save" /\ PressSave
    BY DEF Step, Ask, WalkStep, Begin, Gate, Open, WayHome, Lost, EditStep, Look, MoveSlider,
           SetTimer, SwitchSetting, TapControl, Check, ConfirmTarget, ConfirmSetting,
           ConfirmTimer, Decide, Abort, DiscardTarget, SwitchBack, CancelTimer, Restore,
           AbortRead, CloseBegins, Closes, GivesUp, Settles, Setup, AppSaves, AppRefuses,
           AppDies, StrayLands, callVars, lockVars, phoneVars
  <2>2. ASSUME NEW c \in Edits, Save(c) PROVE Sends(c) /\ staged = Only(c)
    <3>1. pc[c] = "save" /\ staged # Nothing /\ AsAsked(c)
      BY <1>1, <2>2 DEF Save, PressSave, EditsInv, EditInv
    <3> QED BY <1>1, <3>1, StagedIsOnly DEF Sends
  <2>3. CASE StrayLands /\ stray.tap = "save" /\ PressSave
    <3>1. stray # None /\ staged # Nothing /\ AsAsked(stray.of)
      BY <1>1, <2>3 DEF StrayLands, PressSave, EditsInv, StrayInv
    <3>2. stray.of \in Edits /\ stray = [tap |-> "save", of |-> stray.of]
      BY <1>1, <2>3, <3>1 DEF EditsInv, Types, StrayType, Taps
    <3> QED BY <1>1, <3>1, <3>2, StagedIsOnly DEF Sends
  <2> QED BY <2>1, <2>2, <2>3
<1> QED BY <1>1, EditsInit, EditsStep, PTL DEF Spec, SendsOneChange

\* A call that reports success has its value in the car.
THEOREM EditsDoneMeansSaved == Spec => DoneMeansSaved
<1>1. ASSUME EditsInv, [Next]_vars
      PROVE  [\A c \in Edits : outcome[c] # "done" /\ outcome'[c] = "done"
                                 => saved[Field(c)] = Value(c)]_vars
  <2> SUFFICES ASSUME Step, NEW c \in Edits, outcome[c] # "done", outcome'[c] = "done"
               PROVE  saved[Field(c)] = Value(c)
    BY <1>1 DEF Next
  <2>1. \E d \in Edits : \/ Look(d)
                         \/ ConfirmTarget(d) \/ ConfirmSetting(d) \/ ConfirmTimer(d)
    <3>1. outcome' # outcome
      OBVIOUS
    <3>2. ~\E d \in Edits : Abort(d)
      BY <1>1 DEF Abort, EditsInv, Types, CallTypes
    <3> QED BY <3>1, <3>2
         DEF Step, Ask, WalkStep, Begin, Gate, Open, WayHome, Lost, EditStep, MoveSlider,
             SetTimer, SwitchSetting, TapControl, Check, Save, DiscardTarget, SwitchBack,
             CancelTimer, Restore, AbortRead, CloseBegins, Closes, GivesUp, Settles, Setup,
             AppSaves, AppRefuses, AppDies, StrayLands, callVars, lockVars, phoneVars
  <2>2. PICK d \in Edits : \/ Look(d)
                           \/ ConfirmTarget(d) \/ ConfirmSetting(d) \/ ConfirmTimer(d)
    BY <2>1
  <2>3. outcome \in [Edits -> {None, "done", "failed"}] /\ PageOf[Field(d)] \in Pages
        /\ "gone" \notin Pages /\ Field(d) \in Fields /\ Value(d) # None
    BY <1>1, PlanType, EditsAssumption DEF EditsInv, Types, CallTypes
  <2>4. d = c
    BY <2>2, <2>3 DEF Look, ConfirmTarget, ConfirmSetting, ConfirmTimer, Decide
  <2>5. Clean(Nothing) /\ Nothing[Field(d)] = None
    BY <2>3, NothingIsClean DEF Clean
  <2>6. CASE Look(d)
    <3>1. Clean(staged) /\ Shown(Field(d)) = Value(d)
      BY <1>1, <2>3, <2>4, <2>6 DEF Look, EditsInv, EditInv
    <3> QED BY <2>3, <2>4, <3>1 DEF Shown, Clean
  <2>7. CASE ConfirmTarget(d) \/ ConfirmSetting(d) \/ ConfirmTimer(d)
    <3>1. pc[d] = "saving" /\ staged = Nothing /\ page # "gone"
      BY <2>3, <2>7 DEF ConfirmTarget, ConfirmSetting, ConfirmTimer, Settled, AtHome, Here
    <3>2. staged[Field(d)] # Value(d)
      BY <2>3, <2>5, <3>1
    <3> QED BY <1>1, <2>4, <3>1, <3>2 DEF EditsInv, EditInv
  <2> QED BY <2>2, <2>6, <2>7
<1> QED BY <1>1, EditsInit, EditsStep, PTL DEF Spec, DoneMeansSaved
=============================================================================
