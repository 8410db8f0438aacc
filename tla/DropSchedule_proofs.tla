------------------------ MODULE DropSchedule_proofs ------------------------
(***************************************************************************)
(* Theorems of DropSchedule, for every interval, floor, buffer, jitter and *)
(* retry budget that ScheduleAssumption allows, and for any clock.         *)
(***************************************************************************)
EXTENDS DropSchedule, TLAPS

Times == Int \cup {None}

LEMMA Caps ==
  ASSUME NEW a \in Int, NEW b \in Int
  PROVE  /\ AtLeast(a, b) \in {a, b} /\ AtLeast(a, b) >= a /\ AtLeast(a, b) >= b
         /\ AtMost(a, b) \in {a, b} /\ AtMost(a, b) <= a /\ AtMost(a, b) <= b
  BY DEF AtLeast, AtMost

-----------------------------------------------------------------------------
(* Types *)

Flags == outage \in BOOLEAN /\ saving \in BOOLEAN /\ landed \in BOOLEAN

Caches == [anchor : Int \cup {None}, streak : Nat]

Values ==
    /\ pc \in {"decide", "asleep", "poll"}
    /\ now \in Nat /\ capture \in Nat \cup {None}
    /\ anchor \in Times /\ mark \in Times
    /\ streak \in Nat /\ errors \in 0..3 /\ sleep \in Nat
    /\ file \in Caches
    /\ aligned \in Nat /\ retried \in Nat /\ lost \in Nat

LEMMA Parts == TypeOK <=> Flags /\ Values
  BY DEF TypeOK, Flags, Values, Times, Caches

LEMMA PartsNext == TypeOK' <=> Flags' /\ Values'
  BY DEF TypeOK, Flags, Values, Times, Caches

LEMMA NoteOutageType == ASSUME errors \in 0..3 PROVE NoteOutage(errors) \in 0..3
  BY DEF NoteOutage, AtMost

LEMMA BackoffType == ASSUME NEW n \in 0..3 PROVE BackoffOf(n) \in Nat
  BY ScheduleAssumption DEF BackoffOf, AtMost

LEMMA AnchoredSleepType ==
  ASSUME TypeOK, anchor /= None, NEW s \in Nat PROVE AnchoredSleep(s) \in Nat
<1>1. anchor \in Int /\ now \in Nat
  BY DEF TypeOK
<1> QED BY <1>1, ScheduleAssumption DEF AnchoredSleep, DropOverdue, AtLeast, AtMost

LEMMA CountType ==
  ASSUME TypeOK, NEW night \in BOOLEAN, Count(night)
  PROVE  mark' \in Times /\ streak' \in Nat
  BY DEF Count, TypeOK, Times

LEMMA RestoreType ==
  ASSUME TypeOK, NEW stored \in [anchor : Int \cup {None}, streak : Nat], Restore(stored)
  PROVE  mark' \in Times /\ streak' \in Nat
<1>1. now \in Int /\ MaxStreak \in Nat /\ stored.streak \in Nat
  BY ScheduleAssumption DEF TypeOK
<1>2. streak' \in Nat
  BY <1>1 DEF Restore, AtMost
<1>3. mark' \in Times
  BY <1>1 DEF Restore, AtMost, Times
<1> QED BY <1>2, <1>3

LEMMA TypeStep == ASSUME TypeOK, [Next]_vars PROVE TypeOK'
<1> USE ScheduleAssumption DEF schedVars
<1>0. Flags /\ Values
  BY Parts
<1>1. ASSUME NEW night \in BOOLEAN, Decide(night) PROVE TypeOK'
  <2>1. mark' \in Times /\ streak' \in Nat
    BY <1>1, CountType DEF Decide
  <2>2. errors' \in 0..3
    BY <1>0, <1>1, NoteOutageType DEF Decide, Values
  <2>3. sleep' \in Nat
    <3> DEFINE base == IF night THEN 2 * Interval
                       ELSE IF anchor = None THEN Interval ELSE AnchoredSleep(streak')
    <3>1. base \in Nat
      BY <2>1, AnchoredSleepType
    <3>2. sleep' = AtLeast(base, BackoffOf(errors'))
      BY <1>1 DEF Decide
    <3>3. BackoffOf(errors') \in Nat
      BY <2>2, BackoffType
    <3> HIDE DEF base
    <3> QED BY <3>1, <3>2, <3>3 DEF AtLeast
  <2>4. aligned' \in Nat /\ retried' \in Nat
    BY <1>0, <1>1 DEF Decide, Values
  <2>5. Flags'
    BY <1>0, <1>1, Zenon DEF Decide, Flags
  <2>6. Values'
    BY <1>0, <1>1, <2>1, <2>2, <2>3, <2>4 DEF Decide, Values
  <2> QED BY <2>5, <2>6, PartsNext
<1>2. CASE Sleep
  <2>1. Flags'
    BY <1>0, <1>2, Zenon DEF Sleep, Flags
  <2>2. Values'
    BY <1>0, <1>2 DEF Sleep, Stored, Values, Times, Caches
  <2> QED BY <2>1, <2>2, PartsNext
<1>3. ASSUME NEW t \in 0..now \cup {None}, NEW jitter \in 0..Jitter, NEW failed \in BOOLEAN,
             Poll(t, jitter, failed)
      PROVE  TypeOK'
  <2>1. Flags'
    BY <1>0, <1>3, Zenon DEF Poll, Flags
  <2>2. /\ capture' \in Nat \cup {None}
        /\ aligned' \in Nat /\ retried' \in Nat /\ lost' \in Nat
    BY <1>0, <1>3 DEF Poll, Values
  <2>3. anchor' \in Times
    BY <1>0, <1>3, <2>2 DEF Poll, Values, Times
  <2>4. Values'
    BY <1>0, <1>3, <2>2, <2>3 DEF Poll, Values
  <2> QED BY <2>1, <2>4, PartsNext
<1>4. CASE Restart
  <2>1. Flags'
    BY <1>0, <1>4, Zenon DEF Restart, Restarted, Flags
  <2>2. file' \in Caches
    BY <1>0, <1>4 DEF Restart, Stored, Values, Times, Caches
  <2>3. mark' \in Times /\ streak' \in Nat
    BY <1>4, <2>2, RestoreType DEF Restart, Caches
  <2>4. Values'
    BY <1>0, <1>4, <2>2, <2>3 DEF Restart, Restarted, Values, Times
  <2> QED BY <2>1, <2>4, PartsNext
<1>5. CASE Crash
  <2>1. Flags'
    BY <1>0, <1>5, Zenon DEF Crash, Restarted, Flags
  <2>2. mark' \in Times /\ streak' \in Nat
    BY <1>0, <1>5, RestoreType DEF Crash, Values, Caches
  <2>3. Values'
    BY <1>0, <1>5, <2>2 DEF Crash, Restarted, Values, Times
  <2> QED BY <2>1, <2>3, PartsNext
<1>6. CASE UNCHANGED vars
  BY <1>6 DEF vars, TypeOK
<1> QED BY <1>1, <1>2, <1>3, <1>4, <1>5, <1>6 DEF Next

LEMMA TypeInit == Init => TypeOK
<1> SUFFICES ASSUME Init PROVE TypeOK
  OBVIOUS
<1>1. Flags
  BY Zenon DEF Init, Flags
<1>2. Values
  BY ScheduleAssumption DEF Init, Values, Times, Caches, Stored
<1> QED BY <1>1, <1>2, Parts

\* Every variable keeps its type: no sleep is negative, and the outage's streak
\* never leaves the table of backoffs.
THEOREM DropTypeOK == Spec => []TypeOK
  BY TypeInit, TypeStep, PTL DEF Spec

-----------------------------------------------------------------------------
(* The invariant. A mark has either seen the newest drop, being within the *)
(* jitter of its capture, or is older by more than an anchor must advance. *)
(* A mark that has seen it has been charged for the retries since; the     *)
(* cache's mark has, too, up to the retry whose save is still due.         *)

Unseen(m) == m < capture - Advance - Jitter
Seen(m) == capture - Jitter <= m /\ m <= capture
Placed(m) == m /= None => capture /= None /\ (Unseen(m) \/ Seen(m))

\* The retries that a mark with this streak accounts for.
Charged(m, s) == IF m /= None /\ Seen(m) THEN 1 + AtMost(s, MaxStreak - 1) ELSE 0

\* When the loop decides next, or next aims at a drop.
NextAt == CASE pc = "asleep" -> now + sleep
            [] pc = "poll" -> now
            [] OTHER -> IF anchor = None THEN now + Interval ELSE now

PlacesInv ==
    /\ capture /= None => capture <= now
    /\ capture = None => anchor = None /\ aligned = 0 /\ retried = 0
    /\ anchor /= None => capture - Jitter <= anchor /\ anchor <= capture
    /\ Placed(mark) /\ Placed(file.anchor)

AlignedInv ==
    /\ aligned <= 2
    /\ aligned >= 1 => /\ now >= capture - Jitter + Buffer
                       /\ NextAt >= capture - Jitter + Interval + Buffer
    /\ aligned >= 2 => /\ now >= capture + Buffer
                       /\ NextAt >= capture + Interval + Buffer

RetriedInv ==
    /\ retried <= Charged(mark, streak) + lost
    /\ retried <= Charged(file.anchor, file.streak) + lost + 1

SavedInv ==
    /\ ~saving => retried <= Charged(file.anchor, file.streak) + lost
    /\ pc \in {"decide", "poll"} => ~saving

LandedInv ==
    landed => /\ mark /= None => Unseen(mark)
              /\ file.anchor /= None => Unseen(file.anchor)

DropInv == TypeOK /\ PlacesInv /\ AlignedInv /\ RetriedInv /\ SavedInv /\ LandedInv

LEMMA ChargedBounds ==
  ASSUME NEW m \in Times, NEW s \in Nat
  PROVE  Charged(m, s) \in 0..MaxStreak
  BY ScheduleAssumption DEF Charged, AtMost

LEMMA DropInit == Init => DropInv
<1> SUFFICES ASSUME Init PROVE DropInv
  OBVIOUS
<1>1. TypeOK
  BY TypeInit
<1>2. PlacesInv /\ AlignedInv
  BY DEF Init, Stored, PlacesInv, AlignedInv, Placed
<1>3. /\ retried <= Charged(mark, streak) + lost
      /\ retried <= Charged(file.anchor, file.streak) + lost
      /\ retried <= Charged(file.anchor, file.streak) + lost + 1
  BY DEF Init, Stored, Charged
<1>4. LandedInv
  BY Zenon DEF Init, LandedInv
<1>5. SavedInv
  BY <1>3, Zenon DEF Init, SavedInv
<1> QED BY <1>1, <1>2, <1>3, <1>4, <1>5 DEF DropInv, RetriedInv

-----------------------------------------------------------------------------
(* The decision *)

\* What a decision by day makes of the mark: it moves exactly if it is unseen.
LEMMA CountMoves ==
  ASSUME TypeOK, PlacesInv, NEW night \in BOOLEAN, Count(night)
  PROVE  \/ /\ ~night /\ anchor /= None /\ (mark = None \/ Unseen(mark))
            /\ mark' = anchor /\ streak' = 0
         \/ /\ mark' = mark /\ streak' \in {streak, streak + 1}
            /\ ~night /\ anchor /= None => mark /= None /\ Seen(mark)
            /\ ~night /\ DropOverdue(anchor) => streak' = streak + 1
<1>1. anchor \in Times /\ mark \in Times /\ streak \in Nat /\ capture \in Nat \cup {None}
  BY DEF TypeOK, Times
<1>2. /\ Advance \in Nat /\ Jitter \in Nat /\ Jitter <= Advance /\ None \notin Int
  BY ScheduleAssumption
<1>3. CASE ~night /\ AnchorAdvanced(mark, anchor)
  <2>1. mark = None \/ Unseen(mark)
    BY <1>1, <1>2, <1>3 DEF AnchorAdvanced, PlacesInv, Placed, Unseen, Seen, Times
  <2> QED BY <1>3, <2>1 DEF Count, AnchorAdvanced
<1>4. CASE ~(~night /\ AnchorAdvanced(mark, anchor))
  <2>1. ~night /\ anchor /= None => mark /= None /\ Seen(mark)
    BY <1>1, <1>2, <1>4 DEF AnchorAdvanced, PlacesInv, Placed, Unseen, Seen, Times
  <2> QED BY <1>4, <2>1, <1>1 DEF Count
<1> QED BY <1>3, <1>4

\* A decision sleeps less than the interval only by day and with an anchor; if
\* the drop is overdue, only within the budget, else until past the next drop.
LEMMA ShortSleep ==
  ASSUME TypeOK, TypeOK', NEW night \in BOOLEAN, Decide(night), sleep' < Interval
  PROVE  /\ ~night /\ anchor /= None
         /\ DropOverdue(anchor) => streak' < MaxStreak
         /\ ~DropOverdue(anchor) => /\ now > anchor + Buffer
                                    /\ now < anchor + Interval + Buffer
                                    /\ now + sleep' >= anchor + Interval + Buffer
                                    /\ sleep' >= Floor
<1>1. anchor \in Times /\ now \in Nat /\ streak' \in Nat /\ sleep' \in Nat /\ errors' \in 0..3
  BY DEF TypeOK, Times
<1>2. /\ Interval \in Nat /\ Floor \in Nat /\ Buffer \in Nat /\ Retry \in Nat
      /\ MaxStreak \in Nat /\ Floor <= Interval /\ None \notin Int
  BY ScheduleAssumption
<1> DEFINE base == IF night THEN 2 * Interval
                   ELSE IF anchor = None THEN Interval ELSE AnchoredSleep(streak')
<1>3. base \in Nat
  BY <1>1, <1>2, AnchoredSleepType
<1>4. BackoffOf(errors') \in Nat
  BY <1>1, BackoffType
<1>5. sleep' = AtLeast(base, BackoffOf(errors'))
  BY DEF Decide
<1>6. sleep' >= base
  BY <1>3, <1>4, <1>5 DEF AtLeast
<1>7. ~night /\ anchor /= None
  BY <1>1, <1>2, <1>6
<1>8. sleep' >= AnchoredSleep(streak') /\ anchor \in Int
  BY <1>1, <1>6, <1>7 DEF Times
<1>9. DropOverdue(anchor) => streak' < MaxStreak
  BY <1>1, <1>2, <1>8 DEF AnchoredSleep, AtLeast, AtMost
<1>10. ASSUME ~DropOverdue(anchor)
       PROVE  /\ now > anchor + Buffer
              /\ now < anchor + Interval + Buffer
              /\ now + sleep' >= anchor + Interval + Buffer
              /\ sleep' >= Floor
  <2> DEFINE remaining == anchor + Interval + Buffer - now
  <2>1. remaining \in Int /\ remaining > 0
    BY <1>1, <1>2, <1>7, <1>8, <1>10 DEF DropOverdue
  <2>2. AnchoredSleep(streak') = AtLeast(AtMost(remaining, Interval), Floor)
    BY <1>10 DEF AnchoredSleep
  <2>3. sleep' >= Floor /\ sleep' >= AtMost(remaining, Interval)
    BY <1>1, <1>2, <1>8, <2>1, <2>2 DEF AtLeast, AtMost
  <2>4. remaining < Interval /\ sleep' >= remaining
    BY <1>1, <1>2, <2>1, <2>3 DEF AtMost
  <2>5. anchor \in Int /\ now \in Int /\ sleep' \in Int
    BY <1>1, <1>8
  <2>6. now > anchor + Buffer
    BY <1>2, <2>1, <2>4, <2>5
  <2>7. now < anchor + Interval + Buffer
    BY <1>2, <2>1, <2>5
  <2>8. now + sleep' >= anchor + Interval + Buffer
    <3>1. now + sleep' >= now + remaining
      BY <2>1, <2>4, <2>5
    <3>2. now + remaining = anchor + Interval + Buffer
      BY <1>2, <2>5
    <3> QED BY <3>1, <3>2
  <2> QED BY <2>3, <2>6, <2>7, <2>8
<1> QED BY <1>7, <1>9, <1>10

LEMMA DecideStep ==
  ASSUME DropInv, TypeOK', NEW night \in BOOLEAN, Decide(night)
  PROVE  DropInv'
<1>1. /\ pc = "decide" /\ pc' = "asleep" /\ now' = now /\ capture' = capture
      /\ anchor' = anchor /\ file' = file /\ lost' = lost /\ Count(night)
      /\ saving' = (saving \/ streak' /= streak \/ mark' /= mark)
      /\ landed' = (landed /\ (night \/ anchor = None))
  BY DEF Decide
<1>2. TypeOK /\ PlacesInv /\ AlignedInv /\ RetriedInv /\ SavedInv /\ LandedInv
  BY DEF DropInv
<1>3. /\ anchor \in Times /\ mark \in Times /\ streak \in Nat /\ now \in Nat
      /\ mark' \in Times /\ streak' \in Nat /\ sleep' \in Nat
      /\ capture \in Nat \cup {None} /\ file.anchor \in Times /\ file.streak \in Nat
      /\ aligned \in Nat /\ retried \in Nat /\ lost \in Nat
      /\ aligned' \in Nat /\ retried' \in Nat
  BY <1>2 DEF TypeOK, Times
<1>4. /\ Interval \in Nat /\ Floor \in Nat /\ Buffer \in Nat /\ MaxStreak \in Nat \ {0}
      /\ Advance \in Nat /\ Jitter \in Nat /\ Jitter <= Advance /\ None \notin Int
      /\ Floor <= Interval /\ Buffer + Jitter <= Floor
  BY ScheduleAssumption
<1>5. PICK nap \in Nat, al \in Nat, re \in Nat, st \in Nat, mk \in Times :
        sleep' = nap /\ aligned' = al /\ retried' = re /\ streak' = st /\ mark' = mk
  BY <1>3
<1>6. anchor /= None => /\ anchor \in Int /\ capture \in Int
                        /\ capture - Jitter <= anchor /\ anchor <= capture
  BY <1>2, <1>3 DEF PlacesInv, Times
<1>7. \/ /\ ~night /\ anchor /= None /\ (mark = None \/ Unseen(mark))
         /\ mk = anchor /\ st = 0
      \/ /\ mk = mark /\ st \in {streak, streak + 1}
         /\ ~night /\ anchor /= None => mark /= None /\ Seen(mark)
         /\ ~night /\ DropOverdue(anchor) => st = streak + 1
  BY <1>1, <1>2, <1>5, CountMoves
<1>8. \/ nap >= Interval /\ al = aligned /\ re = retried
      \/ /\ ~night /\ anchor /= None /\ DropOverdue(anchor) /\ st < MaxStreak
         /\ al = aligned /\ re = retried + 1
      \/ /\ anchor /= None
         /\ now > anchor + Buffer /\ now < anchor + Interval + Buffer
         /\ now + nap >= anchor + Interval + Buffer
         /\ nap >= Floor
         /\ al = aligned + 1 /\ re = retried
  <2>1. CASE sleep' >= Interval
    BY <1>5, <2>1 DEF Decide
  <2>2. CASE ~(sleep' >= Interval)
    <3>1. sleep' < Interval
      BY <1>4, <1>5, <2>2
    <3>2. /\ ~night /\ anchor /= None
          /\ DropOverdue(anchor) => st < MaxStreak
          /\ ~DropOverdue(anchor) => /\ now > anchor + Buffer
                                     /\ now < anchor + Interval + Buffer
                                     /\ now + nap >= anchor + Interval + Buffer
                                     /\ nap >= Floor
      BY <1>2, <1>5, <3>1, ShortSleep
    <3>3. \/ DropOverdue(anchor) /\ re = retried + 1 /\ al = aligned
          \/ ~DropOverdue(anchor) /\ al = aligned + 1 /\ re = retried
      BY <1>5, <2>2 DEF Decide
    <3> QED BY <3>2, <3>3
  <2> QED BY <2>1, <2>2
<1>9. PlacesInv'
  <2>1. capture = None => al = 0 /\ re = 0
    BY <1>2, <1>6, <1>8 DEF PlacesInv
  <2>2. Placed(mk)
    BY <1>2, <1>3, <1>4, <1>6, <1>7 DEF PlacesInv, Placed, Seen, Unseen, Times
  <2> QED BY <1>1, <1>2, <1>5, <2>1, <2>2 DEF PlacesInv, Placed, Seen, Unseen
<1>10. AlignedInv'
  <2>1. /\ al <= 2
        /\ al >= 1 => /\ now >= capture - Jitter + Buffer
                      /\ now + nap >= capture - Jitter + Interval + Buffer
        /\ al >= 2 => /\ now >= capture + Buffer
                      /\ now + nap >= capture + Interval + Buffer
    <3>1. NextAt = IF anchor = None THEN now + Interval ELSE now
      BY <1>1 DEF NextAt
    <3>2. aligned >= 1 => capture \in Nat
      BY <1>2, <1>3 DEF PlacesInv
    <3>3. CASE al = aligned /\ NextAt <= now + nap
      BY <1>2, <1>3, <1>4, <3>1, <3>2, <3>3 DEF AlignedInv
    <3>4. CASE al = aligned + 1 /\ anchor /= None /\ now > anchor + Buffer
               /\ now < anchor + Interval + Buffer
               /\ now + nap >= anchor + Interval + Buffer /\ nap >= Floor
      <4>1. NextAt = now
        BY <3>1, <3>4
      <4>2. aligned <= 1
        BY <1>2, <1>3, <1>4, <1>6, <3>4, <4>1 DEF AlignedInv
      <4>3. aligned = 1 => /\ now >= capture + Buffer
                           /\ now + nap >= capture + Interval + Buffer
        BY <1>2, <1>3, <1>4, <1>6, <3>4, <4>1 DEF AlignedInv
      <4> QED BY <1>3, <1>4, <1>6, <3>4, <4>2, <4>3
    <3>5. nap >= Interval \/ anchor /= None => NextAt <= now + nap
      BY <1>3, <1>4, <3>1
    <3> QED BY <1>8, <3>3, <3>4, <3>5
  <2>2. NextAt' = now + nap
    BY <1>1, <1>5 DEF NextAt
  <2> QED BY <1>1, <1>5, <2>1, <2>2 DEF AlignedInv
<1>11. /\ re <= Charged(mk, st) + lost
       /\ re <= Charged(file.anchor, file.streak) + lost + 1
  <2>1. \/ re = retried
        \/ /\ re = retried + 1 /\ st < MaxStreak
           /\ mk = mark => Seen(mark) /\ mark /= None /\ st = streak + 1
    <3>1. mk = anchor /\ anchor /= None => Seen(mk)
      BY <1>6 DEF Seen
    <3>2. mk = anchor /\ anchor /= None => mark /= mk \/ ~Unseen(mark)
      BY <1>3, <1>4, <1>6 DEF Unseen, Times
    <3> QED BY <1>7, <1>8, <3>1, <3>2
  <2>2. retried <= Charged(file.anchor, file.streak) + lost
    BY <1>1, <1>2 DEF SavedInv
  <2>3. Charged(file.anchor, file.streak) \in Nat
    BY <1>3, <1>4, ChargedBounds
  <2>4. CASE mk = mark /\ st \in {streak, streak + 1}
    BY <1>2, <1>3, <1>4, <2>1, <2>2, <2>3, <2>4 DEF RetriedInv, Charged, AtMost
  <2>5. CASE (mark = None \/ Unseen(mark)) /\ mk = anchor /\ st = 0 /\ anchor /= None
    <3>1. ~(mark /= None /\ Seen(mark))
      BY <1>3, <1>4, <1>6, <2>5 DEF Seen, Unseen, Times
    <3>2. retried <= lost
      BY <1>2, <1>3, <3>1 DEF RetriedInv, Charged
    <3>3. Charged(mk, st) = 1
      BY <1>4, <1>6, <2>5 DEF Charged, AtMost, Seen
    <3> QED BY <1>3, <2>1, <2>2, <2>3, <3>2, <3>3
  <2> QED BY <1>7, <2>4, <2>5
<1>12. RetriedInv'
  <2>1. /\ Charged(mark, streak)' = Charged(mk, st)
        /\ Charged(file.anchor, file.streak)' = Charged(file.anchor, file.streak)
    BY <1>1, <1>5 DEF Charged, Seen
  <2> QED BY <1>1, <1>5, <1>11, <2>1 DEF RetriedInv
<1>13. SavedInv'
  <2>1. ASSUME ~saving' PROVE mk = mark /\ st = streak
    BY <1>1, <1>5, <2>1, Zenon
  <2>2. ASSUME mk = mark, st = streak PROVE re = retried
    <3>1. mk = anchor /\ anchor /= None => ~Unseen(mk) /\ mk /= None
      BY <1>4, <1>6 DEF Unseen
    <3>2. st /= streak + 1
      BY <1>3, <2>2
    <3> QED BY <1>7, <1>8, <2>2, <3>1, <3>2
  <2>3. retried <= Charged(file.anchor, file.streak) + lost
    BY <1>1, <1>2 DEF SavedInv
  <2>4. Charged(file.anchor, file.streak)' = Charged(file.anchor, file.streak)
    BY <1>1 DEF Charged, Seen
  <2>5. ASSUME ~saving' PROVE retried' = retried
    BY <1>5, <2>1, <2>2, <2>5
  <2> QED BY <1>1, <2>3, <2>4, <2>5, Zenon DEF SavedInv
<1>14. LandedInv'
  <2>1. ASSUME landed' PROVE landed /\ (night \/ anchor = None)
    BY <1>1, <2>1, Zenon
  <2>2. ASSUME night \/ anchor = None PROVE mark' = mark
    BY <1>5, <1>7, <2>2
  <2> QED BY <1>1, <1>2, <2>1, <2>2, Zenon DEF LandedInv, Unseen
<1> QED BY <1>9, <1>10, <1>12, <1>13, <1>14 DEF DropInv

-----------------------------------------------------------------------------
(* The rest of the loop *)

LEMMA SleepStep ==
  ASSUME DropInv, Sleep
  PROVE  PlacesInv' /\ AlignedInv' /\ RetriedInv' /\ SavedInv' /\ LandedInv'
<1>1. /\ pc = "asleep" /\ pc' = "poll" /\ now' = now + sleep /\ ~saving'
      /\ file' = IF saving THEN Stored(mark, streak) ELSE file
      /\ capture' = capture /\ anchor' = anchor /\ mark' = mark /\ streak' = streak
      /\ aligned' = aligned /\ retried' = retried /\ landed' = landed /\ lost' = lost
  BY Zenon DEF Sleep, schedVars
<1>2. TypeOK /\ PlacesInv /\ AlignedInv /\ RetriedInv /\ SavedInv /\ LandedInv
  BY DEF DropInv
<1>3. now \in Nat /\ sleep \in Nat /\ capture \in Nat \cup {None} /\ aligned \in Nat
      /\ file \in Caches
  BY <1>2 DEF TypeOK, Caches
<1>4. \/ saving /\ file'.anchor = mark /\ file'.streak = streak
      \/ ~saving /\ file' = file
  BY <1>1 DEF Stored
<1>5. PICK n \in Nat : now' = n /\ n = now + sleep
  BY <1>1, <1>3
<1>6. capture /= None => capture <= n
  BY <1>2, <1>3, <1>5 DEF PlacesInv
<1>7. PlacesInv'
  BY <1>1, <1>2, <1>4, <1>5, <1>6 DEF PlacesInv, Placed, Seen, Unseen
<1>8. AlignedInv'
  <2>1. NextAt = n /\ NextAt' = n
    BY <1>1, <1>5 DEF NextAt
  <2>2. aligned >= 1 => capture \in Nat
    BY <1>2, <1>3 DEF PlacesInv
  <2>3. ASSUME NEW b \in Int, now >= b PROVE n >= b
    BY <1>3, <1>5, <2>3
  <2>4. aligned >= 1 => n >= capture - Jitter + Buffer
    BY <1>2, <1>3, <1>5, <2>2, ScheduleAssumption DEF AlignedInv
  <2>5. aligned >= 2 => n >= capture + Buffer
    BY <1>2, <1>3, <1>5, <2>2, ScheduleAssumption DEF AlignedInv
  <2> QED BY <1>1, <1>2, <1>5, <2>1, <2>4, <2>5 DEF AlignedInv
<1>9. /\ retried <= Charged(file'.anchor, file'.streak) + lost
      /\ retried <= Charged(file'.anchor, file'.streak) + lost + 1
  <2>1. retried <= Charged(file'.anchor, file'.streak) + lost
    <3>1. CASE saving
      BY <1>2, <1>4, <3>1 DEF RetriedInv
    <3>2. CASE ~saving
      BY <1>2, <1>4, <3>2, Zenon DEF SavedInv
    <3> QED BY <3>1, <3>2
  <2>2. file'.anchor \in Times /\ file'.streak \in Nat
    BY <1>2, <1>3, <1>4 DEF Caches, Times, TypeOK
  <2>3. PICK c \in Nat : c = Charged(file'.anchor, file'.streak)
    BY <2>2, ChargedBounds, ScheduleAssumption
  <2> QED BY <1>2, <2>1, <2>3 DEF TypeOK
<1>10. /\ Charged(mark, streak)' = Charged(mark, streak)
       /\ Charged(file.anchor, file.streak)' = Charged(file'.anchor, file'.streak)
  BY <1>1 DEF Charged, Seen
<1>11. RetriedInv'
  BY <1>1, <1>2, <1>9, <1>10 DEF RetriedInv
<1>12. SavedInv'
  BY <1>1, <1>9, <1>10, Zenon DEF SavedInv
<1>13. LandedInv'
  <2>1. file'.anchor = mark \/ file'.anchor = file.anchor
    BY <1>4
  <2> QED BY <1>1, <1>2, <2>1, Zenon DEF LandedInv, Unseen
<1> QED BY <1>7, <1>8, <1>11, <1>12, <1>13

LEMMA PollStep ==
  ASSUME DropInv, TypeOK',
         NEW t \in 0..now \cup {None}, NEW jitter \in 0..Jitter, NEW failed \in BOOLEAN,
         Poll(t, jitter, failed)
  PROVE  DropInv'
<1>1. /\ pc = "poll" /\ pc' = "decide" /\ now' = now /\ file' = file
      /\ mark' = mark /\ streak' = streak /\ saving' = saving
      /\ anchor' = IF capture' = None THEN anchor ELSE capture' - jitter
  BY DEF Poll
<1>2. TypeOK /\ PlacesInv /\ AlignedInv /\ RetriedInv /\ SavedInv /\ LandedInv
  BY DEF DropInv
<1>3. /\ now \in Nat /\ capture \in Nat \cup {None} /\ anchor \in Times /\ mark \in Times
      /\ streak \in Nat /\ file.anchor \in Times /\ file.streak \in Nat
      /\ aligned \in Nat /\ retried \in Nat /\ lost \in Nat
  BY <1>2 DEF TypeOK, Times
<1>4. /\ Interval \in Nat /\ Buffer \in Nat /\ MaxStreak \in Nat \ {0}
      /\ Advance \in Nat /\ Jitter \in Nat /\ Jitter <= Advance /\ None \notin Int
  BY ScheduleAssumption
<1>5. ~saving
  BY <1>1, <1>2, Zenon DEF SavedInv
<1>6. CASE /\ t /= None /\ t <= now
           /\ capture /= None => t > capture + Advance + Jitter
           /\ capture' = t
           /\ aligned' = 0 /\ retried' = 0 /\ landed' = TRUE /\ lost' = 0
  <2>1. t \in Nat /\ jitter \in Nat /\ jitter <= Jitter
    BY <1>3, <1>4, <1>6
  <2>2. PICK a \in Int : anchor' = a /\ a = t - jitter
    BY <1>1, <1>4, <1>6, <2>1
  <2>3. /\ mark /= None => mark < t - Advance - Jitter
        /\ file.anchor /= None => file.anchor < t - Advance - Jitter
    BY <1>2, <1>3, <1>4, <1>6, <2>1 DEF PlacesInv, Placed, Seen, Unseen, Times
  <2>4. PlacesInv'
    BY <1>1, <1>4, <1>6, <2>1, <2>2, <2>3 DEF PlacesInv, Placed, Seen, Unseen
  <2>5. AlignedInv'
    BY <1>6 DEF AlignedInv
  <2>6. LandedInv'
    BY <1>1, <1>6, <2>3 DEF LandedInv, Unseen
  <2>7. Charged(mark, streak)' = 0 /\ Charged(file.anchor, file.streak)' = 0
    <3>1. ~(mark /= None /\ t - Jitter <= mark)
      BY <1>3, <1>4, <2>1, <2>3 DEF Times
    <3>2. ~(file.anchor /= None /\ t - Jitter <= file.anchor)
      BY <1>3, <1>4, <2>1, <2>3 DEF Times
    <3> QED BY <1>1, <1>6, <3>1, <3>2 DEF Charged, Seen
  <2>8. RetriedInv'
    BY <1>6, <2>7 DEF RetriedInv
  <2>9. retried' <= Charged(file.anchor, file.streak)' + lost'
    BY <1>6, <2>7
  <2>10. SavedInv'
    BY <1>1, <1>5, <2>9, Zenon DEF SavedInv
  <2> QED BY <2>4, <2>5, <2>6, <2>8, <2>10 DEF DropInv
<1>7. CASE t = None /\ UNCHANGED <<capture, aligned, retried, landed, lost>>
  <2>1. /\ capture' = capture /\ aligned' = aligned /\ retried' = retried
        /\ landed' = landed /\ lost' = lost
    BY <1>7
  <2>2. capture /= None => /\ anchor' \in Int /\ capture \in Int
                           /\ capture - Jitter <= anchor' /\ anchor' <= capture
    <3>1. CASE capture /= None
      <4>1. jitter \in Nat /\ jitter <= Jitter /\ capture \in Nat
        BY <1>3, <1>4, <3>1
      <4> QED BY <1>1, <1>4, <2>1, <3>1, <4>1
    <3> QED BY <3>1
  <2>3. PlacesInv'
    BY <1>1, <1>2, <2>1, <2>2 DEF PlacesInv, Placed, Seen, Unseen
  <2>4. AlignedInv'
    <3>1. capture /= None => NextAt' = now
      BY <1>1, <1>4, <2>1, <2>2 DEF NextAt
    <3>2. NextAt = now
      BY <1>1 DEF NextAt
    <3>3. aligned >= 1 => capture /= None
      BY <1>2 DEF PlacesInv
    <3>4. aligned >= 2 => aligned >= 1
      BY <1>3
    <3> QED BY <1>1, <1>2, <2>1, <3>1, <3>2, <3>3, <3>4 DEF AlignedInv
  <2>5. /\ Charged(mark, streak)' = Charged(mark, streak)
        /\ Charged(file.anchor, file.streak)' = Charged(file.anchor, file.streak)
    BY <1>1, <2>1 DEF Charged, Seen
  <2>6. RetriedInv'
    BY <1>2, <2>1, <2>5 DEF RetriedInv
  <2>7. SavedInv'
    BY <1>1, <1>2, <1>5, <2>1, <2>5, Zenon DEF SavedInv
  <2>8. LandedInv'
    BY <1>1, <1>2, <2>1, Zenon DEF LandedInv, Unseen
  <2> QED BY <2>3, <2>4, <2>6, <2>7, <2>8 DEF DropInv
<1> QED BY <1>6, <1>7 DEF Poll

-----------------------------------------------------------------------------
(* Restarts *)

\* Restoring a mark that is placed keeps it and what it accounts for.
LEMMA RestoreKeeps ==
  ASSUME TypeOK, PlacesInv, NEW stored \in Caches, Placed(stored.anchor), Restore(stored)
  PROVE  /\ mark' = stored.anchor
         /\ Charged(mark', streak') = Charged(stored.anchor, stored.streak)
<1>1. /\ now \in Nat /\ capture \in Nat \cup {None}
      /\ stored.anchor \in Times /\ stored.streak \in Nat
  BY DEF TypeOK, Caches, Times
<1>2. /\ MaxStreak \in Nat \ {0} /\ Jitter \in Nat /\ Advance \in Nat /\ None \notin Int
  BY ScheduleAssumption
<1>3. stored.anchor /= None => stored.anchor \in Int /\ stored.anchor <= now
  BY <1>1, <1>2 DEF Placed, Unseen, Seen, PlacesInv, Times
<1>4. mark' = stored.anchor
  BY <1>1, <1>3 DEF Restore, AtMost
<1>5. PICK st \in Nat : streak' = st /\ st = AtMost(stored.streak, MaxStreak)
  BY <1>1, <1>2 DEF Restore, AtMost
<1>6. AtMost(st, MaxStreak - 1) = AtMost(stored.streak, MaxStreak - 1)
  BY <1>1, <1>2, <1>5 DEF AtMost
<1> QED BY <1>4, <1>5, <1>6 DEF Charged

\* A restart forgets the anchor; no poll can be aimed before a drop is due.
LEMMA RestartAligned ==
  ASSUME DropInv, Restarted
  PROVE  AlignedInv'
<1>1. TypeOK /\ AlignedInv /\ PlacesInv
  BY DEF DropInv
<1>2. now \in Nat /\ aligned \in Nat /\ capture \in Nat \cup {None}
  BY <1>1 DEF TypeOK
<1>3. aligned >= 1 => capture \in Nat
  BY <1>1, <1>2 DEF PlacesInv
<1>4. NextAt' = now + Interval
  BY DEF Restarted, NextAt
<1>5. /\ aligned >= 1 => now + Interval >= capture - Jitter + Interval + Buffer
      /\ aligned >= 2 => now + Interval >= capture + Interval + Buffer
  BY <1>1, <1>2, <1>3, ScheduleAssumption DEF AlignedInv
<1> QED BY <1>1, <1>4, <1>5 DEF Restarted, AlignedInv

LEMMA RestartStep ==
  ASSUME DropInv, TypeOK', Restart
  PROVE  DropInv'
<1>1. /\ pc' = "decide" /\ now' = now /\ capture' = capture /\ anchor' = None /\ ~saving'
      /\ aligned' = aligned /\ retried' = retried /\ landed' = landed /\ lost' = lost
      /\ file' = IF saving THEN Stored(mark, streak) ELSE file
      /\ Restore(file')
  BY Zenon DEF Restart, Restarted
<1>2. TypeOK /\ PlacesInv /\ RetriedInv /\ SavedInv /\ LandedInv
  BY DEF DropInv
<1>3. file' \in Caches /\ file'.anchor \in Times /\ file'.streak \in Nat
  BY DEF TypeOK, Caches, Times
<1>4. \/ saving /\ file'.anchor = mark /\ file'.streak = streak
      \/ ~saving /\ file' = file
  BY <1>1 DEF Stored
<1>5. Placed(file'.anchor)
  BY <1>2, <1>4 DEF PlacesInv
<1>6. /\ mark' = file'.anchor
      /\ Charged(mark', streak') = Charged(file'.anchor, file'.streak)
  BY <1>1, <1>2, <1>3, <1>5, RestoreKeeps
<1>7. PlacesInv'
  BY <1>1, <1>2, <1>5, <1>6 DEF PlacesInv, Placed, Seen, Unseen
<1>8. AlignedInv'
  BY RestartAligned DEF Restart
<1>9. retried <= Charged(file'.anchor, file'.streak) + lost
  <2>1. CASE saving
    BY <1>2, <1>4, <2>1 DEF RetriedInv
  <2>2. CASE ~saving
    BY <1>2, <1>4, <2>2, Zenon DEF SavedInv
  <2> QED BY <2>1, <2>2
<1>10. retried <= Charged(file'.anchor, file'.streak) + lost + 1
  <2>1. PICK c \in Nat : c = Charged(file'.anchor, file'.streak)
    BY <1>3, ChargedBounds, ScheduleAssumption
  <2> QED BY <1>2, <1>9, <2>1 DEF TypeOK
<1>11. /\ Charged(mark, streak)' = Charged(file'.anchor, file'.streak)
       /\ Charged(file.anchor, file.streak)' = Charged(file'.anchor, file'.streak)
  BY <1>1, <1>6 DEF Charged, Seen
<1>12. RetriedInv'
  BY <1>1, <1>9, <1>10, <1>11 DEF RetriedInv
<1>13. SavedInv'
  BY <1>1, <1>9, <1>11, Zenon DEF SavedInv
<1>14. LandedInv'
  <2>1. file'.anchor = mark \/ file'.anchor = file.anchor
    BY <1>4
  <2> QED BY <1>1, <1>2, <1>6, <2>1, Zenon DEF LandedInv, Unseen
<1> QED BY <1>7, <1>8, <1>12, <1>13, <1>14 DEF DropInv

LEMMA CrashStep ==
  ASSUME DropInv, TypeOK', Crash
  PROVE  DropInv'
<1>1. /\ pc' = "decide" /\ now' = now /\ capture' = capture /\ anchor' = None /\ ~saving'
      /\ aligned' = aligned /\ retried' = retried /\ landed' = landed /\ lost' = lost + 1
      /\ file' = file /\ Restore(file)
  BY Zenon DEF Crash, Restarted
<1>2. TypeOK /\ PlacesInv /\ RetriedInv /\ LandedInv
  BY DEF DropInv
<1>3. /\ file \in Caches /\ file.anchor \in Times /\ file.streak \in Nat
      /\ lost \in Nat /\ retried \in Nat
  BY <1>2 DEF TypeOK, Caches, Times
<1>4. Placed(file.anchor)
  BY <1>2 DEF PlacesInv
<1>5. /\ mark' = file.anchor
      /\ Charged(mark', streak') = Charged(file.anchor, file.streak)
  BY <1>1, <1>2, <1>3, <1>4, RestoreKeeps
<1>6. PlacesInv'
  BY <1>1, <1>2, <1>4, <1>5 DEF PlacesInv, Placed, Seen, Unseen
<1>7. AlignedInv'
  BY RestartAligned DEF Crash
<1>8. PICK l \in Nat, c \in Nat : l = lost + 1 /\ lost' = l
                                  /\ c = Charged(file.anchor, file.streak)
  BY <1>1, <1>3, ChargedBounds, ScheduleAssumption
<1>9. retried <= c + l /\ retried <= c + l + 1
  BY <1>2, <1>3, <1>8 DEF RetriedInv
<1>10. /\ Charged(mark, streak)' = c
       /\ Charged(file.anchor, file.streak)' = c
  BY <1>1, <1>5, <1>8 DEF Charged, Seen
<1>11. RetriedInv'
  BY <1>1, <1>8, <1>9, <1>10 DEF RetriedInv
<1>12. SavedInv'
  BY <1>1, <1>8, <1>9, <1>10, Zenon DEF SavedInv
<1>13. LandedInv'
  BY <1>1, <1>2, <1>5, Zenon DEF LandedInv, Unseen
<1> QED BY <1>6, <1>7, <1>11, <1>12, <1>13 DEF DropInv

-----------------------------------------------------------------------------
(* Theorems *)

LEMMA DropStep == ASSUME DropInv, [Next]_vars PROVE DropInv'
<1>1. TypeOK'
  BY TypeStep DEF DropInv
<1>2. ASSUME NEW night \in BOOLEAN, Decide(night) PROVE DropInv'
  BY <1>1, <1>2, DecideStep
<1>3. CASE Sleep
  BY <1>1, <1>3, SleepStep DEF DropInv
<1>4. ASSUME NEW t \in 0..now \cup {None}, NEW jitter \in 0..Jitter, NEW failed \in BOOLEAN,
             Poll(t, jitter, failed)
      PROVE  DropInv'
  BY <1>1, <1>4, PollStep
<1>5. CASE Restart
  BY <1>1, <1>5, RestartStep
<1>6. CASE Crash
  BY <1>1, <1>6, CrashStep
<1>7. CASE UNCHANGED vars
  BY <1>7 DEF vars, schedVars, DropInv, TypeOK, PlacesInv, Placed, AlignedInv, NextAt,
              RetriedInv, SavedInv, LandedInv, Charged, Seen, Unseen
<1> QED BY <1>2, <1>3, <1>4, <1>5, <1>6, <1>7 DEF Next

\* A dead feed costs MaxStreak retries and two aimed polls, over any number of
\* restarts, and one more retry for each save that a crash prevented.
THEOREM DropFastPollsBounded == Spec => []FastPollsBounded
<1>1. DropInv => FastPollsBounded
  <2> SUFFICES ASSUME DropInv PROVE FastPollsBounded
    OBVIOUS
  <2>1. mark \in Times /\ streak \in Nat /\ retried \in Nat /\ lost \in Nat
    BY DEF DropInv, TypeOK, Times
  <2>2. Charged(mark, streak) \in 0..MaxStreak
    BY <2>1, ChargedBounds
  <2>3. retried <= MaxStreak + lost
    BY <2>1, <2>2, ScheduleAssumption DEF DropInv, RetriedInv
  <2> QED BY <2>3 DEF DropInv, AlignedInv, FastPollsBounded
<1> QED BY <1>1, DropInit, DropStep, PTL DEF Spec

\* The first decision by day after a drop landed finds the mark unseen, however
\* the entry was restarted meanwhile: it moves the mark and refills the budget.
THEOREM DropRefills == Spec => DropRefillsTheBudget
<1>1. ASSUME DropInv, [Next]_vars
      PROVE  [landed /\ ~landed' /\ pc = "decide" => streak' = 0 /\ mark' = anchor]_vars
  <2> SUFFICES ASSUME Next, landed, ~landed', pc = "decide"
               PROVE  streak' = 0 /\ mark' = anchor
    BY <1>1
  <2>1. PICK night \in BOOLEAN : Decide(night)
    BY DEF Next, Sleep, Poll, Restart, Crash, Restarted
  <2>2. ~night /\ anchor /= None
    BY <2>1, Zenon DEF Decide
  <2>3. mark = None \/ Unseen(mark)
    BY <1>1, Zenon DEF DropInv, LandedInv
  <2>4. mark \in Times /\ capture \in Nat \cup {None} /\ Count(night) /\ TypeOK /\ PlacesInv
    BY <1>1, <2>1 DEF DropInv, TypeOK, Times, Decide
  <2>5. capture \in Nat
    BY <2>2, <2>4 DEF PlacesInv
  <2>6. ~(mark /= None /\ Seen(mark))
    BY <2>3, <2>4, <2>5, ScheduleAssumption DEF Seen, Unseen, Times
  <2> QED BY <2>2, <2>4, <2>6, CountMoves
<1> QED BY <1>1, DropInit, DropStep, PTL DEF Spec, DropRefillsTheBudget
=============================================================================
