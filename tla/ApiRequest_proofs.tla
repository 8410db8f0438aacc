------------------------- MODULE ApiRequest_proofs -------------------------
(***************************************************************************)
(* Theorems about ApiRequest for every set of requests and endpoints and   *)
(* every retry, refresh and lockout parameter.                             *)
(***************************************************************************)
EXTENDS ApiRequest, SequenceTheorems, FiniteSetTheorems, TLAPS

-----------------------------------------------------------------------------
(* Type correctness *)

\* TypeOK in two halves: what belongs to a call, and what the calls share.
CallsTyped ==
    /\ pc \in [Requests -> States]
    /\ attempt \in [Requests -> Nat]
    /\ mayRefresh \in [Requests -> BOOLEAN]
    /\ outer \in [Requests -> Seq(Nat)]
    /\ used \in [Requests -> Nat]
    /\ sends \in [Requests -> Nat]

TokenTyped ==
    /\ token \in Nat /\ expired \in Nat /\ ageing \in BOOLEAN
    /\ minter \in Requests \cup {Nobody}
    /\ bookings \in Seq(Requests) /\ storm \in BOOLEAN
    /\ expiries \in Nat /\ mintFailures \in Nat

LimitsTyped ==
    /\ lockout \in Nat
    /\ spent \in [Urls -> Nat]
    /\ count403 \in Nat

LEMMA Halves == TypeOK <=> CallsTyped /\ TokenTyped /\ LimitsTyped
  BY DEF TypeOK, CallsTyped, TokenTyped, LimitsTyped

LEMMA FramesType ==
  ASSUME TypeOK, NEW r \in Requests
  PROVE  Frames(r) \in Seq(Nat)
  <1>1. outer[r] \in Seq(Nat) /\ attempt[r] \in Nat
    BY DEF TypeOK
  <1> QED BY <1>1 DEF Frames

LEMMA RecurseType ==
  ASSUME TypeOK, NEW r \in Requests, NEW n \in Nat, NEW b \in BOOLEAN,
         NEW s \in Seq(Nat), Recurse(r, n, b, s)
  PROVE  /\ attempt' \in [Requests -> Nat]
         /\ mayRefresh' \in [Requests -> BOOLEAN]
         /\ outer' \in [Requests -> Seq(Nat)]
  BY DEF Recurse, TypeOK

LEMMA BackOffType ==
  ASSUME TypeOK, NEW r \in Requests, BackOff(r)
  PROVE  /\ pc' \in [Requests -> States]
         /\ attempt' \in [Requests -> Nat]
         /\ mayRefresh' \in [Requests -> BOOLEAN]
         /\ outer' \in [Requests -> Seq(Nat)]
  <1>1. attempt[r] + 1 \in Nat /\ mayRefresh[r] \in BOOLEAN /\ Frames(r) \in Seq(Nat)
    BY FramesType DEF TypeOK
  <1>2. Recurse(r, attempt[r] + 1, mayRefresh[r], Frames(r))
    BY DEF BackOff
  <1>3. pc' \in [Requests -> States]
    BY DEF BackOff, Goto, TypeOK, States, Ended
  <1> QED BY <1>1, <1>2, <1>3, RecurseType

LEMMA CatchFromType ==
  ASSUME TypeOK, NEW r \in Requests, NEW frames \in Seq(Nat),
         NEW i \in DOMAIN frames, CatchFrom(r, frames, i)
  PROVE  /\ pc' \in [Requests -> States]
         /\ attempt' \in [Requests -> Nat]
         /\ mayRefresh' \in [Requests -> BOOLEAN]
         /\ outer' \in [Requests -> Seq(Nat)]
         /\ count403' \in Nat
  <1>1. i \in 1..Len(frames) /\ Len(frames) \in Nat /\ frames[i] + 1 \in Nat
    OBVIOUS
  <1>2. SubSeq(frames, 1, i - 1) \in Seq(Nat)
    BY <1>1, SubSeqProperties
  <1>3. Recurse(r, frames[i] + 1, FALSE, SubSeq(frames, 1, i - 1))
    BY DEF CatchFrom
  <1>4. count403' \in Nat
    <2>1. count403 \in Nat
      BY DEF TypeOK
    <2>2. count403' = count403 + Len(frames) - i
      BY DEF CatchFrom
    <2> QED BY <1>1, <2>1, <2>2
  <1>5. pc' \in [Requests -> States]
    BY DEF CatchFrom, Goto, TypeOK, States, Ended
  <1> QED BY <1>1, <1>2, <1>3, <1>4, <1>5, RecurseType

LEMMA ContinueType ==
  ASSUME TypeOK, NEW r \in Requests, NEW bearer \in Nat, Continue(r, bearer)
  PROVE  /\ pc' \in [Requests -> States]
         /\ attempt' \in [Requests -> Nat]
         /\ mayRefresh' \in [Requests -> BOOLEAN]
         /\ outer' \in [Requests -> Seq(Nat)]
         /\ used' \in [Requests -> Nat]
         /\ sends' \in [Requests -> Nat]
  <1>1. CASE pc[r] = "reminting"
    <2>1. Transmit(r, bearer) /\ UNCHANGED callVars
      BY <1>1 DEF Continue
    <2>2. CallsTyped
      BY Halves
    <2> QED BY <2>1, <2>2 DEF Transmit, Goto, callVars, CallsTyped, States, Ended
  <1>2. CASE pc[r] # "reminting"
    <2>1. Recurse(r, 0, FALSE, Frames(r)) /\ Goto(r, "top") /\ UNCHANGED <<used, sends>>
      BY <1>2 DEF Continue
    <2>2. Frames(r) \in Seq(Nat)
      BY FramesType
    <2> QED BY <2>1, <2>2, RecurseType DEF Goto, TypeOK, States, Ended
  <1> QED BY <1>1, <1>2

LEMMA GiveUpType ==
  ASSUME TypeOK, NEW r \in Requests, GiveUp(r)
  PROVE  /\ pc' \in [Requests -> States]
         /\ UNCHANGED callVars
         /\ used' \in [Requests -> Nat]
         /\ sends' \in [Requests -> Nat]
  <1>1. CallsTyped /\ token \in Nat
    BY DEF TypeOK, CallsTyped
  <1>2. UNCHANGED callVars
    BY DEF GiveUp
  <1>3. CASE pc[r] = "reminting"
    <2>1. Transmit(r, token)
      BY <1>3 DEF GiveUp
    <2> QED BY <1>1, <1>2, <2>1 DEF Transmit, Goto, CallsTyped, States, Ended
  <1>4. CASE pc[r] # "reminting"
    <2>1. Goto(r, "failed") /\ UNCHANGED <<used, sends>>
      BY <1>4 DEF GiveUp
    <2> QED BY <1>1, <1>2, <2>1 DEF Goto, CallsTyped, States, Ended
  <1> QED BY <1>3, <1>4

LEMMA TypeInit == Init => TypeOK
  <1> SUFFICES ASSUME Init PROVE TypeOK
    OBVIOUS
  <1>1. /\ pc \in [Requests -> States] /\ attempt \in [Requests -> Nat]
        /\ mayRefresh \in [Requests -> BOOLEAN] /\ outer \in [Requests -> Seq(Nat)]
        /\ used \in [Requests -> Nat] /\ sends \in [Requests -> Nat]
    BY DEF Init, States, Ended
  <1>2. TokenTyped
    <2>1. token \in Nat /\ expired \in Nat /\ expiries \in Nat /\ mintFailures \in Nat
      BY DEF Init
    <2>2. minter \in Requests \cup {Nobody} /\ bookings \in Seq(Requests)
      BY DEF Init
    <2>3. ageing \in BOOLEAN /\ storm \in BOOLEAN
      BY Zenon DEF Init
    <2> QED BY <2>1, <2>2, <2>3 DEF TokenTyped
  <1>3. LimitsTyped
    BY DEF Init, LimitsTyped
  <1> QED BY <1>1, <1>2, <1>3, Halves DEF CallsTyped

LEMMA TypeStep == TypeOK /\ [Next]_vars => TypeOK'
  <1> SUFFICES ASSUME TypeOK, [Next]_vars PROVE TypeOK'
    OBVIOUS
  <1> USE RequestAssumption DEF callVars, tokenVars, limitVars
  <1>1. CASE UNCHANGED vars
    BY <1>1 DEF vars, TypeOK
  <1>2. ASSUME NEW r \in Requests, Start(r) \/ Enter(r) \/ Wake(r)
        PROVE  TypeOK'
    <2>1. CallsTyped /\ TokenTyped /\ LimitsTyped
      BY Halves
    <2>2. CallsTyped'
      <3>1. token \in Nat
        BY <2>1 DEF TokenTyped
      <3>2. CASE Start(r) \/ LockedOut(r) \/ Wake(r)
        BY <2>1, <3>2 DEF Start, LockedOut, Wake, Goto, CallsTyped, States, Ended
      <3>3. CASE Remint(r)
        BY <2>1, <3>1, <3>3 DEF Remint, Goto, CallsTyped, States, Ended
      <3>4. CASE Send(r)
        <4>1. Transmit(r, token) /\ UNCHANGED callVars
          BY <3>4 DEF Send
        <4> QED BY <2>1, <3>1, <4>1 DEF Transmit, Goto, CallsTyped, States, Ended
      <3> QED BY <1>2, <3>2, <3>3, <3>4 DEF Enter
    <2>3. TokenTyped' /\ LimitsTyped'
      BY <1>2, <2>1 DEF Start, Enter, Wake, LockedOut, Remint, Send, TokenTyped,
                        LimitsTyped
    <2> QED BY <2>2, <2>3 DEF TypeOK, CallsTyped, TokenTyped, LimitsTyped
  <1>3. ASSUME NEW r \in Requests, Succeeds(r) \/ Unauthorized(r) \/ HardLockout(r) \/ Refused(r)
        PROVE  TypeOK'
    <2>1. CallsTyped /\ TokenTyped /\ LimitsTyped
      BY Halves
    <2>2. CallsTyped'
      BY <1>3, <2>1 DEF Succeeds, Unauthorized, HardLockout, Refused, Goto, CallsTyped,
                        States, Ended
    <2>3. TokenTyped'
      BY <1>3, <2>1 DEF Succeeds, Unauthorized, HardLockout, Refused, TokenTyped
    <2>4. spent' \in [Urls -> Nat] /\ lockout' \in Nat
      BY <1>3, <2>1 DEF Succeeds, Unauthorized, HardLockout, Refused, LimitsTyped
    <2>5. count403' \in Nat
      BY <1>3, <2>1 DEF Succeeds, Unauthorized, HardLockout, Refused, LimitsTyped
    <2> QED BY <2>2, <2>3, <2>4, <2>5 DEF TypeOK, CallsTyped, TokenTyped, LimitsTyped
  <1>4. ASSUME NEW r \in Requests, NEW hold \in RetryAfterHolds, ThrottledFor(r, hold)
        PROVE  TypeOK'
    BY <1>4 DEF ThrottledFor, Goto, TypeOK, States, Ended
  <1>5. ASSUME NEW r \in Requests, Throttled(r) PROVE TypeOK'
    <2>1. CASE BackOff(r)
      BY <1>5, <2>1, BackOffType DEF Throttled, TypeOK
    <2>2. CASE ~BackOff(r)
      BY <1>5, <2>2 DEF Throttled, Goto, TypeOK, States, Ended
    <2> QED BY <2>1, <2>2
  <1>6. ASSUME NEW r \in Requests, ServerError(r) PROVE TypeOK'
    <2>1. spent' \in [Urls -> Nat]
      <3>1. UrlOf[r] \in Urls /\ spent \in [Urls -> Nat]
        BY DEF TypeOK
      <3>2. spent' = spent \/ spent' = [spent EXCEPT ![UrlOf[r]] = 1]
        BY <1>6 DEF ServerError
      <3> QED BY <3>1, <3>2
    <2>2. CASE BackOff(r)
      BY <1>6, <2>1, <2>2, BackOffType DEF ServerError, TypeOK
    <2>3. CASE ~BackOff(r)
      BY <1>6, <2>1, <2>3 DEF ServerError, Goto, TypeOK, States, Ended
    <2> QED BY <2>2, <2>3
  <1>7. ASSUME NEW r \in Requests, NetworkError(r) PROVE TypeOK'
    <2>1. CASE BackOff(r)
      BY <1>7, <2>1, BackOffType DEF NetworkError, TypeOK
    <2>2. CASE ~BackOff(r)
      BY <1>7, <2>2 DEF NetworkError, Goto, TypeOK, States, Ended
    <2> QED BY <2>1, <2>2
  <1>8. ASSUME NEW r \in Requests, Forbidden(r) PROVE TypeOK'
    <2> DEFINE frames == Frames(r)
    <2>1. frames \in Seq(Nat)
      BY FramesType
    <2>2. CASE Catchers(frames) = {}
      <3>1. Len(frames) \in Nat
        BY <2>1
      <3>2. count403' = count403 + Len(frames) /\ Goto(r, "failed") /\ UNCHANGED callVars
        BY <1>8, <2>2 DEF Forbidden
      <3>3. count403' \in Nat
        <4>1. count403 \in Nat
          BY DEF TypeOK
        <4> HIDE DEF frames
        <4> QED BY <3>1, <3>2, <4>1
      <3>4. pc' \in [Requests -> States]
        BY <3>2 DEF Goto, TypeOK, States, Ended
      <3> QED BY <1>8, <3>2, <3>3, <3>4 DEF Forbidden, TypeOK
    <2>3. CASE Catchers(frames) # {}
      <3>1. PICK i \in Catchers(frames) : CatchFrom(r, frames, i)
        BY <1>8, <2>3 DEF Forbidden
      <3>2. i \in DOMAIN frames
        BY DEF Catchers
      <3> HIDE DEF frames
      <3> QED BY <1>8, <2>1, <3>1, <3>2, CatchFromType DEF Forbidden, TypeOK
    <2> QED BY <2>2, <2>3
  <1>9. ASSUME NEW r \in Requests, AlreadyRefreshed(r) PROVE TypeOK'
    <2>1. token \in Nat
      BY DEF TypeOK
    <2> QED BY <1>9, <2>1, ContinueType DEF AlreadyRefreshed, TypeOK
  <1>10. ASSUME NEW r \in Requests, RefuseRefresh(r) PROVE TypeOK'
    BY <1>10, GiveUpType DEF RefuseRefresh, TypeOK
  <1>11. ASSUME NEW r \in Requests, BookRefresh(r) PROVE TypeOK'
    BY <1>11 DEF BookRefresh, TypeOK
  <1>12. ASSUME NEW r \in Requests, MintSucceeds(r) PROVE TypeOK'
    <2>1. token' \in Nat
      BY <1>12 DEF MintSucceeds, TypeOK
    <2>2. Continue(r, token')
      BY <1>12 DEF MintSucceeds
    <2> QED BY <1>12, <2>1, <2>2, ContinueType DEF MintSucceeds, TypeOK
  <1>13. ASSUME NEW r \in Requests, MintFails(r) PROVE TypeOK'
    <2>1. CASE GiveUp(r)
      BY <1>13, <2>1, GiveUpType DEF MintFails, TypeOK
    <2>2. CASE ~GiveUp(r)
      <3>1. BackOff(r) /\ UNCHANGED <<used, sends>>
        BY <1>13, <2>2 DEF MintFails
      <3> QED BY <1>13, <3>1, BackOffType DEF MintFails, TypeOK
    <2> QED BY <2>1, <2>2
  <1>14. CASE Tick
    BY <1>14 DEF Tick, TypeOK
  <1>15. CASE SlotFrees
    <2>1. bookings' \in Seq(Requests)
      BY <1>15 DEF SlotFrees, TypeOK
    <2> QED BY <1>15, <2>1 DEF SlotFrees, TypeOK
  <1>16. CASE BearerExpires \/ BearerAges
    <2>1. expired' \in Nat /\ expiries' \in Nat
      BY <1>16 DEF BearerExpires, BearerAges, TypeOK
    <2>2. ageing' \in BOOLEAN
      <3>1. ageing' = TRUE \/ ageing' = ageing
        BY <1>16 DEF BearerExpires, BearerAges
      <3>2. ageing \in BOOLEAN
        BY DEF TypeOK
      <3> QED BY <3>1, <3>2, Zenon
    <2> QED BY <1>16, <2>1, <2>2 DEF BearerExpires, BearerAges, TypeOK
  <1> QED
    BY <1>1, <1>2, <1>3, <1>4, <1>5, <1>6, <1>7, <1>8, <1>9, <1>10, <1>11, <1>12, <1>13,
       <1>14, <1>15, <1>16 DEF Next, Request, Answer, RefreshTokens

\* Every variable stays in its type: _request's retries and the override's
\* nested frames, whatever the backend answers.
THEOREM RequestTypeOK == Spec => []TypeOK
  <1> QED BY TypeInit, TypeStep, PTL DEF Spec

-----------------------------------------------------------------------------
(* The refresh lock and its budget *)

\* What the current bearer still has coming to it: each event is one that a
\* mint answers, and a mint answers at least one.
Pending ==
    (IF expired = token THEN 1 ELSE 0) + (IF ageing THEN 1 ELSE 0)

\* NoNeedlessMint is not inductive: that a mint answers an event follows from
\* why its minter waits.
Mints ==
    /\ MinterWaits
    /\ expired <= token
    /\ token + Pending <= expiries + 1
    /\ \A r \in Requests :
          /\ used[r] <= token
          /\ pc[r] = "refreshing" => used[r] <= expired
          /\ pc[r] = "reminting" /\ used[r] = token => ageing

\* A step of one request that leaves the bearer alone: it goes to state s with
\* bearer u.
Moves(r, s, u) ==
    /\ pc' = [pc EXCEPT ![r] = s] /\ used' = [used EXCEPT ![r] = u]
    /\ UNCHANGED <<token, expired, ageing, minter, expiries>>

LEMMA MintsLocal ==
  ASSUME TypeOK, Mints, NEW r \in Requests, NEW s, NEW u \in Nat, Moves(r, s, u),
         minter # r, u <= token,
         s = "refreshing" => u <= expired,
         s = "reminting" => ageing
  PROVE  Mints'
  <1> USE DEF Moves
  <1>1. MinterWaits'
    BY RequestAssumption DEF Mints, MinterWaits, Waiting, TypeOK
  <1>2. expired' <= token' /\ token' + Pending' <= expiries' + 1
    BY DEF Mints, Pending
  <1>3. ASSUME NEW q \in Requests
        PROVE  /\ used'[q] <= token'
               /\ pc'[q] = "refreshing" => used'[q] <= expired'
               /\ pc'[q] = "reminting" /\ used'[q] = token' => ageing'
    <2>1. CASE q = r
      BY <2>1 DEF TypeOK
    <2>2. CASE q # r
      BY <2>2 DEF Mints, TypeOK
    <2> QED BY <2>1, <2>2
  <1> QED BY <1>1, <1>2, <1>3 DEF Mints

LEMMA NotTheMinter ==
  ASSUME Mints, NEW r \in Requests, ~Waiting(r)
  PROVE  minter # r
  BY RequestAssumption DEF Mints, MinterWaits

LEMMA SameUsed ==
  ASSUME TypeOK, NEW r \in Requests, used' = used
  PROVE  used[r] \in Nat /\ used' = [used EXCEPT ![r] = used[r]]
  BY DEF TypeOK

\* Where an answer takes its request.
LEMMA AnswerMoves ==
  ASSUME NEW r \in Requests, Answer(r)
  PROVE  /\ pc[r] = "sent" /\ UNCHANGED <<used, sends, tokenVars>>
         /\ \E s \in {"ok", "failed", "refreshing", "sleeping", "top"} :
              /\ pc' = [pc EXCEPT ![r] = s]
              /\ s = "refreshing" => used[r] <= expired
  <1>1. CASE Succeeds(r) \/ Unauthorized(r) \/ HardLockout(r) \/ Refused(r)
    BY <1>1 DEF Succeeds, Unauthorized, HardLockout, Refused, Goto
  <1>2. ASSUME NEW hold \in RetryAfterHolds, ThrottledFor(r, hold)
        PROVE  /\ pc[r] = "sent" /\ UNCHANGED <<used, sends, tokenVars>>
               /\ pc' = [pc EXCEPT ![r] = "failed"]
    BY <1>2 DEF ThrottledFor, Goto
  <1>3. CASE Throttled(r) \/ ServerError(r) \/ NetworkError(r)
    BY <1>3 DEF Throttled, ServerError, NetworkError, BackOff, Goto
  <1>4. CASE Forbidden(r)
    BY <1>4 DEF Forbidden, CatchFrom, Goto
  <1> QED BY <1>1, <1>2, <1>3, <1>4 DEF Answer

LEMMA MintsInit == Init => Mints
  BY DEF Init, Mints, MinterWaits, Pending

LEMMA MintsStep == TypeOK /\ Mints /\ [Next]_vars => Mints'
  <1> SUFFICES ASSUME TypeOK, Mints, [Next]_vars PROVE Mints'
    OBVIOUS
  <1> USE DEF tokenVars
  <1>1. CASE UNCHANGED vars
    BY <1>1 DEF vars, Mints, MinterWaits, Waiting, Pending
  <1>2. ASSUME NEW r \in Requests, Start(r) \/ Enter(r) \/ Wake(r) PROVE Mints'
    <2>1. minter # r
      <3>1. pc[r] \in {"idle", "top", "sleeping"}
        BY <1>2 DEF Start, Enter, LockedOut, Remint, Send, Wake
      <3> QED BY <3>1, NotTheMinter DEF Waiting
    <2>2. token \in Nat /\ token <= token /\ UNCHANGED <<token, expired, ageing, minter, expiries>>
      BY <1>2 DEF Start, Enter, LockedOut, Remint, Send, Wake, TypeOK
    <2>3. CASE Start(r) \/ LockedOut(r) \/ Wake(r)
      <3>1. used' = used /\ (pc' = [pc EXCEPT ![r] = "top"] \/ pc' = [pc EXCEPT ![r] = "failed"])
        BY <2>3 DEF Start, LockedOut, Wake, Goto
      <3>2. used[r] \in Nat /\ used[r] <= token /\ used' = [used EXCEPT ![r] = used[r]]
        BY <3>1, SameUsed DEF Mints
      <3>3. CASE pc' = [pc EXCEPT ![r] = "top"]
        <4>1. Moves(r, "top", used[r])
          BY <2>2, <3>2, <3>3 DEF Moves
        <4> QED BY <2>1, <3>2, <4>1, MintsLocal
      <3>4. CASE pc' = [pc EXCEPT ![r] = "failed"]
        <4>1. Moves(r, "failed", used[r])
          BY <2>2, <3>2, <3>4 DEF Moves
        <4> QED BY <2>1, <3>2, <4>1, MintsLocal
      <3> QED BY <3>1, <3>3, <3>4
    <2>4. CASE Remint(r)
      <3>1. /\ pc' = [pc EXCEPT ![r] = "reminting"] /\ used' = [used EXCEPT ![r] = token]
            /\ ageing
        BY <2>4 DEF Remint, NeedsRemint, Goto
      <3>2. Moves(r, "reminting", token)
        BY <2>2, <3>1 DEF Moves
      <3> QED BY <2>1, <2>2, <3>1, <3>2, MintsLocal
    <2>5. CASE Send(r)
      <3>1. pc' = [pc EXCEPT ![r] = "sent"] /\ used' = [used EXCEPT ![r] = token]
        BY <2>5 DEF Send, Transmit, Goto
      <3>2. Moves(r, "sent", token)
        BY <2>2, <3>1 DEF Moves
      <3> QED BY <2>1, <2>2, <3>2, MintsLocal
    <2> QED BY <1>2, <2>3, <2>4, <2>5 DEF Enter
  <1>3. ASSUME NEW r \in Requests, Answer(r) PROVE Mints'
    <2>1. pc[r] = "sent" /\ used' = used /\ UNCHANGED <<token, expired, ageing, minter, expiries>>
      BY <1>3, AnswerMoves
    <2>2. PICK s \in {"ok", "failed", "refreshing", "sleeping", "top"} :
             /\ pc' = [pc EXCEPT ![r] = s]
             /\ s = "refreshing" => used[r] <= expired
      BY <1>3, AnswerMoves
    <2>3. minter # r
      BY <2>1, NotTheMinter DEF Waiting
    <2>4. used[r] \in Nat /\ used[r] <= token /\ used' = [used EXCEPT ![r] = used[r]]
      BY <2>1, SameUsed DEF Mints
    <2>5. Moves(r, s, used[r])
      BY <2>1, <2>2, <2>4 DEF Moves
    <2> QED BY <2>2, <2>3, <2>4, <2>5, MintsLocal
  <1>4. ASSUME NEW r \in Requests, AlreadyRefreshed(r) PROVE Mints'
    <2>1. minter # r /\ UNCHANGED <<token, expired, ageing, minter, expiries>>
      BY <1>4, RequestAssumption DEF AlreadyRefreshed
    <2>2. token \in Nat /\ token <= token /\ Continue(r, token)
      BY <1>4 DEF AlreadyRefreshed, TypeOK
    <2>3. \/ pc' = [pc EXCEPT ![r] = "sent"] /\ used' = [used EXCEPT ![r] = token]
          \/ pc' = [pc EXCEPT ![r] = "top"] /\ used' = used
      BY <2>2 DEF Continue, Transmit, Goto
    <2>4. CASE pc' = [pc EXCEPT ![r] = "sent"] /\ used' = [used EXCEPT ![r] = token]
      <3>1. Moves(r, "sent", token)
        BY <2>1, <2>4 DEF Moves
      <3> QED BY <2>1, <2>2, <3>1, MintsLocal
    <2>5. CASE pc' = [pc EXCEPT ![r] = "top"] /\ used' = used
      <3>1. used[r] \in Nat /\ used[r] <= token /\ used' = [used EXCEPT ![r] = used[r]]
        BY <2>5, SameUsed DEF Mints
      <3>2. Moves(r, "top", used[r])
        BY <2>1, <2>5, <3>1 DEF Moves
      <3> QED BY <2>1, <3>1, <3>2, MintsLocal
    <2> QED BY <2>3, <2>4, <2>5
  <1>5. ASSUME NEW r \in Requests, RefuseRefresh(r) PROVE Mints'
    <2>1. minter # r /\ UNCHANGED <<token, expired, ageing, minter, expiries>>
      BY <1>5, RequestAssumption DEF RefuseRefresh
    <2>2. token \in Nat /\ token <= token /\ GiveUp(r)
      BY <1>5 DEF RefuseRefresh, TypeOK
    <2>3. \/ pc' = [pc EXCEPT ![r] = "sent"] /\ used' = [used EXCEPT ![r] = token]
          \/ pc' = [pc EXCEPT ![r] = "failed"] /\ used' = used
      BY <2>2 DEF GiveUp, Transmit, Goto
    <2>4. CASE pc' = [pc EXCEPT ![r] = "sent"] /\ used' = [used EXCEPT ![r] = token]
      <3>1. Moves(r, "sent", token)
        BY <2>1, <2>4 DEF Moves
      <3> QED BY <2>1, <2>2, <3>1, MintsLocal
    <2>5. CASE pc' = [pc EXCEPT ![r] = "failed"] /\ used' = used
      <3>1. used[r] \in Nat /\ used[r] <= token /\ used' = [used EXCEPT ![r] = used[r]]
        BY <2>5, SameUsed DEF Mints
      <3>2. Moves(r, "failed", used[r])
        BY <2>1, <2>5, <3>1 DEF Moves
      <3> QED BY <2>1, <3>1, <3>2, MintsLocal
    <2> QED BY <2>3, <2>4, <2>5
  <1>6. ASSUME NEW r \in Requests, BookRefresh(r) PROVE Mints'
    BY <1>6 DEF BookRefresh, Mints, MinterWaits, Waiting, Pending
  <1>7. ASSUME NEW r \in Requests, MintSucceeds(r) PROVE Mints'
    <2>1. /\ used[r] = token /\ Waiting(r) /\ token' = token + 1 /\ ageing' = FALSE
          /\ minter' = Nobody /\ UNCHANGED <<expired, expiries>>
      BY <1>7, RequestAssumption DEF MintSucceeds, Mints, MinterWaits
    <2>2. token \in Nat /\ expired \in Nat /\ expiries \in Nat
      BY DEF TypeOK
    <2>3. Pending >= 1
      BY <2>1, <2>2 DEF Mints, Waiting, Pending
    <2>4. Pending' = 0
      BY <2>1, <2>2 DEF Mints, Pending
    <2>5. token' + Pending' <= expiries' + 1 /\ expired' <= token'
      <3>1. Pending \in Nat
        BY DEF Pending
      <3> QED BY <2>1, <2>2, <2>3, <2>4, <3>1 DEF Mints
    <2>6. Continue(r, token')
      BY <1>7 DEF MintSucceeds
    <2>7. \/ pc' = [pc EXCEPT ![r] = "sent"] /\ used' = [used EXCEPT ![r] = token']
          \/ pc' = [pc EXCEPT ![r] = "top"] /\ used' = used
      BY <2>6 DEF Continue, Transmit, Goto
    <2>8. ASSUME NEW q \in Requests
          PROVE  /\ used'[q] <= token'
                 /\ pc'[q] = "refreshing" => used'[q] <= expired'
                 /\ pc'[q] = "reminting" /\ used'[q] = token' => ageing'
      <3>1. used[q] \in Nat /\ used[q] <= token
            /\ (pc[q] = "refreshing" => used[q] <= expired)
        BY DEF Mints, TypeOK
      <3>2. CASE q = r
        BY <2>1, <2>2, <2>7, <3>1, <3>2 DEF TypeOK
      <3>3. CASE q # r
        BY <2>1, <2>2, <2>7, <3>1, <3>3 DEF TypeOK
      <3> QED BY <3>2, <3>3
    <2>9. MinterWaits'
      BY <2>1 DEF MinterWaits
    <2> QED BY <2>5, <2>8, <2>9 DEF Mints
  <1>8. ASSUME NEW r \in Requests, MintFails(r) PROVE Mints'
    <2>1. minter' = Nobody /\ UNCHANGED <<token, expired, ageing, expiries>>
      BY <1>8 DEF MintFails
    <2>2. \/ pc' = [pc EXCEPT ![r] = "sent"] /\ used' = [used EXCEPT ![r] = token]
          \/ pc' = [pc EXCEPT ![r] = "failed"] /\ used' = used
          \/ pc' = [pc EXCEPT ![r] = "sleeping"] /\ used' = used
      BY <1>8 DEF MintFails, GiveUp, Transmit, BackOff, Goto
    <2>3. MinterWaits'
      BY <2>1 DEF MinterWaits
    <2>4. expired' <= token' /\ token' + Pending' <= expiries' + 1
      BY <2>1 DEF Mints, Pending
    <2>5. ASSUME NEW q \in Requests
          PROVE  /\ used'[q] <= token'
                 /\ pc'[q] = "refreshing" => used'[q] <= expired'
                 /\ pc'[q] = "reminting" /\ used'[q] = token' => ageing'
      <3>1. CASE q = r
        BY <2>1, <2>2, <3>1 DEF Mints, TypeOK
      <3>2. CASE q # r
        BY <2>1, <2>2, <3>2 DEF Mints, TypeOK
      <3> QED BY <3>1, <3>2
    <2> QED BY <2>3, <2>4, <2>5 DEF Mints
  <1>9. CASE Tick
    BY <1>9 DEF Tick, Mints, MinterWaits, Waiting, Pending
  <1>10. CASE SlotFrees
    BY <1>10 DEF SlotFrees, Mints, MinterWaits, Waiting, Pending
  <1>11. CASE BearerExpires
    BY <1>11 DEF BearerExpires, Mints, MinterWaits, Waiting, Pending, TypeOK
  <1>12. CASE BearerAges
    BY <1>12 DEF BearerAges, Mints, MinterWaits, Waiting, Pending, TypeOK
  <1> QED
    BY <1>1, <1>2, <1>3, <1>4, <1>5, <1>6, <1>7, <1>8, <1>9, <1>10, <1>11, <1>12
    DEF Next, Request, RefreshTokens

LEMMA MintsAlways == Spec => [](TypeOK /\ Mints)
  BY TypeInit, TypeStep, MintsInit, MintsStep, PTL DEF Spec

\* The refresh lock of _refresh_tokens is held only by a request that waits for
\* its own refresh of the current bearer: no exit path leaves it taken.
THEOREM RequestMinterWaits == Spec => []MinterWaits
  <1>1. Mints => MinterWaits
    BY DEF Mints
  <1> QED BY <1>1, MintsAlways, PTL

\* One expiry mints one bearer, for any number of requests refused together
\* and any interleaving of proactive and reactive refreshes.
THEOREM RequestNoNeedlessMint == Spec => []NoNeedlessMint
  <1>1. TypeOK /\ Mints => NoNeedlessMint
    <2> SUFFICES ASSUME TypeOK, Mints PROVE NoNeedlessMint
      OBVIOUS
    <2>1. Pending \in Nat /\ token \in Nat /\ expiries \in Nat
      BY DEF Pending, TypeOK
    <2> QED BY <2>1 DEF Mints, NoNeedlessMint
  <1> QED BY <1>1, MintsAlways, PTL
-----------------------------------------------------------------------------
(* How often a call sends, and how many steps it takes *)

Chance(r)  == Cardinality(Catchers(FramesNow(r)))
Coming(r)  == IF pc[r] \in Ended \cup {"sent", "refreshing"} THEN 0 ELSE 1
Chain(r)   == IF Ola THEN MaxRetries * Chance(r) ELSE 0
Restart(r) == IF ~mayRefresh[r] THEN 0
              ELSE IF Ola THEN 2 * MaxRetries + 1 ELSE MaxRetries + 1

LEMMA CatchersFinite ==
  ASSUME NEW f \in Seq(Nat)
  PROVE  IsFiniteSet(Catchers(f)) /\ Cardinality(Catchers(f)) \in Nat
  <1>1. Catchers(f) \subseteq 1..Len(f) /\ Len(f) \in Nat
    BY DEF Catchers
  <1>2. IsFiniteSet(1..Len(f))
    BY <1>1, FS_Interval
  <1> QED BY <1>1, <1>2, FS_Subset, FS_CardinalityType

\* A frame put on top may catch, if its header set is not the last.
LEMMA CatchersMore ==
  ASSUME NEW f \in Seq(Nat), NEW n \in Nat
  PROVE  /\ n >= FallbackSets => Catchers(Append(f, n)) = Catchers(f)
         /\ Cardinality(Catchers(Append(f, n))) <= Cardinality(Catchers(f)) + 1
  <1> DEFINE g == Append(f, n)
  <1>1. /\ g \in Seq(Nat) /\ Len(g) = Len(f) + 1 /\ Len(f) \in Nat
        /\ DOMAIN f = 1..Len(f) /\ DOMAIN g = 1..Len(f) + 1
        /\ g[Len(f) + 1] = n /\ \A j \in 1..Len(f) : g[j] = f[j]
    OBVIOUS
  <1> HIDE DEF g
  <1>2. FallbackSets \in Nat
    BY RequestAssumption
  <1>3. n >= FallbackSets => Catchers(g) = Catchers(f)
    BY <1>1, <1>2 DEF Catchers
  <1>4. n < FallbackSets => Catchers(g) = Catchers(f) \cup {Len(f) + 1}
    BY <1>1, <1>2 DEF Catchers
  <1>5. Len(f) + 1 \notin Catchers(f)
    BY <1>1 DEF Catchers
  <1>6. IsFiniteSet(Catchers(f)) /\ Cardinality(Catchers(f)) \in Nat
    BY CatchersFinite
  <1>7. Cardinality(Catchers(f) \cup {Len(f) + 1}) = Cardinality(Catchers(f)) + 1
    BY <1>5, <1>6, FS_AddElement
  <1>8. Cardinality(Catchers(g)) <= Cardinality(Catchers(f)) + 1
    <2>1. CASE n >= FallbackSets
      BY <1>3, <1>6, <2>1
    <2>2. CASE n < FallbackSets
      <3>1. Cardinality(Catchers(g)) = Cardinality(Catchers(f)) + 1
        BY <1>4, <1>7, <2>2, Zenon
      <3> QED BY <1>6, <3>1
    <2> QED BY <1>2, <2>1, <2>2
  <1> QED BY <1>3, <1>8 DEF g

\* The frame that catches a 403 is replaced by one that cannot catch another.
LEMMA CatchersLess ==
  ASSUME NEW f \in Seq(Nat), NEW i \in Catchers(f), \A j \in Catchers(f) : j <= i
  PROVE  /\ f[i] = 0 /\ SubSeq(f, 1, i - 1) \in Seq(Nat)
         /\ Cardinality(Catchers(Append(SubSeq(f, 1, i - 1), f[i] + 1)))
              = Cardinality(Catchers(f)) - 1
         /\ Cardinality(Catchers(f)) >= 1
  <1>1. i \in 1..Len(f) /\ Len(f) \in Nat /\ f[i] \in Nat /\ f[i] < FallbackSets
    BY DEF Catchers
  <1>2. FallbackSets \in 0..1
    BY RequestAssumption
  <1>3. f[i] = 0 /\ FallbackSets = 1
    BY <1>1, <1>2
  <1> DEFINE g == SubSeq(f, 1, i - 1)
  <1>4. /\ g \in Seq(Nat) /\ Len(g) = i - 1 /\ DOMAIN g = 1..(i - 1)
        /\ \A j \in 1..(i - 1) : g[j] = f[j]
    BY <1>1, SubSeqProperties
  <1> HIDE DEF g
  <1>5. Catchers(Append(g, f[i] + 1)) = Catchers(g)
    BY <1>1, <1>3, <1>4, CatchersMore
  <1>6. Catchers(g) = Catchers(f) \ {i}
    <2>1. DOMAIN f = 1..Len(f)
      OBVIOUS
    <2>2. ASSUME NEW j \in Catchers(g) PROVE j \in Catchers(f) \ {i}
      BY <1>1, <1>4, <2>1 DEF Catchers
    <2>3. ASSUME NEW j \in Catchers(f) \ {i} PROVE j \in Catchers(g)
      <3>1. j \in 1..Len(f) /\ j <= i /\ f[j] < FallbackSets
        BY <2>1 DEF Catchers
      <3>2. j \in 1..(i - 1)
        BY <1>1, <3>1
      <3> QED BY <1>4, <3>1, <3>2 DEF Catchers
    <2> QED BY <2>2, <2>3
  <1>7. IsFiniteSet(Catchers(f)) /\ Cardinality(Catchers(f)) \in Nat
    BY CatchersFinite
  <1>8. /\ Cardinality(Catchers(f) \ {i}) = Cardinality(Catchers(f)) - 1
        /\ Cardinality(Catchers(f) \ {i}) \in Nat
    BY <1>7, FS_RemoveElement, FS_CardinalityType
  <1>9. Cardinality(Catchers(Append(g, f[i] + 1))) = Cardinality(Catchers(f) \ {i})
    BY <1>5, <1>6, Zenon
  <1>10. Cardinality(Catchers(f)) >= 1
    BY <1>7, <1>8
  <1> QED BY <1>3, <1>4, <1>8, <1>9, <1>10, Zenon DEF g

\* SendsBounded is not inductive: what a call may still send depends on its
\* counter, on the frames that may catch a 403, at most two of them, and on
\* whether its one refresh is spent.
CallBudget(r) ==
    /\ attempt[r] <= MaxRetries
    /\ pc[r] = "refreshing" => mayRefresh[r]
    /\ Ola => Chance(r) <= (IF mayRefresh[r] THEN 1 ELSE 2)
    /\ sends[r] + SendsLeft(r) <= SendLimit

Budgets == \A r \in Requests : CallBudget(r)

LEMMA BudgetTypes ==
  ASSUME TypeOK, NEW r \in Requests
  PROVE  /\ pc[r] \in States /\ attempt[r] \in Nat /\ mayRefresh[r] \in BOOLEAN
         /\ outer[r] \in Seq(Nat) /\ FramesNow(r) \in Seq(Nat) /\ Chance(r) \in Nat
         /\ sends[r] \in Nat /\ used[r] \in Nat
         /\ MaxRetries \in Nat /\ MaxRetries >= 1 /\ FallbackSets \in 0..1
  <1>1. outer[r] \in Seq(Nat) /\ attempt[r] \in Nat
    BY DEF TypeOK
  <1>2. FramesNow(r) \in Seq(Nat)
    BY <1>1 DEF FramesNow
  <1> QED BY <1>1, <1>2, CatchersFinite, RequestAssumption DEF TypeOK, Chance

\* The five things a step may do to the call that takes it.
KeepsCount(r) ==
    attempt'[r] = attempt[r] /\ mayRefresh'[r] = mayRefresh[r] /\ outer'[r] = outer[r]

MovesOn(r) ==
    /\ KeepsCount(r) /\ sends'[r] = sends[r]
    /\ pc'[r] = "refreshing" => mayRefresh[r] \/ pc[r] = "refreshing"
    /\ Coming(r)' <= Coming(r) /\ Stage(r)' < Stage(r)

Sends(r) ==
    /\ KeepsCount(r) /\ sends'[r] = sends[r] + 1
    /\ pc[r] \in {"top", "reminting"} /\ pc'[r] = "sent"

BacksOff(r) ==
    /\ attempt[r] < MaxRetries /\ attempt'[r] = attempt[r] + 1
    /\ mayRefresh'[r] = mayRefresh[r] /\ sends'[r] = sends[r]
    /\ outer'[r] = Frames(r)
    /\ pc[r] \in {"sent", "refreshing"} /\ pc'[r] = "sleeping"

Restarts(r) ==
    /\ attempt'[r] = 0 /\ mayRefresh'[r] = FALSE /\ sends'[r] = sends[r]
    /\ outer'[r] = Frames(r)
    /\ pc[r] = "refreshing" /\ pc'[r] = "top"

Catches(r) ==
    /\ Ola /\ sends'[r] = sends[r] /\ mayRefresh'[r] = FALSE
    /\ \E i \in Catchers(FramesNow(r)) :
          /\ \A j \in Catchers(FramesNow(r)) : j <= i
          /\ attempt'[r] = FramesNow(r)[i] + 1
          /\ outer'[r] = SubSeq(FramesNow(r), 1, i - 1)
    /\ pc[r] = "sent" /\ pc'[r] = "top"

LEMMA Keeps ==
  ASSUME NEW r \in Requests, UNCHANGED callVars
  PROVE  KeepsCount(r)
  BY DEF KeepsCount, callVars

LEMMA TransmitSends ==
  ASSUME TypeOK, NEW r \in Requests, NEW bearer, Transmit(r, bearer), UNCHANGED callVars,
         pc[r] \in {"top", "reminting"}
  PROVE  Sends(r)
  BY Keeps DEF Transmit, Goto, Sends, TypeOK

LEMMA BackOffBacksOff ==
  ASSUME TypeOK, NEW r \in Requests, BackOff(r), attempt[r] < MaxRetries, UNCHANGED sends,
         pc[r] \in {"sent", "refreshing"}
  PROVE  BacksOff(r)
  BY DEF BackOff, Recurse, Goto, BacksOff, TypeOK

\* What each step of a request is to the request.
LEMMA OwnEffect ==
  ASSUME TypeOK, Mints, NEW r \in Requests, Request(r)
  PROVE  MovesOn(r) \/ Sends(r) \/ BacksOff(r) \/ Restarts(r) \/ Catches(r)
  <1> USE DEF States, Ended
  <1>1. pc[r] \in States /\ pc \in [Requests -> States] /\ sends \in [Requests -> Nat]
    BY DEF TypeOK
  <1>2. r # Nobody
    BY RequestAssumption
  <1>3. ~Waiting(r) => minter # r
    BY NotTheMinter
  <1>4. ASSUME NEW s \in States, pc'[r] = s, UNCHANGED <<callVars, sends>>,
               s = "refreshing" => mayRefresh[r],
               \/ s \in Ended /\ pc[r] \in {"top", "sent", "refreshing"}
               \/ s \in {"refreshing", "failed"} /\ pc[r] = "sent"
               \/ s = "top" /\ pc[r] \in {"idle", "sleeping"}
               \/ s = "reminting" /\ pc[r] = "top"
        PROVE  MovesOn(r)
    <2>1. KeepsCount(r)
      BY <1>4, Keeps
    <2>2. Coming(r)' <= Coming(r)
      BY <1>4 DEF Coming
    <2>3. CASE pc[r] # "refreshing"
      <3>1. Stage(r)' < Stage(r)
        BY <1>1, <1>4, <2>3 DEF Stage
      <3> QED BY <1>4, <2>1, <2>2, <3>1 DEF MovesOn
    <2>4. CASE pc[r] = "refreshing"
      <3>1. Stage(r)' < Stage(r)
        BY <1>4, <2>4 DEF Stage
      <3> QED BY <1>4, <2>1, <2>2, <3>1 DEF MovesOn
    <2> QED BY <2>3, <2>4
  <1>5. CASE Start(r) \/ Enter(r) \/ Wake(r)
    <2>1. CASE Send(r)
      BY <2>1, TransmitSends DEF Send
    <2>2. CASE Start(r) \/ LockedOut(r) \/ Remint(r) \/ Wake(r)
      <3>1. /\ UNCHANGED <<callVars, sends>>
            /\ \/ pc[r] \in {"idle", "sleeping"} /\ pc'[r] = "top"
               \/ pc[r] = "top" /\ pc'[r] \in {"failed", "reminting"}
        BY <1>1, <2>2 DEF Start, LockedOut, Remint, Wake, Goto
      <3> QED BY <1>4, <3>1
    <2> QED BY <1>5, <2>1, <2>2 DEF Enter
  <1>6. CASE Answer(r)
    <2>1. pc[r] = "sent" /\ UNCHANGED sends
      BY <1>6, AnswerMoves
    <2>2. CASE Throttled(r) \/ ServerError(r) \/ NetworkError(r)
      <3>1. CASE BackOff(r) /\ attempt[r] < MaxRetries
        BY <2>1, <3>1, BackOffBacksOff
      <3>2. CASE Goto(r, "failed") /\ UNCHANGED callVars
        <4>1. pc'[r] = "failed"
          BY <1>1, <3>2 DEF Goto
        <4> QED BY <1>4, <2>1, <3>2, <4>1
      <3> QED BY <2>2, <3>1, <3>2 DEF Throttled, ServerError, NetworkError
    <2>3. CASE Forbidden(r) /\ Catchers(Frames(r)) # {}
      <3>1. Ola
        BY <2>3 DEF Frames, Catchers
      <3>2. Frames(r) = FramesNow(r)
        BY <3>1 DEF Frames, FramesNow
      <3>3. PICK i \in Catchers(FramesNow(r)) :
               /\ \A j \in Catchers(FramesNow(r)) : j <= i
               /\ CatchFrom(r, FramesNow(r), i)
        BY <2>3, <3>2, Zenon DEF Forbidden
      <3>4. /\ attempt'[r] = FramesNow(r)[i] + 1
            /\ outer'[r] = SubSeq(FramesNow(r), 1, i - 1)
            /\ mayRefresh'[r] = FALSE
        BY <3>3 DEF CatchFrom, Recurse, TypeOK
      <3>5. pc'[r] = "top" /\ sends'[r] = sends[r]
        BY <1>1, <2>1, <3>3 DEF CatchFrom, Goto
      <3> QED BY <2>1, <3>1, <3>3, <3>4, <3>5, Zenon DEF Catches
    <2>4. CASE \/ Forbidden(r) /\ Catchers(Frames(r)) = {}
               \/ Succeeds(r) \/ Unauthorized(r) \/ HardLockout(r) \/ Refused(r)
               \/ \E hold \in RetryAfterHolds : ThrottledFor(r, hold)
      <3>1. /\ UNCHANGED callVars
            /\ \/ pc'[r] \in {"ok", "failed"}
               \/ pc'[r] = "refreshing" /\ mayRefresh[r]
        BY <1>1, <2>4 DEF Forbidden, Succeeds, Unauthorized, HardLockout, Refused,
                          ThrottledFor, Goto
      <3> QED BY <1>4, <2>1, <3>1
    <2> QED BY <1>6, <2>2, <2>3, <2>4 DEF Answer
  <1>7. CASE RefreshTokens(r)
    <2>1. Waiting(r)
      BY <1>7 DEF RefreshTokens, AlreadyRefreshed, RefuseRefresh, BookRefresh, MintSucceeds,
                  MintFails
    <2>2. ASSUME Continue(r, token) \/ Continue(r, token')
          PROVE  Sends(r) \/ Restarts(r)
      <3>1. CASE pc[r] = "reminting"
        BY <2>2, <3>1, TransmitSends DEF Continue
      <3>2. CASE pc[r] = "refreshing"
        BY <2>2, <3>2 DEF Continue, Recurse, Goto, Restarts, TypeOK
      <3> QED BY <2>1, <2>2, <3>1, <3>2 DEF Waiting
    <2>3. ASSUME GiveUp(r) PROVE Sends(r) \/ MovesOn(r)
      <3>1. CASE pc[r] = "reminting"
        BY <2>3, <3>1, TransmitSends DEF GiveUp
      <3>2. CASE pc[r] = "refreshing"
        <4>1. pc'[r] = "failed" /\ UNCHANGED <<callVars, sends>>
          BY <1>1, <2>3, <3>2 DEF GiveUp, Goto
        <4> QED BY <1>4, <3>2, <4>1
      <3> QED BY <2>1, <2>3, <3>1, <3>2 DEF Waiting
    <2>4. CASE BookRefresh(r)
      <3>1. UNCHANGED <<pc, callVars, sends>> /\ minter # r /\ minter' = r
        BY <1>2, <2>4 DEF BookRefresh
      <3>2. Stage(r)' < Stage(r) /\ Coming(r)' <= Coming(r)
        BY <2>1, <3>1 DEF Stage, Coming, Waiting
      <3> QED BY <3>1, <3>2, Keeps DEF MovesOn
    <2>5. CASE MintFails(r) /\ ~GiveUp(r)
      BY <2>5, BackOffBacksOff DEF MintFails
    <2> QED BY <1>7, <2>2, <2>3, <2>4, <2>5
        DEF RefreshTokens, AlreadyRefreshed, RefuseRefresh, MintSucceeds, MintFails
  <1> QED BY <1>5, <1>6, <1>7 DEF Request

LEMMA LeftIs ==
  ASSUME NEW r \in Requests
  PROVE  SendsLeft(r) = (MaxRetries - attempt[r]) + Coming(r) + Chain(r) + Restart(r)
  BY DEF SendsLeft, Coming, Chain, Restart, Chance

LEMMA PartTypes ==
  ASSUME TypeOK, NEW r \in Requests
  PROVE  /\ Coming(r) \in 0..1 /\ Chain(r) \in Nat /\ Restart(r) \in Nat
         /\ SendsLeft(r) \in Int /\ Stage(r) \in 0..6
  <1>1. attempt[r] \in Nat /\ Chance(r) \in Nat /\ MaxRetries \in Nat
    BY BudgetTypes
  <1>2. Coming(r) \in 0..1 /\ Stage(r) \in 0..6
    BY DEF Coming, Stage
  <1>3. Restart(r) \in Nat
    BY <1>1 DEF Restart
  <1>4. Chain(r) \in Nat
    BY <1>1 DEF Chain
  <1>5. SendsLeft(r) \in Int
    BY <1>1, <1>2, <1>3, <1>4, LeftIs
  <1> QED BY <1>2, <1>3, <1>4, <1>5

\* What the frames that may still catch a 403 are worth after each effect.
LEMMA ChainKept ==
  ASSUME NEW r \in Requests, KeepsCount(r)
  PROVE  Chance(r)' = Chance(r) /\ Chain(r)' = Chain(r) /\ Restart(r)' = Restart(r)
  <1>1. FramesNow(r)' = FramesNow(r)
    BY DEF KeepsCount, FramesNow
  <1>2. Catchers(FramesNow(r))' = Catchers(FramesNow(r))
    BY <1>1 DEF Catchers
  <1>3. Chance(r)' = Chance(r)
    BY <1>2 DEF Chance
  <1> QED BY <1>3 DEF Chain, Restart, KeepsCount

LEMMA ChainBackOff ==
  ASSUME TypeOK, NEW r \in Requests, BacksOff(r), Ola
  PROVE  Chance(r)' = Chance(r)
  <1>1. FramesNow(r)' = Append(FramesNow(r), attempt[r] + 1)
    BY DEF BacksOff, FramesNow, Frames
  <1>2. FramesNow(r) \in Seq(Nat) /\ attempt[r] + 1 \in Nat /\ attempt[r] + 1 >= FallbackSets
    BY BudgetTypes
  <1>3. Catchers(Append(FramesNow(r), attempt[r] + 1)) = Catchers(FramesNow(r))
    BY <1>2, CatchersMore
  <1>4. Catchers(FramesNow(r))' = Catchers(FramesNow(r))
    BY <1>1, <1>3 DEF Catchers
  <1> QED BY <1>4 DEF Chance

LEMMA ChainRestart ==
  ASSUME TypeOK, NEW r \in Requests, Restarts(r), Ola
  PROVE  Chance(r)' \in Nat /\ Chance(r)' <= Chance(r) + 1
  <1>1. FramesNow(r)' = Append(FramesNow(r), 0)
    BY DEF Restarts, FramesNow, Frames
  <1>2. FramesNow(r) \in Seq(Nat) /\ Append(FramesNow(r), 0) \in Seq(Nat)
    BY BudgetTypes
  <1>3. Cardinality(Catchers(Append(FramesNow(r), 0))) \in Nat
    BY <1>2, CatchersFinite
  <1>4. Cardinality(Catchers(Append(FramesNow(r), 0))) <= Cardinality(Catchers(FramesNow(r))) + 1
    BY <1>2, CatchersMore
  <1>5. Chance(r)' = Cardinality(Catchers(Append(FramesNow(r), 0)))
    BY <1>1 DEF Chance, Catchers
  <1> QED BY <1>3, <1>4, <1>5 DEF Chance

LEMMA ChainCatch ==
  ASSUME TypeOK, NEW r \in Requests, Catches(r)
  PROVE  Chance(r)' = Chance(r) - 1 /\ Chance(r) >= 1 /\ attempt'[r] = 1
  <1>1. PICK i \in Catchers(FramesNow(r)) :
           /\ \A j \in Catchers(FramesNow(r)) : j <= i
           /\ attempt'[r] = FramesNow(r)[i] + 1
           /\ outer'[r] = SubSeq(FramesNow(r), 1, i - 1)
    BY Zenon DEF Catches
  <1> DEFINE f == FramesNow(r)
             g == Append(SubSeq(f, 1, i - 1), f[i] + 1)
  <1>2. f \in Seq(Nat)
    BY BudgetTypes
  <1>3. /\ f[i] = 0 /\ Cardinality(Catchers(g)) = Cardinality(Catchers(f)) - 1
        /\ Cardinality(Catchers(f)) >= 1
    BY <1>1, <1>2, CatchersLess, Zenon
  <1>4. FramesNow(r)' = g
    BY <1>1 DEF FramesNow
  <1>5. Chance(r)' = Cardinality(Catchers(g))
    BY <1>4 DEF Chance, Catchers
  <1>6. attempt'[r] = f[i] + 1
    BY <1>1
  <1>7. Chance(r) = Cardinality(Catchers(f))
    BY DEF Chance
  <1>8. attempt'[r] = 1
    BY <1>3, <1>6
  <1> HIDE DEF f, g
  <1> QED BY <1>3, <1>5, <1>7, <1>8, Zenon

\* The call's counter pays for every send, its refresh for a new counter, and
\* a frame that catches a 403 for what the frames above it gave up.
LEMMA OwnBudget ==
  ASSUME TypeOK, TypeOK', Mints, NEW r \in Requests, CallBudget(r), Request(r)
  PROVE  CallBudget(r)' /\ StepsLeft(r)' < StepsLeft(r)
  <1> DEFINE a  == attempt[r]      a2  == attempt'[r]
             c  == Chance(r)       c2  == Chance(r)'
             k  == Coming(r)       k2  == Coming(r)'
             h  == Chain(r)        h2  == Chain(r)'
             t  == Restart(r)      t2  == Restart(r)'
             g  == Stage(r)        g2  == Stage(r)'
             n  == sends[r]        n2  == sends'[r]
             M  == MaxRetries      L == SendLimit
  <1>1. /\ a \in Nat /\ c \in Nat /\ k \in 0..1 /\ h \in Nat /\ t \in Nat /\ g \in 0..6
        /\ n \in Nat /\ M \in Nat /\ M >= 1 /\ L \in Nat
    BY BudgetTypes, PartTypes DEF SendLimit
  <1>2. k2 \in 0..1 /\ g2 \in 0..6 /\ a2 \in Nat
    BY DEF Coming, Stage, TypeOK
  <1>3. /\ SendsLeft(r) = (M - a) + k + h + t
        /\ SendsLeft(r)' = (M - a2) + k2 + h2 + t2
    BY LeftIs DEF SendsLeft, Coming, Chain, Restart, Chance
  <1>4. /\ StepsLeft(r) = 7 * SendsLeft(r) + g
        /\ StepsLeft(r)' = 7 * SendsLeft(r)' + g2
    BY DEF StepsLeft
  <1>5. /\ a <= M /\ n + ((M - a) + k + h + t) <= L
        /\ pc[r] = "refreshing" => mayRefresh[r]
        /\ Ola => c <= (IF mayRefresh[r] THEN 1 ELSE 2)
    BY <1>3 DEF CallBudget
  <1>6. ASSUME a2 \in Nat, a2 <= M, h2 \in Int, t2 \in Int,
               n2 + ((M - a2) + k2 + h2 + t2) <= L,
               7 * ((M - a2) + k2 + h2 + t2) + g2 < 7 * ((M - a) + k + h + t) + g,
               pc'[r] = "refreshing" => mayRefresh'[r],
               Ola => c2 <= (IF mayRefresh'[r] THEN 1 ELSE 2)
        PROVE  CallBudget(r)' /\ StepsLeft(r)' < StepsLeft(r)
    <2>1. StepsLeft(r)' < StepsLeft(r)
      BY <1>1, <1>2, <1>3, <1>4, <1>6
    <2>2. L' = L
      BY DEF SendLimit
    <2>3. n2 + SendsLeft(r)' <= L
      BY <1>3, <1>6
    <2>4. CallBudget(r)'
      BY <1>6, <2>2, <2>3 DEF CallBudget
    <2> QED BY <2>1, <2>4
  <1>7. CASE MovesOn(r)
    <2>1. a2 = a /\ c2 = c /\ h2 = h /\ t2 = t /\ n2 = n /\ mayRefresh'[r] = mayRefresh[r]
      BY <1>7, ChainKept DEF MovesOn, KeepsCount
    <2>2. k2 <= k /\ g2 < g
      BY <1>7 DEF MovesOn
    <2>3. pc'[r] = "refreshing" => mayRefresh'[r]
      BY <1>5, <1>7, <2>1 DEF MovesOn
    <2> HIDE DEF a, a2, c, c2, k, k2, h, h2, t, t2, g, g2, n, n2, M, L
    <2> QED BY <1>1, <1>2, <1>5, <1>6, <2>1, <2>2, <2>3
  <1>8. CASE Sends(r)
    <2>1. a2 = a /\ c2 = c /\ h2 = h /\ t2 = t /\ n2 = n + 1 /\ mayRefresh'[r] = mayRefresh[r]
      BY <1>8, ChainKept DEF Sends, KeepsCount
    <2>2. k = 1 /\ k2 = 0 /\ g2 = 6 /\ g \in 0..2 /\ pc'[r] # "refreshing"
      BY <1>8 DEF Sends, Coming, Stage, Ended
    <2> HIDE DEF a, a2, c, c2, k, k2, h, h2, t, t2, g, g2, n, n2, M, L
    <2> QED BY <1>1, <1>2, <1>5, <1>6, <2>1, <2>2
  <1>9. CASE BacksOff(r)
    <2>1. a < M /\ a2 = a + 1 /\ t2 = t /\ n2 = n /\ mayRefresh'[r] = mayRefresh[r]
      BY <1>9 DEF BacksOff, Restart
    <2>2. Ola => c2 = c
      BY <1>9, ChainBackOff
    <2>3. h2 = h
      BY <2>2 DEF Chain
    <2>4. k = 0 /\ k2 = 1 /\ g2 = 3 /\ g \in 4..6 /\ pc'[r] # "refreshing"
      BY <1>9 DEF BacksOff, Coming, Stage, Ended
    <2> HIDE DEF a, a2, c, c2, k, k2, h, h2, t, t2, g, g2, n, n2, M, L
    <2> QED BY <1>1, <1>2, <1>5, <1>6, <2>1, <2>2, <2>3, <2>4
  <1>10. CASE Restarts(r)
    <2>1. a2 = 0 /\ n2 = n /\ mayRefresh[r] /\ ~mayRefresh'[r]
      BY <1>5, <1>10 DEF Restarts
    <2>2. t2 = 0 /\ t = (IF Ola THEN 2 * M + 1 ELSE M + 1)
      BY <2>1 DEF Restart
    <2>3. Ola => c \in 0..1 /\ c2 \in 0..2
      <3>1. Ola => c2 \in Nat /\ c2 <= c + 1
        BY <1>10, ChainRestart
      <3>2. Ola => c <= 1
        BY <1>5, <2>1
      <3> HIDE DEF c, c2
      <3> QED BY <1>1, <3>1, <3>2
    <2>4. h2 \in Nat /\ (Ola => h2 <= h + M) /\ (~Ola => h2 = 0)
      <3>1. Ola => c2 <= c + 1
        BY <1>10, ChainRestart
      <3>2. h = (IF Ola THEN M * c ELSE 0) /\ h2 = (IF Ola THEN M * c2 ELSE 0)
        BY DEF Chain
      <3> HIDE DEF c, c2, h, h2, M
      <3> QED BY <1>1, <2>3, <3>1, <3>2
    <2>5. k = 0 /\ k2 = 1 /\ g2 = 2 /\ g \in 4..5 /\ pc'[r] # "refreshing"
      BY <1>10 DEF Restarts, Coming, Stage, Ended
    <2> HIDE DEF a, a2, c, c2, k, k2, h, h2, t, t2, g, g2, n, n2, M, L
    <2> QED BY <1>1, <1>2, <1>5, <1>6, <2>1, <2>2, <2>3, <2>4, <2>5
  <1>11. CASE Catches(r)
    <2>1. a2 = 1 /\ n2 = n /\ ~mayRefresh'[r] /\ Ola /\ c >= 1 /\ c2 = c - 1
      BY <1>11, ChainCatch DEF Catches
    <2>2. t2 = 0
      BY <2>1 DEF Restart
    <2>3. c \in 1..2 /\ c2 \in 0..1
      <3>1. c <= 2
        BY <1>1, <1>5, <2>1
      <3> HIDE DEF c, c2
      <3> QED BY <1>1, <2>1, <3>1
    <2>4. h2 = h - M
      <3>1. h = M * c /\ h2 = M * c2
        BY <2>1 DEF Chain
      <3> HIDE DEF c, c2, h, h2, M
      <3> QED BY <1>1, <2>1, <2>3, <3>1
    <2>5. k = 0 /\ k2 = 1 /\ g = 6 /\ g2 = 2 /\ pc'[r] # "refreshing"
      BY <1>11 DEF Catches, Coming, Stage, Ended
    <2> HIDE DEF a, a2, c, c2, k, k2, h, h2, t, t2, g, g2, n, n2, M, L
    <2> QED BY <1>1, <1>2, <1>5, <1>6, <2>1, <2>2, <2>3, <2>4, <2>5
  <1> QED BY <1>7, <1>8, <1>9, <1>10, <1>11, OwnEffect

\* What a step that is not the call's own leaves alone.
Untouched(q) ==
    /\ pc'[q] = pc[q] /\ KeepsCount(q) /\ sends'[q] = sends[q]
    /\ (minter' = q) <=> (minter = q)

LEMMA UntouchedBudget ==
  ASSUME NEW q \in Requests, Untouched(q), CallBudget(q)
  PROVE  CallBudget(q)' /\ StepsLeft(q)' = StepsLeft(q)
  <1>1. Chance(q)' = Chance(q) /\ Chain(q)' = Chain(q) /\ Restart(q)' = Restart(q)
    BY ChainKept DEF Untouched
  <1>2. Coming(q)' = Coming(q) /\ Stage(q)' = Stage(q)
    BY DEF Untouched, Coming, Stage
  <1>3. SendsLeft(q)' = SendsLeft(q)
    <2>1. SendsLeft(q) = (MaxRetries - attempt[q]) + Coming(q) + Chain(q) + Restart(q)
      BY LeftIs
    <2>2. SendsLeft(q)' = (MaxRetries - attempt'[q]) + Coming(q)' + Chain(q)' + Restart(q)'
      BY DEF SendsLeft, Coming, Chain, Restart, Chance
    <2> QED BY <1>1, <1>2, <2>1, <2>2 DEF Untouched, KeepsCount
  <1>4. StepsLeft(q)' = StepsLeft(q)
    BY <1>2, <1>3 DEF StepsLeft
  <1>5. CallBudget(q)'
    BY <1>1, <1>3 DEF CallBudget, SendLimit, Untouched, KeepsCount
  <1> QED BY <1>4, <1>5

LEMMA OthersUntouched ==
  ASSUME TypeOK, NEW r \in Requests, NEW q \in Requests, Request(r), q # r
  PROVE  Untouched(q)
  <1> USE DEF Untouched, KeepsCount
  <1>1. q # Nobody
    BY RequestAssumption
  <1>2. UNCHANGED callVars \/ \E n, b, f : Recurse(r, n, b, f)
    <2>1. CASE Start(r) \/ Enter(r) \/ Wake(r)
      BY <2>1 DEF Start, Enter, Wake, LockedOut, Remint, Send
    <2>2. CASE Answer(r)
      BY <2>2 DEF Answer, Succeeds, Unauthorized, Throttled, HardLockout, ThrottledFor,
                  ServerError, NetworkError, Forbidden, Refused, BackOff, CatchFrom
    <2>3. CASE RefreshTokens(r)
      BY <2>3 DEF RefreshTokens, AlreadyRefreshed, RefuseRefresh, BookRefresh, MintSucceeds,
                  MintFails, Continue, GiveUp, BackOff
    <2> QED BY <2>1, <2>2, <2>3 DEF Request
  <1>3. KeepsCount(q)
    BY <1>2 DEF Recurse, callVars, TypeOK
  <1>4. CASE Start(r) \/ Enter(r) \/ Wake(r)
    BY <1>3, <1>4 DEF Start, Enter, Wake, LockedOut, Remint, Send, Transmit, Goto, tokenVars,
                      TypeOK
  <1>5. CASE Answer(r)
    BY <1>3, <1>5, AnswerMoves DEF tokenVars, TypeOK
  <1>6. CASE RefreshTokens(r)
    <2>1. /\ pc' = pc \/ \E s \in States : pc' = [pc EXCEPT ![r] = s]
          /\ sends' = sends \/ sends' = [sends EXCEPT ![r] = @ + 1]
      BY <1>6 DEF RefreshTokens, AlreadyRefreshed, RefuseRefresh, BookRefresh, MintSucceeds,
                  MintFails, Continue, GiveUp, Transmit, BackOff, Goto, States, Ended
    <2>2. pc'[q] = pc[q] /\ sends'[q] = sends[q]
      BY <2>1 DEF TypeOK
    <2>3. minter' = minter \/ (minter \in {Nobody, r} /\ minter' \in {Nobody, r})
      BY <1>6 DEF RefreshTokens, AlreadyRefreshed, RefuseRefresh, BookRefresh, MintSucceeds,
                  MintFails, tokenVars
    <2> QED BY <1>1, <1>3, <2>2, <2>3
  <1> QED BY <1>4, <1>5, <1>6 DEF Request

LEMMA BudgetsStep ==
  ASSUME TypeOK, TypeOK', Mints, Budgets, [Next]_vars, NEW q \in Requests
  PROVE  /\ CallBudget(q)'
         /\ \/ StepsLeft(q)' < StepsLeft(q)
            \/ StepsLeft(q)' = StepsLeft(q) /\ ~Request(q)
  <1>1. CallBudget(q)
    BY DEF Budgets
  <1>2. CASE Request(q)
    BY <1>1, <1>2, OwnBudget
  <1>3. CASE ~Request(q)
    <2>1. Untouched(q)
      <3>1. CASE UNCHANGED vars \/ Tick \/ SlotFrees \/ BearerExpires \/ BearerAges
        BY <3>1 DEF vars, Tick, SlotFrees, BearerExpires, BearerAges, tokenVars, callVars,
                    Untouched, KeepsCount
      <3>2. ASSUME NEW r \in Requests, Request(r) PROVE Untouched(q)
        BY <1>3, <3>2, OthersUntouched
      <3> QED BY <3>1, <3>2 DEF Next
    <2> QED BY <1>1, <1>3, <2>1, UntouchedBudget
  <1> QED BY <1>2, <1>3

LEMMA LeftNat ==
  ASSUME TypeOK, Budgets, NEW r \in Requests
  PROVE  SendsLeft(r) \in Nat /\ StepsLeft(r) \in Nat
  <1>1. /\ CallBudget(r) /\ attempt[r] \in Nat /\ MaxRetries \in Nat
        /\ Coming(r) \in 0..1 /\ Chain(r) \in Nat /\ Restart(r) \in Nat /\ Stage(r) \in 0..6
    BY BudgetTypes, PartTypes DEF Budgets
  <1>2. SendsLeft(r) \in Nat
    BY <1>1, LeftIs DEF CallBudget
  <1> QED BY <1>1, <1>2 DEF StepsLeft

LEMMA BudgetsInit == Init => Budgets
  <1> SUFFICES ASSUME Init, NEW r \in Requests PROVE CallBudget(r)
    BY DEF Budgets
  <1>1. TypeOK
    BY TypeInit
  <1>2. /\ attempt[r] = 0 /\ mayRefresh[r] = TRUE /\ sends[r] = 0 /\ pc[r] = "idle"
        /\ outer[r] = <<>> /\ MaxRetries \in Nat /\ MaxRetries >= 1
    BY RequestAssumption DEF Init
  <1>3. Chance(r) \in 0..1
    <2>1. FramesNow(r) = Append(<<>>, 0) /\ Catchers(<<>>) = {} /\ <<>> \in Seq(Nat)
      BY <1>2 DEF FramesNow, Catchers
    <2>2. Cardinality(Catchers(Append(<<>>, 0))) <= Cardinality(Catchers(<<>>)) + 1
      BY <2>1, CatchersMore
    <2>3. Cardinality(Catchers(<<>>)) = 0
      BY <2>1, FS_EmptySet, Zenon
    <2>4. Chance(r) \in Nat /\ Chance(r) = Cardinality(Catchers(Append(<<>>, 0)))
      BY <1>1, <2>1, BudgetTypes DEF Chance
    <2> HIDE DEF Chance
    <2>5. Chance(r) <= 1
      BY <2>2, <2>3, <2>4
    <2> QED BY <2>4, <2>5
  <1>4. Coming(r) = 1
    BY <1>2 DEF Coming, Ended
  <1>5. Chain(r) \in Nat /\ (Ola => Chain(r) <= MaxRetries) /\ (~Ola => Chain(r) = 0)
    <2> DEFINE c == Chance(r)
               M == MaxRetries
    <2>1. Chain(r) = (IF Ola THEN M * c ELSE 0)
      BY DEF Chain
    <2>2. c \in 0..1 /\ M \in Nat
      BY <1>2, <1>3
    <2> HIDE DEF c, M
    <2>3. Chain(r) \in Nat /\ (Ola => Chain(r) <= M) /\ (~Ola => Chain(r) = 0)
      BY <2>1, <2>2
    <2> QED BY <2>3 DEF M
  <1>6. Restart(r) = (IF Ola THEN 2 * MaxRetries + 1 ELSE MaxRetries + 1)
    BY <1>2 DEF Restart
  <1>7. SendsLeft(r) <= SendLimit /\ SendsLeft(r) \in Int
    BY <1>2, <1>4, <1>5, <1>6, LeftIs DEF SendLimit
  <1> QED BY <1>2, <1>3, <1>7 DEF CallBudget

LEMMA BudgetsAlways == Spec => [](TypeOK /\ Mints /\ Budgets)
  <1>1. TypeOK /\ TypeOK' /\ Mints /\ Budgets /\ [Next]_vars => Budgets'
    BY BudgetsStep DEF Budgets
  <1> QED BY <1>1, TypeInit, TypeStep, MintsAlways, BudgetsInit, PTL DEF Spec

\* However the backend answers, and with or without the SEAT/CUPRA override, a
\* call of _request sends no more than SendLimit times.
THEOREM RequestSendsBounded == Spec => []SendsBounded
  <1>1. TypeOK /\ Budgets => SendsBounded
    <2> SUFFICES ASSUME TypeOK, Budgets, NEW r \in Requests
                 PROVE  sends[r] <= SendLimit
      BY DEF SendsBounded
    <2>1. CallBudget(r) /\ sends[r] \in Nat /\ MaxRetries \in Nat /\ SendsLeft(r) \in Nat
      BY BudgetTypes, LeftNat DEF Budgets
    <2>2. SendLimit \in Nat
      BY <2>1 DEF SendLimit
    <2> QED BY <2>1, <2>2 DEF CallBudget
  <1> QED BY <1>1, BudgetsAlways, PTL

\* What CallsWindDown counts down never falls below zero, so that each call
\* takes finitely many steps of its own.
THEOREM RequestStepsLeft == Spec => [](\A r \in Requests : StepsLeft(r) \in Nat)
  <1>1. TypeOK /\ Budgets => \A r \in Requests : StepsLeft(r) \in Nat
    BY LeftNat
  <1> QED BY <1>1, BudgetsAlways, PTL

\* A call's own steps use up a natural number that no other step gives back:
\* _request, _refresh_tokens and the 403 chain cannot call each other for ever.
THEOREM RequestCallsWindDown == Spec => CallsWindDown
  <1>1. TypeOK /\ TypeOK' /\ Mints /\ Budgets /\ [Next]_vars
          => [\A r \in Requests :
                 \/ StepsLeft(r)' = StepsLeft(r) /\ ~Request(r)
                 \/ StepsLeft(r)' < StepsLeft(r)]_vars
    BY BudgetsStep
  <1> QED BY <1>1, BudgetsAlways, PTL DEF Spec, CallsWindDown

-----------------------------------------------------------------------------
(* The lockout *)

NoneReminting == \A r \in Requests : pc[r] # "reminting"

LEMMA NoneRemintingStep ==
  ~Proactive /\ TypeOK /\ NoneReminting /\ [Next]_vars => NoneReminting'
  <1> SUFFICES ASSUME ~Proactive, TypeOK, NoneReminting, [Next]_vars PROVE NoneReminting'
    OBVIOUS
  <1>1. ASSUME NEW r \in Requests, Request(r)
        PROVE  pc' = pc \/ \E s \in States \ {"reminting"} : pc' = [pc EXCEPT ![r] = s]
    <2>1. CASE Start(r) \/ Enter(r) \/ Wake(r)
      BY <2>1 DEF Start, Enter, Wake, LockedOut, Remint, NeedsRemint, Send, Transmit, Goto,
                  States, Ended
    <2>2. CASE Answer(r)
      BY <2>2, AnswerMoves DEF States, Ended
    <2>3. CASE RefreshTokens(r)
      BY <2>3 DEF RefreshTokens, AlreadyRefreshed, RefuseRefresh, BookRefresh, MintSucceeds,
                  MintFails, Continue, GiveUp, Transmit, BackOff, Goto, States, Ended
    <2> QED BY <1>1, <2>1, <2>2, <2>3 DEF Request
  <1>2. CASE \E r \in Requests : Request(r)
    BY <1>1, <1>2 DEF NoneReminting, TypeOK
  <1>3. CASE ~(\E r \in Requests : Request(r))
    BY <1>3 DEF Next, vars, Tick, SlotFrees, BearerExpires, BearerAges, NoneReminting
  <1> QED BY <1>2, <1>3

\* Without proactive re-mints, no request of the client sends while the
\* account's lockout runs: every path to a send passes _request's first check.
THEOREM RequestNoSendWhileLockedOut == ASSUME ~Proactive PROVE Spec => NoSendWhileLockedOut
  <1>1. Init => NoneReminting
    BY DEF Init, NoneReminting
  <1>2. TypeOK /\ NoneReminting /\ [Next]_vars
          => [\A r \in Requests : sends'[r] > sends[r] => lockout = 0]_vars
    <2> SUFFICES ASSUME TypeOK, NoneReminting, [Next]_vars, NEW q \in Requests,
                        sends'[q] > sends[q]
                 PROVE  lockout = 0
      OBVIOUS
    <2>1. sends[q] \in Nat
      BY DEF TypeOK
    <2>2. sends' # sends
      BY <2>1
    <2>3. PICK r \in Requests : Request(r)
      BY <2>2 DEF Next, vars, Tick, SlotFrees, BearerExpires, BearerAges
    <2>4. pc[r] # "reminting"
      BY DEF NoneReminting
    <2>5. Send(r)
      BY <2>2, <2>3, <2>4, AnswerMoves
      DEF Request, Start, Enter, Wake, LockedOut, Remint, RefreshTokens, AlreadyRefreshed,
          RefuseRefresh, BookRefresh, MintSucceeds, MintFails, Continue, GiveUp
    <2> QED BY <2>5 DEF Send
  <1> QED BY <1>1, <1>2, TypeInit, TypeStep, NoneRemintingStep, PTL
      DEF Spec, NoSendWhileLockedOut
=============================================================================
