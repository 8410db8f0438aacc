----------------------------- MODULE ApiRequest -----------------------------
(***************************************************************************)
(* CariadBaseClient: the requests of one account's client, which run       *)
(* concurrently and share its bearer, its refresh lock and budget, its     *)
(* rate-limit lockout and its memory of endpoints that only answer 5xx.    *)
(*                                                                         *)
(* _request retries by calling itself. A call is a stack of frames; only   *)
(* the SEAT/CUPRA override (Ola) catches anything in an outer frame.       *)
(***************************************************************************)
EXTENDS Naturals, Sequences, FiniteSets

CONSTANTS
    Requests, Urls, UrlOf,
    Nobody,
    MaxRetries,        \* retries after 5xx, 429 and network errors: 3
    MaxRefreshes,      \* _REFRESH_MAX_PER_HOUR: 3
    Lockout429, Lockout430, RetryAfterHolds,   \* holds, in clock ticks
    Proactive,         \* VW device grant: re-mint the bearer before it expires
    Ola,               \* SEAT/CUPRA: app headers and the 403 chain
    FallbackSets,      \* header sets after the first: 1 for SEAT and for CUPRA
    MaxExpiries, MaxMintFailures   \* bounds on what the world does

ASSUME RequestAssumption ==
    /\ UrlOf \in [Requests -> Urls]
    /\ Nobody \notin Requests
    /\ MaxRetries \in Nat \ {0} /\ MaxRefreshes \in Nat \ {0}
    /\ Lockout429 \in Nat /\ Lockout430 \in Nat /\ Lockout429 < Lockout430
    /\ RetryAfterHolds \subseteq 1..Lockout429
    /\ Proactive \in BOOLEAN /\ Ola \in BOOLEAN
    /\ FallbackSets \in 0..1
    /\ MaxExpiries \in Nat /\ MaxMintFailures \in Nat

VARIABLES
    pc,          \* where each request is
    attempt,     \* _attempt of its innermost frame
    mayRefresh,  \* retry of its innermost frame
    outer,       \* _attempt of the outer frames of the override
    used,        \* token_used, or the stale token of a refresh
    sends,       \* sends so far
    token,       \* the client's bearer: each mint makes the next one
    expired,     \* bearers up to this one are refused
    ageing,      \* the bearer is within _DEVICE_GRANT_REMINT_SKEW_S of its end
    minter,      \* who holds the refresh lock
    bookings,    \* _refresh_history: who booked, oldest first
    storm,       \* refresh_storm_detected
    lockout,     \* ticks left of _rate_limit_locked_until
    spent,       \* _5xx_spent
    count403,    \* _ola_consecutive_403
    expiries, mintFailures   \* history: what happened so far

callVars  == <<attempt, mayRefresh, outer>>
tokenVars == <<token, expired, ageing, minter, bookings, storm, expiries, mintFailures>>
limitVars == <<lockout, spent>>
vars == <<pc, callVars, used, sends, tokenVars, limitVars, count403>>

Ended  == {"ok", "failed"}
States == Ended \cup {"idle", "top", "reminting", "sent", "refreshing", "sleeping"}

Init ==
    /\ pc = [r \in Requests |-> "idle"]
    /\ attempt = [r \in Requests |-> 0]
    /\ mayRefresh = [r \in Requests |-> TRUE]
    /\ outer = [r \in Requests |-> <<>>]
    /\ used = [r \in Requests |-> 0]
    /\ sends = [r \in Requests |-> 0]
    /\ token = 1 /\ expired = 0 /\ ageing = FALSE
    /\ minter = Nobody /\ bookings = <<>> /\ storm = FALSE
    /\ lockout = 0 /\ spent = [u \in Urls |-> 0]
    /\ count403 = 0
    /\ expiries = 0 /\ mintFailures = 0

Goto(r, state) == pc' = [pc EXCEPT ![r] = state]

-----------------------------------------------------------------------------
(* The call *)

\* Call _request again.
Recurse(r, nextAttempt, retry, outerFrames) ==
    /\ attempt' = [attempt EXCEPT ![r] = nextAttempt]
    /\ mayRefresh' = [mayRefresh EXCEPT ![r] = retry]
    /\ outer' = [outer EXCEPT ![r] = outerFrames]

\* The frames of a call, innermost last; the base class's own frames catch
\* nothing, so they are kept only for the override.
Frames(r) == IF Ola THEN Append(outer[r], attempt[r]) ELSE <<>>

Start(r) ==
    /\ pc[r] = "idle"
    /\ Goto(r, "top")
    /\ UNCHANGED <<callVars, used, sends, tokenVars, limitVars, count403>>

LockedOut(r) ==
    /\ pc[r] = "top"
    /\ lockout > 0
    /\ Goto(r, "failed")
    /\ UNCHANGED <<callVars, used, sends, tokenVars, limitVars, count403>>

NeedsRemint(r) == Proactive /\ ageing /\ attempt[r] = 0

Remint(r) ==
    /\ pc[r] = "top" /\ lockout = 0
    /\ NeedsRemint(r)
    /\ Goto(r, "reminting")
    /\ used' = [used EXCEPT ![r] = token]
    /\ UNCHANGED <<callVars, sends, tokenVars, limitVars, count403>>

Transmit(r, bearer) ==
    /\ Goto(r, "sent")
    /\ used' = [used EXCEPT ![r] = bearer]
    /\ sends' = [sends EXCEPT ![r] = @ + 1]

\* A faulty Send: only the first attempt looks at the lockout.
SendRegardless(r) ==
    /\ pc[r] = "top" /\ (lockout = 0 \/ attempt[r] > 0)
    /\ ~NeedsRemint(r)
    /\ Transmit(r, token)
    /\ UNCHANGED <<callVars, tokenVars, limitVars, count403>>

Send(r) ==
    /\ pc[r] = "top" /\ lockout = 0
    /\ ~NeedsRemint(r)
    /\ Transmit(r, token)
    /\ UNCHANGED <<callVars, tokenVars, limitVars, count403>>

Wake(r) ==
    /\ pc[r] = "sleeping"
    /\ Goto(r, "top")
    /\ UNCHANGED <<callVars, used, sends, tokenVars, limitVars, count403>>

\* A faulty BackOff: the counter is not carried on.
BackOffForEver(r) ==
    /\ Goto(r, "sleeping")
    /\ Recurse(r, attempt[r], mayRefresh[r], Frames(r))

BackOff(r) ==
    /\ Goto(r, "sleeping")
    /\ Recurse(r, attempt[r] + 1, mayRefresh[r], Frames(r))

-----------------------------------------------------------------------------
(* Answers *)

Succeeds(r) ==
    /\ pc[r] = "sent"
    /\ used[r] > expired
    /\ Goto(r, "ok")
    /\ spent' = [spent EXCEPT ![UrlOf[r]] = 0]
    /\ count403' = 0
    /\ UNCHANGED <<callVars, used, sends, tokenVars, lockout>>

\* A faulty Unauthorized: the bearer is looked up when the answer is there.
UnauthorizedReadsLate(r) ==
    /\ pc[r] = "sent"
    /\ used[r] <= expired
    /\ Goto(r, IF mayRefresh[r] THEN "refreshing" ELSE "failed")
    /\ used' = [used EXCEPT ![r] = token]
    /\ UNCHANGED <<callVars, sends, tokenVars, limitVars, count403>>

Unauthorized(r) ==
    /\ pc[r] = "sent"
    /\ used[r] <= expired
    /\ Goto(r, IF mayRefresh[r] THEN "refreshing" ELSE "failed")
    /\ UNCHANGED <<callVars, used, sends, tokenVars, limitVars, count403>>

\* 429 with Retry-After: hold as told, within bounds, and do not retry.
ThrottledFor(r, hold) ==
    /\ pc[r] = "sent"
    /\ Goto(r, "failed")
    /\ lockout' = hold
    /\ UNCHANGED <<callVars, used, sends, tokenVars, spent, count403>>

Throttled(r) ==
    /\ pc[r] = "sent"
    /\ IF attempt[r] < MaxRetries
       THEN BackOff(r) /\ UNCHANGED lockout
       ELSE Goto(r, "failed") /\ lockout' = Lockout429 /\ UNCHANGED callVars
    /\ UNCHANGED <<used, sends, tokenVars, spent, count403>>

HardLockout(r) ==
    /\ pc[r] = "sent"
    /\ Goto(r, "failed")
    /\ lockout' = Lockout430
    /\ UNCHANGED <<callVars, used, sends, tokenVars, spent, count403>>

\* A 5xx: retry unless the budget is spent, now or on an earlier poll.
ServerError(r) ==
    /\ pc[r] = "sent"
    /\ LET u == UrlOf[r] IN
       \/ /\ attempt[r] >= MaxRetries
          /\ spent' = [spent EXCEPT ![u] = 1]
          /\ Goto(r, "failed") /\ UNCHANGED callVars
       \/ /\ attempt[r] < MaxRetries /\ spent[u] > 0
          /\ Goto(r, "failed") /\ UNCHANGED <<callVars, spent>>
       \/ /\ attempt[r] < MaxRetries /\ spent[u] = 0
          /\ BackOff(r) /\ UNCHANGED spent
    /\ UNCHANGED <<used, sends, tokenVars, lockout, count403>>

NetworkError(r) ==
    /\ pc[r] = "sent"
    /\ IF attempt[r] < MaxRetries
       THEN BackOff(r)
       ELSE Goto(r, "failed") /\ UNCHANGED callVars
    /\ UNCHANGED <<used, sends, tokenVars, limitVars, count403>>

\* 403 seen by the given frames. Each tries the next header set or, when there
\* is none left, counts the refusal and lets it through.
Catchers(frames) == {i \in DOMAIN frames : frames[i] < FallbackSets}

\* A faulty CatchFrom: the frame that caught the error stays in place.
CatchAgain(r, frames, i) ==
    /\ count403' = count403 + Len(frames) - i
    /\ Goto(r, "top")
    /\ Recurse(r, frames[i] + 1, FALSE, SubSeq(frames, 1, i))

CatchFrom(r, frames, i) ==
    /\ count403' = count403 + Len(frames) - i
    /\ Goto(r, "top")
    /\ Recurse(r, frames[i] + 1, FALSE, SubSeq(frames, 1, i - 1))

Forbidden(r) ==
    /\ pc[r] = "sent"
    /\ LET frames == Frames(r) IN
       IF Catchers(frames) = {}
       THEN /\ count403' = count403 + Len(frames)
            /\ Goto(r, "failed") /\ UNCHANGED callVars
       ELSE \E i \in Catchers(frames) :
               /\ \A j \in Catchers(frames) : j <= i
               /\ CatchFrom(r, frames, i)
    /\ UNCHANGED <<used, sends, tokenVars, limitVars>>

\* Any other refusal, such as 404.
Refused(r) ==
    /\ pc[r] = "sent"
    /\ Goto(r, "failed")
    /\ UNCHANGED <<callVars, used, sends, tokenVars, limitVars, count403>>

-----------------------------------------------------------------------------
(* _refresh_tokens *)

Waiting(r) == pc[r] \in {"reminting", "refreshing"}

\* A faulty Continue: the call after a refresh may refresh once more.
ContinueAnew(r, bearer) ==
    IF pc[r] = "reminting"
    THEN Transmit(r, bearer) /\ UNCHANGED callVars
    ELSE Goto(r, "top") /\ Recurse(r, 0, TRUE, Frames(r)) /\ UNCHANGED <<used, sends>>

\* After a refresh by this request or by another: a reactive one calls again,
\* once; a proactive one goes on to its send without a second look at the lockout.
Continue(r, bearer) ==
    IF pc[r] = "reminting"
    THEN Transmit(r, bearer) /\ UNCHANGED callVars
    ELSE Goto(r, "top") /\ Recurse(r, 0, FALSE, Frames(r)) /\ UNCHANGED <<used, sends>>

\* A failed refresh sinks a reactive request; a proactive one is swallowed.
GiveUp(r) ==
    /\ IF pc[r] = "reminting"
       THEN Transmit(r, token)
       ELSE Goto(r, "failed") /\ UNCHANGED <<used, sends>>
    /\ UNCHANGED callVars

\* Single flight: another request rotated the bearer while this one queued.
AlreadyRefreshed(r) ==
    /\ Waiting(r) /\ minter = Nobody
    /\ used[r] # token
    /\ Continue(r, token)
    /\ UNCHANGED <<tokenVars, limitVars, count403>>

RefuseRefresh(r) ==
    /\ Waiting(r) /\ minter = Nobody
    /\ used[r] = token
    /\ Len(bookings) >= MaxRefreshes
    /\ storm' = TRUE
    /\ GiveUp(r)
    /\ UNCHANGED <<token, expired, ageing, minter, bookings, expiries, mintFailures,
                   limitVars, count403>>

BookRefresh(r) ==
    /\ Waiting(r) /\ minter = Nobody
    /\ used[r] = token
    /\ Len(bookings) < MaxRefreshes
    /\ minter' = r
    /\ bookings' = Append(bookings, r)
    /\ UNCHANGED <<pc, callVars, used, sends, token, expired, ageing, storm, expiries,
                   mintFailures, limitVars, count403>>

MintSucceeds(r) ==
    /\ Waiting(r) /\ minter = r
    /\ minter' = Nobody
    /\ token' = token + 1 /\ ageing' = FALSE
    /\ storm' = FALSE
    /\ Continue(r, token')
    /\ UNCHANGED <<expired, bookings, expiries, mintFailures, limitVars, count403>>

\* A faulty MintFails: the error leaves the refresh lock taken.
MintFailsLocked(r) ==
    /\ Waiting(r) /\ minter = r
    /\ mintFailures < MaxMintFailures
    /\ mintFailures' = mintFailures + 1
    /\ GiveUp(r)
    /\ UNCHANGED <<token, expired, ageing, minter, bookings, storm, expiries, limitVars,
                   count403>>

\* A network error of the token endpoint is retried like one of the request. No
\* SEAT/CUPRA exchange raises the APIError that the 403 handlers catch: a status
\* other than 200 is an authentication or an upstream error (auth/idk.py:1546).
MintFails(r) ==
    /\ Waiting(r) /\ minter = r
    /\ mintFailures < MaxMintFailures
    /\ mintFailures' = mintFailures + 1
    /\ minter' = Nobody
    /\ \/ GiveUp(r)
       \/ /\ pc[r] = "refreshing" /\ attempt[r] < MaxRetries
          /\ BackOff(r)
          /\ UNCHANGED <<used, sends>>
    /\ UNCHANGED <<token, expired, ageing, bookings, storm, expiries, limitVars, count403>>

-----------------------------------------------------------------------------
(* Time and the account (not under src/) *)

\* A faulty Tick: a hold that has ended keeps counting.
TickBelowZero ==
    /\ lockout' = lockout - 1
    /\ UNCHANGED <<pc, callVars, used, sends, tokenVars, spent, count403>>

\* _rate_lockout_remaining: the hold clears itself.
Tick ==
    /\ lockout > 0
    /\ lockout' = lockout - 1
    /\ UNCHANGED <<pc, callVars, used, sends, tokenVars, spent, count403>>

\* A booking leaves the rolling window.
SlotFrees ==
    /\ bookings # <<>>
    /\ bookings' = Tail(bookings)
    /\ UNCHANGED <<pc, callVars, used, sends, token, expired, ageing, minter, storm,
                   expiries, mintFailures, limitVars, count403>>

BearerExpires ==
    /\ expired < token /\ expiries < MaxExpiries
    /\ expired' = token
    /\ expiries' = expiries + 1
    /\ UNCHANGED <<pc, callVars, used, sends, token, ageing, minter, bookings, storm,
                   mintFailures, limitVars, count403>>

BearerAges ==
    /\ Proactive /\ ~ageing /\ expiries < MaxExpiries
    /\ ageing' = TRUE
    /\ expiries' = expiries + 1
    /\ UNCHANGED <<pc, callVars, used, sends, token, expired, minter, bookings, storm,
                   mintFailures, limitVars, count403>>

Answer(r) ==
    \/ Succeeds(r) \/ Unauthorized(r) \/ Throttled(r) \/ HardLockout(r)
    \/ \E hold \in RetryAfterHolds : ThrottledFor(r, hold)
    \/ ServerError(r) \/ NetworkError(r) \/ Forbidden(r) \/ Refused(r)

RefreshTokens(r) ==
    \/ AlreadyRefreshed(r) \/ RefuseRefresh(r) \/ BookRefresh(r)
    \/ MintSucceeds(r) \/ MintFails(r)

Enter(r) == LockedOut(r) \/ Remint(r) \/ Send(r)

Request(r) == Start(r) \/ Enter(r) \/ Wake(r) \/ Answer(r) \/ RefreshTokens(r)

Next ==
    \/ \E r \in Requests : Request(r)
    \/ Tick \/ SlotFrees \/ BearerExpires \/ BearerAges

Spec == Init /\ [][Next]_vars

Fairness ==
    /\ \A r \in Requests :
          /\ WF_vars(Enter(r)) /\ WF_vars(Wake(r)) /\ WF_vars(Answer(r))
          /\ WF_vars(RefreshTokens(r))

FairSpec == Spec /\ Fairness

-----------------------------------------------------------------------------
(* Properties *)

\* Every variable stays in its type.
TypeOK ==
    /\ pc \in [Requests -> States]
    /\ attempt \in [Requests -> Nat]
    /\ mayRefresh \in [Requests -> BOOLEAN]
    /\ outer \in [Requests -> Seq(Nat)]
    /\ used \in [Requests -> Nat]
    /\ sends \in [Requests -> Nat]
    /\ token \in Nat /\ expired \in Nat /\ ageing \in BOOLEAN
    /\ minter \in Requests \cup {Nobody}
    /\ bookings \in Seq(Requests) /\ storm \in BOOLEAN
    /\ lockout \in Nat
    /\ spent \in [Urls -> Nat]
    /\ count403 \in Nat
    /\ expiries \in Nat /\ mintFailures \in Nat

\* One expiry mints one bearer, however many requests were refused for it:
\* the herd of a poll spends one slot of the hourly budget (#1078).
NoNeedlessMint == token <= expiries + 1

\* The refresh lock is held by a request that waits for its own refresh, and
\* by one that has not been told of a newer bearer.
MinterWaits == minter # Nobody => Waiting(minter) /\ used[minter] = token

\* A call never sends more than this: the retry after a 401 starts counting
\* anew, and under the override the first frame of each count may go on with
\* the fallback headers, and its remaining retries, after a 403.
SendLimit ==
    IF Ola THEN 4 * MaxRetries + 2 ELSE 2 * MaxRetries + 2

SendsBounded == \A r \in Requests : sends[r] <= SendLimit

\* What a call may still send: the retries left to its innermost frame, those
\* of the frames that can still catch a 403, and those after a refresh.
FramesNow(r) == Append(outer[r], attempt[r])

SendsLeft(r) ==
    (MaxRetries - attempt[r])
    + (IF pc[r] \in Ended \cup {"sent", "refreshing"} THEN 0 ELSE 1)
    + (IF Ola THEN MaxRetries * Cardinality(Catchers(FramesNow(r))) ELSE 0)
    + (IF ~mayRefresh[r] THEN 0
       ELSE IF Ola THEN 2 * MaxRetries + 1 ELSE MaxRetries + 1)

\* How far a call is from the send before it or from its end.
Stage(r) ==
    CASE pc[r] = "sent"       -> 6
      [] pc[r] = "refreshing" -> IF minter = r THEN 4 ELSE 5
      [] pc[r] \in {"sleeping", "idle"} -> 3
      [] pc[r] = "top"        -> 2
      [] pc[r] = "reminting"  -> IF minter = r THEN 0 ELSE 1
      [] OTHER                -> 0

StepsLeft(r) == 7 * SendsLeft(r) + Stage(r)

\* A call never gets back what it has spent: each of its own steps, a retry, a
\* refresh or a caught 403 among them, brings it nearer to its end, and a step
\* of another request, an expiry or the clock leaves it where it is. So it takes
\* at most 7 * SendLimit + 3 steps.
CallsWindDown ==
    [][\A r \in Requests :
          \/ StepsLeft(r)' = StepsLeft(r) /\ ~Request(r)
          \/ StepsLeft(r)' < StepsLeft(r)]_vars

\* Nothing is sent while the account's lockout runs.
NoSendWhileLockedOut ==
    [][\A r \in Requests : sends'[r] > sends[r] => lockout = 0]_vars

\* Every call ends, in an answer or an error.
EveryCallEnds == \A r \in Requests : pc[r] = "top" ~> pc[r] \in Ended
=============================================================================
