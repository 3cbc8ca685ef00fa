-------------------------- MODULE MemoryRateLimiter --------------------------
(***************************************************************************)
(* The process-local rate limiter (app/rate_limiter.py, class              *)
(* MemoryRateLimiter): per client key, a deque of the times at which        *)
(* requests were let through.  allow never suspends, so a call is one step. *)
(***************************************************************************)
EXTENDS Integers, Sequences, FiniteSets, FiniteSetsExt

CONSTANTS
    Key,      \* clients, each with a part of the API
    Limit,    \* agent_rate_limit_per_minute
    Window,   \* window_seconds
    MaxTime   \* bound: readings of the clock

ASSUME ParametersAssumption == Limit \in Nat /\ Window \in Nat \ {0} /\ MaxTime \in Nat

VARIABLES
    now,       \* time.monotonic()
    windows,   \* self._windows
    accepted,  \* auxiliary: the times of all requests that were let through
    answer     \* the last answer to each key, and when it was given

vars == <<now, windows, accepted, answer>>

Answer == [allowed : BOOLEAN, at : 0 .. MaxTime]

TypeOK ==
    /\ now \in 0 .. MaxTime
    /\ windows \in [Key -> Seq(0 .. MaxTime)]
    /\ accepted \in [Key -> Seq(0 .. MaxTime)]
    /\ answer \in [Key -> Answer]

\* A key that was never seen has an empty deque (a defaultdict).
Init ==
    /\ now = 0
    /\ windows = [k \in Key |-> <<>>]
    /\ accepted = [k \in Key |-> <<>>]
    /\ answer = [k \in Key |-> [allowed |-> TRUE, at |-> 0]]

\* Mutant: a request exactly one window old still counts.
DropExpiredLate(window, cutoff) ==
    LET young == {i \in DOMAIN window : window[i] >= cutoff} IN
    IF young = {} THEN <<>> ELSE SubSeq(window, Min(young), Len(window))

\* Pops from the left while the oldest request has left the window.
DropExpired(window, cutoff) ==
    LET young == {i \in DOMAIN window : window[i] > cutoff} IN
    IF young = {} THEN <<>> ELSE SubSeq(window, Min(young), Len(window))

Reply(k, allowed) == answer' = [answer EXCEPT ![k] = [allowed |-> allowed, at |-> now]]

\* Mutant: one request too many.
AllowOneMore(k, window) ==
    /\ Len(window) <= Limit
    /\ windows' = [windows EXCEPT ![k] = Append(window, now)]
    /\ accepted' = [accepted EXCEPT ![k] = Append(@, now)]
    /\ Reply(k, TRUE)

Allow(k, window) ==
    /\ Len(window) < Limit
    /\ windows' = [windows EXCEPT ![k] = Append(window, now)]
    /\ accepted' = [accepted EXCEPT ![k] = Append(@, now)]
    /\ Reply(k, TRUE)

\* A refused request does not count.
Refuse(k, window) ==
    /\ Len(window) >= Limit
    /\ windows' = [windows EXCEPT ![k] = window]
    /\ Reply(k, FALSE)
    /\ UNCHANGED accepted

\* allow, called by the middleware for a request of this key.
Call(k) ==
    /\ LET window == DropExpired(windows[k], now - Window) IN
       Allow(k, window) \/ Refuse(k, window)
    /\ UNCHANGED now

\* The clock goes on; requests may share one of its readings.
Tick ==
    /\ now < MaxTime
    /\ now' = now + 1
    /\ UNCHANGED <<windows, accepted, answer>>

Next == (\E k \in Key : Call(k)) \/ Tick

Spec == Init /\ [][Next]_vars

----------------------------------------------------------------------------
\* The requests of k that were let through in the window that ends at t.
Through(k, t) ==
    {i \in DOMAIN accepted[k] : t - Window < accepted[k][i] /\ accepted[k][i] <= t}

(***************************************************************************)
(* No window, wherever it lies, holds more requests than the limit.         *)
(* ("sliding-window rate limiting")                                         *)
(***************************************************************************)
LimitKept == \A k \in Key, t \in 0 .. MaxTime : Cardinality(Through(k, t)) <= Limit

(***************************************************************************)
(* A request is refused only if the window that ends with it is full: not   *)
(* for a request that is one window old, nor for one that was refused.      *)
(***************************************************************************)
RefusedOnlyAtLimit ==
    \A k \in Key : ~answer[k].allowed => Cardinality(Through(k, answer[k].at)) >= Limit

(***************************************************************************)
(* Why these hold: the deque is what is left of the requests that were let  *)
(* through, in their order, and those it has dropped are out of the window. *)
(***************************************************************************)
Dropped(k) == Len(accepted[k]) - Len(windows[k])

WindowConsistent(k) ==
    /\ Len(windows[k]) <= Len(accepted[k])
    /\ \A i \in 1 .. Len(windows[k]) : windows[k][i] = accepted[k][Dropped(k) + i]
    /\ \A i \in 1 .. Dropped(k) : accepted[k][i] <= now - Window
    /\ \A i, j \in 1 .. Len(accepted[k]) : i <= j => accepted[k][i] <= accepted[k][j]
    /\ \A i \in 1 .. Len(accepted[k]) : accepted[k][i] <= now
    /\ answer[k].at <= now

IInv ==
    /\ TypeOK
    /\ \A k \in Key : WindowConsistent(k)
    /\ LimitKept
    /\ RefusedOnlyAtLimit
=============================================================================
