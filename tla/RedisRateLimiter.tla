-------------------------- MODULE RedisRateLimiter ---------------------------
(***************************************************************************)
(* The rate limiter that API replicas share (app/rate_limiter.py, class     *)
(* RedisRateLimiter): per client key, a ZSET of the requests that were let  *)
(* through, scored by time.  A replica reads its own clock and then has     *)
(* Redis run a script; calls overtake each other in between, and the clocks *)
(* of the replicas differ.                                                  *)
(***************************************************************************)
EXTENDS Integers, FiniteSets

CONSTANTS
    Request,   \* calls of allow
    Replica,   \* limiter objects, one per API process
    Key,       \* clients, each with a part of the API
    Limit,     \* agent_rate_limit_per_minute
    Window,    \* window_seconds
    Slack,     \* the seconds a key outlives its window
    MaxDelay,  \* bound: time from reading the clock to the script
    MaxSkew,   \* bound: how far the clock of a replica may be slow
    MaxTime    \* bound: the time

ASSUME RequestAssumption == IsFiniteSet(Request)
ASSUME ParametersAssumption ==
    /\ Limit \in Nat /\ Window \in Nat \ {0} /\ Slack \in Nat
    /\ MaxDelay \in Nat /\ MaxSkew \in Nat /\ MaxTime \in Nat
    /\ MaxSkew <= MaxTime

VARIABLES
    now,      \* the time
    offset,   \* how slow the clock of each replica is
    pc,       \* where each request stands
    key,      \* its client
    home,     \* the replica that serves it
    reading,  \* what the clock of that replica said
    zset,     \* the ZSET of each key
    expiry    \* when Redis forgets it

requestVars == <<pc, key, home, reading>>
vars == <<now, offset, requestVars, zset, expiry>>

\* A member is named "<reading>:<limiter object>", and scored by the reading.
Member == [at : 0 .. MaxTime, by : Replica]

TypeOK ==
    /\ now \in MaxSkew .. MaxTime
    /\ offset \in [Replica -> 0 .. MaxSkew]
    /\ pc \in [Request -> {"new", "sent", "allowed", "refused", "failed"}]
    /\ key \in [Request -> Key]
    /\ home \in [Request -> Replica]
    /\ reading \in [Request -> 0 .. MaxTime]
    /\ zset \in [Key -> SUBSET Member]
    /\ expiry \in [Key -> 0 .. MaxTime + Window + Slack]

Init ==
    /\ now = MaxSkew
    /\ offset \in [Replica -> 0 .. MaxSkew]
    /\ pc = [q \in Request |-> "new"]
    /\ key \in [Request -> Key]
    /\ home \in [Request -> Replica]
    /\ reading = [q \in Request |-> 0]
    /\ zset = [k \in Key |-> {}]
    /\ expiry = [k \in Key |-> 0]

----------------------------------------------------------------------------
\* allow reads the clock.  The clock is fine: it reads differently whenever a
\* replica reads it.
Arrive(q) ==
    /\ pc[q] = "new"
    /\ LET t == now - offset[home[q]] IN
          /\ \A p \in Request : pc[p] # "new" /\ home[p] = home[q] => reading[p] # t
          /\ reading' = [reading EXCEPT ![q] = t]
    /\ pc' = [pc EXCEPT ![q] = "sent"]
    /\ UNCHANGED <<now, offset, key, home, zset, expiry>>

\* What Redis still has of a key.
Live(k) == IF now < expiry[k] THEN zset[k] ELSE {}

\* ZREMRANGEBYSCORE key 0 cutoff
Kept(k, cutoff) == {m \in Live(k) : ~(0 <= m.at /\ m.at <= cutoff)}

MemberOf(q) == [at |-> reading[q], by |-> home[q]]

\* Mutant: only the first request sets the expiry.
AddExpiringOnce(q, members) ==
    /\ zset' = [zset EXCEPT ![key[q]] = members \cup {MemberOf(q)}]
    /\ expiry' = [expiry EXCEPT ![key[q]] = IF members = {} THEN now + Window + Slack ELSE @]

\* ZADD and EXPIRE
Add(q, members) ==
    /\ zset' = [zset EXCEPT ![key[q]] = members \cup {MemberOf(q)}]
    /\ expiry' = [expiry EXCEPT ![key[q]] = now + Window + Slack]

\* The script lets the request through ...
ScriptAllows(q) ==
    LET members == Kept(key[q], reading[q] - Window) IN
    /\ Cardinality(members) < Limit
    /\ Add(q, members)
    /\ \E end \in {"allowed", "failed"} : pc' = [pc EXCEPT ![q] = end]

\* Mutant: refused requests count.
ScriptRefusesAfterAdding(q) ==
    LET members == Kept(key[q], reading[q] - Window) IN
    /\ Cardinality(members) >= Limit
    /\ Add(q, members)
    /\ pc' = [pc EXCEPT ![q] = "refused"]

\* ... or not.  An emptied ZSET is a key that does not exist.
ScriptRefuses(q) ==
    LET members == Kept(key[q], reading[q] - Window) IN
    /\ Cardinality(members) >= Limit
    /\ zset' = [zset EXCEPT ![key[q]] = members]
    /\ \E end \in {"refused", "failed"} : pc' = [pc EXCEPT ![q] = end]
    /\ UNCHANGED expiry

\* The script runs atomically.  Its answer may get lost: the request fails.
Script(q) ==
    /\ pc[q] = "sent"
    /\ ScriptAllows(q) \/ ScriptRefuses(q)
    /\ UNCHANGED <<now, offset, key, home, reading>>

\* When a request arrived: by the time, not by the clock of its replica.
Arrived(q) == reading[q] + offset[home[q]]

\* Redis is not reached.
Fail(q) ==
    /\ pc[q] = "sent"
    /\ pc' = [pc EXCEPT ![q] = "failed"]
    /\ UNCHANGED <<now, offset, key, home, reading, zset, expiry>>

\* Time passes, but no call takes longer than MaxDelay.
Tick ==
    /\ now < MaxTime
    /\ \A q \in Request :
          pc[q] = "sent" => now + 1 - Arrived(q) <= MaxDelay
    /\ now' = now + 1
    /\ UNCHANGED <<offset, requestVars, zset, expiry>>

\* At the last moment every call has ended: not a deadlock.
Idle ==
    /\ now = MaxTime
    /\ \A q \in Request : pc[q] # "sent"
    /\ UNCHANGED vars

Next == (\E q \in Request : Arrive(q) \/ Script(q) \/ Fail(q)) \/ Tick \/ Idle

Spec == Init /\ [][Next]_vars

----------------------------------------------------------------------------
\* How late a reading may be, on a slow clock, when it reaches Redis.
Disorder == MaxDelay + MaxSkew

\* The requests of k let through that arrived in the window of the given width
\* that ends at t.
Through(k, t, width) ==
    {q \in Request : /\ pc[q] = "allowed" /\ key[q] = k
                     /\ t - width < Arrived(q) /\ Arrived(q) <= t}

AtMostLimit(width) ==
    \A k \in Key, t \in 0 .. MaxTime : Cardinality(Through(k, t, width)) <= Limit

(***************************************************************************)
(* No window that is shorter than the limiter's by the disorder of the      *)
(* readings holds more requests than the limit, whichever replicas serve    *)
(* them; without disorder this is the limiter's own window.                 *)
(***************************************************************************)
ShortWindowsKeepLimit == AtMostLimit(Window - Disorder)

(***************************************************************************)
(* A request is refused only if there are as many others, not older than    *)
(* its window, that were let through or whose answer was lost: refused      *)
(* requests and those that have left the window do not count.               *)
(***************************************************************************)
RefusedOnlyAtLimit ==
    \A q \in Request :
        pc[q] = "refused" =>
            Limit <= Cardinality({p \in Request : /\ pc[p] \in {"allowed", "failed"}
                                                  /\ key[p] = key[q]
                                                  /\ reading[p] > reading[q] - Window})

(***************************************************************************)
(* app/rate_limiter.py:41, "Atomic Redis ZSET limiter safe to share across  *)
(* API replicas": whatever replica serves a request, no window of the       *)
(* limiter's width holds more of them than the limit.                       *)
(***************************************************************************)
LimitKeptAcrossReplicas == AtMostLimit(Window)

(***************************************************************************)
(* Why these hold: a request that was let through is still a member, under  *)
(* a name of its own, until it is out of every window that is yet to come.  *)
(***************************************************************************)
RequestConsistent(q) ==
    /\ pc[q] # "new" => Arrived(q) <= now
    /\ pc[q] = "sent" => Arrived(q) >= now - MaxDelay
    /\ pc[q] = "allowed" => MemberOf(q) \in Live(key[q]) \/ reading[q] <= now - Window

NamesDiffer ==
    \A p, q \in Request :
        pc[p] # "new" /\ pc[q] # "new" /\ p # q => MemberOf(p) # MemberOf(q)

MembersConsistent ==
    \A k \in Key : \A m \in zset[k] :
        /\ m.at + Window + Slack <= expiry[k]
        /\ \E q \in Request :
              pc[q] \in {"allowed", "failed"} /\ key[q] = k /\ MemberOf(q) = m

IInv ==
    /\ TypeOK
    /\ \A q \in Request : RequestConsistent(q)
    /\ NamesDiffer
    /\ MembersConsistent
    /\ ShortWindowsKeepLimit
    /\ RefusedOnlyAtLimit
=============================================================================
