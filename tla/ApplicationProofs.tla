--------------------------- MODULE ApplicationProofs ---------------------------
(***************************************************************************)
(* Proofs about Application, for every number of requests, limit, window,   *)
(* number of connection attempts and outages: whoever uses the repository   *)
(* finds it open, an accepted task is kept by the table and by the queue, a *)
(* worker or the recovery, and the limiter that lives and dies with the     *)
(* process bounds the work its handlers take on.                            *)
(***************************************************************************)
EXTENDS Application, MemoryRateLimiterProofs

USE ParametersAssumption, RetryAssumption, KeyAssumption

----------------------------------------------------------------------------
(* The limiter inside the process.                                          *)

\* A limiter that starts over, whatever the clock shows, satisfies its invariant.
LEMMA ResetKeepsIInv == IInv /\ ResetLimiter => IInv'
<1> SUFFICES ASSUME IInv, ResetLimiter PROVE IInv'
    OBVIOUS
<1>1. /\ now' = now /\ now \in 0 .. MaxTime
      /\ \A k \in Key : windows'[k] = <<>> /\ accepted'[k] = <<>>
                        /\ answer'[k] = [allowed |-> TRUE, at |-> 0]
    BY DEF ResetLimiter, IInv, TypeOK
<1>2. TypeOK'
    BY <1>1 DEF ResetLimiter, TypeOK, Answer
<1>3. ASSUME NEW k \in Key
      PROVE  WindowConsistent(k)'
    <2>1. /\ windows'[k] = <<>> /\ accepted'[k] = <<>> /\ answer'[k].at = 0
          /\ now' \in Nat /\ Dropped(k)' = 0
        BY <1>1 DEF Dropped
    <2> QED
        BY <2>1 DEF WindowConsistent
<1>4. LimitKept'
    <2>1. \A k \in Key, t \in 0 .. MaxTime : Through(k, t)' = {}
        BY <1>1 DEF Through
    <2> QED
        BY <2>1, FS_EmptySet DEF LimitKept
<1>5. RefusedOnlyAtLimit'
    BY <1>1 DEF RefusedOnlyAtLimit
<1> QED
    BY <1>2, <1>3, <1>4, <1>5 DEF IInv

\* What a window holds is finite.
LEMMA ThroughFinite ==
    ASSUME TypeOK, NEW k \in Key, NEW t
    PROVE  IsFiniteSet(Through(k, t)) /\ Cardinality(Through(k, t)) \in Nat
<1>1. Len(accepted[k]) \in Nat /\ DOMAIN accepted[k] = 1 .. Len(accepted[k])
    BY LenProperties DEF TypeOK
<1>2. IsFiniteSet(1 .. Len(accepted[k])) /\ Through(k, t) \subseteq 1 .. Len(accepted[k])
    BY <1>1, FS_Interval DEF Through
<1> QED
    BY <1>2, FS_Subset, FS_CardinalityType

\* A request that is let through is one more in the windows that hold this moment.
LEMMA AllowedIsThrough ==
    ASSUME TypeOK, NEW k \in Key, NEW w, Allow(k, w), NEW t \in 0 .. MaxTime
    PROVE  Cardinality(Through(k, t)') = IF t - Window < now /\ now <= t
                                         THEN Cardinality(Through(k, t)) + 1
                                         ELSE Cardinality(Through(k, t))
<1> DEFINE n == Len(accepted[k])
<1>1. /\ n \in Nat /\ accepted[k] \in Seq(0 .. MaxTime) /\ now \in 0 .. MaxTime
      /\ DOMAIN accepted[k] = 1 .. n
    BY LenProperties DEF TypeOK
<1>2. accepted'[k] = Append(accepted[k], now)
    BY DEF Allow, TypeOK
<1>3. /\ DOMAIN accepted'[k] = 1 .. n + 1 /\ accepted'[k][n + 1] = now
      /\ \A i \in 1 .. n : accepted'[k][i] = accepted[k][i]
    BY <1>1, <1>2, AppendProperties, LenProperties
<1> HIDE DEF n
<1>4. 1 .. n + 1 = 1 .. n \cup {n + 1} /\ n + 1 \notin 1 .. n
    BY <1>1
<1>5. Through(k, t) = {i \in 1 .. n : t - Window < accepted[k][i] /\ accepted[k][i] <= t}
    BY <1>1 DEF Through
<1>6. Through(k, t)' = Through(k, t) \cup {i \in {n + 1} : t - Window < now /\ now <= t}
    BY <1>3, <1>4, <1>5 DEF Through
<1>7. n + 1 \notin Through(k, t) /\ IsFiniteSet(Through(k, t))
    BY <1>4, <1>5, ThroughFinite
<1>8. CASE t - Window < now /\ now <= t
    <2>1. Through(k, t)' = Through(k, t) \cup {n + 1}
        BY <1>6, <1>8
    <2> QED
        BY <1>7, <1>8, <2>1, FS_AddElement
<1>9. CASE ~(t - Window < now /\ now <= t)
    BY <1>6, <1>9
<1> QED
    BY <1>8, <1>9

----------------------------------------------------------------------------
(* What the requests and the clock do to the work that is counted.          *)

\* The routes asked of one part of the API are limited, under one key of their own.
LEMMA PartsAreKeys ==
    /\ DOMAIN Questions \subseteq Key
    /\ UNION {Questions[p] : p \in DOMAIN Questions} = Limited
    /\ \A route \in Limited : KeyOf(route) \in DOMAIN Questions
    /\ \A part \in DOMAIN Questions :
          /\ "none" \notin Questions[part]
          /\ \A route \in Questions[part] : route \in Limited /\ KeyOf(route) = part
<1>1. /\ DOMAIN Questions = {"chat", "search", "agent"}
      /\ Questions["chat"] = {"chat"} /\ Questions["search"] = {"search"}
      /\ Questions["agent"] = {"agent", "stream"}
    BY DEF Questions
<1> QED
    BY <1>1 DEF Limited, KeyOf

\* The invariant without the part about phases, pool and queue.
CallsInv == IInv /\ AppTypeOK /\ CallsConsistent /\ WorkIsCounted /\ WorkKeptWithinLimit

\* A step that leaves calls and limiter alone leaves the work alone.
LEMMA CallsLeftAlone ==
    ASSUME CallsInv, UNCHANGED <<windows, accepted, answer, calls>>, AppTypeOK',
           UNCHANGED now \/ Tick,
           startup'.began = startup.began,
           stored \subseteq stored',
           phase \in {"down", "exited"} => phase' \in {"down", "exited"}
    PROVE  CallsInv'
<1>1. IInv'
    <2>1. UNCHANGED vars \/ Tick
        BY DEF vars
    <2> QED
        BY <2>1, NextIInv DEF CallsInv, Next
<1>2. now \in 0 .. MaxTime /\ now' \in 0 .. MaxTime /\ now <= now'
    BY <1>1 DEF CallsInv, IInv, TypeOK, Tick
<1>3. CallsConsistent'
    <2> SUFFICES ASSUME NEW r \in Request
                 PROVE  calls[r].at <= now'
        BY DEF CallsInv, CallsConsistent
    <2>1. calls[r].at \in 0 .. MaxTime /\ calls[r].at <= now
        BY DEF CallsInv, CallsConsistent, AppTypeOK, CallRecord
    <2> QED
        BY <1>2, <2>1
<1>4. \A k \in DOMAIN Questions, t \in 0 .. MaxTime :
         Worked(k, t)' = Worked(k, t) /\ Through(k, t)' = Through(k, t)
    BY DEF Worked, Through
<1>5. WorkIsCounted' /\ WorkKeptWithinLimit'
    BY <1>4 DEF CallsInv, WorkIsCounted, WorkKeptWithinLimit
<1> QED
    BY <1>1, <1>3, <1>5 DEF CallsInv

\* An answer to a request, or a part of one, is no new work.
LEMMA Answered ==
    ASSUME CallsInv, NEW r \in InFlight,
           NEW pc \in {"committed", "streaming", "done", "cut"}, NEW status \in Nat,
           status # 429, pc = "streaming" => status = 200,
           pc = "committed" => status = 0 /\ r \in stored', stored \subseteq stored',
           Respond(r, pc, status), UNCHANGED <<vars, startup, phase>>
    PROVE  CallsInv'
<1>1. r \in Request /\ calls[r].pc \in {"handling", "committed", "streaming"}
    BY DEF InFlight
<1>2. /\ calls[r].status # 429
      /\ calls \in [Request -> CallRecord]
    BY <1>1 DEF CallsInv, CallsConsistent, AppTypeOK
<1>3. /\ calls'[r] = [route |-> calls[r].route, pc |-> pc, status |-> status, at |-> calls[r].at]
      /\ \A q \in Request \ {r} : calls'[q] = calls[q]
      /\ calls' \in [Request -> CallRecord]
    <2>1. /\ calls[r] \in CallRecord /\ DOMAIN calls = Request
          /\ calls[r].at \in 0 .. MaxTime /\ calls[r].route \in Routes \cup {"none"}
        BY <1>1, <1>2 DEF CallRecord
    <2> DEFINE half == [calls EXCEPT ![r].pc = pc]
               whole == [half[r] EXCEPT !.status = status]
    <2>2. half[r] = [route |-> calls[r].route, pc |-> pc, status |-> calls[r].status,
                     at |-> calls[r].at]
        BY <1>1, <2>1 DEF CallRecord
    <2>3. half \in [Request -> CallRecord] /\ \A q \in Request \ {r} : half[q] = calls[q]
        BY <1>1, <1>2, <2>1, <2>2 DEF CallRecord
    <2>4. whole = [route |-> calls[r].route, pc |-> pc, status |-> status, at |-> calls[r].at]
        BY <2>2
    <2>5. whole \in CallRecord
        BY <2>1, <2>4 DEF CallRecord
    <2>6. calls' = [half EXCEPT ![r] = whole]
        BY <2>1 DEF Respond
    <2> HIDE DEF half, whole
    <2>7. /\ calls'[r] = whole /\ calls' \in [Request -> CallRecord]
          /\ \A q \in Request \ {r} : calls'[q] = half[q]
        BY <1>1, <2>3, <2>5, <2>6
    <2> QED
        BY <2>3, <2>4, <2>7
<1>4. IInv' /\ AppTypeOK'
    BY <1>3, NextIInv DEF CallsInv, AppTypeOK, vars
<1>5. CallsConsistent'
    BY <1>1, <1>3 DEF CallsInv, CallsConsistent, vars
<1>6. \A k \in DOMAIN Questions, t \in 0 .. MaxTime :
         Worked(k, t)' = Worked(k, t) /\ Through(k, t)' = Through(k, t)
    <2>1. \A q \in Request : /\ calls'[q].route = calls[q].route /\ calls'[q].at = calls[q].at
                             /\ calls'[q].status # 429 <=> calls[q].status # 429
        BY <1>1, <1>2, <1>3
    <2> QED
        BY <2>1 DEF Worked, Through, vars
<1>7. WorkIsCounted' /\ WorkKeptWithinLimit'
    BY <1>6 DEF CallsInv, WorkIsCounted, WorkKeptWithinLimit
<1> QED
    BY <1>4, <1>5, <1>7 DEF CallsInv

\* A request that the middleware takes or refuses.
LEMMA Received ==
    ASSUME CallsInv, NEW r \in Request, NEW route \in Routes, Receive(r, route)
    PROVE  CallsInv'
<1> DEFINE k == KeyOf(route)
<1>0. /\ now \in 0 .. MaxTime /\ now' = now /\ startup' = startup /\ phase' = phase
      /\ phase = "serving" /\ calls[r].pc = "unsent" /\ calls[r].route = "none"
      /\ stored' = stored /\ startup.began \in Nat /\ (route \in Limited => k \in Key)
    BY PartsAreKeys DEF CallsInv, IInv, TypeOK, Receive, process, world, CallsConsistent, AppTypeOK
<1>1. PICK pc \in {"handling", "done"} : 
          \/ /\ route \in Limited /\ pc = "handling"
             /\ Taken(r, route, pc, 0) /\ Allow(k, Remaining(k))
          \/ /\ route \in Limited /\ pc = "done"
             /\ Taken(r, route, pc, 429) /\ Refuse(k, Remaining(k))
          \/ /\ route \notin Limited /\ pc = "handling"
             /\ Taken(r, route, pc, 0) /\ UNCHANGED limiter
    BY DEF Receive, Remaining
<1>2. PICK status \in {0, 429} : /\ Taken(r, route, pc, status)
                                 /\ pc = "handling" => status = 0
                                 /\ pc = "done" => status = 429
    BY <1>1
<1> DEFINE at == IF route \in Limited THEN now ELSE 0
<1>3. /\ calls'[r] = [route |-> route, pc |-> pc, status |-> status, at |-> at]
      /\ \A q \in Request \ {r} : calls'[q] = calls[q]
      /\ calls' \in [Request -> CallRecord]
    <2> DEFINE new == [route |-> route, pc |-> pc, status |-> status, at |-> at]
    <2>1. new \in CallRecord
        BY <1>0 DEF CallRecord
    <2>2. calls' = [calls EXCEPT ![r] = new] /\ calls \in [Request -> CallRecord]
        BY <1>2, PartsAreKeys DEF Taken, CallsInv, AppTypeOK
    <2> HIDE DEF new
    <2>3. calls'[r] = new /\ calls' \in [Request -> CallRecord]
          /\ \A q \in Request \ {r} : calls'[q] = calls[q]
        BY <2>1, <2>2
    <2> QED
        BY <2>3 DEF new
<1>4. IInv'
    <2>1. (k \in Key /\ Call(k)) \/ UNCHANGED vars
        BY <1>0, <1>1 DEF Call, Remaining, vars, limiter
    <2> QED
        BY <1>0, <2>1, NextIInv DEF CallsInv, Next
<1>5. AppTypeOK'
    BY <1>0, <1>3 DEF CallsInv, AppTypeOK
<1>6. CallsConsistent'
    <2>1. at <= now
        BY <1>0
    <2> QED
        BY <1>0, <1>2, <1>3, <2>1 DEF CallsInv, CallsConsistent
<1>7. ASSUME NEW j \in DOMAIN Questions, NEW t \in 0 .. MaxTime
      PROVE  r \notin Worked(j, t) /\ j \in Key
    BY <1>0, PartsAreKeys DEF Worked
<1>8. /\ \A q \in Request \ {r} : calls'[q] = calls[q]
      /\ calls'[r].route = route /\ calls'[r].status = status
      /\ calls'[r].at = IF route \in Limited THEN now ELSE 0
    BY <1>3
<1>9. ASSUME NEW j \in DOMAIN Questions, NEW t \in 0 .. MaxTime,
             route \notin Limited \/ j # k \/ status = 429
      PROVE  /\ Worked(j, t)' = Worked(j, t)
             /\ Through(j, t)' = Through(j, t)
    <2>1. Worked(j, t)' = Worked(j, t)
        BY <1>0, <1>7, <1>8, <1>9, PartsAreKeys DEF Worked
    <2>2. accepted'[j] = accepted[j]
        <3>1. CASE accepted' = accepted
            BY <3>1
        <3>2. CASE j # k /\ Allow(k, Remaining(k))
            <4>1. accepted' = [accepted EXCEPT ![k] = Append(@, now)]
                BY <3>2 DEF Allow
            <4> QED
                BY <1>0, <1>7, <3>2, <4>1 DEF CallsInv, IInv, TypeOK
        <3>3. \/ accepted' = accepted
              \/ route \in Limited /\ pc = "handling" /\ Allow(k, Remaining(k))
            BY <1>1 DEF Refuse, limiter
        <3> QED
            BY <1>2, <1>9, <3>1, <3>2, <3>3
    <2> QED
        BY <2>1, <2>2 DEF Through
<1>10. ASSUME NEW t \in 0 .. MaxTime, route \in Limited, status = 0
       PROVE  /\ IsFiniteSet(Worked(k, t)')
              /\ Cardinality(Through(k, t)') \in Nat
              /\ Cardinality(Worked(k, t)') <= Cardinality(Through(k, t)')
    <2> DEFINE old == Worked(k, t)
               new == Worked(k, t)'
    <2>1. Allow(k, Remaining(k))
        BY <1>1, <1>2, <1>10
    <2>2. /\ Cardinality(Through(k, t)') = IF t - Window < now /\ now <= t
                                           THEN Cardinality(Through(k, t)) + 1
                                           ELSE Cardinality(Through(k, t))
          /\ Cardinality(Through(k, t)) \in Nat
        BY <1>0, <1>10, <2>1, AllowedIsThrough, ThroughFinite DEF CallsInv, IInv
    <2>3. /\ IsFiniteSet(old) /\ Cardinality(old) <= Cardinality(Through(k, t))
          /\ Cardinality(old) \in Nat
        BY <1>0, <1>10, PartsAreKeys, FS_CardinalityType DEF CallsInv, WorkIsCounted
    <2>4. \A q \in Request \ {r} : q \in new <=> q \in old
        BY <1>0, <1>8 DEF Worked
    <2>5. new \subseteq Request /\ old \subseteq Request /\ r \notin old
        BY <1>0, <1>7, <1>10, PartsAreKeys DEF Worked
    <2>6. r \in new => t - Window < now /\ now <= t
        BY <1>0, <1>8, <1>10 DEF Worked
    <2> HIDE DEF old, new
    <2>7. CASE r \in new
        <3>1. new = old \cup {r}
            BY <2>4, <2>5, <2>7
        <3>2. IsFiniteSet(new) /\ Cardinality(new) = Cardinality(old) + 1
            BY <2>3, <2>5, <3>1, FS_AddElement
        <3> QED
            BY <2>2, <2>3, <2>6, <2>7, <3>2 DEF new
    <2>8. CASE r \notin new
        <3>1. new = old
            BY <2>4, <2>5, <2>8
        <3> QED
            BY <2>2, <2>3, <3>1 DEF new
    <2> QED
        BY <2>7, <2>8
<1>11. ASSUME NEW j \in DOMAIN Questions, NEW t \in 0 .. MaxTime
       PROVE  /\ IsFiniteSet(Worked(j, t)')
              /\ Cardinality(Through(j, t)') \in Nat
              /\ Cardinality(Worked(j, t)') <= Cardinality(Through(j, t)')
    <2>1. CASE route \notin Limited \/ j # k \/ status = 429
        <3>1. Cardinality(Through(j, t)) \in Nat
            BY <1>7, ThroughFinite DEF CallsInv, IInv
        <3> QED
            BY <1>0, <1>9, <2>1, <3>1 DEF CallsInv, WorkIsCounted
    <2>2. CASE route \in Limited /\ j = k /\ status = 0
        BY <1>10, <2>2
    <2> QED
        BY <2>1, <2>2
<1>12. WorkKeptWithinLimit'
    <2> SUFFICES ASSUME NEW j \in DOMAIN Questions, NEW t \in 0 .. MaxTime
                 PROVE  Cardinality(Worked(j, t)') <= Limit
        BY DEF WorkKeptWithinLimit
    <2>1. /\ Cardinality(Worked(j, t)') <= Cardinality(Through(j, t)')
          /\ Cardinality(Worked(j, t)') \in Nat /\ Cardinality(Through(j, t)') \in Nat
        BY <1>11, FS_CardinalityType
    <2>2. Cardinality(Through(j, t)') <= Limit
        BY <1>4, <1>7 DEF IInv, LimitKept
    <2> QED
        BY <2>1, <2>2
<1>13. WorkIsCounted'
    BY <1>11 DEF WorkIsCounted
<1> QED
    BY <1>4, <1>5, <1>6, <1>12, <1>13 DEF CallsInv

\* The process ends, and its limiter and its open connections with it.
LEMMA Ended ==
    ASSUME CallsInv, ResetLimiter, UNCHANGED <<startup, stored>>, phase' \in {"down", "exited"},
           \/ UNCHANGED calls
           \/ calls' = [r \in Request |->
                  IF r \in InFlight THEN [calls[r] EXCEPT !.pc = "lost"] ELSE calls[r]]
    PROVE  CallsInv'
<1>1. calls \in [Request -> CallRecord]
    BY DEF CallsInv, AppTypeOK
<1>2. ASSUME NEW r \in Request
      PROVE  /\ calls'[r].route = calls[r].route /\ calls'[r].status = calls[r].status
             /\ calls'[r].at = calls[r].at /\ calls'[r].pc \in {calls[r].pc, "lost"}
             /\ calls'[r] \in CallRecord
    <2>1. calls'[r] \in {calls[r], [calls[r] EXCEPT !.pc = "lost"]} /\ calls[r] \in CallRecord
        BY <1>1
    <2> QED
        BY <2>1 DEF CallRecord
<1>3. calls' \in [Request -> CallRecord]
    <2>1. CASE UNCHANGED calls
        BY <1>1, <2>1
    <2>2. CASE calls' = [r \in Request |->
                  IF r \in InFlight THEN [calls[r] EXCEPT !.pc = "lost"] ELSE calls[r]]
        BY <1>2, <2>2
    <2> QED
        BY <2>1, <2>2
<1>4. IInv'
    BY ResetKeepsIInv DEF CallsInv
<1>5. AppTypeOK'
    BY <1>3 DEF CallsInv, AppTypeOK
<1>6. CallsConsistent'
    BY <1>2 DEF CallsInv, CallsConsistent, ResetLimiter
<1>7. \A k \in DOMAIN Questions, t \in 0 .. MaxTime : Worked(k, t)' = Worked(k, t)
    BY <1>2 DEF Worked
<1>8. WorkIsCounted' /\ WorkKeptWithinLimit'
    BY <1>7 DEF CallsInv, WorkIsCounted, WorkKeptWithinLimit
<1> QED
    BY <1>4, <1>5, <1>6, <1>8 DEF CallsInv

\* A process that starts again has nothing to answer for.
LEMMA StartedAgain ==
    ASSUME CallsInv, UNCHANGED <<vars, calls, stored>>, AppTypeOK', startup'.began = now
    PROVE  CallsInv'
<1>1. IInv'
    BY NextIInv DEF CallsInv
<1>2. CallsConsistent'
    BY DEF CallsInv, CallsConsistent, vars
<1>3. ASSUME NEW k \in DOMAIN Questions, NEW t \in 0 .. MaxTime
      PROVE  Worked(k, t)' = {} /\ Cardinality(Through(k, t)') \in Nat
    <2>1. \A r \in Request : calls'[r].at <= now /\ calls'[r].at \in Nat /\ now \in Nat
        BY DEF CallsInv, CallsConsistent, AppTypeOK, CallRecord, IInv, TypeOK
    <2>2. Through(k, t)' = Through(k, t) /\ Cardinality(Through(k, t)) \in Nat
        BY PartsAreKeys, ThroughFinite DEF CallsInv, IInv, Through, vars
    <2> QED
        BY <2>1, <2>2 DEF Worked
<1>4. WorkIsCounted' /\ WorkKeptWithinLimit'
    <2>1. IsFiniteSet({}) /\ Cardinality({}) = 0
        BY FS_EmptySet
    <2>2. ASSUME NEW k \in DOMAIN Questions, NEW t \in 0 .. MaxTime
          PROVE  /\ IsFiniteSet(Worked(k, t)') /\ Cardinality(Worked(k, t)') <= Limit
                 /\ Cardinality(Worked(k, t)') <= Cardinality(Through(k, t)')
        BY <1>3, <2>1
    <2> QED
        BY <2>2 DEF WorkIsCounted, WorkKeptWithinLimit
<1> QED
    BY <1>1, <1>2, <1>4 DEF CallsInv

----------------------------------------------------------------------------
(* The steps of the process.                                                *)

\* The rest of the invariant: the lifespan, the pool, the queue and the table.
ProcessInv == FollowsPhases /\ QueueConsistent /\ AcceptedTaskIsKept

\* Nothing runs and nobody is answered before the process starts.
LEMMA AppInitIInv == AppInit => AppIInv
<1> SUFFICES ASSUME AppInit PROVE AppIInv
    OBVIOUS
<1>1. IInv /\ now = 0
    BY InitIInv DEF AppInit, Init
<1>2. \A r \in Request : calls[r] = Unsent /\ Unsent \in CallRecord
    BY DEF AppInit, Unsent, CallRecord
<1>3. AppTypeOK
    BY <1>2 DEF AppInit, AppTypeOK
<1>4. FollowsPhases
    BY <1>2 DEF AppInit, FollowsPhases, InFlight, Unsent
<1>5. CallsConsistent
    BY <1>1, <1>2 DEF CallsConsistent, Unsent
<1>6. ASSUME NEW k \in DOMAIN Questions, NEW t \in 0 .. MaxTime
      PROVE  Worked(k, t) = {} /\ Cardinality(Through(k, t)) \in Nat
    BY <1>1, <1>2, PartsAreKeys, ThroughFinite DEF Worked, Unsent, IInv
<1>7. WorkIsCounted /\ WorkKeptWithinLimit
    <2>1. IsFiniteSet({}) /\ Cardinality({}) = 0
        BY FS_EmptySet
    <2>2. ASSUME NEW k \in DOMAIN Questions, NEW t \in 0 .. MaxTime
          PROVE  /\ IsFiniteSet(Worked(k, t)) /\ Cardinality(Worked(k, t)) <= Limit
                 /\ Cardinality(Worked(k, t)) <= Cardinality(Through(k, t))
        BY <1>6, <2>1
    <2> QED
        BY <2>2 DEF WorkIsCounted, WorkKeptWithinLimit
<1>8. QueueConsistent /\ AcceptedTaskIsKept
    BY <1>2 DEF AppInit, QueueConsistent, AcceptedTaskIsKept, Unsent
<1> QED
    BY <1>1, <1>3, <1>4, <1>5, <1>7, <1>8 DEF AppIInv

\* Startup, shutdown and the workers keep the invariant.
LEMMA LifespanStep == AppIInv /\ (Lifespan \/ Stop) => AppIInv'
<1> SUFFICES ASSUME AppIInv, Lifespan \/ Stop PROVE AppIInv'
    OBVIOUS
<1>1. CallsInv /\ ProcessInv
    BY DEF AppIInv, CallsInv, ProcessInv
<1>2. calls' = calls /\ stored' = stored /\ startup'.began = startup.began /\ now' = now
    BY DEF AppIInv, AppTypeOK, Lifespan, Stop, Connect, StartTaskService, Drained, CloseTaskService,
           CloseRepository, CloseLimiter, ResetLimiter, WorkerTakesTask, WorkerFinishesTask,
           process, world, vars
<1>3. AppTypeOK'
    <2>1. startup' \in [attempt : Nat, began : Nat, due : Nat]
        <3>1. CASE UNCHANGED startup
            BY <3>1 DEF AppIInv, AppTypeOK
        <3>2. CASE Connect
            <4>1. /\ startup \in [attempt : Nat, began : Nat, due : Nat] /\ now \in Nat
                  /\ Pause(startup.attempt) \in Nat /\ startup.attempt + 1 \in Nat
                BY DEF AppIInv, AppTypeOK, IInv, TypeOK, Pause, Smaller
            <4> DEFINE later == startup.attempt + 1
                       due == now + Pause(startup.attempt)
            <4>2. due \in Nat /\ later \in Nat
                BY <4>1
            <4>3. \/ startup' = startup
                  \/ startup' = [attempt |-> 1, began |-> startup.began, due |-> 0]
                  \/ startup' = [attempt |-> later, began |-> startup.began, due |-> due]
                BY <3>2, <4>1 DEF Connect
            <4>4. startup.began \in Nat
                BY <4>1
            <4> HIDE DEF later, due
            <4> QED
                BY <4>1, <4>2, <4>3, <4>4
        <3> QED
            BY <3>1, <3>2 DEF Lifespan, Stop, StartTaskService, Drained, CloseTaskService,
               CloseRepository, CloseLimiter, WorkerTakesTask, WorkerFinishesTask
    <2> QED
        BY <1>2, <2>1 DEF AppIInv, AppTypeOK, Lifespan, Stop, Connect, StartTaskService, Drained,
           CloseTaskService, CloseRepository, CloseLimiter, WorkerTakesTask, WorkerFinishesTask
<1>4. CallsInv'
    <2>1. CASE CloseLimiter
        BY <1>1, <1>2, <2>1, Ended DEF CloseLimiter
    <2>2. CASE ~CloseLimiter
        <3>1. UNCHANGED vars /\ (phase \in {"down", "exited"} => phase' \in {"down", "exited"})
            BY <2>2 DEF Lifespan, Stop, Connect, StartTaskService, Drained, CloseTaskService,
               CloseRepository, WorkerTakesTask, WorkerFinishesTask
        <3> QED
            BY <1>1, <1>2, <1>3, <3>1, CallsLeftAlone DEF vars
    <2> QED
        BY <2>1, <2>2
<1>5. FollowsPhases'
    <2>1. InFlight' = InFlight
        BY <1>2 DEF InFlight
    <2> QED
        BY <1>1, <2>1 DEF ProcessInv, FollowsPhases, Lifespan, Stop, Connect, StartTaskService,
           Drained, CloseTaskService, CloseRepository, CloseLimiter, WorkerTakesTask,
           WorkerFinishesTask
<1>6. QueueConsistent'
    BY <1>1, <1>2 DEF ProcessInv, FollowsPhases, QueueConsistent, Lifespan, Stop, Connect,
       StartTaskService, Drained, CloseTaskService, CloseRepository, CloseLimiter, WorkerTakesTask,
       WorkerFinishesTask
<1>7. AcceptedTaskIsKept'
    <2>1. CASE StartTaskService \/ CloseTaskService
        \* The queue is empty before the one and before the other.
        <3>1. queue = {} /\ tried' = tried /\ orphans' = orphans
            BY <1>1, <2>1 DEF ProcessInv, QueueConsistent, StartTaskService, CloseTaskService, world
        <3> QED
            BY <1>1, <1>2, <3>1 DEF ProcessInv, AcceptedTaskIsKept
    <2>2. CASE WorkerTakesTask
        <3>1. /\ workers = "idle" /\ workers' = "busy" /\ orphans' = orphans
              /\ tried \subseteq tried' /\ queue \subseteq queue' \cup tried'
            BY <2>2 DEF WorkerTakesTask
        <3> QED
            BY <1>1, <1>2, <3>1 DEF ProcessInv, AcceptedTaskIsKept
    <2>3. CASE \/ Connect \/ Drained \/ CloseRepository \/ CloseLimiter \/ WorkerFinishesTask
               \/ Stop
        <3>1. /\ workers' = "stopped" => workers = "stopped"
              /\ UNCHANGED <<queue, tried, orphans>>
            BY <2>3 DEF Connect, Drained, CloseRepository, CloseLimiter, WorkerFinishesTask, Stop,
               world
        <3> QED
            BY <1>1, <1>2, <3>1 DEF ProcessInv, AcceptedTaskIsKept
    <2> QED
        BY <2>1, <2>2, <2>3 DEF Lifespan
<1> QED
    BY <1>1, <1>4, <1>5, <1>6, <1>7 DEF AppIInv, CallsInv, ProcessInv

\* What the handlers and the middleware do keeps the invariant.
LEMMA RequestStep ==
    ASSUME AppIInv, NEW r \in Request, Handle(r) \/ \E route \in Routes : Receive(r, route)
    PROVE  AppIInv'
<1>1. CallsInv /\ ProcessInv
    BY DEF AppIInv, CallsInv, ProcessInv
<1>2. /\ calls \in [Request -> CallRecord]
      /\ UNCHANGED <<phase, pool, workers, startup, tried, orphans>>
    BY <1>1 DEF CallsInv, AppTypeOK, Handle, AnswerQuery, AnswerAgent, CallTool, BeginStream,
       EndStream, StoreTask, AnswerTask, LookUpTask, CheckReady, Receive, process, world
<1>3. ASSUME Handle(r)
      PROVE  \E pc \in {"committed", "streaming", "done", "cut"}, status \in Nat :
                /\ r \in InFlight /\ status # 429 /\ (pc = "streaming" => status = 200)
                /\ pc = "committed" => status = 0 /\ r \in stored'
                /\ Respond(r, pc, status) /\ UNCHANGED vars
                /\ stored \subseteq stored' /\ queue \subseteq queue' /\ queue' \subseteq stored'
                /\ status = 202 => r \in stored' /\ r \in queue'
    <2>1. CASE \/ AnswerQuery(r) \/ AnswerAgent(r) \/ CallTool(r) \/ BeginStream(r) \/ EndStream(r)
               \/ LookUpTask(r) \/ CheckReady(r)
        <3>1. PICK pc \in {"streaming", "done", "cut"}, status \in {200, 400, 500, 503} :
                 Respond(r, pc, status) /\ (pc = "streaming" => status = 200)
            BY <2>1 DEF AnswerQuery, AnswerAgent, CallTool, BeginStream, EndStream, LookUpTask,
               CheckReady
        <3>2. UNCHANGED <<vars, stored, queue>> /\ r \in InFlight
            BY <2>1 DEF AnswerQuery, AnswerAgent, CallTool, BeginStream, EndStream, LookUpTask,
               CheckReady, process, world, Handling, InFlight
        <3> QED
            BY <1>1, <3>1, <3>2 DEF ProcessInv, QueueConsistent
    <2>2. CASE StoreTask(r)
        <3>1. \/ Respond(r, "committed", 0) /\ r \in stored'
              \/ Respond(r, "done", 400)
              \/ Respond(r, "done", 500)
            BY <2>2 DEF StoreTask
        <3>2. /\ UNCHANGED <<vars, queue>> /\ stored \subseteq stored' /\ r \in InFlight
            BY <2>2 DEF StoreTask, process, Handling, InFlight
        <3> QED
            BY <1>1, <3>1, <3>2 DEF ProcessInv, QueueConsistent
    <2>3. CASE AnswerTask(r)
        <3>1. r \in stored
            BY <1>1, <2>3 DEF CallsInv, CallsConsistent, AnswerTask
        <3>2. /\ Respond(r, "done", 202) /\ queue' = queue \cup {r}
              /\ UNCHANGED <<vars, stored>> /\ r \in InFlight
            BY <2>3 DEF AnswerTask, InFlight, world
        <3> QED
            BY <1>1, <3>1, <3>2 DEF ProcessInv, QueueConsistent
    <2> QED
        BY <1>3, <2>1, <2>2, <2>3 DEF Handle
<1>4. CASE Handle(r)
    <2>1. PICK pc \in {"committed", "streaming", "done", "cut"}, status \in Nat :
                /\ r \in InFlight /\ status # 429 /\ (pc = "streaming" => status = 200)
                /\ pc = "committed" => status = 0 /\ r \in stored'
                /\ Respond(r, pc, status) /\ UNCHANGED vars
                /\ stored \subseteq stored' /\ queue \subseteq queue' /\ queue' \subseteq stored'
                /\ status = 202 => r \in stored' /\ r \in queue'
        BY <1>3, <1>4
    <2>2. CallsInv'
        BY <1>1, <1>2, <2>1, Answered
    <2>3. phase \in {"serving", "draining"} /\ workers \in {"idle", "busy"}
        BY <1>1, <2>1 DEF ProcessInv, FollowsPhases
    <2>4. FollowsPhases' /\ QueueConsistent'
        BY <1>1, <1>2, <2>1, <2>3 DEF ProcessInv, FollowsPhases, QueueConsistent
    <2>5. AcceptedTaskIsKept'
        <3> SUFFICES ASSUME NEW q \in Request, calls'[q].status = 202
                     PROVE  q \in stored' /\ q \in tried \cup orphans \cup queue'
            BY <1>2, <2>3 DEF AcceptedTaskIsKept
        <3>1. CASE q = r
            <4>1. calls'[r].status = status
                BY <1>2, <2>1 DEF Respond, CallRecord
            <4> QED
                BY <2>1, <3>1, <4>1
        <3>2. CASE q # r
            <4>1. calls'[q] = calls[q]
                BY <1>2, <2>1, <3>2 DEF Respond
            <4> QED
                BY <1>1, <2>1, <2>3, <4>1 DEF ProcessInv, AcceptedTaskIsKept
        <3> QED
            BY <3>1, <3>2
    <2> QED
        BY <2>2, <2>4, <2>5 DEF AppIInv, CallsInv
<1>5. ASSUME NEW route \in Routes, Receive(r, route)
      PROVE  AppIInv'
    <2>1. CallsInv'
        BY <1>1, <1>5, Received
    <2>2. phase = "serving" /\ queue' = queue /\ stored' = stored
        BY <1>5 DEF Receive, process, world
    <2>3. FollowsPhases' /\ QueueConsistent'
        BY <1>1, <1>2, <2>2 DEF ProcessInv, FollowsPhases, QueueConsistent
    <2>4. AcceptedTaskIsKept'
        <3> SUFFICES ASSUME NEW q \in Request, calls'[q].status = 202
                     PROVE  calls[q].status = 202
            BY <1>1, <1>2, <2>2 DEF ProcessInv, AcceptedTaskIsKept
        <3>1. /\ \E status \in {0, 429}, pc \in {"handling", "done"} : Taken(r, route, pc, status)
            BY <1>5 DEF Receive
        <3>2. q # r /\ calls'[q] = calls[q]
            BY <1>2, <3>1 DEF Taken
        <3> QED
            BY <3>2
    <2> QED
        BY <2>1, <2>3, <2>4 DEF AppIInv, CallsInv
<1> QED
    BY <1>4, <1>5

\* Crashes, restarts, outages and the clock keep the invariant.
LEMMA WorldStep == AppIInv /\ (DatabaseChanges \/ Crash \/ Restart \/ Time) => AppIInv'
<1> SUFFICES ASSUME AppIInv, DatabaseChanges \/ Crash \/ Restart \/ Time PROVE AppIInv'
    OBVIOUS
<1>1. CallsInv /\ ProcessInv
    BY DEF AppIInv, CallsInv, ProcessInv
<1>2. calls \in [Request -> CallRecord] /\ now \in Nat /\ stored' = stored
    BY <1>1 DEF CallsInv, AppTypeOK, IInv, TypeOK, DatabaseChanges, Crash, Restart, Time, world
<1>3. CASE DatabaseChanges \/ Time
    <2>1. /\ UNCHANGED <<windows, accepted, answer, calls, phase, startup, pool, workers, queue>>
          /\ UNCHANGED now \/ Tick
        BY <1>3 DEF DatabaseChanges, Time, Tick, vars, process
    <2>2. CallsInv'
        BY <1>1, <1>2, <2>1, CallsLeftAlone DEF CallsInv, AppTypeOK
    <2>3. tried' = tried /\ orphans' = orphans
        BY <1>3 DEF DatabaseChanges, Time, world
    <2>4. FollowsPhases' /\ QueueConsistent' /\ AcceptedTaskIsKept'
        BY <1>1, <1>2, <2>1, <2>3
           DEF ProcessInv, FollowsPhases, QueueConsistent, AcceptedTaskIsKept, InFlight
    <2> QED
        BY <2>2, <2>4 DEF AppIInv, CallsInv
<1>4. CASE Crash
    <2>1. CallsInv'
        BY <1>1, <1>4, Ended DEF Crash
    <2>2. ASSUME NEW r \in Request
          PROVE  calls'[r].status = calls[r].status /\ r \notin InFlight'
        <3>1. calls[r] \in CallRecord
            BY <1>2
        <3>2. calls'[r] = IF r \in InFlight THEN [calls[r] EXCEPT !.pc = "lost"] ELSE calls[r]
            BY <1>4 DEF Crash
        <3> QED
            BY <3>1, <3>2 DEF InFlight, CallRecord
    <2>3. FollowsPhases'
        BY <1>4, <2>2 DEF Crash, FollowsPhases, InFlight
    <2>4. QueueConsistent' /\ AcceptedTaskIsKept'
        BY <1>1, <1>2, <1>4, <2>2 DEF Crash, ProcessInv, QueueConsistent, AcceptedTaskIsKept
    <2> QED
        BY <2>1, <2>3, <2>4 DEF AppIInv, CallsInv
<1>5. CASE Restart
    <2>1. CallsInv'
        BY <1>1, <1>2, <1>5, StartedAgain DEF Restart, CallsInv, AppTypeOK, world
    <2>2. FollowsPhases' /\ QueueConsistent' /\ AcceptedTaskIsKept'
        BY <1>1, <1>2, <1>5 DEF Restart, ProcessInv, FollowsPhases, QueueConsistent,
           AcceptedTaskIsKept, InFlight, world
    <2> QED
        BY <2>1, <2>2 DEF AppIInv, CallsInv
<1> QED
    BY <1>3, <1>4, <1>5

\* Every step of the process, of its requests and of the world keeps the invariant.
LEMMA AppNextIInv == AppIInv /\ [AppNext]_appVars => AppIInv'
<1> SUFFICES ASSUME AppIInv, [AppNext]_appVars PROVE AppIInv'
    OBVIOUS
<1>1. CASE Lifespan \/ Stop
    BY <1>1, LifespanStep
<1>2. CASE DatabaseChanges \/ Crash \/ Restart \/ Time
    BY <1>2, WorldStep
<1>3. CASE \E r \in Request : Handle(r) \/ \E route \in Routes : Receive(r, route)
    BY <1>3, RequestStep
<1>4. CASE UNCHANGED appVars
    <2>1. UNCHANGED <<vars, phase, startup, pool, workers, queue, calls, stored, tried, orphans>>
        BY <1>4 DEF appVars, process, world
    <2>2. CallsInv'
        BY <2>1, CallsLeftAlone DEF AppIInv, CallsInv, AppTypeOK, vars
    <2> QED
        BY <2>1, <2>2 DEF AppIInv, CallsInv, FollowsPhases, QueueConsistent,
           AcceptedTaskIsKept, InFlight
<1> QED
    BY <1>1, <1>2, <1>3, <1>4 DEF AppNext

----------------------------------------------------------------------------
\* The invariant holds whatever startups, stops, outages and crashes there are.
THEOREM ApplicationInvariance == AppSpec => []AppIInv
BY AppInitIInv, AppNextIInv, PTL DEF AppSpec

\* Requests and workers find the repository open, from the first request of a process to
\* its last worker: the order in which the lifespan opens and closes things.
THEOREM RepositoryIsOpenForUsers == AppSpec => []RepositoryOutlivesItsUsers
<1>1. AppIInv => RepositoryOutlivesItsUsers
    BY DEF AppIInv, FollowsPhases, RepositoryOutlivesItsUsers
<1> QED
    BY <1>1, ApplicationInvariance, PTL

\* A task that was accepted has its row, and waits for a worker, was taken by one or is
\* left to the next start, however commits, answers, sentinels and crashes fall together.
THEOREM AcceptedTasksAreKept == AppSpec => []AcceptedTaskIsKept
<1>1. AppIInv => AcceptedTaskIsKept
    BY DEF AppIInv
<1> QED
    BY <1>1, ApplicationInvariance, PTL

\* In no window do the handlers of one process work on more chats, more searches, or more
\* runs and streams of the agent together, than the limit.
THEOREM WorkStaysWithinLimit == AppSpec => []WorkKeptWithinLimit
<1>1. AppIInv => WorkKeptWithinLimit
    BY DEF AppIInv
<1> QED
    BY <1>1, ApplicationInvariance, PTL

\* A limiter that is emptied by crashes and closes still keeps its limit, and refuses
\* nobody below it.
THEOREM LimiterSurvivesRestarts == AppSpec => [](LimitKept /\ RefusedOnlyAtLimit)
<1>1. AppIInv => LimitKept /\ RefusedOnlyAtLimit
    BY DEF AppIInv, IInv
<1> QED
    BY <1>1, ApplicationInvariance, PTL
=============================================================================
