----------------------- MODULE RedisRateLimiterProofs ------------------------
(***************************************************************************)
(* Proofs about RedisRateLimiter, for every number of replicas and         *)
(* requests, every limit and window, and every delay and skew: how many     *)
(* requests a window may hold, and that nobody is refused below the limit.  *)
(***************************************************************************)
EXTENDS RedisRateLimiter, FiniteSetTheorems, TLAPS

----------------------------------------------------------------------------
(* What the numbers are.                                                    *)

\* The parameters are integers.
LEMMA Numbers ==
    /\ Limit \in Nat /\ Window \in Nat /\ Window > 0 /\ Slack \in Nat
    /\ MaxDelay \in Nat /\ MaxSkew \in Nat /\ MaxTime \in Nat /\ MaxSkew <= MaxTime
    /\ Disorder \in Nat /\ Disorder = MaxDelay + MaxSkew
BY ParametersAssumption DEF Disorder

\* A replica's clock is slow by at most MaxSkew.
LEMMA Arrivals ==
    ASSUME TypeOK, NEW q \in Request
    PROVE  /\ Arrived(q) \in Nat /\ reading[q] \in Nat /\ now \in Nat
           /\ reading[q] <= Arrived(q) /\ Arrived(q) <= reading[q] + MaxSkew
<1>1. /\ reading[q] \in 0 .. MaxTime /\ offset[home[q]] \in 0 .. MaxSkew
      /\ now \in MaxSkew .. MaxTime
    BY DEF TypeOK
<1> QED
    BY <1>1, Numbers DEF Arrived

\* Sets of requests, and the ZSETs of consistent members, are finite.
LEMMA RequestsFinite ==
    ASSUME NEW S \in SUBSET Request
    PROVE  IsFiniteSet(S) /\ Cardinality(S) \in Nat
BY RequestAssumption, FS_Subset, FS_CardinalityType

\* The requests of a key that may be members, not older than the cutoff.
Executed(k, cutoff) ==
    {p \in Request : /\ pc[p] \in {"allowed", "failed"} /\ key[p] = k
                     /\ reading[p] > cutoff}

\* What the script keeps are members above the cutoff, each named by one of
\* these requests.
LEMMA KeptMembers ==
    ASSUME IInv, NEW k \in Key, NEW cutoff \in Int
    PROVE  /\ Kept(k, cutoff) = {m \in Live(k) : m.at > cutoff}
           /\ IsFiniteSet(Kept(k, cutoff)) /\ Cardinality(Kept(k, cutoff)) \in Nat
           /\ Cardinality(Kept(k, cutoff)) <= Cardinality(Executed(k, cutoff))
<1> DEFINE kept == Kept(k, cutoff)
           named == {p \in Executed(k, cutoff) : MemberOf(p) \in kept}
           name == [p \in named |-> MemberOf(p)]
<1>1. Live(k) \subseteq zset[k] /\ zset[k] \subseteq Member
    BY DEF IInv, TypeOK, Live
<1>2. kept = {m \in Live(k) : m.at > cutoff}
    <2>1. \A m \in Live(k) : m.at \in Nat
        BY <1>1, Numbers DEF Member
    <2> QED
        BY <2>1 DEF Kept
<1> HIDE DEF kept
<1>3. ASSUME NEW m \in kept
      PROVE  \E p \in named : name[p] = m
    <2>1. PICK p \in Request :
              pc[p] \in {"allowed", "failed"} /\ key[p] = k /\ MemberOf(p) = m
        BY <1>1, <1>2 DEF IInv, MembersConsistent
    <2>2. reading[p] > cutoff
        BY <1>2, <2>1 DEF MemberOf
    <2>3. p \in named
        BY <2>1, <2>2 DEF Executed
    <2> QED
        BY <2>1, <2>3
<1>4. name \in Surjection(named, kept)
    BY <1>3 DEF Surjection
<1>5. IsFiniteSet(named) /\ IsFiniteSet(Executed(k, cutoff))
    BY RequestsFinite DEF Executed
<1>6. IsFiniteSet(kept) /\ Cardinality(kept) <= Cardinality(named)
    <2> HIDE DEF named, name
    <2> QED
        BY <1>4, <1>5, FS_Surjection
<1>7. Cardinality(named) <= Cardinality(Executed(k, cutoff))
    BY <1>5, FS_Subset
<1> QED
    <2> HIDE DEF named
    <2>1. /\ Cardinality(kept) \in Nat /\ Cardinality(named) \in Nat
          /\ Cardinality(Executed(k, cutoff)) \in Nat
        BY <1>5, <1>6, FS_CardinalityType
    <2>2. Cardinality(kept) <= Cardinality(Executed(k, cutoff))
        BY <1>6, <1>7, <2>1
    <2> QED
        BY <1>2, <1>6, <2>1, <2>2 DEF kept

----------------------------------------------------------------------------
(* What no step changes.                                                    *)

\* A request that has arrived keeps its client, its replica and its reading,
\* and one that has ended stays as it ended.
LEMMA ArrivedStays ==
    ASSUME TypeOK, [Next]_vars, NEW p \in Request, pc[p] # "new"
    PROVE  /\ pc'[p] # "new" /\ key'[p] = key[p] /\ home'[p] = home[p]
           /\ reading'[p] = reading[p] /\ offset' = offset
           /\ pc[p] # "sent" => pc'[p] = pc[p]
<1>1. pc \in [Request -> {"new", "sent", "allowed", "refused", "failed"}]
    BY DEF TypeOK
<1>2. ASSUME NEW q \in Request, Arrive(q)
      PROVE  /\ pc'[p] # "new" /\ key'[p] = key[p] /\ home'[p] = home[p]
             /\ reading'[p] = reading[p] /\ offset' = offset
             /\ pc[p] # "sent" => pc'[p] = pc[p]
    BY <1>1, <1>2 DEF Arrive, TypeOK
<1>3. ASSUME NEW q \in Request, Script(q)
      PROVE  /\ pc'[p] # "new" /\ key'[p] = key[p] /\ home'[p] = home[p]
             /\ reading'[p] = reading[p] /\ offset' = offset
             /\ pc[p] # "sent" => pc'[p] = pc[p]
    BY <1>1, <1>3 DEF Script, ScriptAllows, ScriptRefuses
<1>4. ASSUME NEW q \in Request, Fail(q)
      PROVE  /\ pc'[p] # "new" /\ key'[p] = key[p] /\ home'[p] = home[p]
             /\ reading'[p] = reading[p] /\ offset' = offset
             /\ pc[p] # "sent" => pc'[p] = pc[p]
    BY <1>1, <1>4 DEF Fail
<1>5. ASSUME Tick \/ Idle \/ UNCHANGED vars
      PROVE  /\ pc'[p] # "new" /\ key'[p] = key[p] /\ home'[p] = home[p]
             /\ reading'[p] = reading[p] /\ offset' = offset
             /\ pc[p] # "sent" => pc'[p] = pc[p]
    BY <1>5 DEF Tick, Idle, vars, requestVars
<1> QED
    BY <1>2, <1>3, <1>4, <1>5 DEF Next

\* So the requests that may be members only become more.
LEMMA ExecutedGrows ==
    ASSUME TypeOK, [Next]_vars, NEW k, NEW cutoff \in Int
    PROVE  /\ Executed(k, cutoff) \subseteq Executed(k, cutoff)'
           /\ Cardinality(Executed(k, cutoff)) <= Cardinality(Executed(k, cutoff)')
<1>1. Executed(k, cutoff) \subseteq Executed(k, cutoff)'
    BY ArrivedStays DEF Executed
<1>2. IsFiniteSet(Executed(k, cutoff)')
    <2>1. Executed(k, cutoff)' \subseteq Request
        BY DEF Executed
    <2> QED
        BY <2>1, RequestsFinite
<1> QED
    BY <1>1, <1>2, FS_Subset

----------------------------------------------------------------------------
(* The invariant holds at first, and every step keeps its parts.            *)

\* Nobody has come yet.
LEMMA InitIInv == Init => IInv
<1> SUFFICES ASSUME Init PROVE IInv
    OBVIOUS
<1>1. TypeOK
    BY Numbers DEF Init, TypeOK
<1>2. \A q \in Request : RequestConsistent(q)
    BY DEF Init, RequestConsistent
<1>3. NamesDiffer /\ MembersConsistent /\ RefusedOnlyAtLimit
    BY DEF Init, NamesDiffer, MembersConsistent, RefusedOnlyAtLimit
<1>4. ShortWindowsKeepLimit
    <2>1. ASSUME NEW k \in Key, NEW t \in 0 .. MaxTime
          PROVE  Cardinality(Through(k, t, Window - Disorder)) <= Limit
        <3>1. Through(k, t, Window - Disorder) = {}
            BY DEF Through, Init
        <3> QED
            BY <3>1, FS_EmptySet, Numbers
    <2> QED
        BY <2>1 DEF ShortWindowsKeepLimit, AtMostLimit
<1> QED
    BY <1>1, <1>2, <1>3, <1>4 DEF IInv

\* Every step keeps the types: a reading is never before the first moment.
LEMMA NextTypeOK ==
    ASSUME TypeOK, [Next]_vars
    PROVE  TypeOK'
<1>0. /\ now \in MaxSkew .. MaxTime /\ now \in Nat /\ now <= MaxTime
      /\ now + Window + Slack \in 0 .. MaxTime + Window + Slack
    BY Numbers DEF TypeOK
<1>1. ASSUME NEW q \in Request, Arrive(q)
      PROVE  TypeOK'
    <2> DEFINE t == now - offset[home[q]]
    <2>1. t \in 0 .. MaxTime
        <3>1. offset[home[q]] \in 0 .. MaxSkew
            BY DEF TypeOK
        <3> QED
            BY <1>0, <3>1, Numbers
    <2>2. reading' = [reading EXCEPT ![q] = t]
        BY <1>1 DEF Arrive
    <2> HIDE DEF t
    <2>3. reading' \in [Request -> 0 .. MaxTime]
        BY <2>1, <2>2 DEF TypeOK
    <2> QED
        BY <1>1, <2>3 DEF Arrive, TypeOK
<1>2. ASSUME NEW q \in Request, Script(q)
      PROVE  TypeOK'
    <2> DEFINE members == Kept(key[q], reading[q] - Window)
    <2>1. key[q] \in Key /\ members \subseteq Member /\ MemberOf(q) \in Member
        BY DEF TypeOK, Kept, Live, MemberOf, Member
    <2>2. pc' \in [Request -> {"new", "sent", "allowed", "refused", "failed"}]
        BY <1>2 DEF TypeOK, Script, ScriptAllows, ScriptRefuses
    <2>3. zset' \in [Key -> SUBSET Member]
        <3> HIDE DEF members
        <3>1. \/ zset' = [zset EXCEPT ![key[q]] = members]
              \/ zset' = [zset EXCEPT ![key[q]] = members \cup {MemberOf(q)}]
            BY <1>2 DEF Script, ScriptAllows, ScriptRefuses, Add, members
        <3> QED
            BY <2>1, <3>1 DEF TypeOK
    <2>4. expiry' \in [Key -> 0 .. MaxTime + Window + Slack]
        <3> DEFINE e == now + Window + Slack
        <3>1. expiry' = expiry \/ expiry' = [expiry EXCEPT ![key[q]] = e]
            BY <1>2 DEF Script, ScriptAllows, ScriptRefuses, Add
        <3>2. e \in 0 .. MaxTime + Window + Slack
            BY <1>0
        <3> HIDE DEF e
        <3> QED
            BY <2>1, <3>1, <3>2 DEF TypeOK
    <2> QED
        BY <1>2, <2>2, <2>3, <2>4 DEF TypeOK, Script
<1>3. ASSUME NEW q \in Request, Fail(q)
      PROVE  TypeOK'
    BY <1>3 DEF Fail, TypeOK
<1>4. CASE Tick
    <2>1. now' \in MaxSkew .. MaxTime
        BY <1>0, <1>4, Numbers DEF Tick
    <2> QED
        BY <1>4, <2>1 DEF Tick, TypeOK, requestVars
<1>5. CASE Idle \/ UNCHANGED vars
    BY <1>5 DEF Idle, vars, requestVars, TypeOK
<1> QED
    BY <1>1, <1>2, <1>3, <1>4, <1>5 DEF Next

\* A reading is never later than the time.
LEMMA ReadingsArePast ==
    ASSUME TypeOK, NEW q \in Request, RequestConsistent(q), pc[q] # "new"
    PROVE  reading[q] <= now
<1>1. /\ reading[q] <= Arrived(q) /\ Arrived(q) <= now
      /\ reading[q] \in Nat /\ Arrived(q) \in Nat /\ now \in Nat
    BY Arrivals DEF RequestConsistent
<1> QED
    BY <1>1

\* A consistent member outlives the window of every request yet to come.
LEMMA MembersOutlive ==
    ASSUME TypeOK, MembersConsistent, NEW k \in Key, NEW m \in zset[k],
           NEW time \in Nat, m.at > time - Window
    PROVE  time < expiry[k]
<1>1. m.at \in Nat /\ expiry[k] \in Nat
    BY Numbers DEF TypeOK, Member
<1>2. m.at + Window + Slack <= expiry[k]
    BY DEF MembersConsistent
<1> QED
    BY <1>1, <1>2, Numbers

\* The script keeps the members of every request that was let through and that
\* a later request may still find in its window.
LEMMA ScriptKeepsYoung ==
    ASSUME IInv, NEW q \in Request, pc[q] = "sent",
           NEW p \in Request, pc[p] = "allowed", key[p] = key[q], reading[p] > now - Window
    PROVE  MemberOf(p) \in Kept(key[q], reading[q] - Window)
<1>1. reading[q] <= now /\ reading[q] \in Nat /\ reading[p] \in Nat /\ now \in Nat
    BY ReadingsArePast, Arrivals DEF IInv
<1>2. MemberOf(p) \in Live(key[q])
    BY <1>1, Numbers DEF IInv, RequestConsistent
<1>3. reading[p] > reading[q] - Window
    BY <1>1, Numbers
<1> QED
    BY <1>1, <1>2, <1>3, Numbers DEF Kept, MemberOf

\* A step of the script keeps the members that may still count.
LEMMA ScriptConsistent ==
    ASSUME IInv, NEW q \in Request, Script(q), NEW p \in Request
    PROVE  RequestConsistent(p)'
<1> DEFINE k == key[q]
           members == Kept(k, reading[q] - Window)
<1>1. TypeOK /\ pc[q] = "sent" /\ k \in Key
    BY DEF IInv, TypeOK, Script
<1>2. /\ now' = now /\ key' = key /\ Arrived(p)' = Arrived(p) /\ MemberOf(p)' = MemberOf(p)
      /\ reading' = reading /\ pc'[q] \in {"allowed", "refused", "failed"}
      /\ p # q => pc'[p] = pc[p]
    BY <1>1 DEF TypeOK, Script, ScriptAllows, ScriptRefuses, Arrived, MemberOf
<1>3. RequestConsistent(p)
    BY DEF IInv
<1>4. pc'[p] # "new" => Arrived(p) <= now
    BY <1>1, <1>2, <1>3 DEF RequestConsistent
<1>5. pc'[p] = "sent" => Arrived(p) >= now - MaxDelay
    BY <1>2, <1>3 DEF RequestConsistent
<1>6. ASSUME pc'[p] = "allowed", ~(reading[p] <= now - Window)
      PROVE  MemberOf(p) \in Live(key[p])'
    <2>0. /\ zset \in [Key -> SUBSET Member] /\ expiry \in [Key -> 0 .. MaxTime + Window + Slack]
          /\ key[p] \in Key /\ now \in Nat /\ reading[p] \in Nat
        BY <1>1, Arrivals DEF TypeOK
    <2>1. reading[p] > now - Window
        BY <1>6, <2>0, Numbers
    <2>2. CASE p # q /\ key[p] # k
        <3>1. zset'[key[p]] = zset[key[p]] /\ expiry'[key[p]] = expiry[key[p]]
            BY <2>0, <2>2 DEF Script, ScriptAllows, ScriptRefuses, Add
        <3>2. MemberOf(p) \in Live(key[p])
            BY <1>2, <1>3, <1>6, <2>2 DEF RequestConsistent
        <3> QED
            BY <1>2, <3>1, <3>2 DEF Live
    <2>3. CASE p # q /\ key[p] = k
        <3>1. MemberOf(p) \in members
            BY <1>1, <1>2, <1>6, <2>1, <2>3, ScriptKeepsYoung
        <3>2. now < expiry[k]
            BY <3>1 DEF Kept, Live
        <3> HIDE DEF members
        <3>3. MemberOf(p) \in zset'[k]
            BY <1>1, <2>0, <3>1 DEF Script, ScriptAllows, ScriptRefuses, Add, members
        <3>4. now < expiry'[k]
            <4>1. expiry'[k] = expiry[k] \/ expiry'[k] = now + Window + Slack
                BY <1>1, <2>0 DEF Script, ScriptAllows, ScriptRefuses, Add
            <4> QED
                BY <2>0, <3>2, <4>1, Numbers
        <3> QED
            BY <1>2, <2>3, <3>3, <3>4 DEF Live
    <2>4. CASE p = q
        <3>1. ScriptAllows(q)
            BY <1>1, <1>6, <2>4 DEF Script, ScriptRefuses, TypeOK
        <3>2. MemberOf(q) \in zset'[k] /\ expiry'[k] = now + Window + Slack
            BY <1>1, <2>0, <3>1 DEF ScriptAllows, Add
        <3>3. now < expiry'[k]
            BY <2>0, <3>2, Numbers
        <3> QED
            BY <1>2, <2>4, <3>2, <3>3 DEF Live
    <2> QED
        BY <2>2, <2>3, <2>4
<1> QED
    BY <1>2, <1>4, <1>5, <1>6 DEF RequestConsistent

\* A step of the script leaves members with names and with time to live.
LEMMA ScriptMembers ==
    ASSUME IInv, NEW q \in Request, Script(q)
    PROVE  MembersConsistent'
<1> DEFINE k == key[q]
           members == Kept(k, reading[q] - Window)
<1>1. TypeOK /\ pc[q] = "sent" /\ k \in Key /\ now \in Nat /\ reading[q] \in Nat
    BY Arrivals DEF IInv, TypeOK, Script
<1>2. /\ zset \in [Key -> SUBSET Member] /\ expiry \in [Key -> 0 .. MaxTime + Window + Slack]
      /\ key' = key /\ \A p \in Request : p # q => pc'[p] = pc[p]
      /\ \A p \in Request : MemberOf(p)' = MemberOf(p)
    BY <1>1 DEF TypeOK, Script, ScriptAllows, ScriptRefuses, MemberOf
<1>3. members \subseteq zset[k]
    BY DEF Kept, Live
<1>4. ASSUME NEW j \in Key, NEW m \in zset[j]
      PROVE  /\ m.at + Window + Slack <= expiry[j] /\ m.at + Window + Slack <= now + Window + Slack
             /\ \E p \in Request :
                   pc'[p] \in {"allowed", "failed"} /\ key[p] = j /\ MemberOf(p) = m
    <2>1. m.at + Window + Slack <= expiry[j]
        BY DEF IInv, MembersConsistent
    <2>2. PICK p \in Request :
              pc[p] \in {"allowed", "failed"} /\ key[p] = j /\ MemberOf(p) = m
        BY DEF IInv, MembersConsistent
    <2>3. reading[p] <= now /\ reading[p] = m.at /\ reading[p] \in Nat
        BY <1>1, <2>2, ReadingsArePast, Arrivals DEF IInv, MemberOf
    <2>4. m.at + Window + Slack <= now + Window + Slack
        BY <1>1, <2>3, Numbers
    <2>5. pc'[p] = pc[p]
        BY <1>1, <1>2, <2>2
    <2> QED
        BY <2>1, <2>2, <2>4, <2>5
<1> HIDE DEF members
<1>5. CASE ScriptAllows(q)
    <2>1. zset' = [zset EXCEPT ![k] = members \cup {MemberOf(q)}]
        BY <1>5 DEF ScriptAllows, Add, members
    <2>2. expiry' = [expiry EXCEPT ![k] = now + Window + Slack]
        BY <1>5 DEF ScriptAllows, Add
    <2>3. pc'[q] \in {"allowed", "failed"}
        BY <1>1, <1>5 DEF ScriptAllows, TypeOK
    <2> SUFFICES ASSUME NEW j \in Key, NEW m \in zset'[j]
                 PROVE  /\ m.at + Window + Slack <= expiry'[j]
                        /\ \E p \in Request :
                              pc'[p] \in {"allowed", "failed"} /\ key[p] = j /\ MemberOf(p) = m
        BY <1>2 DEF MembersConsistent
    <2>4. CASE j # k
        BY <1>2, <1>4, <2>1, <2>2, <2>4
    <2>5. CASE j = k /\ m \in members
        BY <1>1, <1>2, <1>3, <1>4, <2>2, <2>5
    <2>6. CASE j = k /\ m = MemberOf(q)
        <3>1. m.at = reading[q] /\ reading[q] <= now
            BY <1>1, <2>6, ReadingsArePast DEF IInv, MemberOf
        <3>2. m.at + Window + Slack <= now + Window + Slack
            BY <1>1, <3>1, Numbers
        <3> QED
            BY <1>1, <1>2, <2>2, <2>3, <2>6, <3>2
    <2> QED
        BY <1>1, <1>2, <2>1, <2>4, <2>5, <2>6
<1>6. CASE ScriptRefuses(q)
    <2>1. zset' = [zset EXCEPT ![k] = members] /\ expiry' = expiry
        BY <1>6 DEF ScriptRefuses, members
    <2>2. ASSUME NEW j \in Key, NEW m \in zset'[j]
          PROVE  m \in zset[j]
        BY <1>1, <1>2, <1>3, <2>1, <2>2
    <2> QED
        BY <1>2, <1>4, <2>1, <2>2 DEF MembersConsistent
<1> QED
    BY <1>5, <1>6 DEF Script

\* Those let through in a short window that a later request belongs to are
\* members that the script of that request keeps, under different names.
LEMMA ShortWindowIsKept ==
    ASSUME IInv, NEW q \in Request, pc[q] = "sent", NEW t \in 0 .. MaxTime, Arrived(q) <= t
    PROVE  Cardinality(Through(key[q], t, Window - Disorder))
               <= Cardinality(Kept(key[q], reading[q] - Window))
<1> DEFINE through == Through(key[q], t, Window - Disorder)
           members == Kept(key[q], reading[q] - Window)
           name == [p \in through |-> MemberOf(p)]
<1>1. /\ TypeOK /\ key[q] \in Key /\ now \in Nat /\ reading[q] \in Nat /\ Arrived(q) \in Nat
      /\ Arrived(q) >= now - MaxDelay /\ t \in Nat
    BY Arrivals, Numbers DEF IInv, TypeOK, RequestConsistent
<1>2. ASSUME NEW p \in through
      PROVE  MemberOf(p) \in members
    <2>1. /\ p \in Request /\ pc[p] = "allowed" /\ key[p] = key[q]
          /\ t - (Window - Disorder) < Arrived(p)
        BY DEF Through
    <2>2. /\ Arrived(p) \in Nat /\ reading[p] \in Nat /\ Arrived(p) <= reading[p] + MaxSkew
        BY <1>1, <2>1, Arrivals
    <2>3. reading[p] > now - Window
        BY <1>1, <2>1, <2>2, Numbers
    <2> QED
        BY <2>1, <2>3, ScriptKeepsYoung
<1>3. ASSUME NEW p \in through, NEW r \in through, MemberOf(p) = MemberOf(r)
      PROVE  p = r
    BY <1>3 DEF IInv, NamesDiffer, Through
<1>4. name \in Injection(through, members)
    BY <1>2, <1>3 DEF Injection, IsInjective
<1>5. IsFiniteSet(members)
    <2>1. reading[q] - Window \in Int
        BY <1>1, Numbers
    <2> QED
        BY <1>1, <2>1, KeptMembers
<1> QED
    <2> HIDE DEF through, members, name
    <2>1. Cardinality(through) <= Cardinality(members)
        BY <1>4, <1>5, FS_Injection
    <2> QED
        BY <2>1 DEF through, members

\* A window that gets no new request holds no more than before.
LEMMA NoNewRequest ==
    ASSUME TypeOK, [Next]_vars, NEW k \in Key, NEW t \in 0 .. MaxTime, NEW width \in Int,
           \A p \in Through(k, t, width)' : pc[p] = "allowed",
           Cardinality(Through(k, t, width)) <= Limit
    PROVE  Cardinality(Through(k, t, width)') <= Limit
<1>1. Through(k, t, width)' \subseteq Through(k, t, width)
    BY ArrivedStays DEF Through, Arrived
<1>2. IsFiniteSet(Through(k, t, width)) /\ Cardinality(Through(k, t, width)) \in Nat
    BY RequestsFinite DEF Through
<1>3. /\ Cardinality(Through(k, t, width)') <= Cardinality(Through(k, t, width))
      /\ IsFiniteSet(Through(k, t, width)')
    BY <1>1, <1>2, FS_Subset
<1>4. Cardinality(Through(k, t, width)') \in Nat
    BY <1>3, FS_CardinalityType
<1> QED
    BY <1>2, <1>3, <1>4, Numbers

\* A step of the script fills no short window beyond the limit.
LEMMA ScriptShortWindows ==
    ASSUME IInv, NEW q \in Request, Script(q)
    PROVE  ShortWindowsKeepLimit'
<1> DEFINE width == Window - Disorder
<1>1. TypeOK /\ pc[q] = "sent" /\ key[q] \in Key /\ [Next]_vars /\ width \in Int
    BY Numbers DEF IInv, TypeOK, Script, Next
<1>2. \A p \in Request : p # q => pc'[p] = pc[p]
    BY <1>1 DEF TypeOK, Script, ScriptAllows, ScriptRefuses
<1> SUFFICES ASSUME NEW k \in Key, NEW t \in 0 .. MaxTime
             PROVE  Cardinality(Through(k, t, width)') <= Limit
    BY DEF ShortWindowsKeepLimit, AtMostLimit, Disorder, Through
<1>3. Cardinality(Through(k, t, width)) <= Limit
    BY DEF IInv, ShortWindowsKeepLimit, AtMostLimit
<1>4. CASE q \notin Through(k, t, width)'
    <2>1. \A p \in Through(k, t, width)' : pc[p] = "allowed"
        BY <1>2, <1>4 DEF Through
    <2> HIDE DEF width
    <2> QED
        BY <1>1, <1>3, <2>1, NoNewRequest
<1>5. CASE q \in Through(k, t, width)'
    <2>1. /\ pc'[q] = "allowed" /\ key[q] = k /\ Arrived(q) <= t
          /\ \A p \in Through(k, t, width)' : p # q => p \in Through(k, t, width)
        BY <1>1, <1>2, <1>5, ArrivedStays DEF Through, Arrived
    <2>2. Cardinality(Kept(k, reading[q] - Window)) < Limit
        <3>1. ScriptAllows(q)
            BY <1>1, <2>1 DEF Script, ScriptRefuses, TypeOK
        <3> QED
            BY <2>1, <3>1 DEF ScriptAllows
    <2>3. Cardinality(Through(k, t, width)) <= Cardinality(Kept(k, reading[q] - Window))
        BY <1>1, <2>1, ShortWindowIsKept
    <2>4. IsFiniteSet(Through(k, t, width)) /\ Cardinality(Through(k, t, width)) \in Nat
        BY RequestsFinite DEF Through
    <2>5. Cardinality(Kept(k, reading[q] - Window)) \in Nat
        <3>1. reading[q] - Window \in Int
            BY <1>1, Arrivals, Numbers
        <3> QED
            BY <3>1, KeptMembers
    <2>6. /\ q \notin Through(k, t, width)
          /\ Through(k, t, width)' \subseteq Through(k, t, width) \cup {q}
        BY <1>1, <2>1 DEF Through
    <2>7. /\ IsFiniteSet(Through(k, t, width) \cup {q})
          /\ Cardinality(Through(k, t, width) \cup {q}) = Cardinality(Through(k, t, width)) + 1
        BY <2>4, <2>6, FS_AddElement
    <2>8. /\ Cardinality(Through(k, t, width)') <= Cardinality(Through(k, t, width) \cup {q})
          /\ IsFiniteSet(Through(k, t, width)')
        BY <2>6, <2>7, FS_Subset
    <2>9. Cardinality(Through(k, t, width)') \in Nat
        BY <2>8, FS_CardinalityType
    <2> HIDE DEF width
    <2> QED
        BY <2>2, <2>3, <2>4, <2>5, <2>7, <2>8, <2>9, Numbers
<1> QED
    BY <1>4, <1>5

\* Every step leaves each request that was refused as many others as the limit;
\* a newly refused one has those that the script counted.
LEMMA NextRefused ==
    ASSUME IInv, [Next]_vars
    PROVE  RefusedOnlyAtLimit'
<1>1. TypeOK
    BY DEF IInv
<1> SUFFICES ASSUME NEW q \in Request, pc'[q] = "refused"
             PROVE  Limit <= Cardinality({p \in Request :
                                             /\ pc'[p] \in {"allowed", "failed"}
                                             /\ key'[p] = key'[q]
                                             /\ reading'[p] > reading'[q] - Window})
    BY DEF RefusedOnlyAtLimit
<1>2. pc[q] = "refused" \/ (pc[q] = "sent" /\ ScriptRefuses(q))
    BY <1>1 DEF TypeOK, Next, Arrive, Script, ScriptAllows, ScriptRefuses, Fail, Tick, Idle,
                vars, requestVars
<1>3. key'[q] = key[q] /\ reading'[q] = reading[q]
    BY <1>1, <1>2, ArrivedStays
<1>4. PICK k \in Key, cutoff \in Int : k = key[q] /\ cutoff = reading[q] - Window
    BY <1>1, Arrivals, Numbers DEF TypeOK
<1>5. /\ Cardinality(Executed(k, cutoff)) \in Nat /\ Cardinality(Executed(k, cutoff)') \in Nat
      /\ Cardinality(Executed(k, cutoff)) <= Cardinality(Executed(k, cutoff)')
    <2>1. IsFiniteSet(Executed(k, cutoff)') /\ IsFiniteSet(Executed(k, cutoff))
        <3>1. Executed(k, cutoff)' \subseteq Request /\ Executed(k, cutoff) \subseteq Request
            BY DEF Executed
        <3> QED
            BY <3>1, RequestsFinite
    <2> QED
        BY <1>1, <2>1, ExecutedGrows, FS_CardinalityType
<1>6. Limit <= Cardinality(Executed(k, cutoff))
    <2>1. CASE pc[q] = "refused"
        BY <1>4, <2>1 DEF IInv, RefusedOnlyAtLimit, Executed
    <2>2. CASE ScriptRefuses(q)
        <3>1. Cardinality(Kept(k, cutoff)) >= Limit
            BY <1>4, <2>2 DEF ScriptRefuses
        <3>2. /\ Cardinality(Kept(k, cutoff)) \in Nat
              /\ Cardinality(Kept(k, cutoff)) <= Cardinality(Executed(k, cutoff))
            BY KeptMembers
        <3> QED
            BY <1>5, <3>1, <3>2, Numbers
    <2> QED
        BY <1>2, <2>1, <2>2
<1>7. Limit <= Cardinality(Executed(k, cutoff)')
    BY <1>5, <1>6, Numbers
<1> QED
    BY <1>3, <1>4, <1>7 DEF Executed

\* A request gets a name of its own when it arrives, and keeps it.
LEMMA NextNames ==
    ASSUME IInv, [Next]_vars
    PROVE  NamesDiffer'
<1>1. TypeOK /\ NamesDiffer
    BY DEF IInv
<1>2. ASSUME NEW p \in Request, NEW q \in Request, p # q, pc'[p] # "new", pc'[q] # "new",
             pc[p] # "new"
      PROVE  reading'[p] # reading'[q] \/ home'[p] # home'[q]
    <2>1. reading'[p] = reading[p] /\ home'[p] = home[p]
        BY <1>1, <1>2, ArrivedStays
    <2>2. CASE pc[q] # "new"
        BY <1>1, <1>2, <2>1, <2>2, ArrivedStays DEF NamesDiffer, MemberOf
    <2>3. CASE pc[q] = "new"
        <3>1. Arrive(q)
            BY <1>1, <1>2, <2>3 DEF TypeOK, Next, Arrive, Script, ScriptAllows, ScriptRefuses,
                                    Fail, Tick, Idle, vars, requestVars
        <3>2. reading'[q] = now - offset[home[q]] /\ home'[q] = home[q]
            BY <1>1, <3>1 DEF TypeOK, Arrive
        <3>3. home[p] = home[q] => reading[p] # now - offset[home[q]]
            BY <1>2, <3>1 DEF Arrive
        <3> QED
            BY <2>1, <3>2, <3>3
    <2> QED
        BY <2>2, <2>3
<1>3. ASSUME NEW p \in Request, NEW q \in Request, p # q, pc'[p] # "new", pc'[q] # "new"
      PROVE  pc[p] # "new" \/ pc[q] # "new"
    BY <1>1, <1>3 DEF TypeOK, Next, Arrive, Script, ScriptAllows, ScriptRefuses, Fail, Tick, Idle,
                      vars, requestVars
<1> QED
    BY <1>2, <1>3 DEF NamesDiffer, MemberOf

\* A step that runs no script leaves the members with names.
LEMMA OtherMembers ==
    ASSUME IInv, [Next]_vars, zset' = zset, expiry' = expiry
    PROVE  MembersConsistent'
<1>1. TypeOK
    BY DEF IInv
<1> SUFFICES ASSUME NEW k \in Key, NEW m \in zset[k]
             PROVE  /\ m.at + Window + Slack <= expiry[k]
                    /\ \E q \in Request : /\ pc'[q] \in {"allowed", "failed"} /\ key'[q] = k
                                          /\ [at |-> reading'[q], by |-> home'[q]] = m
    BY DEF MembersConsistent, MemberOf
<1>2. PICK q \in Request : pc[q] \in {"allowed", "failed"} /\ key[q] = k /\ MemberOf(q) = m
    BY DEF IInv, MembersConsistent
<1>3. pc'[q] = pc[q] /\ key'[q] = key[q] /\ home'[q] = home[q] /\ reading'[q] = reading[q]
    BY <1>1, <1>2, ArrivedStays
<1> QED
    BY <1>2, <1>3 DEF IInv, MembersConsistent, MemberOf

\* Nor does it fill a window.
LEMMA OtherShortWindows ==
    ASSUME IInv, [Next]_vars, \A p \in Request : pc'[p] = "allowed" => pc[p] = "allowed"
    PROVE  ShortWindowsKeepLimit'
<1> DEFINE width == Window - Disorder
<1>1. TypeOK /\ width \in Int
    BY Numbers DEF IInv
<1> SUFFICES ASSUME NEW k \in Key, NEW t \in 0 .. MaxTime
             PROVE  Cardinality(Through(k, t, width)') <= Limit
    BY DEF ShortWindowsKeepLimit, AtMostLimit, Disorder, Through
<1>2. Cardinality(Through(k, t, width)) <= Limit
    BY DEF IInv, ShortWindowsKeepLimit, AtMostLimit
<1>3. \A p \in Through(k, t, width)' : pc[p] = "allowed"
    BY DEF Through
<1> HIDE DEF width
<1> QED
    BY <1>1, <1>2, <1>3, NoNewRequest

\* A request that arrives has just read the clock.
LEMMA ArriveConsistent ==
    ASSUME IInv, NEW q \in Request, Arrive(q), NEW p \in Request
    PROVE  RequestConsistent(p)'
<1>1. /\ TypeOK /\ RequestConsistent(p) /\ now' = now /\ home' = home /\ offset' = offset
      /\ key' = key /\ Live(key[p])' = Live(key[p])
    BY DEF IInv, Arrive, Live
<1>2. CASE p = q
    <2>1. offset[home[q]] \in Nat /\ now \in Nat
        BY <1>1, Numbers DEF TypeOK
    <2>2. reading'[q] = now - offset[home[q]]
        BY <1>1 DEF Arrive, TypeOK
    <2>3. Arrived(q)' = now /\ pc'[q] = "sent"
        <3> DEFINE o == offset[home[q]]
        <3>1. Arrived(q)' = reading'[q] + o
            BY <1>1 DEF Arrived
        <3>2. (now - o) + o = now
            BY <2>1
        <3> QED
            BY <1>1, <2>2, <3>1, <3>2 DEF Arrive, TypeOK
    <2>4. Arrived(q)' <= now' /\ Arrived(q)' >= now' - MaxDelay
        BY <1>1, <2>1, <2>3, Numbers
    <2> QED
        BY <1>2, <2>3, <2>4 DEF RequestConsistent
<1>3. CASE p # q
    <2>1. reading'[p] = reading[p] /\ pc'[p] = pc[p]
        BY <1>1, <1>3 DEF Arrive, TypeOK
    <2> QED
        BY <1>1, <2>1 DEF RequestConsistent, Arrived, MemberOf
<1> QED
    BY <1>2, <1>3

\* As time passes a member is forgotten only when it is out of the window.
LEMMA TickConsistent ==
    ASSUME IInv, Tick, NEW p \in Request
    PROVE  RequestConsistent(p)'
<1>1. /\ TypeOK /\ RequestConsistent(p) /\ now' = now + 1 /\ pc' = pc
      /\ reading' = reading /\ zset' = zset /\ key' = key /\ expiry' = expiry
      /\ Arrived(p)' = Arrived(p) /\ MemberOf(p)' = MemberOf(p)
    BY DEF IInv, Tick, requestVars, Arrived, MemberOf
<1>2. now \in Nat /\ reading[p] \in Nat /\ Arrived(p) \in Nat /\ key[p] \in Key
    BY <1>1, Arrivals DEF TypeOK
<1>3. pc[p] # "new" => Arrived(p) <= now + 1
    BY <1>1, <1>2 DEF RequestConsistent
<1>4. pc[p] = "sent" => Arrived(p) >= now + 1 - MaxDelay
    BY <1>2, Numbers DEF Tick
<1>5. ASSUME pc[p] = "allowed", ~(reading[p] <= now + 1 - Window)
      PROVE  MemberOf(p) \in zset[key[p]] /\ now + 1 < expiry[key[p]]
    <2>1. reading[p] > now + 1 - Window /\ ~(reading[p] <= now - Window)
        BY <1>2, <1>5, Numbers
    <2>2. MemberOf(p) \in Live(key[p])
        BY <1>1, <1>5, <2>1 DEF RequestConsistent
    <2>3. MemberOf(p) \in zset[key[p]]
        BY <2>2 DEF Live
    <2>4. now + 1 < expiry[key[p]]
        <3> DEFINE later == now + 1
        <3>1. MemberOf(p).at > later - Window /\ later \in Nat
            <4>1. MemberOf(p).at = reading[p]
                BY DEF MemberOf
            <4> QED
                BY <1>2, <2>1, <4>1, Numbers
        <3>2. MembersConsistent
            BY DEF IInv
        <3> HIDE DEF later
        <3>3. later < expiry[key[p]]
            BY <1>1, <1>2, <2>3, <3>1, <3>2, MembersOutlive
        <3> QED
            BY <3>3 DEF later
    <2> QED
        BY <2>3, <2>4
<1>6. ASSUME pc'[p] = "allowed"
      PROVE  MemberOf(p)' \in Live(key[p])' \/ reading'[p] <= now' - Window
    BY <1>1, <1>2, <1>5, <1>6, Numbers DEF Live
<1>7. pc'[p] # "new" => Arrived(p)' <= now'
    BY <1>1, <1>3
<1>8. pc'[p] = "sent" => Arrived(p)' >= now' - MaxDelay
    BY <1>1, <1>2, <1>4, Numbers
<1> QED
    BY <1>6, <1>7, <1>8 DEF RequestConsistent

\* Every step keeps the invariant.
LEMMA NextIInv == IInv /\ [Next]_vars => IInv'
<1> SUFFICES ASSUME IInv, [Next]_vars PROVE IInv'
    OBVIOUS
<1>1. TypeOK' /\ NamesDiffer' /\ RefusedOnlyAtLimit'
    BY NextTypeOK, NextNames, NextRefused DEF IInv
<1>2. ASSUME NEW q \in Request, Arrive(q)
      PROVE  IInv'
    <2>1. \A p \in Request : pc'[p] = "allowed" => pc[p] = "allowed"
        BY <1>2 DEF IInv, TypeOK, Arrive
    <2>2. zset' = zset /\ expiry' = expiry
        BY <1>2 DEF Arrive
    <2> QED
        BY <1>1, <1>2, <2>1, <2>2, ArriveConsistent, OtherMembers, OtherShortWindows DEF IInv
<1>3. ASSUME NEW q \in Request, Script(q)
      PROVE  IInv'
    BY <1>1, <1>3, ScriptConsistent, ScriptMembers, ScriptShortWindows DEF IInv
<1>4. ASSUME NEW q \in Request, Fail(q)
      PROVE  IInv'
    <2>1. \A p \in Request : pc'[p] = "allowed" => pc[p] = "allowed"
        BY <1>4 DEF IInv, TypeOK, Fail
    <2>2. zset' = zset /\ expiry' = expiry
        BY <1>4 DEF Fail
    <2>3. \A p \in Request : RequestConsistent(p)'
        BY <1>4 DEF IInv, TypeOK, Fail, RequestConsistent, Arrived, MemberOf, Live
    <2> QED
        BY <1>1, <2>1, <2>2, <2>3, OtherMembers, OtherShortWindows DEF IInv
<1>5. CASE Tick
    <2>1. pc' = pc /\ zset' = zset /\ expiry' = expiry
        BY <1>5 DEF Tick, requestVars
    <2> QED
        BY <1>1, <1>5, <2>1, TickConsistent, OtherMembers, OtherShortWindows DEF IInv
<1>6. CASE Idle \/ UNCHANGED vars
    <2>1. pc' = pc /\ zset' = zset /\ expiry' = expiry
        BY <1>6 DEF Idle, vars, requestVars
    <2>2. \A p \in Request : RequestConsistent(p)'
        BY <1>6 DEF IInv, Idle, vars, requestVars, RequestConsistent, Arrived, MemberOf, Live
    <2> QED
        BY <1>1, <2>1, <2>2, OtherMembers, OtherShortWindows DEF IInv
<1> QED
    BY <1>2, <1>3, <1>4, <1>5, <1>6 DEF Next

----------------------------------------------------------------------------
(***************************************************************************)
(* A request that was let through stays a member under its own name until   *)
(* no window yet to come can hold it.                                       *)
(***************************************************************************)
THEOREM Invariance == Spec => []IInv
BY InitIInv, NextIInv, PTL DEF Spec

(***************************************************************************)
(* However many replicas share the limiter, no window that is shorter than  *)
(* its width by delay and skew holds more requests than the limit.          *)
(***************************************************************************)
THEOREM ShortWindowsKept == Spec => []ShortWindowsKeepLimit
<1>1. IInv => ShortWindowsKeepLimit
    BY DEF IInv
<1> QED
    BY <1>1, Invariance, PTL

(***************************************************************************)
(* Nobody is refused below the limit: requests that were refused, or that   *)
(* have left the window, do not count.                                      *)
(***************************************************************************)
THEOREM NobodyRefusedBelowLimit == Spec => []RefusedOnlyAtLimit
<1>1. IInv => RefusedOnlyAtLimit
    BY DEF IInv
<1> QED
    BY <1>1, Invariance, PTL
=============================================================================
