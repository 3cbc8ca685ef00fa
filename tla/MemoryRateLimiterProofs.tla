----------------------- MODULE MemoryRateLimiterProofs -----------------------
(***************************************************************************)
(* Proofs about MemoryRateLimiter, for every limit, window and set of keys: *)
(* no window holds more than the limit, and nobody is refused below it.     *)
(***************************************************************************)
EXTENDS MemoryRateLimiter, FiniteSetTheorems, SequenceTheorems, WellFoundedInduction, TLAPS

\* A set of naturals that is not empty has a least element, which is its Min.
LEMMA MinIsLeast ==
    ASSUME NEW S \in SUBSET Nat, S # {}
    PROVE  Min(S) \in S /\ \A i \in S : Min(S) <= i
<1>1. PICK least \in S : \A i \in S : ~(<<i, least>> \in OpToRel(<, Nat))
    BY NatLessThanWellFounded, WFMin
<1>2. ASSUME NEW i \in S
      PROVE  least <= i
    <2> DEFINE pair == <<i, least>>
    <2>1. pair \in Nat \X Nat /\ pair[1] = i /\ pair[2] = least
        OBVIOUS
    <2>2. ~(pair[1] < pair[2])
        BY <1>1, <2>1 DEF OpToRel
    <2> QED
        BY <2>1, <2>2
<1> QED
    BY <1>2 DEF Min

\* What is left of the deque of a key, and what is dropped from it.
Remaining(k) == DropExpired(windows[k], now - Window)
Removed(k) == Len(windows[k]) - Len(Remaining(k))

\* Popping from the left of an ordered deque leaves exactly what is younger
\* than the cutoff.
LEMMA DropExpiredKeepsYoung ==
    ASSUME TypeOK, NEW k \in Key, WindowConsistent(k)
    PROVE  /\ Remaining(k) \in Seq(0 .. MaxTime)
           /\ Removed(k) \in Nat
           /\ \A i \in 1 .. Len(Remaining(k)) :
                 /\ Remaining(k)[i] = windows[k][Removed(k) + i]
                 /\ Remaining(k)[i] > now - Window
           /\ \A i \in 1 .. Removed(k) : windows[k][i] <= now - Window
<1> DEFINE w == windows[k]
           cutoff == now - Window
           young == {i \in DOMAIN w : w[i] > cutoff}
<1>1. w \in Seq(0 .. MaxTime) /\ cutoff \in Int /\ DOMAIN w = 1 .. Len(w) /\ Len(w) \in Nat
    BY ParametersAssumption, LenProperties DEF TypeOK
<1>0. \A i \in 1 .. Len(w) : w[i] \in 0 .. MaxTime /\ w[i] \in Int
    BY <1>1, ParametersAssumption
<1>2. \A i, j \in 1 .. Len(w) : i <= j => w[i] <= w[j]
    <2>1. Len(accepted[k]) \in Nat /\ Dropped(k) \in Nat /\ Len(accepted[k]) = Dropped(k) + Len(w)
        BY <1>1 DEF TypeOK, WindowConsistent, Dropped
    <2> SUFFICES ASSUME NEW i \in 1 .. Len(w), NEW j \in 1 .. Len(w), i <= j
                 PROVE  w[i] <= w[j]
        OBVIOUS
    <2>2. /\ Dropped(k) + i \in 1 .. Len(accepted[k])
          /\ Dropped(k) + j \in 1 .. Len(accepted[k])
          /\ Dropped(k) + i <= Dropped(k) + j
        BY SMTT(40), <1>1, <2>1
    <2> QED
        BY <2>2 DEF WindowConsistent
<1>3. Remaining(k) = IF young = {} THEN <<>> ELSE SubSeq(w, Min(young), Len(w))
    BY DEF Remaining, DropExpired
<1> HIDE DEF w, cutoff
<1>4. CASE young = {}
    <2>1. Remaining(k) = <<>> /\ Removed(k) = Len(w)
        BY <1>1, <1>3, <1>4 DEF Removed, w
    <2>2. \A i \in 1 .. Len(w) : w[i] <= cutoff
        BY <1>0, <1>1, <1>4
    <2> QED
        BY <1>1, <2>1, <2>2 DEF w, cutoff
<1>5. CASE young # {}
    <2> DEFINE m == Min(young)
    <2>1. m \in young /\ \A i \in young : m <= i
        <3>1. young \in SUBSET Nat
            BY <1>1
        <3> HIDE DEF young
        <3> QED
            BY <1>5, <3>1, MinIsLeast DEF m
    <2> HIDE DEF m
    <2>2. m \in 1 .. Len(w) /\ w[m] > cutoff
        BY <1>1, <2>1
    <2>3. /\ Remaining(k) \in Seq(0 .. MaxTime)
          /\ Len(Remaining(k)) = Len(w) - m + 1
          /\ \A i \in 1 .. Len(w) - m + 1 : Remaining(k)[i] = w[m + i - 1]
        <3>1. /\ m \in Int /\ Len(w) \in Int /\ m <= Len(w)
              /\ \A i \in m .. Len(w) : w[i] \in 0 .. MaxTime
            BY <1>0, <1>1, <2>2
        <3>2. Remaining(k) = SubSeq(w, m, Len(w))
            BY <1>3, <1>5 DEF m
        <3> QED
            BY <3>1, <3>2, SubSeqProperties
    <2>4. Removed(k) = m - 1
        BY <1>1, <2>2, <2>3 DEF Removed, w
    <2>5. \A i \in 1 .. Len(w) - m + 1 : w[m + i - 1] > cutoff
        <3> SUFFICES ASSUME NEW i \in 1 .. Len(w) - m + 1 PROVE w[m + i - 1] > cutoff
            OBVIOUS
        <3>1. m + i - 1 \in 1 .. Len(w) /\ m <= m + i - 1
            BY <1>1, <2>2
        <3>2. w[m] <= w[m + i - 1] /\ w[m] \in Int /\ w[m + i - 1] \in Int
            BY <1>0, <1>1, <1>2, <2>2, <3>1
        <3> QED
            BY <1>1, <2>2, <3>2
    <2>6. \A i \in 1 .. m - 1 : w[i] <= cutoff
        <3> SUFFICES ASSUME NEW i \in 1 .. m - 1 PROVE w[i] <= cutoff
            OBVIOUS
        <3>1. i \in 1 .. Len(w) /\ i \notin young
            BY <1>1, <2>1, <2>2
        <3>2. w[i] \in Int /\ ~(w[i] > cutoff)
            BY <1>0, <1>1, <3>1
        <3> QED
            BY <1>1, <3>2
    <2>7. \A i \in 1 .. Len(Remaining(k)) : /\ Remaining(k)[i] = w[Removed(k) + i]
                                               /\ Remaining(k)[i] > cutoff
        <3> SUFFICES ASSUME NEW i \in 1 .. Len(Remaining(k))
                     PROVE  Remaining(k)[i] = w[Removed(k) + i] /\ Remaining(k)[i] > cutoff
            OBVIOUS
        <3>1. i \in 1 .. Len(w) - m + 1 /\ m + i - 1 = Removed(k) + i
            BY <1>1, <2>2, <2>3, <2>4
        <3> QED
            BY <2>3, <2>5, <3>1
    <2>8. Removed(k) \in Nat
        BY <2>2, <2>4
    <2> QED
        BY <2>3, <2>4, <2>6, <2>7, <2>8 DEF w, cutoff
<1> QED
    BY <1>4, <1>5

\* What has been dropped from the deque are requests that were let through.
LEMMA DroppedInRange ==
    ASSUME TypeOK, NEW k \in Key
    PROVE  \A i \in 1 .. Dropped(k) : i \in 1 .. Len(accepted[k])
<1>1. Len(accepted[k]) \in Nat /\ Len(windows[k]) \in Nat
    BY LenProperties DEF TypeOK
<1> QED
    BY <1>1 DEF Dropped

\* The requests in the window that ends now are those that stay in the deque.
LEMMA RemainingAreThrough ==
    ASSUME TypeOK, NEW k \in Key, WindowConsistent(k)
    PROVE  /\ Through(k, now) = Dropped(k) + Removed(k) + 1 .. Len(accepted[k])
           /\ Cardinality(Through(k, now)) = Len(Remaining(k))
           /\ Dropped(k) + Removed(k) \in Nat
           /\ Len(accepted[k]) = Dropped(k) + Removed(k) + Len(Remaining(k))
           /\ \A i \in 1 .. Dropped(k) + Removed(k) : accepted[k][i] <= now - Window
<1> DEFINE n == Len(accepted[k])
           d == Dropped(k) + Removed(k)
<1>1. /\ n \in Nat /\ Len(windows[k]) \in Nat /\ DOMAIN accepted[k] = 1 .. n
      /\ Dropped(k) \in Nat /\ Removed(k) \in Nat /\ Len(Remaining(k)) \in Nat
      /\ now \in Int /\ Window \in Int
      /\ n = Dropped(k) + Len(windows[k])
      /\ Len(windows[k]) = Removed(k) + Len(Remaining(k))
    <2>1. /\ accepted[k] \in Seq(0 .. MaxTime) /\ windows[k] \in Seq(0 .. MaxTime)
          /\ now \in 0 .. MaxTime /\ Window \in Int /\ MaxTime \in Nat
        BY ParametersAssumption DEF TypeOK
    <2>2. /\ n \in Nat /\ DOMAIN accepted[k] = 1 .. n /\ Len(windows[k]) \in Nat
          /\ Len(windows[k]) <= n
        BY <2>1, LenProperties DEF WindowConsistent
    <2>3. Removed(k) \in Nat /\ Len(Remaining(k)) \in Nat
        BY DropExpiredKeepsYoung, LenProperties
    <2>4. Dropped(k) \in Nat /\ n = Dropped(k) + Len(windows[k])
        BY <2>2 DEF Dropped
    <2>5. Len(windows[k]) = Removed(k) + Len(Remaining(k))
        BY <2>2, <2>3 DEF Removed
    <2> QED
        BY <2>1, <2>2, <2>3, <2>4, <2>5
<1>2. \A i \in 1 .. n : accepted[k][i] \in Int /\ accepted[k][i] <= now
    BY <1>1, ParametersAssumption DEF TypeOK, WindowConsistent
<1>3. ASSUME NEW i \in 1 .. d
      PROVE  accepted[k][i] <= now - Window
    <2>1. CASE i <= Dropped(k)
        BY <1>1, <2>1 DEF WindowConsistent
    <2>2. CASE i > Dropped(k)
        <3>1. /\ i - Dropped(k) \in 1 .. Removed(k)
              /\ i - Dropped(k) \in 1 .. Len(windows[k])
              /\ Dropped(k) + (i - Dropped(k)) = i
            BY <1>1, <2>2
        <3>2. windows[k][i - Dropped(k)] <= now - Window
            BY <3>1, DropExpiredKeepsYoung
        <3> QED
            BY <3>1, <3>2 DEF WindowConsistent
    <2> QED
        BY <1>1, <2>1, <2>2
<1>4. ASSUME NEW i \in d + 1 .. n
      PROVE  accepted[k][i] > now - Window
    <2>1. /\ i - d \in 1 .. Len(Remaining(k))
          /\ Removed(k) + (i - d) \in 1 .. Len(windows[k])
          /\ Dropped(k) + (Removed(k) + (i - d)) = i
        BY SMTT(40), <1>1
    <2>2. /\ Remaining(k)[i - d] > now - Window
          /\ Remaining(k)[i - d] = windows[k][Removed(k) + (i - d)]
        BY <2>1, DropExpiredKeepsYoung
    <2>3. windows[k][Removed(k) + (i - d)] = accepted[k][i]
        BY <2>1 DEF WindowConsistent
    <2> QED
        BY <2>2, <2>3
<1>5. Through(k, now) = d + 1 .. n
    <2>1. ASSUME NEW i \in 1 .. n
          PROVE  (now - Window < accepted[k][i] /\ accepted[k][i] <= now) <=> i \in d + 1 .. n
        <3>1. CASE i \in 1 .. d
            <4>1. i \notin d + 1 .. n
                BY <1>1, <3>1
            <4>2. accepted[k][i] \in Int /\ accepted[k][i] <= now - Window
                BY <1>2, <1>3, <3>1
            <4> QED
                BY SMTT(40), <1>1, <4>1, <4>2
        <3>2. CASE i \in d + 1 .. n
            BY <1>1, <1>2, <1>4, <3>2
        <3> QED
            BY <1>1, <3>1, <3>2
    <2>2. d + 1 .. n \subseteq 1 .. n
        BY <1>1
    <2> QED
        BY <1>1, <2>1, <2>2 DEF Through
<1>6. d \in Nat /\ n = d + Len(Remaining(k))
    BY <1>1
<1>7. Cardinality(d + 1 .. n) = Len(Remaining(k))
    <2>1. n \in Nat /\ Len(Remaining(k)) \in Nat
        BY <1>1
    <2> HIDE DEF n, d
    <2>2. d + 1 \in Int /\ n \in Int
        BY <1>6, <2>1
    <2>3. Cardinality(d + 1 .. n) = IF d + 1 > n THEN 0 ELSE n - (d + 1) + 1
        BY <2>2, FS_Interval
    <2> QED
        BY <1>6, <2>1, <2>3
<1> QED
    BY <1>3, <1>5, <1>6, <1>7

----------------------------------------------------------------------------
\* A call that lets a request through, or refuses it, changes only its key.
LEMMA CallTyped ==
    ASSUME TypeOK, NEW k \in Key, WindowConsistent(k), Call(k)
    PROVE  TypeOK'
<1>1. Remaining(k) \in Seq(0 .. MaxTime)
    BY DropExpiredKeepsYoung
<1>2. now \in 0 .. MaxTime
    BY DEF TypeOK
<1>3. Append(Remaining(k), now) \in Seq(0 .. MaxTime) /\ Append(accepted[k], now) \in Seq(0 .. MaxTime)
    BY <1>1, <1>2, AppendProperties DEF TypeOK
<1>4. CASE Allow(k, Remaining(k))
    <2>1. [allowed |-> TRUE, at |-> now] \in Answer
        BY <1>2 DEF Answer
    <2> QED
        BY <1>2, <1>3, <1>4, <2>1 DEF Call, Allow, Reply, TypeOK
<1>5. CASE Refuse(k, Remaining(k))
    <2>1. [allowed |-> FALSE, at |-> now] \in Answer
        BY <1>2 DEF Answer
    <2> QED
        BY <1>1, <1>2, <1>5, <2>1 DEF Call, Refuse, Reply, TypeOK
<1> QED
    BY <1>4, <1>5 DEF Call, Remaining

\* A key that is not called stays as it is.
LEMMA OthersLeftAlone ==
    ASSUME TypeOK, NEW k \in Key, NEW j \in Key \ {k}, Call(k)
    PROVE  /\ windows'[j] = windows[j] /\ accepted'[j] = accepted[j] /\ answer'[j] = answer[j]
           /\ now' = now
BY DEF Call, Allow, Refuse, Reply, TypeOK

\* The deque of the key that is called stays consistent.
LEMMA CallKeepsWindow ==
    ASSUME TypeOK, NEW k \in Key, WindowConsistent(k), Call(k)
    PROVE  WindowConsistent(k)'
<1> DEFINE n == Len(accepted[k])
           d == Dropped(k) + Removed(k)
<1>1. /\ n \in Nat /\ d \in Nat /\ Len(Remaining(k)) \in Nat /\ n = d + Len(Remaining(k))
      /\ \A i \in 1 .. d : accepted[k][i] <= now - Window
      /\ accepted[k] \in Seq(0 .. MaxTime) /\ Remaining(k) \in Seq(0 .. MaxTime)
    BY RemainingAreThrough, DropExpiredKeepsYoung, LenProperties DEF TypeOK
<1>0. Removed(k) \in Nat /\ Dropped(k) \in Nat /\ d = Dropped(k) + Removed(k)
    <2>1. Len(accepted[k]) \in Nat /\ Len(windows[k]) \in Nat
        BY LenProperties DEF TypeOK
    <2>2. Len(windows[k]) <= Len(accepted[k])
        BY DEF WindowConsistent
    <2>3. Removed(k) \in Nat
        BY DropExpiredKeepsYoung
    <2> QED
        BY <2>1, <2>2, <2>3 DEF Dropped
<1> HIDE DEF n, d
<1>2. now \in 0 .. MaxTime /\ now' = now /\ Window \in Int /\ MaxTime \in Nat
    BY ParametersAssumption DEF TypeOK, Call
<1>3. \A i \in 1 .. Len(Remaining(k)) : Remaining(k)[i] = accepted[k][d + i]
    <2> SUFFICES ASSUME NEW i \in 1 .. Len(Remaining(k))
                 PROVE  Remaining(k)[i] = accepted[k][d + i]
        OBVIOUS
    <2>1. Len(windows[k]) \in Nat /\ Removed(k) = Len(windows[k]) - Len(Remaining(k))
        BY LenProperties DEF TypeOK, Removed
    <2>2. Removed(k) + i \in 1 .. Len(windows[k]) /\ Dropped(k) + (Removed(k) + i) = d + i
        BY SMTT(40), <1>0, <1>1, <2>1
    <2>3. windows[k][Removed(k) + i] = accepted[k][d + i]
        BY <2>2 DEF WindowConsistent
    <2> QED
        BY <2>3, DropExpiredKeepsYoung
<1>4. CASE Allow(k, Remaining(k))
    <2>1. /\ windows'[k] = Append(Remaining(k), now)
          /\ accepted'[k] = Append(accepted[k], now)
          /\ answer'[k].at = now
        BY <1>4 DEF Allow, Reply, TypeOK
    <2>2. /\ Len(windows'[k]) = Len(Remaining(k)) + 1 /\ Len(accepted'[k]) = n + 1
          /\ \A i \in 1 .. n : accepted'[k][i] = accepted[k][i]
          /\ \A i \in 1 .. Len(Remaining(k)) : windows'[k][i] = Remaining(k)[i]
          /\ accepted'[k][n + 1] = now /\ windows'[k][Len(Remaining(k)) + 1] = now
        <3>1. /\ Len(accepted'[k]) = n + 1 /\ accepted'[k][n + 1] = now
              /\ \A i \in 1 .. n : accepted'[k][i] = accepted[k][i]
            BY <1>1, <1>2, <2>1, AppendProperties DEF n
        <3>2. /\ Len(windows'[k]) = Len(Remaining(k)) + 1
              /\ windows'[k][Len(Remaining(k)) + 1] = now
              /\ \A i \in 1 .. Len(Remaining(k)) : windows'[k][i] = Remaining(k)[i]
            BY <1>1, <1>2, <2>1, AppendProperties
        <3> QED
            BY <3>1, <3>2
    <2>3. Dropped(k)' = d
        <3>1. Dropped(k)' = Len(accepted'[k]) - Len(windows'[k])
            BY DEF Dropped
        <3>2. Len(windows'[k]) = Len(Remaining(k)) + 1 /\ Len(accepted'[k]) = n + 1
            BY <2>2
        <3>3. n \in Nat /\ d \in Nat /\ Len(Remaining(k)) \in Nat /\ n = d + Len(Remaining(k))
            BY <1>1
        <3> QED
            BY SMTT(40), <3>1, <3>2, <3>3
    <2>4. ASSUME NEW i \in 1 .. Len(windows'[k])
          PROVE  windows'[k][i] = accepted'[k][d + i]
        <3>1. CASE i = Len(Remaining(k)) + 1
            BY <1>1, <2>2, <3>1
        <3>2. CASE i # Len(Remaining(k)) + 1
            <4>1. i \in 1 .. Len(Remaining(k)) /\ d + i \in 1 .. n
                BY <1>1, <2>2, <3>2
            <4> QED
                BY <1>3, <2>2, <4>1
        <3> QED
            BY <3>1, <3>2
    <2>5. \A i \in 1 .. d : i \in 1 .. n /\ accepted'[k][i] <= now' - Window
        BY <1>1, <1>2, <2>2
    <2>6. \A i \in 1 .. n + 1 : i \in 1 .. n \/ i = n + 1
        BY <1>1
    <2>7. \A i \in 1 .. n : accepted[k][i] <= now
        BY DEF WindowConsistent, n
    <2>8. \A i \in 1 .. n + 1 : accepted'[k][i] <= now
        BY SMTT(40), <1>2, <2>2, <2>6, <2>7
    <2>9. ASSUME NEW i \in 1 .. n + 1, NEW j \in 1 .. n + 1, i <= j
          PROVE  accepted'[k][i] <= accepted'[k][j]
        <3>1. CASE j = n + 1
            BY <2>2, <2>8, <3>1
        <3>2. CASE j # n + 1
            <4>1. i \in 1 .. n /\ j \in 1 .. n
                BY <1>1, <2>9, <3>2
            <4>2. accepted[k][i] <= accepted[k][j]
                BY <2>9, <4>1 DEF WindowConsistent, n
            <4> QED
                BY <2>2, <4>1, <4>2
        <3> QED
            BY <3>1, <3>2
    <2>10. Len(windows'[k]) <= Len(accepted'[k]) /\ answer'[k].at <= now'
        BY <1>0, <1>1, <1>2, <2>1, <2>2
    <2> QED
        BY <1>2, <2>2, <2>3, <2>4, <2>5, <2>8, <2>9, <2>10 DEF WindowConsistent
<1>5. CASE Refuse(k, Remaining(k))
    <2>1. windows'[k] = Remaining(k) /\ accepted' = accepted /\ answer'[k].at = now
        BY <1>5 DEF Refuse, Reply, TypeOK
    <2>2. Dropped(k)' = d
        <3>1. Dropped(k)' = Len(accepted'[k]) - Len(windows'[k])
            BY DEF Dropped
        <3> QED
            BY <1>1, <2>1, <3>1 DEF n
    <2>3. Len(windows'[k]) <= Len(accepted'[k]) /\ answer'[k].at <= now'
        BY <1>0, <1>1, <1>2, <2>1 DEF n
    <2>4. /\ \A i \in 1 .. Len(windows'[k]) : windows'[k][i] = accepted'[k][d + i]
          /\ \A i \in 1 .. d : accepted'[k][i] <= now' - Window
        BY <1>1, <1>2, <1>3, <2>1
    <2>5. /\ \A i, j \in 1 .. Len(accepted'[k]) : i <= j => accepted'[k][i] <= accepted'[k][j]
          /\ \A i \in 1 .. Len(accepted'[k]) : accepted'[k][i] <= now'
        BY <1>2, <2>1 DEF WindowConsistent
    <2> QED
        BY <2>2, <2>3, <2>4, <2>5 DEF WindowConsistent
<1> QED
    BY <1>4, <1>5 DEF Call, Remaining

\* A request that is let through fits into every window.
LEMMA AllowKeepsLimit ==
    ASSUME TypeOK, LimitKept, NEW k \in Key, WindowConsistent(k), now' = now,
           Allow(k, Remaining(k)), NEW t \in 0 .. MaxTime
    PROVE  Cardinality(Through(k, t)') <= Limit
<1> DEFINE n == Len(accepted[k])
<1>1. /\ n \in Nat /\ accepted[k] \in Seq(0 .. MaxTime) /\ now \in 0 .. MaxTime
      /\ DOMAIN accepted[k] = 1 .. n
    BY LenProperties DEF TypeOK
<1>2. Limit \in Nat /\ Window \in Int /\ MaxTime \in Nat
    BY ParametersAssumption
<1>3. accepted'[k] = Append(accepted[k], now)
    BY DEF Allow, TypeOK
<1>4. /\ DOMAIN accepted'[k] = 1 .. n + 1 /\ accepted'[k][n + 1] = now
      /\ \A i \in 1 .. n : accepted'[k][i] = accepted[k][i]
    BY <1>1, <1>3, AppendProperties, LenProperties
<1> HIDE DEF n
<1>5. Through(k, t)' = {i \in 1 .. n + 1 : t - Window < accepted'[k][i] /\ accepted'[k][i] <= t}
    BY <1>4 DEF Through
<1>6. Through(k, t) = {i \in 1 .. n : t - Window < accepted[k][i] /\ accepted[k][i] <= t}
    BY <1>1 DEF Through
<1>7. \A i \in 1 .. n + 1 : i \in 1 .. n \/ i = n + 1
    BY <1>1
<1>8. CASE t < now
    <2>1. Through(k, t)' \subseteq Through(k, t)
        BY <1>1, <1>2, <1>4, <1>5, <1>6, <1>7, <1>8
    <2>2. IsFiniteSet(1 .. n) /\ Through(k, t) \subseteq 1 .. n
        <3>1. 1 \in Int /\ n \in Int
            BY <1>1
        <3> QED
            BY <1>6, <3>1, FS_Interval
    <2>3. IsFiniteSet(Through(k, t)) /\ Cardinality(Through(k, t)) <= Limit
        BY <2>2, FS_Subset DEF LimitKept
    <2>4. /\ Cardinality(Through(k, t)') <= Cardinality(Through(k, t))
          /\ IsFiniteSet(Through(k, t)')
        BY <2>1, <2>3, FS_Subset
    <2> QED
        BY <1>2, <2>3, <2>4, FS_CardinalityType
<1>9. CASE t >= now
    <2>1. Through(k, t)' \subseteq Through(k, now) \cup {n + 1}
        <3>1. \A i \in 1 .. n : /\ accepted[k][i] \in Int /\ accepted[k][i] <= now
                                 /\ accepted'[k][i] = accepted[k][i]
            <4>1. \A i \in 1 .. n : accepted[k][i] \in 0 .. MaxTime
                BY <1>1, ElementOfSeq DEF n
            <4>2. \A i \in 1 .. n : accepted[k][i] <= now
                BY DEF WindowConsistent, n
            <4> QED
                BY <1>2, <1>4, <4>1, <4>2
        <3>2. \A i \in 1 .. n : t - Window < accepted[k][i] => now - Window < accepted[k][i]
            BY <1>1, <1>2, <1>9, <3>1
        <3>3. Through(k, now) = {i \in 1 .. n : now - Window < accepted[k][i] /\ accepted[k][i] <= now}
            BY <1>1 DEF Through
        <3> QED
            BY <1>5, <1>7, <3>1, <3>2, <3>3
    <2>2. /\ Cardinality(Through(k, now)) = Len(Remaining(k)) /\ Len(Remaining(k)) \in Nat
          /\ Len(Remaining(k)) < Limit
        BY RemainingAreThrough, DropExpiredKeepsYoung, LenProperties DEF Allow
    <2>3. IsFiniteSet(Through(k, now))
        <3>1. IsFiniteSet(1 .. n) /\ Through(k, now) \subseteq 1 .. n
            BY <1>1, FS_Interval DEF Through
        <3> QED
            BY <3>1, FS_Subset
    <2>4. /\ IsFiniteSet(Through(k, now) \cup {n + 1})
          /\ Cardinality(Through(k, now) \cup {n + 1}) <= Len(Remaining(k)) + 1
        <3>1. /\ IsFiniteSet(Through(k, now) \cup {n + 1})
              /\ Cardinality(Through(k, now) \cup {n + 1}) =
                    IF n + 1 \in Through(k, now) THEN Cardinality(Through(k, now))
                                                ELSE Cardinality(Through(k, now)) + 1
            BY <2>3, FS_AddElement
        <3> QED
            BY <2>2, <3>1
    <2>5. /\ Cardinality(Through(k, t)') <= Cardinality(Through(k, now) \cup {n + 1})
          /\ IsFiniteSet(Through(k, t)')
        BY <2>1, <2>4, FS_Subset
    <2> QED
        BY <1>2, <2>2, <2>4, <2>5, FS_CardinalityType
<1> QED
    BY <1>1, <1>2, <1>8, <1>9

\* The invariant holds before the first request.
LEMMA InitIInv == Init => IInv
<1> SUFFICES ASSUME Init PROVE IInv
    OBVIOUS
<1>1. TypeOK
    BY ParametersAssumption DEF Init, TypeOK, Answer
<1>2. ASSUME NEW k \in Key
      PROVE  WindowConsistent(k)
    BY ParametersAssumption DEF Init, WindowConsistent, Dropped
<1>3. LimitKept
    <2>1. \A k \in Key, t \in 0 .. MaxTime : Through(k, t) = {}
        BY DEF Init, Through
    <2> QED
        BY <2>1, FS_EmptySet, ParametersAssumption DEF LimitKept
<1>4. RefusedOnlyAtLimit
    BY DEF Init, RefusedOnlyAtLimit
<1> QED
    BY <1>1, <1>2, <1>3, <1>4 DEF IInv

\* Every call and every tick keeps the invariant.
LEMMA NextIInv == IInv /\ [Next]_vars => IInv'
<1> SUFFICES ASSUME IInv, [Next]_vars PROVE IInv'
    OBVIOUS
<1> USE DEF IInv
<1>1. ASSUME NEW k \in Key, Call(k)
      PROVE  IInv'
    <2>1. TypeOK'
        BY <1>1, CallTyped
    <2>2. ASSUME NEW j \in Key \ {k}
          PROVE  /\ windows'[j] = windows[j] /\ accepted'[j] = accepted[j]
                 /\ answer'[j] = answer[j] /\ now' = now
        BY <1>1, OthersLeftAlone
    <2>3. ASSUME NEW j \in Key
          PROVE  WindowConsistent(j)'
        <3>1. CASE j = k
            BY <1>1, <3>1, CallKeepsWindow
        <3>2. CASE j # k
            <4>1. /\ windows'[j] = windows[j] /\ accepted'[j] = accepted[j]
                  /\ answer'[j] = answer[j] /\ now' = now
                BY <2>2, <3>2
            <4>2. Dropped(j)' = Dropped(j)
                BY <4>1 DEF Dropped
            <4> QED
                BY <4>1, <4>2 DEF WindowConsistent
        <3> QED
            BY <3>1, <3>2
    <2>4. now' = now /\ (Allow(k, Remaining(k)) \/ Refuse(k, Remaining(k)))
        BY <1>1 DEF Call, Remaining
    <2>5. ASSUME NEW j \in Key, accepted'[j] = accepted[j]
          PROVE  \A t : Through(j, t)' = Through(j, t)
        BY <2>5 DEF Through
    <2>6. LimitKept'
        <3> SUFFICES ASSUME NEW j \in Key, NEW t \in 0 .. MaxTime
                     PROVE  Cardinality(Through(j, t)') <= Limit
            BY DEF LimitKept
        <3>1. CASE accepted'[j] = accepted[j]
            BY <2>5, <3>1 DEF LimitKept
        <3>2. CASE j = k /\ Allow(k, Remaining(k))
            BY <2>4, <3>2, AllowKeepsLimit
        <3>3. CASE j = k /\ Refuse(k, Remaining(k))
            BY <3>1, <3>3 DEF Refuse
        <3> QED
            BY <2>2, <2>4, <3>1, <3>2, <3>3
    <2>7. RefusedOnlyAtLimit'
        <3> SUFFICES ASSUME NEW j \in Key, ~answer'[j].allowed
                     PROVE  Cardinality(Through(j, answer[j].at)') >= Limit
            BY DEF RefusedOnlyAtLimit
        <3>1. CASE j # k
            BY <2>2, <2>5, <3>1 DEF RefusedOnlyAtLimit
        <3>2. CASE j = k /\ Allow(k, Remaining(k))
            BY <3>2 DEF Allow, Reply, TypeOK
        <3>3. CASE j = k /\ Refuse(k, Remaining(k))
            <4>1. answer'[k].at = now /\ accepted' = accepted /\ Len(Remaining(k)) >= Limit
                BY <3>3 DEF Refuse, Reply, TypeOK
            <4>2. Cardinality(Through(k, now)) = Len(Remaining(k))
                BY RemainingAreThrough
            <4> QED
                BY <2>5, <3>3, <4>1, <4>2
        <3> QED
            BY <2>4, <3>1, <3>2, <3>3
    <2> QED
        BY <2>1, <2>3, <2>6, <2>7
<1>2. ASSUME Tick \/ UNCHANGED vars
      PROVE  IInv'
    <2>1. now' \in 0 .. MaxTime /\ now' >= now /\ UNCHANGED <<windows, accepted, answer>>
        BY <1>2, ParametersAssumption DEF Tick, vars, TypeOK
    <2>2. TypeOK'
        BY <2>1 DEF TypeOK
    <2>3. ASSUME NEW k \in Key
          PROVE  WindowConsistent(k)'
        <3>1. /\ now \in Int /\ now' \in Int /\ Window \in Int /\ answer[k].at \in Int
              /\ Len(accepted[k]) \in Nat /\ Len(windows[k]) \in Nat
              /\ \A i \in 1 .. Len(accepted[k]) : accepted[k][i] \in Int
            BY <2>1, ParametersAssumption, LenProperties DEF TypeOK, Answer
        <3>2. \A i \in 1 .. Dropped(k) : i \in 1 .. Len(accepted[k])
            BY DroppedInRange
        <3>3. Dropped(k)' = Dropped(k)
            BY <2>1 DEF Dropped
        <3>4. \A i \in 1 .. Dropped(k) : accepted[k][i] <= now' - Window
            <4>1. \A i \in 1 .. Dropped(k) : accepted[k][i] <= now - Window
                BY DEF WindowConsistent
            <4> QED
                BY <2>1, <3>1, <3>2, <4>1
        <3>5. /\ \A i \in 1 .. Len(accepted[k]) : accepted[k][i] <= now'
              /\ answer[k].at <= now'
            BY <2>1, <3>1 DEF WindowConsistent
        <3> QED
            BY <2>1, <3>3, <3>4, <3>5 DEF WindowConsistent
    <2>4. LimitKept' /\ RefusedOnlyAtLimit'
        BY <2>1 DEF LimitKept, RefusedOnlyAtLimit, Through
    <2> QED
        BY <2>2, <2>3, <2>4
<1> QED
    BY <1>1, <1>2 DEF Next

----------------------------------------------------------------------------
\* The invariant holds whenever the limiter is called.
THEOREM Invariance == Spec => []IInv
BY InitIInv, NextIInv, PTL DEF Spec

\* No window of the deque limiter holds more requests than the limit.
THEOREM LimitIsKept == Spec => []LimitKept
<1>1. IInv => LimitKept
    BY DEF IInv
<1> QED
    BY <1>1, Invariance, PTL

\* The deque limiter refuses no request that the limit would let through.
THEOREM NobodyRefusedBelowLimit == Spec => []RefusedOnlyAtLimit
<1>1. IInv => RefusedOnlyAtLimit
    BY DEF IInv
<1> QED
    BY <1>1, Invariance, PTL
=============================================================================
