-------------------------- MODULE EvaluationProofs ---------------------------
(***************************************************************************)
(* Proofs about Retrieval, ChatWorkflow and Evaluation, for every knowledge *)
(* base, every set of questions, cases and plans and every limit: the script *)
(* that builds the index replaces it whole, hybrid results are in order, a   *)
(* search that falls back returns what the plain one finds, what the agent   *)
(* answers chat answers, the coverage of a result counts the pairs of its    *)
(* document, and the evaluation measures what it says.                       *)
(***************************************************************************)
EXTENDS Evaluation, FiniteSetTheorems, WellFoundedInduction, TLAPS

----------------------------------------------------------------------------
(* Numbers and sequences.                                                   *)

\* A set of numbers has a least element.
LEMMA LeastNumber ==
    ASSUME NEW S \in SUBSET Nat, S # {}
    PROVE  \E n \in S : \A k \in S : n <= k
<1>1. PICK n \in S : \A k \in S : ~(<<k, n>> \in OpToRel(<, Nat))
    BY NatLessThanWellFounded, WFMin
<1>2. \A k \in S : ~(k < n)
    BY <1>1 DEF OpToRel
<1> QED
    BY <1>2

\* A function on the first numbers is a sequence.
LEMMA TableIsSequence ==
    ASSUME NEW n \in Nat, NEW T, NEW s \in [1 .. n -> T]
    PROVE  s \in Seq(T) /\ Len(s) = n
<1>1. s \in Seq(T)
    OBVIOUS
<1>2. DOMAIN s = 1 .. Len(s) /\ Len(s) \in Nat
    BY <1>1
<1>3. 1 .. Len(s) = 1 .. n
    BY <1>2
<1>4. Len(s) = n
    BY <1>2, <1>3
<1> QED
    BY <1>1, <1>4

\* A sequence of some values is one of more values.
LEMMA SequenceWidened ==
    ASSUME NEW S, NEW s \in Seq(S), NEW U, S \subseteq U
    PROVE  s \in Seq(U)
OBVIOUS

\* Where the elements of a cut stand.
LEMMA CutElements ==
    ASSUME NEW T, NEW s \in Seq(T), NEW n \in Nat
    PROVE  /\ FirstOf(s, n) \in Seq(T) /\ Len(FirstOf(s, n)) = Smaller(n, Len(s))
           /\ DOMAIN FirstOf(s, n) = 1 .. Smaller(n, Len(s))
           /\ DOMAIN FirstOf(s, n) \subseteq DOMAIN s
           /\ \A i \in DOMAIN FirstOf(s, n) : FirstOf(s, n)[i] = s[i]
<1>1. Smaller(n, Len(s)) \in 0 .. Len(s)
    BY DEF Smaller
<1> DEFINE m == Smaller(n, Len(s))
<1> HIDE DEF m
<1>2. m \in 0 .. Len(s)
    BY <1>1 DEF m
<1>3. /\ SubSeq(s, 1, m) \in Seq(T) /\ Len(SubSeq(s, 1, m)) = m
      /\ DOMAIN SubSeq(s, 1, m) = 1 .. m
      /\ \A i \in 1 .. m : SubSeq(s, 1, m)[i] = s[i]
    BY <1>2
<1>4. 1 .. m \subseteq DOMAIN s
    BY <1>2
<1> QED
    BY <1>3, <1>4 DEF FirstOf, m

\* A cut of a cut is the shorter cut.
LEMMA CutTwice ==
    ASSUME NEW T, NEW s \in Seq(T), NEW k \in Nat, NEW n \in Nat, k <= n
    PROVE  FirstOf(FirstOf(s, n), k) = FirstOf(s, k)
<1> DEFINE cut == SubSeq(s, 1, Smaller(n, Len(s)))
<1>1. cut \in Seq(T) /\ Len(cut) = Smaller(n, Len(s))
    BY DEF Smaller
<1>2. \A i \in 1 .. Len(cut) : cut[i] = s[i]
    BY DEF Smaller
<1>3. Smaller(k, Len(cut)) = Smaller(k, Len(s))
    BY <1>1 DEF Smaller
<1> HIDE DEF cut
<1>4. Smaller(k, Len(s)) \in 0 .. Len(cut)
    BY <1>1 DEF Smaller
<1>5. SubSeq(cut, 1, Smaller(k, Len(s))) = SubSeq(s, 1, Smaller(k, Len(s)))
    BY <1>1, <1>2, <1>4 DEF Smaller
<1> QED
    BY <1>3, <1>5 DEF FirstOf, cut

\* What is appended to a sequence joins its elements.
LEMMA AppendedElements ==
    ASSUME NEW T, NEW s \in Seq(T), NEW e
    PROVE  ToSet(Append(s, e)) = ToSet(s) \cup {e}
<1> DEFINE longer == Append(s, e)
<1>1. /\ DOMAIN s = 1 .. Len(s) /\ Len(s) \in Nat
      /\ DOMAIN longer = 1 .. Len(s) + 1
      /\ longer[Len(s) + 1] = e
      /\ \A i \in 1 .. Len(s) : longer[i] = s[i]
    OBVIOUS
<1> HIDE DEF longer
<1>2. ToSet(longer) = {longer[i] : i \in 1 .. Len(s) + 1} /\ ToSet(s) = {s[i] : i \in 1 .. Len(s)}
    BY <1>1 DEF ToSet
<1>3. \A i \in 1 .. Len(s) + 1 : i \in 1 .. Len(s) \/ i = Len(s) + 1
    BY <1>1
<1>4. Len(s) + 1 \in 1 .. Len(s) + 1 /\ 1 .. Len(s) \subseteq 1 .. Len(s) + 1
    BY <1>1
<1> QED
    BY <1>1, <1>2, <1>3, <1>4 DEF longer

\* Where the head and the tail of a sequence stand in it.
LEMMA HeadAndTail ==
    ASSUME NEW T, NEW s \in Seq(T), s # <<>>
    PROVE  /\ 1 \in DOMAIN s /\ Head(s) = s[1] /\ Head(s) \in T
           /\ Tail(s) \in Seq(T)
           /\ \A i \in DOMAIN Tail(s) : i + 1 \in DOMAIN s /\ Tail(s)[i] = s[i + 1]
OBVIOUS

\* A sequence is a sequence of its elements, and stays one.
LEMMA AppendedSequence ==
    ASSUME NEW s, s \in Seq(ToSet(s)), NEW e
    PROVE  /\ Append(s, e) \in Seq(ToSet(Append(s, e)))
           /\ DOMAIN Append(s, e) = DOMAIN s \cup {Len(s) + 1}
           /\ \A i \in DOMAIN s : Append(s, e)[i] = s[i]
           /\ Append(s, e)[Len(s) + 1] = e
<1>1. ToSet(Append(s, e)) = ToSet(s) \cup {e}
    BY AppendedElements
<1>2. s \in Seq(ToSet(s) \cup {e})
    OBVIOUS
<1>3. Append(s, e) \in Seq(ToSet(s) \cup {e})
    BY <1>2
<1>4. DOMAIN s = 1 .. Len(s) /\ DOMAIN Append(s, e) = 1 .. Len(s) + 1 /\ Len(s) \in Nat
    BY <1>2
<1> QED
    BY <1>1, <1>2, <1>3, <1>4

\* The image of a finite set is finite.
LEMMA ImageIsFinite ==
    ASSUME NEW S, IsFiniteSet(S), NEW f, DOMAIN f = S
    PROVE  IsFiniteSet({f[x] : x \in S})
<1> DEFINE T == {f[x] : x \in S}
           g == [x \in S |-> f[x]]
<1>1. g \in [S -> T] /\ \A y \in T : \E x \in S : g[x] = y
    OBVIOUS
<1> HIDE DEF T, g
<1>2. g \in Surjection(S, T)
    BY <1>1 DEF Surjection
<1>3. IsFiniteSet(T)
    BY <1>2, FS_Surjection
<1> QED
    BY <1>3 DEF T

----------------------------------------------------------------------------
(* Folds over sequences.  What FoldLeft computes is a function on sets of   *)
(* positions, from which the last one is taken; step is what the operator   *)
(* does with the i-th element, as a function on the values it can have.     *)

Folding(f, base, step, n) ==
    f = [s \in SUBSET (1 .. n) |-> IF s = {} THEN base ELSE step[f[s \ {Max(s)}]][Max(s)]]

\* A set of positions has a last one.
LEMMA LastPosition ==
    ASSUME NEW n \in Nat, NEW s \in SUBSET (1 .. n), s # {}
    PROVE  Max(s) \in s /\ \A i \in s : i <= Max(s)
<1> DEFINE after == {n - i : i \in s}
<1>1. after \in SUBSET Nat /\ after # {}
    <2>1. \A i \in s : n - i \in Nat
        OBVIOUS
    <2>2. \E i \in s : n - i \in after
        OBVIOUS
    <2> QED
        BY <2>1, <2>2
<1>2. PICK least \in after : \A k \in after : least <= k
    BY <1>1, LeastNumber
<1>3. PICK i \in s : least = n - i
    BY <1>2
<1>4. \A j \in s : i >= j
    <2> TAKE j \in s
    <2>1. n - j \in after
        OBVIOUS
    <2>2. n - i <= n - j
        BY <1>2, <1>3, <2>1
    <2>3. i \in Int /\ j \in Int
        OBVIOUS
    <2> QED
        BY <2>2, <2>3
<1>5. \A j \in s : Max(s) >= j
    BY <1>4 DEF Max
<1>6. Max(s) \in s
    BY <1>4 DEF Max
<1> QED
    BY <1>5, <1>6

\* There is such a function.
LEMMA FoldingExists ==
    ASSUME NEW n \in Nat, NEW A, NEW base \in A, NEW step \in [A -> [1 .. n -> A]]
    PROVE  \E f \in [SUBSET (1 .. n) -> A] : Folding(f, base, step, n)
<1> DEFINE without == {m \in 0 .. n : ~ \E f \in [SUBSET (1 .. m) -> A] : Folding(f, base, step, m)}
<1>1. without = {}
    <2> SUFFICES ASSUME without # {} PROVE FALSE
        OBVIOUS
    <2>1. without \in SUBSET Nat
        OBVIOUS
    <2>2. PICK m \in without : \A k \in without : m <= k
        BY <2>1, LeastNumber
    <2>3. m \in 0 .. n /\ ~ \E f \in [SUBSET (1 .. m) -> A] : Folding(f, base, step, m)
        BY <2>2
    <2>4. CASE m = 0
        <3> DEFINE f == [s \in SUBSET (1 .. m) |-> base]
        <3>1. \A s \in SUBSET (1 .. m) : s = {}
            BY <2>4
        <3>2. f = [s \in SUBSET (1 .. m) |->
                      IF s = {} THEN base ELSE step[f[s \ {Max(s)}]][Max(s)]]
            BY <3>1
        <3>3. f \in [SUBSET (1 .. m) -> A]
            OBVIOUS
        <3> HIDE DEF f
        <3> QED
            BY <2>3, <3>2, <3>3 DEF Folding
    <2>5. CASE m # 0
        <3>1. m - 1 \in 0 .. n /\ m - 1 \in Nat /\ m \in Nat /\ ~(m <= m - 1)
            BY <2>3, <2>5
        <3>2. m - 1 \notin without
            <4> HIDE DEF without
            <4> QED
                BY <2>2, <3>1
        <3>3. PICK g \in [SUBSET (1 .. m - 1) -> A] : Folding(g, base, step, m - 1)
            BY <3>1, <3>2
        <3>4. \A s \in SUBSET (1 .. m - 1) :
                  g[s] = IF s = {} THEN base ELSE step[g[s \ {Max(s)}]][Max(s)]
            BY <3>3 DEF Folding
        <3> DEFINE f == [s \in SUBSET (1 .. m) |->
                            IF m \in s THEN step[g[s \ {m}]][m] ELSE g[s]]
        <3>5. \A s \in SUBSET (1 .. m) : s \ {m} \in SUBSET (1 .. m - 1)
            BY <3>1
        <3>6. f \in [SUBSET (1 .. m) -> A]
            <4> SUFFICES ASSUME NEW s \in SUBSET (1 .. m)
                         PROVE  (IF m \in s THEN step[g[s \ {m}]][m] ELSE g[s]) \in A
                OBVIOUS
            <4>1. g[s \ {m}] \in A /\ m \in 1 .. n
                BY <2>3, <2>5, <3>5
            <4>2. step[g[s \ {m}]][m] \in A
                <5> DEFINE before == g[s \ {m}]
                <5>1. step[before] \in [1 .. n -> A]
                    BY <4>1
                <5> HIDE DEF before
                <5> QED
                    BY <4>1, <5>1 DEF before
            <4>3. m \notin s => s \ {m} = s
                OBVIOUS
            <4> QED
                BY <4>1, <4>2, <4>3
        <3>7. ASSUME NEW s \in SUBSET (1 .. m)
              PROVE  f[s] = IF s = {} THEN base ELSE step[f[s \ {Max(s)}]][Max(s)]
            <4>1. CASE s = {}
                <5>1. f[s] = g[s] /\ s \in SUBSET (1 .. m - 1)
                    BY <3>5, <4>1
                <5> QED
                    BY <3>4, <4>1, <5>1
            <4>2. CASE s # {}
                <5>1. Max(s) \in s /\ \A i \in s : i <= Max(s)
                    BY <3>1, <4>2, LastPosition
                <5>2. CASE m \in s
                    <6>1. Max(s) = m
                        <7>1. Max(s) \in 1 .. m /\ m <= Max(s)
                            BY <5>1, <5>2
                        <7> QED
                            BY <3>1, <7>1
                    <6>2. f[s \ {m}] = g[s \ {m}]
                        BY <3>5
                    <6>3. f[s] = step[g[s \ {m}]][m]
                        BY <5>2
                    <6> QED
                        BY <4>2, <6>1, <6>2, <6>3
                <5>3. CASE m \notin s
                    <6>1. s \ {m} = s
                        BY <5>3
                    <6>2. s \in SUBSET (1 .. m - 1) /\ s \ {Max(s)} \in SUBSET (1 .. m)
                          /\ m \notin s \ {Max(s)}
                        BY <3>5, <5>3, <6>1
                    <6>3. f[s] = g[s] /\ f[s \ {Max(s)}] = g[s \ {Max(s)}]
                        BY <5>3, <6>2
                    <6> QED
                        BY <3>4, <4>2, <6>2, <6>3
                <5> QED
                    BY <5>2, <5>3
            <4> QED
                BY <4>1, <4>2
        <3> HIDE DEF f
        <3>8. f = [s \in SUBSET (1 .. m) |->
                      IF s = {} THEN base ELSE step[f[s \ {Max(s)}]][Max(s)]]
            BY <3>6, <3>7
        <3> QED
            BY <2>3, <3>6, <3>8 DEF Folding
    <2> QED
        BY <2>4, <2>5
<1>2. n \in 0 .. n
    OBVIOUS
<1> QED
    BY <1>1, <1>2

\* The values of f are those of the fold, as long as they are in A.
FoldsAlong(f, base, step, n, A) ==
    /\ f[{}] = base
    /\ \A s \in SUBSET (1 .. n) :
          s # {} /\ f[s \ {Max(s)}] \in A => f[s] = step[f[s \ {Max(s)}]][Max(s)]

\* The values of a fold before the first and after each element, the last of them result.
Steps(c, base, step, n, result) ==
    /\ c[0] = base /\ c[n] = result
    /\ \A i \in 1 .. n : c[i] = step[c[i - 1]][i]

\* Whatever function a fold has chosen, it goes through the positions one by one.
LEMMA FoldedInSteps ==
    ASSUME NEW n \in Nat, NEW A, NEW base \in A, NEW step \in [A -> [1 .. n -> A]], NEW f,
           FoldsAlong(f, base, step, n, A)
    PROVE  \E c \in [0 .. n -> A] : Steps(c, base, step, n, f[1 .. n])
<1>1. 1 .. 0 = {}
    OBVIOUS
<1>2. ASSUME NEW i \in 1 .. n, f[1 .. i - 1] \in A
      PROVE  f[1 .. i] = step[f[1 .. i - 1]][i] /\ f[1 .. i] \in A
    <2>1. 1 .. i \in SUBSET (1 .. n) /\ i \in 1 .. i
        OBVIOUS
    <2>2. Max(1 .. i) \in 1 .. i /\ \A j \in 1 .. i : j <= Max(1 .. i)
        BY <2>1, LastPosition
    <2>3. Max(1 .. i) = i
        BY <2>1, <2>2
    <2>4. (1 .. i) \ {i} = 1 .. i - 1
        <3>1. i \in Nat
            BY <2>1
        <3>2. \A j \in 1 .. i : j # i => j \in 1 .. i - 1
            BY <3>1
        <3>3. \A j \in 1 .. i - 1 : j \in 1 .. i /\ j # i
            BY <3>1
        <3> QED
            BY <3>2, <3>3
    <2>5. f[1 .. i] = step[f[1 .. i - 1]][i]
        BY <1>2, <2>1, <2>3, <2>4 DEF FoldsAlong
    <2> QED
        BY <1>2, <2>5
<1> DEFINE odd == {i \in 0 .. n : f[1 .. i] \notin A}
<1>3. odd = {}
    <2> SUFFICES ASSUME odd # {} PROVE FALSE
        OBVIOUS
    <2>1. odd \in SUBSET Nat
        OBVIOUS
    <2>2. PICK i \in odd : \A k \in odd : i <= k
        BY <2>1, LeastNumber
    <2>3. i \in 0 .. n /\ f[1 .. i] \notin A
        BY <2>2
    <2>4. i # 0
        BY <1>1, <2>3 DEF FoldsAlong
    <2>5. i - 1 \in 0 .. n /\ i \in 1 .. n /\ ~(i <= i - 1)
        BY <2>3, <2>4
    <2>6. i - 1 \notin odd
        <3> HIDE DEF odd
        <3> QED
            BY <2>2, <2>5
    <2>7. f[1 .. i - 1] \in A
        BY <2>5, <2>6
    <2> QED
        BY <1>2, <2>3, <2>5, <2>7
<1> DEFINE c == [i \in 0 .. n |-> f[1 .. i]]
<1>4. \A i \in 0 .. n : f[1 .. i] \in A /\ c[i] = f[1 .. i]
    BY <1>3
<1>5. c \in [0 .. n -> A] /\ 0 \in 0 .. n /\ n \in 0 .. n
    BY <1>4
<1> HIDE DEF c, odd
<1>6. c[0] = base /\ c[n] = f[1 .. n]
    BY <1>1, <1>4, <1>5 DEF FoldsAlong
<1>7. ASSUME NEW i \in 1 .. n PROVE c[i] = step[c[i - 1]][i]
    <2>1. i \in 0 .. n /\ i - 1 \in 0 .. n
        OBVIOUS
    <2> QED
        BY <1>2, <1>4, <2>1
<1> QED
    BY <1>5, <1>6, <1>7 DEF Steps

\* There is such a row of values.
LEMMA StepsExist ==
    ASSUME NEW n \in Nat, NEW A, NEW base \in A, NEW step \in [A -> [1 .. n -> A]]
    PROVE  \E c \in [0 .. n -> A] : Steps(c, base, step, n, c[n])
<1>1. PICK f \in [SUBSET (1 .. n) -> A] : Folding(f, base, step, n)
    BY FoldingExists
<1>2. FoldsAlong(f, base, step, n, A)
    BY <1>1 DEF Folding, FoldsAlong
<1>3. PICK c \in [0 .. n -> A] : Steps(c, base, step, n, f[1 .. n])
    BY <1>2, FoldedInSteps
<1>4. Steps(c, base, step, n, c[n])
    BY <1>3 DEF Steps
<1> QED
    BY <1>4

\* Steps that add to a set make the union of what they add.
AddsInSteps(c, w, n) == \A i \in 1 .. n : c[i] = c[i - 1] \cup w[i]

\* The last value is the first with all that was added.
LEMMA UnionInSteps ==
    ASSUME NEW n \in Nat, NEW w, NEW c, AddsInSteps(c, w, n)
    PROVE  c[n] = c[0] \cup UNION {w[i] : i \in 1 .. n}
<1> DEFINE added(m) == UNION {w[i] : i \in 1 .. m}
           odd == {m \in 0 .. n : c[m] # c[0] \cup added(m)}
<1>1. added(0) = {}
    OBVIOUS
<1>2. ASSUME NEW m \in 1 .. n PROVE added(m) = added(m - 1) \cup w[m]
    <2> DEFINE before == {w[i] : i \in 1 .. m - 1}
    <2>1. {w[i] : i \in 1 .. m} = before \cup {w[m]}
        <3>1. 1 .. m = (1 .. m - 1) \cup {m}
            OBVIOUS
        <3> QED
            BY <3>1
    <2> HIDE DEF before
    <2>2. UNION (before \cup {w[m]}) = (UNION before) \cup w[m]
        OBVIOUS
    <2> QED
        BY <2>1, <2>2 DEF before
<1> HIDE DEF added
<1>3. odd = {}
    <2> SUFFICES ASSUME odd # {} PROVE FALSE
        OBVIOUS
    <2>1. odd \in SUBSET Nat
        OBVIOUS
    <2>2. PICK m \in odd : \A k \in odd : m <= k
        BY <2>1, LeastNumber
    <2>3. m \in 0 .. n /\ c[m] # c[0] \cup added(m)
        BY <2>2
    <2>4. m # 0
        BY <1>1, <2>3
    <2>5. m - 1 \in 0 .. n /\ m \in 1 .. n /\ ~(m <= m - 1)
        BY <2>3, <2>4
    <2>6. m - 1 \notin odd
        <3> HIDE DEF odd
        <3> QED
            BY <2>2, <2>5
    <2>7. c[m - 1] = c[0] \cup added(m - 1)
        BY <2>5, <2>6
    <2>8. c[m] = c[m - 1] \cup w[m]
        BY <2>5 DEF AddsInSteps
    <2> QED
        BY <1>2, <2>3, <2>5, <2>7, <2>8
<1>4. c[n] = c[0] \cup added(n)
    BY <1>3
<1> QED
    BY <1>4 DEF added

----------------------------------------------------------------------------
(* Sorting.                                                                 *)

\* In a finite set that is ordered, where each element knows those ahead of it, the
\* number of those ahead tells the elements apart and takes every value.
LEMMA RanksTellApart ==
    ASSUME NEW S, IsFiniteSet(S), NEW ahead \in [S -> SUBSET S],
           \A x \in S : x \notin ahead[x],
           \A x, y \in S : y \in ahead[x] => ahead[y] \subseteq ahead[x],
           \A x, y \in S : x # y => x \in ahead[y] \/ y \in ahead[x]
    PROVE  /\ \A x \in S : Cardinality(ahead[x]) \in 0 .. Cardinality(S) - 1
           /\ \A x, y \in S : y \in ahead[x] <=> Cardinality(ahead[y]) < Cardinality(ahead[x])
           /\ \A n \in 1 .. Cardinality(S) : \E x \in S : Cardinality(ahead[x]) = n - 1
<1>1. Cardinality(S) \in Nat
    BY FS_CardinalityType
<1>2. ASSUME NEW x \in S
      PROVE  IsFiniteSet(ahead[x]) /\ Cardinality(ahead[x]) \in 0 .. Cardinality(S) - 1
    <2>1. ahead[x] \in SUBSET S /\ ahead[x] # S
        OBVIOUS
    <2>2. IsFiniteSet(ahead[x]) /\ Cardinality(ahead[x]) \in Nat
        BY <2>1, FS_Subset, FS_CardinalityType
    <2>3. Cardinality(ahead[x]) <= Cardinality(S) /\ Cardinality(ahead[x]) # Cardinality(S)
        BY <2>1, FS_Subset
    <2> QED
        BY <1>1, <2>2, <2>3
<1>3. ASSUME NEW x \in S, NEW y \in S, y \in ahead[x]
      PROVE  Cardinality(ahead[y]) < Cardinality(ahead[x])
    <2>1. ahead[y] \in SUBSET ahead[x] /\ ahead[y] # ahead[x]
        BY <1>3
    <2>2. /\ Cardinality(ahead[y]) <= Cardinality(ahead[x])
          /\ Cardinality(ahead[y]) # Cardinality(ahead[x])
        BY <1>2, <2>1, FS_Subset
    <2>3. Cardinality(ahead[y]) \in Int /\ Cardinality(ahead[x]) \in Int
        BY <1>1, <1>2
    <2> QED
        BY <2>2, <2>3
<1>4. \A x, y \in S : y \in ahead[x] <=> Cardinality(ahead[y]) < Cardinality(ahead[x])
    <2> SUFFICES ASSUME NEW x \in S, NEW y \in S, y \notin ahead[x]
                 PROVE  ~(Cardinality(ahead[y]) < Cardinality(ahead[x]))
        BY <1>3
    <2>1. Cardinality(ahead[y]) \in Int /\ Cardinality(ahead[x]) \in Int
        BY <1>1, <1>2
    <2>2. CASE x = y
        BY <2>1, <2>2
    <2>3. CASE x # y
        BY <1>3, <2>1, <2>3
    <2> QED
        BY <2>2, <2>3
<1> DEFINE place == [x \in S |-> Cardinality(ahead[x]) + 1]
<1>5. place \in Injection(S, 1 .. Cardinality(S))
    <2>1. \A x \in S : place[x] \in 1 .. Cardinality(S)
        BY <1>1, <1>2
    <2>2. \A x, y \in S : place[x] = place[y] => x = y
        <3> SUFFICES ASSUME NEW x \in S, NEW y \in S, x # y PROVE place[x] # place[y]
            OBVIOUS
        <3>1. Cardinality(ahead[y]) \in Int /\ Cardinality(ahead[x]) \in Int
            BY <1>1, <1>2
        <3> QED
            BY <1>3, <3>1
    <2>3. place \in [S -> 1 .. Cardinality(S)]
        BY <2>1
    <2> HIDE DEF place
    <2> QED
        BY <2>2, <2>3 DEF Injection, IsInjective
<1>6. IsFiniteSet(1 .. Cardinality(S)) /\ Cardinality(1 .. Cardinality(S)) = Cardinality(S)
    BY <1>1, FS_Interval
<1>7. place \in Surjection(S, 1 .. Cardinality(S))
    BY <1>5, <1>6, FS_Injection
<1>8. ASSUME NEW n \in 1 .. Cardinality(S) PROVE \E x \in S : Cardinality(ahead[x]) = n - 1
    <2>1. PICK x \in S : place[x] = n
        BY <1>7 DEF Surjection
    <2>2. Cardinality(ahead[x]) \in Int
        BY <1>1, <1>2
    <2> QED
        BY <2>1, <2>2
<1> QED
    BY <1>2, <1>4, <1>8

\* A sequence whose n-th element has n - 1 ahead of it holds the elements in order, each
\* at one place.
LEMMA RankedInOrder ==
    ASSUME NEW S, IsFiniteSet(S), NEW ahead \in [S -> SUBSET S],
           \A x \in S : x \notin ahead[x],
           \A x, y \in S : y \in ahead[x] => ahead[y] \subseteq ahead[x],
           \A x, y \in S : x # y => x \in ahead[y] \/ y \in ahead[x],
           NEW s, s = [n \in 1 .. Cardinality(S) |-> s[n]],
           \A n \in 1 .. Cardinality(S) :
               (\E x \in S : Cardinality(ahead[x]) = n - 1)
                   => s[n] \in S /\ Cardinality(ahead[s[n]]) = n - 1
    PROVE  /\ Cardinality(S) \in Nat /\ s \in Seq(S) /\ Len(s) = Cardinality(S)
           /\ \A x \in S : \E n \in 1 .. Cardinality(S) : s[n] = x
           /\ \A i, j \in 1 .. Cardinality(S) : s[i] \in ahead[s[j]] <=> i < j
<1>1. /\ \A x \in S : Cardinality(ahead[x]) \in 0 .. Cardinality(S) - 1
      /\ \A x, y \in S : y \in ahead[x] <=> Cardinality(ahead[y]) < Cardinality(ahead[x])
      /\ \A n \in 1 .. Cardinality(S) : \E x \in S : Cardinality(ahead[x]) = n - 1
    BY RanksTellApart
<1>2. Cardinality(S) \in Nat
    BY FS_CardinalityType
<1>3. \A n \in 1 .. Cardinality(S) : s[n] \in S /\ Cardinality(ahead[s[n]]) = n - 1
    BY <1>1
<1>4. s \in [1 .. Cardinality(S) -> S]
    BY <1>3
<1>5. s \in Seq(S) /\ Len(s) = Cardinality(S)
    BY <1>2, <1>4, TableIsSequence
<1>6. ASSUME NEW x \in S PROVE \E n \in 1 .. Cardinality(S) : s[n] = x
    <2> DEFINE n == Cardinality(ahead[x]) + 1
    <2>1. n \in 1 .. Cardinality(S) /\ n - 1 = Cardinality(ahead[x])
        BY <1>1, <1>2
    <2> HIDE DEF n
    <2>2. s[n] \in S /\ Cardinality(ahead[s[n]]) = Cardinality(ahead[x])
        BY <1>3, <2>1
    <2>3. ~(Cardinality(ahead[x]) < Cardinality(ahead[x])) /\ Cardinality(ahead[x]) \in Int
        BY <1>1, <1>2
    <2>4. s[n] \notin ahead[x] /\ x \notin ahead[s[n]]
        BY <1>1, <2>2, <2>3
    <2> QED
        BY <2>1, <2>2, <2>4
<1>7. ASSUME NEW i \in 1 .. Cardinality(S), NEW j \in 1 .. Cardinality(S)
      PROVE  s[i] \in ahead[s[j]] <=> i < j
    <2>1. s[i] \in ahead[s[j]] <=> i - 1 < j - 1
        BY <1>1, <1>3
    <2> QED
        BY <1>2, <2>1
<1> QED
    BY <1>2, <1>5, <1>6, <1>7

\* Python sorts are stable: an order by keys in which the place decides between equals.
LEMMA SortedByScore ==
    ASSUME NEW S, IsFiniteSet(S), \A x \in S : x.score \in Int /\ x.place \in Int,
           \A x, y \in S : x.place = y.place => x = y
    PROVE  /\ Cardinality(S) \in Nat /\ Sorted(S, ByScore) \in Seq(S)
           /\ Len(Sorted(S, ByScore)) = Cardinality(S)
           /\ \A x \in S : \E n \in 1 .. Cardinality(S) : Sorted(S, ByScore)[n] = x
           /\ \A i, j \in 1 .. Cardinality(S) :
                 ByScore(Sorted(S, ByScore)[i], Sorted(S, ByScore)[j]) <=> i < j
<1> DEFINE ahead == [x \in S |-> {y \in S : ByScore(y, x)}]
           s == Sorted(S, ByScore)
<1>1. ahead \in [S -> SUBSET S]
    OBVIOUS
<1>2. \A x, y \in S : y \in ahead[x] <=> ByScore(y, x)
    OBVIOUS
<1>3. /\ s = [n \in 1 .. Cardinality(S) |-> s[n]]
      /\ \A n \in 1 .. Cardinality(S) :
            (\E x \in S : Cardinality(ahead[x]) = n - 1)
                => s[n] \in S /\ Cardinality(ahead[s[n]]) = n - 1
    <2> DEFINE nth(n) == CHOOSE x \in S : Cardinality({y \in S : ByScore(y, x)}) = n - 1
    <2>1. s = [n \in 1 .. Cardinality(S) |-> nth(n)]
        BY DEF Sorted
    <2>2. \A x \in S : ahead[x] = {y \in S : ByScore(y, x)}
        OBVIOUS
    <2> HIDE DEF ahead, s
    <2>3. ASSUME NEW n, NEW x \in S, Cardinality(ahead[x]) = n - 1
          PROVE  nth(n) \in S /\ Cardinality(ahead[nth(n)]) = n - 1
        <3>1. Cardinality({y \in S : ByScore(y, x)}) = n - 1
            BY <2>2, <2>3
        <3>2. nth(n) \in S /\ Cardinality({y \in S : ByScore(y, nth(n))}) = n - 1
            BY <3>1
        <3> HIDE DEF nth
        <3> QED
            BY <2>2, <3>2
    <2> HIDE DEF nth
    <2>4. \A n \in 1 .. Cardinality(S) : s[n] = nth(n)
        BY <2>1
    <2> QED
        BY <2>1, <2>3, <2>4
<1> HIDE DEF ahead, s
<1>4. \A x \in S : x \notin ahead[x]
    BY <1>2 DEF ByScore
<1>5. \A x, y \in S : y \in ahead[x] => ahead[y] \subseteq ahead[x]
    BY <1>1, <1>2 DEF ByScore
<1>6. \A x, y \in S : x # y => x \in ahead[y] \/ y \in ahead[x]
    BY <1>2 DEF ByScore
<1>7. /\ Cardinality(S) \in Nat /\ s \in Seq(S) /\ Len(s) = Cardinality(S)
      /\ \A x \in S : \E n \in 1 .. Cardinality(S) : s[n] = x
      /\ \A i, j \in 1 .. Cardinality(S) : s[i] \in ahead[s[j]] <=> i < j
    BY <1>1, <1>3, <1>4, <1>5, <1>6, RankedInOrder
<1>8. \A i \in 1 .. Cardinality(S) : s[i] \in S
    BY <1>7
<1>9. \A i, j \in 1 .. Cardinality(S) : ByScore(s[i], s[j]) <=> i < j
    BY <1>2, <1>7, <1>8
<1> QED
    BY <1>7, <1>9 DEF s

LEMMA SortedByScoreAndDate ==
    ASSUME NEW S, IsFiniteSet(S),
           \A x \in S : x.score \in Int /\ x.date \in Int /\ x.place \in Int,
           \A x, y \in S : x.place = y.place => x = y
    PROVE  /\ Cardinality(S) \in Nat /\ Sorted(S, ByScoreAndDate) \in Seq(S)
           /\ Len(Sorted(S, ByScoreAndDate)) = Cardinality(S)
           /\ \A x \in S : \E n \in 1 .. Cardinality(S) : Sorted(S, ByScoreAndDate)[n] = x
           /\ \A i, j \in 1 .. Cardinality(S) :
                 ByScoreAndDate(Sorted(S, ByScoreAndDate)[i], Sorted(S, ByScoreAndDate)[j])
                     <=> i < j
<1> DEFINE ahead == [x \in S |-> {y \in S : ByScoreAndDate(y, x)}]
           s == Sorted(S, ByScoreAndDate)
<1>1. ahead \in [S -> SUBSET S]
    OBVIOUS
<1>2. \A x, y \in S : y \in ahead[x] <=> ByScoreAndDate(y, x)
    OBVIOUS
<1>3. /\ s = [n \in 1 .. Cardinality(S) |-> s[n]]
      /\ \A n \in 1 .. Cardinality(S) :
            (\E x \in S : Cardinality(ahead[x]) = n - 1)
                => s[n] \in S /\ Cardinality(ahead[s[n]]) = n - 1
    <2> DEFINE nth(n) == CHOOSE x \in S : Cardinality({y \in S : ByScoreAndDate(y, x)}) = n - 1
    <2>1. s = [n \in 1 .. Cardinality(S) |-> nth(n)]
        BY DEF Sorted
    <2>2. \A x \in S : ahead[x] = {y \in S : ByScoreAndDate(y, x)}
        OBVIOUS
    <2> HIDE DEF ahead, s
    <2>3. ASSUME NEW n, NEW x \in S, Cardinality(ahead[x]) = n - 1
          PROVE  nth(n) \in S /\ Cardinality(ahead[nth(n)]) = n - 1
        <3>1. Cardinality({y \in S : ByScoreAndDate(y, x)}) = n - 1
            BY <2>2, <2>3
        <3>2. nth(n) \in S /\ Cardinality({y \in S : ByScoreAndDate(y, nth(n))}) = n - 1
            BY <3>1
        <3> HIDE DEF nth
        <3> QED
            BY <2>2, <3>2
    <2> HIDE DEF nth
    <2>4. \A n \in 1 .. Cardinality(S) : s[n] = nth(n)
        BY <2>1
    <2> QED
        BY <2>1, <2>3, <2>4
<1> HIDE DEF ahead, s
<1>4. \A x \in S : x \notin ahead[x]
    BY <1>2 DEF ByScoreAndDate
<1>5. \A x, y \in S : y \in ahead[x] => ahead[y] \subseteq ahead[x]
    BY <1>1, <1>2 DEF ByScoreAndDate
<1>6. \A x, y \in S : x # y => x \in ahead[y] \/ y \in ahead[x]
    BY <1>2 DEF ByScoreAndDate
<1>7. /\ Cardinality(S) \in Nat /\ s \in Seq(S) /\ Len(s) = Cardinality(S)
      /\ \A x \in S : \E n \in 1 .. Cardinality(S) : s[n] = x
      /\ \A i, j \in 1 .. Cardinality(S) : s[i] \in ahead[s[j]] <=> i < j
    BY <1>1, <1>3, <1>4, <1>5, <1>6, RankedInOrder
<1>8. \A i \in 1 .. Cardinality(S) : s[i] \in S
    BY <1>7
<1>9. \A i, j \in 1 .. Cardinality(S) : ByScoreAndDate(s[i], s[j]) <=> i < j
    BY <1>2, <1>7, <1>8
<1> QED
    BY <1>7, <1>9 DEF s

----------------------------------------------------------------------------
(* Scores are numbers.                                                      *)

\* The terms of a question are finitely many.
LEMMA TermsFinite ==
    ASSUME NEW query, query \in Seq(ToSet(query)), NEW removeIntent
    PROVE  IsFiniteSet(Terms(query, removeIntent))
<1> DEFINE pieces == {Window(query, i, n) : i \in DOMAIN query, n \in 2 .. 4}
           stretches == {SubSeq(query, i, j) : i, j \in DOMAIN query}
           known == {s \in DOMAIN Synonyms : Occurs(s, query)}
           same == {Synonyms[s] : s \in known}
<1>1. DOMAIN query = 1 .. Len(query) /\ Len(query) \in Nat
    OBVIOUS
<1>2. IsFiniteSet(DOMAIN query) /\ IsFiniteSet(2 .. 4)
    <2>1. IsFiniteSet(1 .. Len(query))
        BY <1>1, FS_Interval
    <2>2. 2 \in Int /\ 4 \in Int
        OBVIOUS
    <2>3. IsFiniteSet(2 .. 4)
        BY <2>2, FS_Interval
    <2> QED
        BY <1>1, <2>1, <2>3
<1>3. IsFiniteSet(pieces)
    <2> DEFINE cut(i, n) == Window(query, i, n)
               A == DOMAIN query
               B == 2 .. 4
               T == {cut(i, n) : i \in A, n \in B}
               f == [p \in A \X B |-> cut(p[1], p[2])]
    <2>1. pieces = T
        OBVIOUS
    <2>2. IsFiniteSet(A \X B)
        BY <1>2, FS_Product
    <2> HIDE DEF cut, A, B
    <2>3. \A p \in A \X B : f[p] \in T
        OBVIOUS
    <2>4. \A x \in T : \E p \in A \X B : f[p] = x
        <3> SUFFICES ASSUME NEW i \in A, NEW n \in B PROVE \E p \in A \X B : f[p] = cut(i, n)
            OBVIOUS
        <3>1. <<i, n>> \in A \X B /\ f[<<i, n>>] = cut(i, n)
            OBVIOUS
        <3> QED
            BY <3>1
    <2>5. f \in [A \X B -> T]
        BY <2>3
    <2> HIDE DEF f, T
    <2>6. f \in Surjection(A \X B, T)
        BY <2>4, <2>5 DEF Surjection
    <2>7. IsFiniteSet(T)
        BY <2>2, <2>6, FS_Surjection
    <2> HIDE DEF pieces
    <2> QED
        BY <2>1, <2>7
<1>4. IsFiniteSet(stretches)
    <2> DEFINE cut(i, n) == SubSeq(query, i, n)
               A == DOMAIN query
               B == DOMAIN query
               T == {cut(i, n) : i \in A, n \in B}
               f == [p \in A \X B |-> cut(p[1], p[2])]
    <2>1. stretches = T
        OBVIOUS
    <2>2. IsFiniteSet(A \X B)
        BY <1>2, FS_Product
    <2> HIDE DEF cut, A, B
    <2>3. \A p \in A \X B : f[p] \in T
        OBVIOUS
    <2>4. \A x \in T : \E p \in A \X B : f[p] = x
        <3> SUFFICES ASSUME NEW i \in A, NEW n \in B PROVE \E p \in A \X B : f[p] = cut(i, n)
            OBVIOUS
        <3>1. <<i, n>> \in A \X B /\ f[<<i, n>>] = cut(i, n)
            OBVIOUS
        <3> QED
            BY <3>1
    <2>5. f \in [A \X B -> T]
        BY <2>3
    <2> HIDE DEF f, T
    <2>6. f \in Surjection(A \X B, T)
        BY <2>4, <2>5 DEF Surjection
    <2>7. IsFiniteSet(T)
        BY <2>2, <2>6, FS_Surjection
    <2> HIDE DEF stretches
    <2> QED
        BY <2>1, <2>7
<1>5. IsFiniteSet(UNION same)
    <2>1. IsFiniteSet(known)
        BY SynonymsAssumption, FS_Subset
    <2> DEFINE f == [s \in known |-> Synonyms[s]]
    <2>2. {f[s] : s \in known} = same
        OBVIOUS
    <2>3. DOMAIN f = known
        OBVIOUS
    <2> HIDE DEF f
    <2>4. IsFiniteSet(same)
        <3> HIDE DEF known, same
        <3> QED
            BY <2>1, <2>2, <2>3, ImageIsFinite
    <2>5. \A T \in same : IsFiniteSet(T)
        BY SynonymsAssumption
    <2> HIDE DEF same
    <2> QED
        BY <2>4, <2>5, FS_UNION
<1> DEFINE all == (pieces \cup stretches) \cup UNION same
<1>6. IsFiniteSet(all)
    <2> HIDE DEF pieces, stretches, same
    <2>1. IsFiniteSet(pieces \cup stretches)
        BY <1>3, <1>4, FS_Union
    <2> QED
        BY <1>5, <2>1, FS_Union
<1>7. Terms(query, removeIntent) \subseteq all
    <2>1. Runs(query) \subseteq stretches
        BY DEF Runs
    <2> HIDE DEF stretches
    <2> QED
        BY <2>1 DEF Terms
<1> HIDE DEF all
<1> QED
    BY <1>6, <1>7, FS_Subset

LEMMA TermWeightIsNumber ==
    ASSUME NEW version, NEW term
    PROVE  TermWeight(version, term) \in Nat
<1> DEFINE containing == {i \in DOMAIN Documents : Occurs(term, Corpus(Documents[i]))}
<1>1. DOMAIN Documents = 1 .. Len(Documents) /\ Len(Documents) \in Nat
    BY DocumentsAssumption
<1>2. IsFiniteSet(DOMAIN Documents) /\ Cardinality(DOMAIN Documents) = Len(Documents)
    <2> DEFINE n == Len(Documents)
    <2>1. n \in Nat /\ DOMAIN Documents = 1 .. n
        BY <1>1
    <2> HIDE DEF n
    <2>2. IsFiniteSet(1 .. n) /\ Cardinality(1 .. n) = n
        BY <2>1, FS_Interval
    <2> QED
        BY <2>1, <2>2 DEF n
<1>3. Cardinality(containing) \in Nat /\ Cardinality(containing) <= Len(Documents)
    <2>1. containing \in SUBSET (DOMAIN Documents)
        OBVIOUS
    <2> HIDE DEF containing
    <2> QED
        BY <1>2, <2>1, FS_Subset, FS_CardinalityType
<1>4. LogRatio[Cardinality(containing)] \in Nat
    <2> HIDE DEF containing
    <2> QED
        BY <1>1, <1>3, LogRatioAssumption
<1>5. InverseDocumentFrequency(term) \in Nat
    BY <1>4 DEF InverseDocumentFrequency
<1> QED
    BY <1>5 DEF TermWeight

\* What the values of a set's elements add up to, as a function of its subsets.
Summing(f, value, S) ==
    f = [s \in SUBSET S |->
            IF s = {} THEN 0
            ELSE value[CHOOSE x \in s : TRUE] + f[s \ {CHOOSE x \in s : TRUE}]]

LEMMA SummingExists ==
    ASSUME NEW value, NEW S, IsFiniteSet(S)
    PROVE  \E f : Summing(f, value, S)
<1> DEFINE pick(s) == CHOOSE x \in s : TRUE
           upTo(n) == {s \in SUBSET S : Cardinality(s) <= n}
           step(f, s) == IF s = {} THEN 0 ELSE value[pick(s)] + f[s \ {pick(s)}]
           without == {n \in Nat : ~ \E f : f = [s \in upTo(n) |-> step(f, s)]}
<1>1. \A s \in SUBSET S : IsFiniteSet(s) /\ Cardinality(s) \in Nat
    BY FS_Subset, FS_CardinalityType
<1>2. \A s \in SUBSET S : s # {} => Cardinality(s \ {pick(s)}) = Cardinality(s) - 1
    <2> TAKE s \in SUBSET S
    <2> HAVE s # {}
    <2>1. pick(s) \in s
        OBVIOUS
    <2> HIDE DEF pick
    <2> QED
        BY <1>1, <2>1, FS_RemoveElement
<1>3. without = {}
    <2> SUFFICES ASSUME without # {} PROVE FALSE
        OBVIOUS
    <2>1. PICK n \in without : \A k \in without : n <= k
        BY LeastNumber
    <2>2. n \in Nat /\ ~ \E f : f = [s \in upTo(n) |-> step(f, s)]
        BY <2>1
    <2>3. CASE n = 0
        <3> DEFINE f == [s \in upTo(0) |-> 0]
        <3>1. \A s \in upTo(0) : s = {}
            BY <1>1, FS_EmptySet
        <3>2. f = [s \in upTo(0) |-> step(f, s)]
            <4> HIDE DEF upTo
            <4> QED
                BY <3>1
        <3> QED
            BY <2>2, <2>3, <3>2
    <2>4. CASE n # 0
        <3>1. n - 1 \in Nat /\ n - 1 \notin without
            <4>1. n - 1 \in Nat /\ ~(n <= n - 1)
                BY <2>2, <2>4
            <4> HIDE DEF without
            <4> QED
                BY <2>1, <4>1
        <3>2. PICK g : g = [s \in upTo(n - 1) |-> step(g, s)]
            BY <3>1
        <3> DEFINE f == [s \in upTo(n) |-> step(g, s)]
        <3>3. \A s \in upTo(n) : s # {} => s \ {pick(s)} \in upTo(n - 1) /\ s \ {pick(s)} \in upTo(n)
            <4> TAKE s \in upTo(n)
            <4> HAVE s # {}
            <4>1. /\ Cardinality(s) <= n /\ Cardinality(s) \in Nat
                  /\ Cardinality(s \ {pick(s)}) = Cardinality(s) - 1
                BY <1>1, <1>2
            <4> HIDE DEF pick
            <4> QED
                BY <2>2, <4>1
        <3>4. \A s \in upTo(n - 1) : s \in upTo(n) /\ g[s] = step(g, s)
            <4>1. \A s \in upTo(n - 1) : s \in upTo(n)
                BY <1>1, <2>2
            <4> HIDE DEF upTo, step
            <4> QED
                BY <3>2, <4>1
        <3>5. \A s \in upTo(n - 1) : f[s] = g[s]
            <4> HIDE DEF upTo, step
            <4> QED
                BY <3>4
        <3>6. \A s \in upTo(n) : step(g, s) = step(f, s)
            <4> HIDE DEF upTo, f, pick
            <4> QED
                BY <3>3, <3>5
        <3>7. f = [s \in upTo(n) |-> step(f, s)]
            <4>1. f = [s \in upTo(n) |-> step(g, s)]
                OBVIOUS
            <4> HIDE DEF f, step, upTo
            <4> QED
                BY <3>6, <4>1
        <3> HIDE DEF f
        <3> QED
            BY <2>2, <3>7
    <2> QED
        BY <2>3, <2>4
<1>4. Cardinality(S) \in Nat /\ upTo(Cardinality(S)) = SUBSET S
    <2>1. \A s \in SUBSET S : Cardinality(s) <= Cardinality(S)
        BY FS_Subset
    <2> QED
        BY <2>1, FS_CardinalityType
<1>5. PICK f : f = [s \in upTo(Cardinality(S)) |-> step(f, s)]
    BY <1>3, <1>4
<1>6. f = [s \in SUBSET S |-> step(f, s)]
    BY <1>4, <1>5
<1> QED
    BY <1>6 DEF Summing

\* The sum of numbers is a number.
LEMMA SumIsNumber ==
    ASSUME NEW S, IsFiniteSet(S), NEW value \in [S -> Nat], NEW f, Summing(f, value, S)
    PROVE  f[S] \in Nat
<1> DEFINE pick(s) == CHOOSE x \in s : TRUE
<1>1. f = [s \in SUBSET S |-> IF s = {} THEN 0 ELSE value[pick(s)] + f[s \ {pick(s)}]]
    BY DEF Summing
<1> DEFINE odd == {s \in SUBSET S : f[s] \notin Nat}
           sizes == {Cardinality(s) : s \in odd}
<1>2. odd = {}
    <2> SUFFICES ASSUME odd # {} PROVE FALSE
        OBVIOUS
    <2>1. \A s \in odd : Cardinality(s) \in Nat /\ IsFiniteSet(s)
        BY FS_Subset, FS_CardinalityType
    <2>2. sizes \in SUBSET Nat /\ sizes # {}
        BY <2>1
    <2>3. PICK n \in sizes : \A k \in sizes : n <= k
        <3> HIDE DEF sizes
        <3> QED
            BY <2>2, LeastNumber
    <2>4. PICK s \in odd : Cardinality(s) = n
        BY <2>3
    <2>5. s # {}
        BY <1>1
    <2>6. pick(s) \in s /\ s \ {pick(s)} \in SUBSET S
        BY <2>5
    <2>7. f[s] = value[pick(s)] + f[s \ {pick(s)}] /\ value[pick(s)] \in Nat
        BY <1>1, <2>5, <2>6
    <2> HIDE DEF pick
    <2>8. f[s \ {pick(s)}] \notin Nat
        BY <2>7
    <2>9. Cardinality(s \ {pick(s)}) = Cardinality(s) - 1
        BY <2>1, <2>6, FS_RemoveElement
    <2>10. Cardinality(s \ {pick(s)}) \in sizes
        BY <2>6, <2>8
    <2>11. Cardinality(s) \in Nat /\ Cardinality(s) <= Cardinality(s \ {pick(s)})
        BY <2>1, <2>3, <2>4, <2>10
    <2> QED
        BY <2>9, <2>11
<1> QED
    BY <1>2

\* What terms weigh is a number.
LEMMA WeightIsNumber ==
    ASSUME NEW version, NEW S, IsFiniteSet(S)
    PROVE  Weight(version, S) \in Nat
<1> DEFINE pick(s) == CHOOSE x \in s : TRUE
           Adding(f) == f = [s \in SUBSET S |->
                                IF s = {} THEN 0
                                ELSE TermWeight(version, pick(s)) + f[s \ {pick(s)}]]
           sum == CHOOSE f : Adding(f)
           value == [t \in S |-> TermWeight(version, t)]
<1>1. Weight(version, S) = sum[S]
    BY DEF Weight, MapThenSumSet, MapThenFoldSet
<1>2. value \in [S -> Nat]
    BY TermWeightIsNumber
<1>3. \A s \in SUBSET S : s # {} => TermWeight(version, pick(s)) = value[pick(s)]
    OBVIOUS
<1>4. ASSUME NEW f PROVE Adding(f) <=> Summing(f, value, S)
    <2> HIDE DEF value
    <2> QED
        BY <1>3 DEF Summing
<1> HIDE DEF value, Adding
<1>5. Adding(sum)
    BY <1>4, SummingExists
<1> HIDE DEF sum
<1>6. sum[S] \in Nat
    BY <1>2, <1>4, <1>5, SumIsNumber
<1> QED
    BY <1>1, <1>6

\* The bonus for a context is a number.
LEMMA BonusIsNumber ==
    ASSUME NEW doc, NEW context \in Contexts
    PROVE  ContextBonus(doc, context) \in Nat
<1> DEFINE S == context \cap doc.tags
           pick(s) == CHOOSE x \in s : TRUE
           Adding(f) == f = [s \in SUBSET S |->
                                IF s = {} THEN 0
                                ELSE ContextWeight[pick(s)[1]] + f[s \ {pick(s)}]]
           sum == CHOOSE f : Adding(f)
           value == [t \in S |-> ContextWeight[t[1]]]
<1>1. ContextBonus(doc, context) = 4000 * sum[S]
    BY DEF ContextBonus, MapThenSumSet, MapThenFoldSet
<1>2. IsFiniteSet(S)
    BY ContextsAssumption, FS_Subset
<1>3. value \in [S -> Nat]
    <2>1. \A field \in DOMAIN ContextWeight : ContextWeight[field] \in Nat
        BY DEF ContextWeight
    <2>2. \A t \in S : ContextWeight[t[1]] \in Nat
        BY <2>1, ContextsAssumption
    <2> QED
        BY <2>2
<1> HIDE DEF S
<1>4. \A s \in SUBSET S : s # {} => ContextWeight[pick(s)[1]] = value[pick(s)]
    OBVIOUS
<1>5. ASSUME NEW f PROVE Adding(f) <=> Summing(f, value, S)
    <2> HIDE DEF value
    <2> QED
        BY <1>4 DEF Summing
<1> HIDE DEF value, Adding
<1>6. Adding(sum)
    BY <1>2, <1>5, SummingExists
<1> HIDE DEF sum
<1>7. sum[S] \in Nat
    BY <1>2, <1>3, <1>5, <1>6, SumIsNumber
<1> QED
    BY <1>1, <1>7

\* Without a context there is no bonus.
LEMMA NoContextNoBonus ==
    ASSUME NEW doc
    PROVE  ContextBonus(doc, {}) = 0
<1> DEFINE value(t) == ContextWeight[t[1]]
           pick(s) == CHOOSE x \in s : TRUE
           sum == MapThenSumSet(value, {})
           Adding(f) == f = [s \in SUBSET {} |->
                                 IF s = {} THEN 0 ELSE value(pick(s)) + f[s \ {pick(s)}]]
<1>1. sum = (CHOOSE f : Adding(f))[{}]
    BY DEF MapThenSumSet, MapThenFoldSet
<1>2. \A s \in SUBSET {} : s = {}
    OBVIOUS
<1> DEFINE zero == [s \in SUBSET {} |-> 0]
<1>3. Adding(zero)
    <2> HIDE DEF value, pick
    <2> QED
        BY <1>2
<1> HIDE DEF zero
<1>4. Adding(CHOOSE f : Adding(f))
    BY <1>3
<1>5. (CHOOSE f : Adding(f))[{}] = 0
    <2> DEFINE f == CHOOSE f : Adding(f)
    <2>1. f = [s \in SUBSET {} |-> IF s = {} THEN 0 ELSE value(pick(s)) + f[s \ {pick(s)}]]
        BY <1>4
    <2> HIDE DEF f, value, pick
    <2>2. f[{}] = 0
        BY <2>1
    <2> QED
        BY <2>2 DEF f
<1>6. sum = 0
    BY <1>1, <1>5
<1>7. {} \cap doc.tags = {}
    OBVIOUS
<1> QED
    BY <1>6, <1>7 DEF ContextBonus

\* What a result says of its document.
LEMMA ScoredParts ==
    ASSUME NEW q \in Questions, NEW c \in Contexts, NEW v \in DOMAIN Presets,
           NEW i \in DOMAIN Documents
    PROVE  LET r == Scored(i, q, c, v)
           IN /\ DOMAIN r = {"id", "date", "place", "score", "lexical", "metadata", "semantic",
                             "coverage", "matched", "preview"}
              /\ r.id = Documents[i].id /\ r.date = Documents[i].date /\ r.place = i
              /\ r.coverage = QueryCoverage(q, Corpus(Documents[i]))
              /\ r.lexical \in Nat /\ r.semantic = 0 /\ (c = {} => r.metadata = 0)
              /\ r.score \in Nat /\ r.lexical <= r.score
<1> DEFINE doc == Documents[i]
           preset == Presets[v]
           terms == Terms(q, preset.intent)
           title == {t \in terms : Occurs(t, doc.important)}
           body == {t \in terms \ title : Occurs(t, doc.body)}
           evidence == {t \in terms \ (title \cup body) : Occurs(t, Evidence(doc))}
           lexical == preset.important * Weight(v, title) + preset.body * Weight(v, body)
                          + preset.evidence * Weight(v, evidence)
           quality == IF lexical > 0 /\ preset.quality THEN QualityBonus(doc) ELSE 0
           bonus == ContextBonus(doc, c)
           r == Scored(i, q, c, v)
<1>1. IsFiniteSet(terms)
    BY TermsFinite, QuestionsAssumption
<1>2. title \in SUBSET terms /\ body \in SUBSET terms /\ evidence \in SUBSET terms
    OBVIOUS
<1>3. preset.important \in Nat /\ preset.body \in Nat /\ preset.evidence \in Nat
    BY DEF Presets
<1>4. /\ DOMAIN r = {"id", "date", "place", "score", "lexical", "metadata", "semantic",
                     "coverage", "matched", "preview"}
      /\ r.id = doc.id /\ r.date = doc.date /\ r.place = i
      /\ r.lexical = lexical /\ r.metadata = bonus /\ r.semantic = 0
      /\ r.score = lexical + bonus + quality
      /\ r.coverage = QueryCoverage(q, Corpus(doc))
    BY DEF Scored
<1>5. QualityBonus(doc) \in Nat /\ bonus \in Nat /\ (c = {} => bonus = 0)
    <2>1. QualityBonus(doc) \in Nat
        BY DEF QualityBonus
    <2>2. bonus \in Nat
        BY BonusIsNumber
    <2>3. c = {} => bonus = 0
        BY NoContextNoBonus
    <2> QED
        BY <2>1, <2>2, <2>3
<1> HIDE DEF terms, title, body, evidence, preset, doc, bonus
<1>6. Weight(v, title) \in Nat /\ Weight(v, body) \in Nat /\ Weight(v, evidence) \in Nat
    BY <1>1, <1>2, FS_Subset, WeightIsNumber
<1>7. lexical \in Nat
    BY <1>3, <1>6
<1> HIDE DEF lexical
<1>8. quality \in Nat
    BY <1>5
<1> HIDE DEF quality, r
<1>9. r.lexical \in Nat /\ r.score \in Nat /\ r.lexical <= r.score
    BY <1>4, <1>5, <1>7, <1>8
<1> QED
    BY <1>4, <1>5, <1>9 DEF r, doc

----------------------------------------------------------------------------
(* What the lexical search finds.                                           *)

\* The documents with a score.
Hits(query, context, version) ==
    {r \in {Scored(i, query, context, version) : i \in DOMAIN Documents} : r.score > 0}

LEMMA HitsFinite ==
    ASSUME NEW query, NEW context, NEW version
    PROVE  IsFiniteSet(Hits(query, context, version))
<1> DEFINE score == [i \in DOMAIN Documents |-> Scored(i, query, context, version)]
           all == {score[i] : i \in DOMAIN Documents}
<1>1. IsFiniteSet(DOMAIN Documents)
    <2>1. DOMAIN Documents = 1 .. Len(Documents) /\ Len(Documents) \in Nat
        BY DocumentsAssumption
    <2> QED
        BY <2>1, FS_Interval
<1>2. IsFiniteSet(all)
    <2>1. DOMAIN score = DOMAIN Documents
        OBVIOUS
    <2> HIDE DEF score
    <2> QED
        BY <1>1, <2>1, ImageIsFinite
<1>3. Hits(query, context, version) \subseteq all
    BY DEF Hits
<1> HIDE DEF all
<1> QED
    BY <1>2, <1>3, FS_Subset

\* A ranking: every document with a score, once, the better first.
LEMMA RankingInOrder ==
    ASSUME NEW q \in Questions, NEW c \in Contexts, NEW v \in DOMAIN Presets
    PROVE  LET ranking == Ranking(q, c, v)
           IN /\ ranking \in Seq(Hits(q, c, v))
              /\ \A x \in Hits(q, c, v) : \E n \in DOMAIN ranking : ranking[n] = x
              /\ \A i, j \in DOMAIN ranking : ByScoreAndDate(ranking[i], ranking[j]) <=> i < j
<1> DEFINE S == Hits(q, c, v)
<1>1. \A x \in S : \E i \in DOMAIN Documents : x = Scored(i, q, c, v)
    BY DEF Hits
<1>2. \A x \in S : /\ x.score \in Int /\ x.date \in Int /\ x.place \in Int
                   /\ x = Scored(x.place, q, c, v)
    <2> TAKE x \in S
    <2>1. PICK i \in DOMAIN Documents : x = Scored(i, q, c, v)
        BY <1>1
    <2>2. i \in Int /\ Documents[i].date \in Int
        BY DocumentsAssumption
    <2>3. x.score \in Nat /\ x.date = Documents[i].date /\ x.place = i
        BY <2>1, ScoredParts
    <2> QED
        BY <2>1, <2>2, <2>3
<1>3. \A x, y \in S : x.place = y.place => x = y
    BY <1>2
<1>4. Ranking(q, c, v) = Sorted(S, ByScoreAndDate)
    BY DEF Ranking, Hits
<1>5. IsFiniteSet(S)
    BY HitsFinite
<1> DEFINE s == Sorted(S, ByScoreAndDate)
<1> HIDE DEF S
<1>6. /\ Cardinality(S) \in Nat /\ s \in Seq(S) /\ Len(s) = Cardinality(S)
      /\ \A x \in S : \E n \in 1 .. Cardinality(S) : s[n] = x
      /\ \A i, j \in 1 .. Cardinality(S) : ByScoreAndDate(s[i], s[j]) <=> i < j
    BY <1>2, <1>3, <1>5, SortedByScoreAndDate
<1> HIDE DEF s
<1>7. DOMAIN s = 1 .. Cardinality(S)
    BY <1>6
<1> QED
    BY <1>4, <1>6, <1>7 DEF s, S

\* What the table says that a search finds.
LEMMA FoundByRank ==
    ASSUME NEW q \in Questions, NEW c \in Contexts, NEW n \in Limits, NEW v \in DOMAIN Presets
    PROVE  Found[q][c][n][v] = FirstOf(Ranking(q, c, v), n)
BY FoundAssumption DEF Searches, SearchDocuments

\* What the lexical search returns without a context: results about different documents.
PlainResults(results) ==
    /\ results \in Seq(ToSet(results))
    /\ \A i \in DOMAIN results :
          /\ DOMAIN results[i] = {"id", "date", "place", "score", "lexical", "metadata",
                                  "semantic", "coverage", "matched", "preview"}
          /\ results[i].id \in DocumentIds
          /\ results[i].lexical \in Nat /\ results[i].metadata = 0 /\ results[i].semantic = 0
          /\ results[i].score \in Nat /\ results[i].lexical <= results[i].score
    /\ \A i, j \in DOMAIN results : results[i].id = results[j].id => i = j

LEMMA LimitsAreNumbers == Limits \subseteq Nat
BY LimitsAssumption, FetchLimitAssumption, DocumentsAssumption DEF Limits, Larger

LEMMA FoundIsPlain ==
    ASSUME NEW q \in Questions, NEW n \in Limits, NEW v \in DOMAIN Presets
    PROVE  PlainResults(Found[q][{}][n][v])
<1> DEFINE ranking == Ranking(q, {}, v)
           results == FirstOf(ranking, n)
<1>1. /\ ranking \in Seq(Hits(q, {}, v))
      /\ \A i, j \in DOMAIN ranking : ByScoreAndDate(ranking[i], ranking[j]) <=> i < j
    BY ContextsAssumption, RankingInOrder
<1>2. n \in Nat
    BY LimitsAreNumbers
<1> HIDE DEF ranking
<1>3. /\ results \in Seq(Hits(q, {}, v)) /\ DOMAIN results \subseteq DOMAIN ranking
      /\ \A i \in DOMAIN results : results[i] = ranking[i]
    BY <1>1, <1>2, CutElements
<1> HIDE DEF results
<1>4. ASSUME NEW i \in DOMAIN results
      PROVE  \E place \in DOMAIN Documents : results[i] = Scored(place, q, {}, v)
    <2>1. results[i] \in Hits(q, {}, v)
        BY <1>3
    <2> QED
        BY <2>1 DEF Hits
<1>5. \A i \in DOMAIN results :
          /\ DOMAIN results[i] = {"id", "date", "place", "score", "lexical", "metadata",
                                  "semantic", "coverage", "matched", "preview"}
          /\ results[i].id \in DocumentIds
          /\ results[i].lexical \in Nat /\ results[i].metadata = 0 /\ results[i].semantic = 0
          /\ results[i].score \in Nat /\ results[i].lexical <= results[i].score
    <2> TAKE i \in DOMAIN results
    <2>1. PICK place \in DOMAIN Documents : results[i] = Scored(place, q, {}, v)
        BY <1>4
    <2>2. Documents[place].id \in DocumentIds
        BY DEF DocumentIds
    <2> QED
        BY <2>1, <2>2, ContextsAssumption, ScoredParts
<1>6. ASSUME NEW i \in DOMAIN results, NEW j \in DOMAIN results, results[i].id = results[j].id
      PROVE  i = j
    <2>1. PICK a \in DOMAIN Documents : results[i] = Scored(a, q, {}, v)
        BY <1>4
    <2>2. PICK b \in DOMAIN Documents : results[j] = Scored(b, q, {}, v)
        BY <1>4
    <2>3. Documents[a].id = Documents[b].id
        BY <1>6, <2>1, <2>2, ContextsAssumption, ScoredParts
    <2>4. results[i] = results[j]
        BY <2>1, <2>2, <2>3, DocumentsAssumption
    <2>5. ranking[i] = ranking[j] /\ i \in DOMAIN ranking /\ j \in DOMAIN ranking
        BY <1>3, <2>4
    <2>6. ~(i < j) /\ ~(j < i)
        BY <1>1, <2>5
    <2>7. i \in Int /\ j \in Int
        BY <1>1, <2>5
    <2> QED
        BY <2>6, <2>7
<1>7. results \in Seq(ToSet(results))
    BY <1>3 DEF ToSet
<1>8. PlainResults(results)
    BY <1>5, <1>6, <1>7 DEF PlainResults
<1>9. Found[q][{}][n][v] = results
    BY ContextsAssumption, FoundByRank DEF results, ranking
<1> QED
    BY <1>8, <1>9

\* A lexical search for as many documents as the tool returns finds the first of those
\* that a hybrid search takes from it.
LEMMA CandidatesCut ==
    ASSUME NEW q \in Questions, NEW v \in DOMAIN Presets
    PROVE  FirstOf(LexicalCandidates(q, v), ToolLimit) = Found[q][{}][ToolLimit][v]
<1> DEFINE n == Larger(ToolLimit, FetchLimit)
<1>1. n \in Nat /\ ToolLimit \in Nat /\ ToolLimit <= n
    BY LimitsAssumption, FetchLimitAssumption DEF Larger
<1>2. n \in Limits /\ ToolLimit \in Limits
    BY DEF Limits
<1>3. Found[q][{}][n][v] = FirstOf(Ranking(q, {}, v), n)
    BY <1>2, ContextsAssumption, FoundByRank
<1>4. Found[q][{}][ToolLimit][v] = FirstOf(Ranking(q, {}, v), ToolLimit)
    BY <1>2, ContextsAssumption, FoundByRank
<1>5. Ranking(q, {}, v) \in Seq(Hits(q, {}, v))
    BY ContextsAssumption, RankingInOrder
<1>6. LexicalCandidates(q, v) = Found[q][{}][n][v]
    BY DEF LexicalCandidates
<1> HIDE DEF n
<1> QED
    BY <1>1, <1>3, <1>4, <1>5, <1>6, CutTwice

\* What convinces the model among the first results convinces run_agent among the more
\* it asks for: the score is at least its lexical part.
LEMMA GroundedInBoth ==
    ASSUME NEW q \in Questions,
           Decide(q, BoundToolResult(Found[q][{}][ToolLimit]["v4"])).status = "grounded"
    PROVE  ChatAnswer(q, Found[q][{}][ChatLimit]["v4"]).status = "grounded"
<1> DEFINE ranking == Ranking(q, {}, "v4")
           fewer == Found[q][{}][ToolLimit]["v4"]
           more == Found[q][{}][ChatLimit]["v4"]
<1>1. /\ ToolLimit \in Limits /\ ChatLimit \in Limits /\ "v4" \in DOMAIN Presets
      /\ ToolLimit \in Nat /\ ChatLimit \in Nat /\ ToolLimit <= ChatLimit
    BY LimitsAssumption DEF Limits, Presets
<1>2. ranking \in Seq(Hits(q, {}, "v4")) /\ Len(ranking) \in Nat
    BY <1>1, ContextsAssumption, RankingInOrder
<1>3. fewer = FirstOf(ranking, ToolLimit) /\ more = FirstOf(ranking, ChatLimit)
    BY <1>1, ContextsAssumption, FoundByRank
<1>4. PlainResults(fewer)
    BY <1>1, FoundIsPlain
<1> HIDE DEF ranking, fewer, more
<1>5. /\ DOMAIN fewer = 1 .. Smaller(ToolLimit, Len(ranking))
      /\ \A i \in DOMAIN fewer : fewer[i] = ranking[i]
    BY <1>1, <1>2, <1>3, CutElements
<1>6. /\ DOMAIN more = 1 .. Smaller(ChatLimit, Len(ranking))
      /\ \A i \in DOMAIN more : more[i] = ranking[i]
    BY <1>1, <1>2, <1>3, CutElements
<1>7. DOMAIN fewer \subseteq DOMAIN more
    BY <1>1, <1>2, <1>5, <1>6 DEF Smaller
<1>8. /\ AssessQuestion(q) = "ALLOWED"
      /\ \E i \in DOMAIN BoundToolResult(fewer) : HasStrongEvidence(BoundToolResult(fewer)[i])
    BY DEF Decide, fewer
<1>9. PICK i \in DOMAIN fewer : HasStrongEvidence(fewer[i])
    BY <1>8 DEF BoundToolResult
<1>10. /\ fewer[i].semantic = 0 /\ fewer[i].lexical \in Nat /\ fewer[i].score \in Nat
       /\ fewer[i].lexical <= fewer[i].score
    BY <1>4, <1>9 DEF PlainResults
<1>11. fewer[i].lexical >= 16000
    BY <1>9, <1>10 DEF HasStrongEvidence
<1>12. i \in DOMAIN more /\ ~(more[i].score < MinSupportedScore)
    BY <1>5, <1>6, <1>7, <1>10, <1>11 DEF MinSupportedScore
<1> QED
    BY <1>8, <1>12 DEF ChatAnswer, more

----------------------------------------------------------------------------
(* What the hybrid search finds.                                            *)

\* What is merged: the lexical results, then the documents that the index adds.
AddedByIndex(q, rows, lexical) ==
    {i \in DOMAIN Documents : /\ Documents[i].id \notin {lexical[j].id : j \in DOMAIN lexical}
                              /\ Vector(q, rows, Documents[i].id) > 0}

Items(q, rows, lexical) ==
    {Blended(lexical[i], Vector(q, rows, lexical[i].id), i) : i \in DOMAIN lexical}
        \cup {Blended(Unmatched(i), Vector(q, rows, Documents[i].id), Len(lexical) + i) :
                 i \in AddedByIndex(q, rows, lexical)}

LEMMA MergedByScore ==
    ASSUME NEW q \in Questions, NEW rows, NEW lexical, PlainResults(lexical), NEW limit
    PROVE  MergeSemanticResults(lexical, SimilarityIn(rows, q), limit)
               = FirstOf(Sorted(Items(q, rows, lexical), ByScore), limit)
<1> DEFINE similarity == SimilarityIn(rows, q)
           semantic(id) ==
               IF id \in DOMAIN similarity /\ similarity[id] > 0 THEN similarity[id] ELSE 0
           added == {i \in DOMAIN Documents :
                        /\ Documents[i].id \notin {lexical[j].id : j \in DOMAIN lexical}
                        /\ semantic(Documents[i].id) > 0}
           merged == {Blended(lexical[i], semantic(lexical[i].id), i) : i \in DOMAIN lexical}
                         \cup {Blended(Unmatched(i), semantic(Documents[i].id), Len(lexical) + i) :
                                  i \in added}
<1>1. \A id \in DocumentIds : semantic(id) = Vector(q, rows, id)
    <2> TAKE id \in DocumentIds
    <2>1. Similarity[q][id] \in Int
        BY QuestionsAssumption
    <2> QED
        BY <2>1 DEF SimilarityIn, Vector, Larger
<1>2. /\ \A i \in DOMAIN lexical : lexical[i].id \in DocumentIds
      /\ \A i \in DOMAIN Documents : Documents[i].id \in DocumentIds
    BY DEF PlainResults, DocumentIds
<1>3. MergeSemanticResults(lexical, similarity, limit) = FirstOf(Sorted(merged, ByScore), limit)
    BY DEF MergeSemanticResults
<1> HIDE DEF semantic
<1>4. added = AddedByIndex(q, rows, lexical)
    BY <1>1, <1>2 DEF AddedByIndex
<1>5. merged = Items(q, rows, lexical)
    <2> HIDE DEF added
    <2> QED
        BY <1>1, <1>2, <1>4 DEF Items, AddedByIndex
<1> QED
    BY <1>3, <1>5

\* The words of a lexical result are its own, and nothing else has any.
LEMMA WordsOfResults ==
    ASSUME NEW lexical, PlainResults(lexical)
    PROVE  /\ \A i \in DOMAIN lexical : Words(lexical, lexical[i].id) = Smaller(80000, lexical[i].lexical)
           /\ \A id : (\A i \in DOMAIN lexical : lexical[i].id # id) => Words(lexical, id) = 0
<1>1. DOMAIN lexical = 1 .. Len(lexical) /\ Len(lexical) \in Nat
    BY DEF PlainResults
<1>2. ASSUME NEW i \in DOMAIN lexical
      PROVE  Words(lexical, lexical[i].id) = Smaller(80000, lexical[i].lexical)
    <2> DEFINE places == {j \in 1 .. Len(lexical) : lexical[j].id = lexical[i].id}
    <2>1. places = {i}
        BY <1>1 DEF PlainResults
    <2>2. Min(places) = i
        <3> HIDE DEF places
        <3> QED
            BY <1>1, <2>1 DEF Min
    <2>3. SelectInSeq(lexical, LAMBDA r : r.id = lexical[i].id) = i
        BY <2>1, <2>2 DEF SelectInSeq
    <2>4. i # 0
        BY <1>1
    <2> QED
        BY <2>3, <2>4 DEF Words
<1>3. ASSUME NEW id, \A i \in DOMAIN lexical : lexical[i].id # id
      PROVE  Words(lexical, id) = 0
    <2>1. {j \in 1 .. Len(lexical) : lexical[j].id = id} = {}
        BY <1>1, <1>3
    <2>2. SelectInSeq(lexical, LAMBDA r : r.id = id) = 0
        BY <2>1 DEF SelectInSeq
    <2> QED
        BY <2>2 DEF Words
<1> QED
    BY <1>2, <1>3

LEMMA VectorIsNumber ==
    ASSUME NEW q \in Questions, NEW rows, NEW id \in DocumentIds
    PROVE  Vector(q, rows, id) \in Nat
<1>1. Similarity[q][id] \in Int
    BY QuestionsAssumption
<1> QED
    BY <1>1 DEF Vector, Larger

\* The blend before it is rounded: the tool searches without a context.
Blend(q, rows, lexical, id) == 55 * Words(lexical, id) + 28 * Vector(q, rows, id)

\* round(..., 4) keeps a difference of one unit of the fourth decimal.
LEMMA RoundingKeepsUnits ==
    ASSUME NEW a \in Nat, NEW b \in Nat
    PROVE  /\ Rounded(a, 800) \in Int
           /\ a >= b + 800 => Rounded(a, 800) > Rounded(b, 800)
<1>1. Rounded(a, 800) = (a + 400) \div 800 /\ Rounded(b, 800) = (b + 400) \div 800
    BY DEF Rounded
<1> QED
    BY <1>1

\* What is merged: one item for each candidate, at a place of its own, with the score
\* that its words and its vector give it.
LEMMA ItemParts ==
    ASSUME NEW q \in Questions, NEW rows, NEW lexical, PlainResults(lexical)
    PROVE  LET S == Items(q, rows, lexical)
           IN /\ IsFiniteSet(S)
              /\ \A x \in S :
                    /\ x.place \in Int /\ x.id \in Candidates(q, rows, lexical)
                    /\ x.score = Rounded(Blend(q, rows, lexical, x.id), 800)
              /\ \A x, y \in S : x.place = y.place => x = y
              /\ \A x, y \in S : x.id = y.id => x = y
              /\ \A id \in Candidates(q, rows, lexical) : \E x \in S : x.id = id
<1> DEFINE own(i) == Blended(lexical[i], Vector(q, rows, lexical[i].id), i)
           new(i) == Blended(Unmatched(i), Vector(q, rows, Documents[i].id), Len(lexical) + i)
           added == AddedByIndex(q, rows, lexical)
           S == Items(q, rows, lexical)
<1>1. /\ DOMAIN lexical = 1 .. Len(lexical) /\ Len(lexical) \in Nat
      /\ DOMAIN Documents = 1 .. Len(Documents) /\ Len(Documents) \in Nat
    BY DocumentsAssumption DEF PlainResults
<1>2. /\ \A i \in DOMAIN lexical : lexical[i].id \in DocumentIds
      /\ \A i \in DOMAIN Documents : Documents[i].id \in DocumentIds
    BY DEF PlainResults, DocumentIds
<1>3. ASSUME NEW i \in DOMAIN lexical
      PROVE  /\ own(i).id = lexical[i].id /\ own(i).place = i
             /\ own(i).score = Rounded(Blend(q, rows, lexical, lexical[i].id), 800)
    <2> DEFINE item == lexical[i]
               vector == Vector(q, rows, lexical[i].id)
    <2>1. /\ DOMAIN item = {"id", "date", "place", "score", "lexical", "metadata", "semantic",
                            "coverage", "matched", "preview"}
          /\ item.lexical \in Nat /\ item.metadata = 0
        BY DEF PlainResults
    <2>2. Words(lexical, item.id) = Smaller(80000, item.lexical)
        BY WordsOfResults
    <2>3. vector \in Nat
        BY <1>2, VectorIsNumber
    <2> HIDE DEF item, vector
    <2>4. /\ Blended(item, vector, i).id = item.id /\ Blended(item, vector, i).place = i
          /\ Blended(item, vector, i).score
                 = Rounded(55 * Smaller(item.lexical, 80000) + 28 * vector
                               + 20 * Smaller(item.metadata, 40000), 800)
        BY <2>1 DEF Blended
    <2>5. /\ Smaller(item.metadata, 40000) = 0 /\ Smaller(item.lexical, 80000) \in Nat
          /\ Smaller(item.lexical, 80000) = Smaller(80000, item.lexical)
        BY <2>1 DEF Smaller
    <2>6. 55 * Smaller(item.lexical, 80000) + 28 * vector + 20 * Smaller(item.metadata, 40000)
              = 55 * Smaller(80000, item.lexical) + 28 * vector
        BY <2>3, <2>5
    <2>7. Blended(item, vector, i).score
              = Rounded(55 * Smaller(80000, item.lexical) + 28 * vector, 800)
        BY <2>4, <2>6
    <2> QED
        BY <2>2, <2>4, <2>7 DEF item, vector, Blend
<1>4. ASSUME NEW i \in added
      PROVE  /\ new(i).id = Documents[i].id /\ new(i).place = Len(lexical) + i
             /\ new(i).score = Rounded(Blend(q, rows, lexical, Documents[i].id), 800)
    <2> DEFINE item == Unmatched(i)
               vector == Vector(q, rows, Documents[i].id)
               place == Len(lexical) + i
    <2>1. /\ DOMAIN item = {"id", "date", "place", "score", "lexical", "metadata", "semantic",
                            "coverage", "matched", "preview"}
          /\ item.lexical = 0 /\ item.metadata = 0 /\ item.id = Documents[i].id
        BY DEF Unmatched
    <2>2. i \in DOMAIN Documents /\ \A j \in DOMAIN lexical : lexical[j].id # Documents[i].id
        BY DEF AddedByIndex
    <2>3. Words(lexical, Documents[i].id) = 0
        BY <2>2, WordsOfResults
    <2>4. vector \in Nat
        BY <1>2, <2>2, VectorIsNumber
    <2> HIDE DEF item, vector, place
    <2>5. /\ Blended(item, vector, place).id = item.id /\ Blended(item, vector, place).place = place
          /\ Blended(item, vector, place).score
                 = Rounded(55 * Smaller(item.lexical, 80000) + 28 * vector
                               + 20 * Smaller(item.metadata, 40000), 800)
        BY <2>1 DEF Blended
    <2>6. Smaller(item.lexical, 80000) = 0 /\ Smaller(item.metadata, 40000) = 0
        BY <2>1 DEF Smaller
    <2>7. 55 * Smaller(item.lexical, 80000) + 28 * vector + 20 * Smaller(item.metadata, 40000)
              = 55 * 0 + 28 * vector
        BY <2>4, <2>6
    <2>8. Blended(item, vector, place).score = Rounded(55 * 0 + 28 * vector, 800)
        BY <2>5, <2>7
    <2> QED
        BY <2>1, <2>3, <2>5, <2>8 DEF item, vector, place, Blend
<1>5. S = {own(i) : i \in DOMAIN lexical} \cup {new(i) : i \in added}
    BY DEF Items
<1>6. added \subseteq DOMAIN Documents
    BY DEF AddedByIndex
<1>7. \A i \in added : /\ Documents[i].id \in Candidates(q, rows, lexical)
                       /\ \A j \in DOMAIN lexical : lexical[j].id # Documents[i].id
    BY <1>2 DEF AddedByIndex, Candidates
<1>8. \A i \in DOMAIN lexical : lexical[i].id \in Candidates(q, rows, lexical)
    BY DEF Candidates, Ids, ToSet
<1>9. IsFiniteSet(S)
    <2> DEFINE f == [i \in DOMAIN lexical |-> own(i)]
               g == [i \in added |-> new(i)]
    <2>1. IsFiniteSet(DOMAIN lexical)
        BY <1>1, FS_Interval
    <2>2. IsFiniteSet(DOMAIN Documents)
        BY <1>1, FS_Interval
    <2>3. IsFiniteSet(added)
        BY <1>6, <2>2, FS_Subset
    <2>4. S = {f[i] : i \in DOMAIN lexical} \cup {g[i] : i \in added}
        <3> HIDE DEF own, new, added, S
        <3> QED
            BY <1>5
    <2>5. DOMAIN f = DOMAIN lexical /\ DOMAIN g = added
        OBVIOUS
    <2> HIDE DEF f, g, S, added
    <2>6. IsFiniteSet({f[i] : i \in DOMAIN lexical}) /\ IsFiniteSet({g[i] : i \in added})
        BY <2>1, <2>3, <2>5, ImageIsFinite
    <2> QED
        BY <2>4, <2>6, FS_Union
<1> HIDE DEF own, new, added, S
<1>10. ASSUME NEW x \in S
       PROVE  /\ x.place \in Int /\ x.id \in Candidates(q, rows, lexical)
              /\ x.score = Rounded(Blend(q, rows, lexical, x.id), 800)
    <2>1. CASE \E i \in DOMAIN lexical : x = own(i)
        BY <1>1, <1>3, <1>8, <2>1
    <2>2. CASE \E i \in added : x = new(i)
        BY <1>1, <1>4, <1>6, <1>7, <2>2
    <2> QED
        BY <1>5, <2>1, <2>2
<1>11. ASSUME NEW x \in S, NEW y \in S, x.place = y.place \/ x.id = y.id
       PROVE  x = y
    <2>1. CASE \E i, j \in DOMAIN lexical : x = own(i) /\ y = own(j)
        BY <1>3, <1>11, <2>1 DEF PlainResults
    <2>2. CASE \E i, j \in added : x = new(i) /\ y = new(j)
        <3>1. PICK i \in added, j \in added : x = new(i) /\ y = new(j)
            BY <2>2
        <3>2. \/ Documents[i].id = Documents[j].id
              \/ Len(lexical) + i = Len(lexical) + j
            BY <1>4, <1>11, <3>1
        <3>3. i \in DOMAIN Documents /\ j \in DOMAIN Documents /\ i \in Int /\ j \in Int
            BY <1>1, <1>6
        <3>4. i = j
            BY <1>1, <3>2, <3>3, DocumentsAssumption
        <3> QED
            BY <3>1, <3>4
    <2>3. ASSUME NEW i \in DOMAIN lexical, NEW j \in added
          PROVE  own(i).place # new(j).place /\ own(i).id # new(j).id
        <3>1. own(i).place # new(j).place
            BY <1>1, <1>3, <1>4, <1>6
        <3>2. own(i).id # new(j).id
            BY <1>3, <1>4, <1>7
        <3> QED
            BY <3>1, <3>2
    <2> QED
        BY <1>5, <1>11, <2>1, <2>2, <2>3
<1>12. ASSUME NEW id \in Candidates(q, rows, lexical)
       PROVE  \E x \in S : x.id = id
    <2>1. CASE \E i \in DOMAIN lexical : id = lexical[i].id
        BY <1>3, <1>5, <2>1
    <2>2. CASE \A i \in DOMAIN lexical : id # lexical[i].id
        <3>1. id \in DocumentIds /\ Vector(q, rows, id) > 0
            BY <2>2 DEF Candidates, Ids, ToSet
        <3>2. PICK i \in DOMAIN Documents : id = Documents[i].id
            BY <3>1 DEF DocumentIds
        <3>3. i \in added
            BY <2>2, <3>1, <3>2 DEF added, AddedByIndex
        <3> QED
            BY <1>4, <1>5, <3>2, <3>3
    <2> QED
        BY <2>1, <2>2
<1> QED
    BY <1>9, <1>10, <1>11, <1>12 DEF S

\* The list that a hybrid search returns.
LEMMA HybridInOrder ==
    ASSUME NEW q \in Questions, NEW rows, NEW lexical, PlainResults(lexical)
    PROVE  LET ids == Ids(MergeSemanticResults(lexical, SimilarityIn(rows, q), ToolLimit))
               candidates == Candidates(q, rows, lexical)
           IN /\ IsInjective(ids)
              /\ ToSet(ids) \subseteq candidates
              /\ Len(ids) = Smaller(ToolLimit, Cardinality(candidates))
              /\ \A n \in DOMAIN ids, a \in candidates :
                    Better(q, rows, lexical, a, ids[n]) => \E k \in 1 .. n - 1 : ids[k] = a
<1> DEFINE S == Items(q, rows, lexical)
           candidates == Candidates(q, rows, lexical)
           s == Sorted(S, ByScore)
           results == FirstOf(s, ToolLimit)
           ids == Ids(results)
<1>1. /\ IsFiniteSet(S)
      /\ \A x \in S :
            /\ x.place \in Int /\ x.id \in candidates
            /\ x.score = Rounded(Blend(q, rows, lexical, x.id), 800)
      /\ \A x, y \in S : x.place = y.place => x = y
      /\ \A x, y \in S : x.id = y.id => x = y
      /\ \A id \in candidates : \E x \in S : x.id = id
    BY ItemParts
<1>2. candidates \subseteq DocumentIds
    BY DEF Candidates, PlainResults, Ids, ToSet
<1>3. \A id \in candidates : Words(lexical, id) \in Nat /\ Vector(q, rows, id) \in Nat
    <2> TAKE id \in candidates
    <2>1. Vector(q, rows, id) \in Nat
        BY <1>2, VectorIsNumber
    <2>2. CASE \E i \in DOMAIN lexical : lexical[i].id = id
        <3>1. PICK i \in DOMAIN lexical : lexical[i].id = id
            BY <2>2
        <3>2. lexical[i].lexical \in Nat
            BY DEF PlainResults
        <3>3. Words(lexical, id) = Smaller(80000, lexical[i].lexical)
            BY <3>1, WordsOfResults
        <3>4. Smaller(80000, lexical[i].lexical) \in Nat
            BY <3>2 DEF Smaller
        <3> QED
            BY <2>1, <3>3, <3>4
    <2>3. CASE \A i \in DOMAIN lexical : lexical[i].id # id
        BY <2>1, <2>3, WordsOfResults
    <2> QED
        BY <2>2, <2>3
<1> HIDE DEF S, candidates
<1>4. \A x \in S : x.score \in Int
    <2> TAKE x \in S
    <2>1. /\ Words(lexical, x.id) \in Nat /\ Vector(q, rows, x.id) \in Nat
          /\ x.score = Rounded(Blend(q, rows, lexical, x.id), 800)
        BY <1>1, <1>3
    <2>2. Blend(q, rows, lexical, x.id) \in Nat
        BY <2>1 DEF Blend
    <2> QED
        BY <2>1, <2>2, RoundingKeepsUnits
<1>5. /\ Cardinality(S) \in Nat /\ s \in Seq(S) /\ Len(s) = Cardinality(S)
      /\ \A x \in S : \E n \in 1 .. Cardinality(S) : s[n] = x
      /\ \A i, j \in 1 .. Cardinality(S) : ByScore(s[i], s[j]) <=> i < j
    <2>1. \A x \in S : x.score \in Int /\ x.place \in Int
        BY <1>1, <1>4
    <2>2. \A x, y \in S : x.place = y.place => x = y
        BY <1>1
    <2>3. IsFiniteSet(S)
        BY <1>1
    <2> QED
        BY <2>1, <2>2, <2>3, SortedByScore
<1> HIDE DEF s
<1>6. ToolLimit \in Nat
    BY LimitsAssumption
<1> DEFINE m == Smaller(ToolLimit, Cardinality(S))
<1>7. /\ DOMAIN results = 1 .. m /\ m \in 0 .. Cardinality(S)
      /\ \A i \in 1 .. m : results[i] = s[i]
    <2>1. /\ DOMAIN results = 1 .. Smaller(ToolLimit, Len(s))
          /\ \A i \in DOMAIN results : results[i] = s[i]
        BY <1>5, <1>6, CutElements
    <2> QED
        BY <1>5, <1>6, <2>1 DEF Smaller
<1> HIDE DEF results, m
<1>8. DOMAIN ids = 1 .. m /\ \A i \in 1 .. m : ids[i] = s[i].id /\ s[i] \in S
    BY <1>5, <1>7 DEF Ids
<1>9. ids \in [1 .. m -> candidates] /\ m \in Nat
    <2>1. ids = [i \in 1 .. m |-> results[i].id]
        BY <1>7 DEF Ids
    <2>2. \A i \in 1 .. m : results[i].id \in candidates
        BY <1>1, <1>7, <1>8
    <2> QED
        BY <1>5, <1>7, <2>1, <2>2
<1> HIDE DEF ids
<1>10. IsInjective(ids)
    <2> SUFFICES ASSUME NEW i \in 1 .. m, NEW j \in 1 .. m, ids[i] = ids[j] PROVE i = j
        BY <1>8 DEF IsInjective
    <2>1. s[i] = s[j]
        BY <1>1, <1>8
    <2>2. i \in 1 .. Cardinality(S) /\ j \in 1 .. Cardinality(S)
        BY <1>5, <1>7
    <2>3. ~(i < j) /\ ~(j < i)
        BY <1>5, <2>1, <2>2
    <2> QED
        BY <2>3
<1>11. ToSet(ids) \subseteq candidates
    BY <1>9 DEF ToSet
<1>12. Len(ids) = Smaller(ToolLimit, Cardinality(candidates))
    <2>1. Len(ids) = m
        BY <1>9, TableIsSequence
    <2> DEFINE name == [x \in S |-> x.id]
    <2>2. name \in [S -> candidates] /\ \A id \in candidates : \E x \in S : name[x] = id
        BY <1>1
    <2>3. \A x, y \in S : name[x] = name[y] => x = y
        BY <1>1
    <2> HIDE DEF name
    <2>4. name \in Surjection(S, candidates) /\ name \in Injection(S, candidates)
        BY <2>2, <2>3 DEF Surjection, Injection, IsInjective
    <2>5. Cardinality(candidates) = Cardinality(S)
        BY <1>1, <2>4, FS_Surjection
    <2> QED
        BY <2>1, <2>5 DEF m
<1>13. ASSUME NEW n \in DOMAIN ids, NEW a \in candidates, Better(q, rows, lexical, a, ids[n])
       PROVE  \E k \in 1 .. n - 1 : ids[k] = a
    <2>1. PICK x \in S : x.id = a
        BY <1>1
    <2>2. PICK k \in 1 .. Cardinality(S) : s[k] = x
        BY <1>5
    <2> DEFINE y == s[n]
    <2>3. n \in 1 .. m /\ n \in 1 .. Cardinality(S) /\ y \in S /\ y.id = ids[n]
        BY <1>5, <1>7, <1>8
    <2> HIDE DEF y
    <2>4. x.score > y.score
        <3>1. /\ x.score = Rounded(Blend(q, rows, lexical, a), 800)
              /\ y.score = Rounded(Blend(q, rows, lexical, y.id), 800)
            BY <1>1, <2>1, <2>3
        <3>2. /\ Words(lexical, a) \in Nat /\ Vector(q, rows, a) \in Nat
              /\ Words(lexical, y.id) \in Nat /\ Vector(q, rows, y.id) \in Nat
            BY <1>1, <1>3, <2>3
        <3>3. /\ Words(lexical, a) >= Words(lexical, y.id)
              /\ Vector(q, rows, a) >= Vector(q, rows, y.id)
              /\ \/ Words(lexical, a) >= Words(lexical, y.id) + 15
                 \/ Vector(q, rows, a) >= Vector(q, rows, y.id) + 29
            BY <1>13, <2>3 DEF Better, Discernible
        <3>4. /\ Blend(q, rows, lexical, a) \in Nat /\ Blend(q, rows, lexical, y.id) \in Nat
              /\ Blend(q, rows, lexical, a) >= Blend(q, rows, lexical, y.id) + 800
            BY <3>2, <3>3 DEF Blend
        <3> QED
            BY <3>1, <3>4, RoundingKeepsUnits
    <2>5. ByScore(s[k], s[n])
        BY <2>2, <2>4 DEF ByScore, y
    <2>6. k < n
        BY <1>5, <2>3, <2>5
    <2>7. k \in 1 .. n - 1 /\ k \in 1 .. m
        BY <1>5, <1>7, <2>3, <2>6
    <2>8. ids[k] = a
        BY <1>8, <2>1, <2>2, <2>7
    <2> QED
        BY <2>7, <2>8
<1>14. MergeSemanticResults(lexical, SimilarityIn(rows, q), ToolLimit) = results
    BY MergedByScore DEF results, s, S
<1> QED
    BY <1>10, <1>11, <1>12, <1>13, <1>14 DEF ids, candidates

----------------------------------------------------------------------------
(* Texts.                                                                   *)

\* What a window shows.
LEMMA WindowElements ==
    ASSUME NEW T, NEW s \in Seq(T), NEW i \in Nat \ {0}, NEW n \in Nat, i + n - 1 <= Len(s)
    PROVE  /\ Window(s, i, n) \in Seq(T) /\ Len(Window(s, i, n)) = n
           /\ \A j \in 1 .. n : Window(s, i, n)[j] = s[i + j - 1]
<1>1. Smaller(i + n - 1, Len(s)) = i + n - 1
    BY DEF Smaller
<1>2. Window(s, i, n) = SubSeq(s, i, i + n - 1)
    BY <1>1 DEF Window
<1>3. i \in 1 .. Len(s) + 1 /\ i + n - 1 \in i - 1 .. Len(s) /\ Len(s) \in Nat
    OBVIOUS
<1>4. SubSeq(s, i, i + n - 1) \in Seq(T)
    BY <1>3
<1>5. Len(SubSeq(s, i, i + n - 1)) = n
    BY <1>3
<1>6. \A j \in 1 .. n : SubSeq(s, i, i + n - 1)[j] = s[i + j - 1]
    BY <1>3
<1> QED
    BY <1>2, <1>4, <1>5, <1>6

\* Two characters next to each other.
HasPair(s, x, y) == \E i \in 1 .. Len(s) - 1 : s[i] = x /\ s[i + 1] = y

\* What a window of two shows.
LEMMA PairWindow ==
    ASSUME NEW T, NEW s \in Seq(T), NEW i \in 1 .. Len(s) - 1
    PROVE  /\ Window(s, i, 2) \in Seq(T) /\ Len(Window(s, i, 2)) = 2
           /\ Window(s, i, 2)[1] = s[i] /\ Window(s, i, 2)[2] = s[i + 1]
<1>1. i + 2 - 1 = i + 1 /\ Smaller(i + 1, Len(s)) = i + 1
    BY DEF Smaller
<1>2. Window(s, i, 2) = SubSeq(s, i, i + 1)
    BY <1>1 DEF Window
<1>3. i \in 1 .. Len(s) + 1 /\ i + 1 \in i - 1 .. Len(s) /\ Len(s) \in Nat
    OBVIOUS
<1>4. SubSeq(s, i, i + 1) \in Seq(T) /\ Len(SubSeq(s, i, i + 1)) = 2
    BY <1>3
<1>5. SubSeq(s, i, i + 1)[1] = s[i] /\ SubSeq(s, i, i + 1)[2] = s[i + 1]
    BY <1>3
<1> QED
    BY <1>2, <1>4, <1>5

\* A pair occurs where its characters are next to each other.
LEMMA PairOccurs ==
    ASSUME NEW T, NEW s \in Seq(T), NEW U, NEW pair \in Seq(U), Len(pair) = 2
    PROVE  Occurs(pair, s) <=> HasPair(s, pair[1], pair[2])
<1>1. Len(s) \in Nat /\ Len(s) - Len(pair) + 1 = Len(s) - 1
    OBVIOUS
<1>2. ASSUME NEW i \in 1 .. Len(s) - 1
      PROVE  Window(s, i, 2) = pair <=> s[i] = pair[1] /\ s[i + 1] = pair[2]
    <2>1. /\ Window(s, i, 2) \in Seq(T) /\ Len(Window(s, i, 2)) = 2
          /\ Window(s, i, 2)[1] = s[i] /\ Window(s, i, 2)[2] = s[i + 1]
        BY PairWindow
    <2> DEFINE window == Window(s, i, 2)
    <2> HIDE DEF window
    <2>3. window \in Seq(T) /\ Len(window) = 2
        BY <2>1 DEF window
    <2>4. window = pair <=> window[1] = pair[1] /\ window[2] = pair[2]
        <3>1. DOMAIN window = 1 .. 2 /\ DOMAIN pair = 1 .. 2
            BY <2>3
        <3>2. window = [k \in 1 .. 2 |-> window[k]] /\ pair = [k \in 1 .. 2 |-> pair[k]]
            BY <2>3, <3>1
        <3> QED
            BY <3>2
    <2> QED
        BY <2>1, <2>4 DEF window
<1> QED
    BY <1>1, <1>2 DEF Occurs, HasPair

\* Where a longer piece occurs, its pairs do.
LEMMA PairsOfPiece ==
    ASSUME NEW T, NEW focus \in Seq(T), NEW U, NEW text \in Seq(U),
           NEW n \in Nat, NEW i \in 1 .. Len(focus) - n + 1, Occurs(Window(focus, i, n), text),
           NEW k \in i .. i + n - 2
    PROVE  k \in 1 .. Len(focus) - 1 /\ Occurs(Window(focus, k, 2), text)
<1>1. Len(focus) \in Nat /\ Len(text) \in Nat /\ k \in 1 .. Len(focus) - 1 /\ n \in Nat \ {0, 1}
    OBVIOUS
<1> DEFINE piece == Window(focus, i, n)
           pair == Window(focus, k, 2)
<1>2. Len(piece) = n /\ \A j \in 1 .. n : piece[j] = focus[i + j - 1]
    <2>1. i \in Nat \ {0} /\ i + n - 1 <= Len(focus) /\ n \in Nat
        BY <1>1
    <2>2. /\ Len(Window(focus, i, n)) = n
          /\ \A j \in 1 .. n : Window(focus, i, n)[j] = focus[i + j - 1]
        BY <2>1, WindowElements
    <2> QED
        BY <2>2
<1>3. /\ pair \in Seq(T) /\ Len(pair) = 2
      /\ pair[1] = focus[k] /\ pair[2] = focus[k + 1]
    BY <1>1, PairWindow
<1>5. PICK place \in 1 .. Len(text) - Len(piece) + 1 : Window(text, place, Len(piece)) = piece
    BY DEF Occurs
<1> HIDE DEF piece, pair
<1>6. place \in 1 .. Len(text) - n + 1 /\ Window(text, place, n) = piece
    BY <1>2, <1>5
<1>7. \A j \in 1 .. n : piece[j] = text[place + j - 1]
    <2>1. place \in Nat \ {0} /\ place + n - 1 <= Len(text) /\ n \in Nat
        BY <1>1, <1>6
    <2>2. \A j \in 1 .. n : Window(text, place, n)[j] = text[place + j - 1]
        BY <2>1, WindowElements
    <2> QED
        BY <1>6, <2>2
<1> DEFINE a == k - i + 1
<1>8. a \in 1 .. n /\ a + 1 \in 1 .. n /\ i + a - 1 = k /\ i + (a + 1) - 1 = k + 1
    BY <1>1
<1> HIDE DEF a
<1>9. focus[k] = text[place + a - 1] /\ focus[k + 1] = text[place + (a + 1) - 1]
    BY <1>2, <1>7, <1>8
<1>10. place + a - 1 \in 1 .. Len(text) - 1 /\ place + (a + 1) - 1 = (place + a - 1) + 1
    BY <1>1, <1>6, <1>8
<1>11. HasPair(text, pair[1], pair[2])
    BY <1>3, <1>9, <1>10 DEF HasPair
<1> QED
    BY <1>1, <1>3, <1>11, PairOccurs DEF pair

----------------------------------------------------------------------------
(* The question without its intent and its gaps.                            *)

\* What holds of the first value and goes on from step to step holds in the end.
LEMMA FoldStays ==
    ASSUME NEW n \in Nat, NEW A, NEW base \in A, NEW step \in [A -> [1 .. n -> A]], NEW f,
           FoldsAlong(f, base, step, n, A)
    PROVE  f[1 .. n] \in A
<1>1. PICK c \in [0 .. n -> A] : Steps(c, base, step, n, f[1 .. n])
    BY FoldedInSteps
<1>2. n \in 0 .. n
    OBVIOUS
<1> QED
    BY <1>1, <1>2 DEF Steps

\* Dropping gaps leaves a text without gaps.
LEMMA GapsDropped ==
    ASSUME NEW T, NEW text \in Seq(T)
    PROVE  FoldLeft(LAMBDA kept, c : IF c = Mark THEN kept ELSE Append(kept, c), <<>>, text)
               \in Seq(T \ {Mark})
<1> DEFINE n == Len(text)
           A == Seq(T \ {Mark})
           drop(kept, c) == IF c = Mark THEN kept ELSE Append(kept, c)
           step == [kept \in A |-> [i \in 1 .. n |-> drop(kept, text[i])]]
           Chosen(f) == f = [s \in SUBSET (DOMAIN text) |->
                                IF s = {} THEN <<>> ELSE drop(f[s \ {Max(s)}], text[Max(s)])]
           fold == CHOOSE f : Chosen(f)
<1>1. n \in Nat /\ DOMAIN text = 1 .. n /\ \A i \in 1 .. n : text[i] \in T
    OBVIOUS
<1>2. FoldLeft(LAMBDA kept, c : IF c = Mark THEN kept ELSE Append(kept, c), <<>>, text)
          = fold[DOMAIN text]
    BY DEF FoldLeft, MapThenFoldSet
<1>3. <<>> \in A
    OBVIOUS
<1>4. \A kept \in A, i \in 1 .. n : drop(kept, text[i]) \in A
    <2> TAKE kept \in A, i \in 1 .. n
    <2>1. text[i] # Mark => text[i] \in T \ {Mark}
        BY <1>1
    <2>2. text[i] # Mark => Append(kept, text[i]) \in A
        BY <2>1
    <2> QED
        BY <2>2
<1> HIDE DEF n, A, drop
<1>5. step \in [A -> [1 .. n -> A]] /\ \A kept \in A, i \in 1 .. n : step[kept][i] = drop(kept, text[i])
    BY <1>4
<1> HIDE DEF step
<1>6. \E f : Chosen(f)
    <2>1. PICK f \in [SUBSET (1 .. n) -> A] : Folding(f, <<>>, step, n)
        BY <1>1, <1>3, <1>5, FoldingExists
    <2>2. ASSUME NEW s \in SUBSET (1 .. n), s # {}
          PROVE  f[s] = drop(f[s \ {Max(s)}], text[Max(s)])
        <3> DEFINE last == Max(s)
                   before == f[s \ {last}]
        <3>1. last \in 1 .. n /\ before \in A
            BY <1>1, <2>2, LastPosition
        <3>2. f[s] = step[before][last]
            BY <2>1, <2>2 DEF Folding
        <3> HIDE DEF last, before
        <3>3. f[s] = drop(before, text[last])
            BY <1>5, <3>1, <3>2
        <3> QED
            BY <3>3 DEF last, before
    <2>3. f[{}] = <<>> /\ DOMAIN f = SUBSET (1 .. n)
        BY <2>1 DEF Folding
    <2>4. f = [s \in SUBSET (1 .. n) |->
                  IF s = {} THEN <<>> ELSE drop(f[s \ {Max(s)}], text[Max(s)])]
        BY <2>2, <2>3
    <2> QED
        BY <1>1, <2>4
<1>7. Chosen(fold)
    BY <1>6
<1> HIDE DEF fold
<1>8. FoldsAlong(fold, <<>>, step, n, A)
    <2>1. fold[{}] = <<>>
        BY <1>1, <1>7
    <2>2. ASSUME NEW s \in SUBSET (1 .. n), s # {}, fold[s \ {Max(s)}] \in A
          PROVE  fold[s] = step[fold[s \ {Max(s)}]][Max(s)]
        <3> DEFINE last == Max(s)
                   before == fold[s \ {last}]
        <3>1. last \in 1 .. n
            BY <1>1, <2>2, LastPosition
        <3>2. fold[s] = drop(before, text[last]) /\ before \in A
            BY <1>1, <1>7, <2>2
        <3> HIDE DEF last, before
        <3>3. fold[s] = step[before][last]
            BY <1>5, <3>1, <3>2
        <3> QED
            BY <3>3 DEF last, before
    <2> QED
        BY <2>1, <2>2 DEF FoldsAlong
<1>9. n \in Nat
    BY <1>1
<1>10. fold[1 .. n] \in A
    BY <1>3, <1>5, <1>8, <1>9, FoldStays
<1> QED
    BY <1>1, <1>2, <1>10 DEF A

\* Dropping a phrase leaves a text.
LEMMA PhraseDropped ==
    ASSUME NEW T, NEW text \in Seq(T), NEW U, NEW phrase \in Seq(U)
    PROVE  Without(text, phrase) \in Seq(T)
<1> DEFINE n == Len(text)
           A == [kept : Seq(T), next : Int]
           base == [kept |-> <<>>, next |-> 1]
           places == [i \in DOMAIN text |-> i]
           drop(acc, i) ==
               IF i < acc.next THEN acc
               ELSE IF Window(text, i, Len(phrase)) = phrase
                    THEN [acc EXCEPT !.next = i + Len(phrase)]
                    ELSE [acc EXCEPT !.kept = Append(@, text[i])]
           step == [acc \in A |-> [i \in 1 .. n |-> drop(acc, i)]]
           Chosen(f) == f = [s \in SUBSET (DOMAIN places) |->
                                IF s = {} THEN base ELSE drop(f[s \ {Max(s)}], places[Max(s)])]
           fold == CHOOSE f : Chosen(f)
<1>1. /\ n \in Nat /\ DOMAIN text = 1 .. n /\ \A i \in 1 .. n : text[i] \in T
      /\ DOMAIN places = 1 .. n
    OBVIOUS
<1>2. Without(text, phrase) = fold[DOMAIN places].kept
    BY DEF Without, FoldLeft, MapThenFoldSet
<1>3. base \in A
    OBVIOUS
<1>4. \A acc \in A, i \in 1 .. n : drop(acc, i) \in A
    <2> TAKE acc \in A, i \in 1 .. n
    <2>1. /\ i + Len(phrase) \in Int /\ text[i] \in T
          /\ acc.kept \in Seq(T) /\ acc.next \in Int
          /\ acc = [kept |-> acc.kept, next |-> acc.next]
        BY <1>1
    <2>2. [acc EXCEPT !.next = i + Len(phrase)] = [kept |-> acc.kept, next |-> i + Len(phrase)]
        BY <2>1
    <2>3. [acc EXCEPT !.kept = Append(@, text[i])]
              = [kept |-> Append(acc.kept, text[i]), next |-> acc.next]
        <3> DEFINE longer == Append(acc.kept, text[i])
        <3>1. [acc EXCEPT !.kept = Append(@, text[i])] = [acc EXCEPT !.kept = longer]
            OBVIOUS
        <3> HIDE DEF longer
        <3>2. [acc EXCEPT !.kept = longer] = [kept |-> longer, next |-> acc.next]
            BY <2>1
        <3> QED
            BY <3>1, <3>2 DEF longer
    <2>4. Append(acc.kept, text[i]) \in Seq(T)
        BY <2>1
    <2>5. [acc EXCEPT !.next = i + Len(phrase)] \in A
        BY <2>1, <2>2
    <2>6. [acc EXCEPT !.kept = Append(@, text[i])] \in A
        BY <2>1, <2>3, <2>4
    <2> HIDE DEF A
    <2> QED
        BY <2>5, <2>6
<1>5. \A i \in 1 .. n : places[i] = i
    BY <1>1
<1> HIDE DEF n, A, drop, base, places
<1>6. step \in [A -> [1 .. n -> A]] /\ \A acc \in A, i \in 1 .. n : step[acc][i] = drop(acc, i)
    BY <1>4
<1> HIDE DEF step
<1>7. \E f : Chosen(f)
    <2>1. PICK f \in [SUBSET (1 .. n) -> A] : Folding(f, base, step, n)
        BY <1>1, <1>3, <1>6, FoldingExists
    <2>2. ASSUME NEW s \in SUBSET (1 .. n), s # {}
          PROVE  f[s] = drop(f[s \ {Max(s)}], places[Max(s)])
        <3> DEFINE last == Max(s)
                   before == f[s \ {last}]
        <3>1. last \in 1 .. n /\ before \in A
            BY <1>1, <2>2, LastPosition
        <3>2. f[s] = step[before][last]
            BY <2>1, <2>2 DEF Folding
        <3> HIDE DEF last, before
        <3>3. f[s] = drop(before, places[last])
            BY <1>5, <1>6, <3>1, <3>2
        <3> QED
            BY <3>3 DEF last, before
    <2>3. f[{}] = base /\ DOMAIN f = SUBSET (1 .. n)
        BY <2>1 DEF Folding
    <2>4. f = [s \in SUBSET (1 .. n) |->
                  IF s = {} THEN base ELSE drop(f[s \ {Max(s)}], places[Max(s)])]
        BY <2>2, <2>3
    <2> QED
        BY <1>1, <2>4
<1>8. Chosen(fold)
    BY <1>7
<1> HIDE DEF fold
<1>9. FoldsAlong(fold, base, step, n, A)
    <2>1. fold[{}] = base
        BY <1>1, <1>8
    <2>2. ASSUME NEW s \in SUBSET (1 .. n), s # {}, fold[s \ {Max(s)}] \in A
          PROVE  fold[s] = step[fold[s \ {Max(s)}]][Max(s)]
        <3> DEFINE last == Max(s)
                   before == fold[s \ {last}]
        <3>1. last \in 1 .. n
            BY <1>1, <2>2, LastPosition
        <3>2. fold[s] = drop(before, places[last]) /\ before \in A
            BY <1>1, <1>8, <2>2
        <3> HIDE DEF last, before
        <3>3. fold[s] = step[before][last]
            BY <1>5, <1>6, <3>1, <3>2
        <3> QED
            BY <3>3 DEF last, before
    <2> QED
        BY <2>1, <2>2 DEF FoldsAlong
<1>10. n \in Nat
    BY <1>1
<1>11. fold[1 .. n] \in A
    BY <1>3, <1>6, <1>9, <1>10, FoldStays
<1> QED
    BY <1>1, <1>2, <1>11 DEF A

\* Dropping one phrase after the other does too.
LEMMA PhrasesDropped ==
    ASSUME NEW T, NEW text \in Seq(T)
    PROVE  FoldLeft(Without, text, IntentPhrases) \in Seq(T)
<1> DEFINE n == Len(IntentPhrases)
           A == Seq(T)
           step == [t \in A |-> [i \in 1 .. n |-> Without(t, IntentPhrases[i])]]
           Chosen(f) == f = [s \in SUBSET (DOMAIN IntentPhrases) |->
                                IF s = {} THEN text
                                ELSE Without(f[s \ {Max(s)}], IntentPhrases[Max(s)])]
           fold == CHOOSE f : Chosen(f)
<1>1. /\ n \in Nat /\ DOMAIN IntentPhrases = 1 .. n
      /\ \A i \in 1 .. n : IntentPhrases[i] \in Seq(ToSet(IntentPhrases[i]))
    BY IntentPhrasesAssumption DEF ToSet
<1>2. FoldLeft(Without, text, IntentPhrases) = fold[DOMAIN IntentPhrases]
    BY DEF FoldLeft, MapThenFoldSet
<1>3. text \in A
    OBVIOUS
<1>4. \A t \in A, i \in 1 .. n : Without(t, IntentPhrases[i]) \in A
    BY <1>1, PhraseDropped
<1> HIDE DEF n, A
<1>5. /\ step \in [A -> [1 .. n -> A]]
      /\ \A t \in A, i \in 1 .. n : step[t][i] = Without(t, IntentPhrases[i])
    BY <1>4
<1> HIDE DEF step
<1>6. \E f : Chosen(f)
    <2>1. PICK f \in [SUBSET (1 .. n) -> A] : Folding(f, text, step, n)
        BY <1>1, <1>3, <1>5, FoldingExists
    <2>2. ASSUME NEW s \in SUBSET (1 .. n), s # {}
          PROVE  f[s] = Without(f[s \ {Max(s)}], IntentPhrases[Max(s)])
        <3> DEFINE last == Max(s)
                   before == f[s \ {last}]
        <3>1. last \in 1 .. n /\ before \in A
            BY <1>1, <2>2, LastPosition
        <3>2. f[s] = step[before][last]
            BY <2>1, <2>2 DEF Folding
        <3> HIDE DEF last, before
        <3>3. f[s] = Without(before, IntentPhrases[last])
            BY <1>5, <3>1, <3>2
        <3> QED
            BY <3>3 DEF last, before
    <2>3. f[{}] = text /\ DOMAIN f = SUBSET (1 .. n)
        BY <2>1 DEF Folding
    <2>4. f = [s \in SUBSET (1 .. n) |->
                  IF s = {} THEN text ELSE Without(f[s \ {Max(s)}], IntentPhrases[Max(s)])]
        BY <2>2, <2>3
    <2> QED
        BY <1>1, <2>4
<1>7. Chosen(fold)
    BY <1>6
<1> HIDE DEF fold
<1>8. FoldsAlong(fold, text, step, n, A)
    <2>1. fold[{}] = text
        BY <1>1, <1>7
    <2>2. ASSUME NEW s \in SUBSET (1 .. n), s # {}, fold[s \ {Max(s)}] \in A
          PROVE  fold[s] = step[fold[s \ {Max(s)}]][Max(s)]
        <3> DEFINE last == Max(s)
                   before == fold[s \ {last}]
        <3>1. last \in 1 .. n
            BY <1>1, <2>2, LastPosition
        <3>2. fold[s] = Without(before, IntentPhrases[last]) /\ before \in A
            BY <1>1, <1>7, <2>2
        <3> HIDE DEF last, before
        <3>3. fold[s] = step[before][last]
            BY <1>5, <3>1, <3>2
        <3> QED
            BY <3>3 DEF last, before
    <2> QED
        BY <2>1, <2>2 DEF FoldsAlong
<1>9. n \in Nat
    BY <1>1
<1>10. fold[1 .. n] \in A
    BY <1>3, <1>5, <1>8, <1>9, FoldStays
<1> QED
    BY <1>1, <1>2, <1>10 DEF A

\* The focused question has no gaps.
LEMMA FocusHasNoGaps ==
    ASSUME NEW T, NEW query \in Seq(T)
    PROVE  Focus(query) \in Seq(T \ {Mark})
<1>1. FoldLeft(Without, query, IntentPhrases) \in Seq(T)
    BY PhrasesDropped
<1> QED
    BY <1>1, GapsDropped DEF Focus

----------------------------------------------------------------------------
(* The coverage.                                                            *)

\* What the windows of one size add to the positions that are covered.
WindowsFound(focus, text, size) ==
    UNION {i .. i + size - 1 :
              i \in {i \in 1 .. Len(focus) - size + 1 : Occurs(Window(focus, i, size), text)}}

\* Skipping the windows that are covered loses nothing: one round marks what it finds.
LEMMA MarkedBySize ==
    ASSUME NEW T, NEW focus \in Seq(T), NEW text, NEW size \in Nat \ {0},
           NEW covered \in SUBSET (1 .. Len(focus))
    PROVE  FoldLeft(LAMBDA c, i : CoverWindow(c, focus, text, i, size),
                    covered, [i \in 1 .. Len(focus) - size + 1 |-> i])
               = covered \cup WindowsFound(focus, text, size)
<1> DEFINE m == Len(focus) - size + 1
           n == IF m < 0 THEN 0 ELSE m
           A == SUBSET (1 .. Len(focus))
           w == [i \in 1 .. n |-> IF Occurs(Window(focus, i, size), text)
                                  THEN i .. i + size - 1 ELSE {}]
           step == [c \in A |-> [i \in 1 .. n |-> c \cup w[i]]]
           places == [i \in 1 .. m |-> i]
           Chosen(f) ==
               f = [s \in SUBSET (DOMAIN places) |->
                       IF s = {} THEN covered
                       ELSE CoverWindow(f[s \ {Max(s)}], focus, text, places[Max(s)], size)]
           fold == CHOOSE f : Chosen(f)
<1>1. n \in Nat /\ 1 .. m = 1 .. n /\ DOMAIN places = 1 .. n
    <2>1. Len(focus) \in Nat
        OBVIOUS
    <2> QED
        BY <2>1
<1>2. FoldLeft(LAMBDA c, i : CoverWindow(c, focus, text, i, size), covered, places)
          = fold[DOMAIN places]
    BY DEF FoldLeft, MapThenFoldSet
<1>3. \A i \in 1 .. n : w[i] \in A
    <2>1. Len(focus) \in Nat /\ \A i \in 1 .. n : i .. i + size - 1 \subseteq 1 .. Len(focus)
        BY <1>1
    <2> HIDE DEF n
    <2> QED
        BY <2>1
<1>4. step \in [A -> [1 .. n -> A]]
    <2> HIDE DEF n, w
    <2> QED
        BY <1>3
<1>5. ASSUME NEW c, NEW i \in 1 .. n
      PROVE  CoverWindow(c, focus, text, places[i], size) = c \cup w[i]
    <2>1. places[i] = i
        BY <1>1
    <2>2. CoverWindow(c, focus, text, i, size)
              = IF Occurs(Window(focus, i, size), text) THEN c \cup (i .. i + size - 1) ELSE c
        BY DEF CoverWindow
    <2> HIDE DEF places, n
    <2> QED
        BY <2>1, <2>2
<1> HIDE DEF m, n, w, places, A
<1>6. \A c \in A, i \in 1 .. n : step[c][i] = c \cup w[i]
    OBVIOUS
<1>7. \E f : Chosen(f)
    <2>1. covered \in A
        BY DEF A
    <2>2. PICK f \in [SUBSET (1 .. n) -> A] : Folding(f, covered, step, n)
        BY <1>1, <1>4, <2>1, FoldingExists
    <2>3. ASSUME NEW s \in SUBSET (1 .. n), s # {}
          PROVE  f[s] = CoverWindow(f[s \ {Max(s)}], focus, text, places[Max(s)], size)
        <3>1. Max(s) \in 1 .. n /\ f[s \ {Max(s)}] \in A
            BY <1>1, <2>3, LastPosition
        <3>2. f[s] = step[f[s \ {Max(s)}]][Max(s)]
            BY <2>2, <2>3 DEF Folding
        <3> DEFINE last == Max(s)
                   before == f[s \ {last}]
        <3> HIDE DEF step, last, before
        <3>3. last \in 1 .. n /\ before \in A /\ f[s] = step[before][last]
            BY <3>1, <3>2 DEF last, before
        <3>4. f[s] = before \cup w[last]
            BY <1>6, <3>3
        <3>5. CoverWindow(before, focus, text, places[last], size) = before \cup w[last]
            BY <1>5, <3>3
        <3> QED
            BY <3>4, <3>5 DEF last, before
    <2>4. f[{}] = covered /\ DOMAIN f = SUBSET (1 .. n)
        BY <2>2 DEF Folding
    <2>5. f = [s \in SUBSET (1 .. n) |->
                  IF s = {} THEN covered
                  ELSE CoverWindow(f[s \ {Max(s)}], focus, text, places[Max(s)], size)]
        BY <2>3, <2>4
    <2> QED
        BY <1>1, <2>5
<1>8. Chosen(fold)
    BY <1>7
<1> HIDE DEF fold
<1>9. FoldsAlong(fold, covered, step, n, A)
    <2>1. fold[{}] = covered
        BY <1>1, <1>8
    <2>2. ASSUME NEW s \in SUBSET (1 .. n), s # {}, fold[s \ {Max(s)}] \in A
          PROVE  fold[s] = step[fold[s \ {Max(s)}]][Max(s)]
        <3>1. Max(s) \in 1 .. n
            BY <1>1, <2>2, LastPosition
        <3>2. fold[s] = CoverWindow(fold[s \ {Max(s)}], focus, text, places[Max(s)], size)
            BY <1>1, <1>8, <2>2
        <3> DEFINE last == Max(s)
                   before == fold[s \ {last}]
        <3> HIDE DEF step, last, before
        <3>3. /\ last \in 1 .. n /\ before \in A
              /\ fold[s] = CoverWindow(before, focus, text, places[last], size)
            BY <2>2, <3>1, <3>2 DEF last, before
        <3>4. CoverWindow(before, focus, text, places[last], size) = before \cup w[last]
            BY <1>5, <3>3
        <3>5. step[before][last] = before \cup w[last]
            BY <1>6, <3>3
        <3> QED
            BY <3>3, <3>4, <3>5 DEF last, before
    <2> HIDE DEF step
    <2> QED
        BY <2>1, <2>2 DEF FoldsAlong
<1> HIDE DEF step
<1>10. PICK c \in [0 .. n -> A] : Steps(c, covered, step, n, fold[1 .. n])
    <2>1. covered \in A
        BY DEF A
    <2>2. n \in Nat
        BY <1>1
    <2> QED
        BY <1>4, <1>9, <2>1, <2>2, FoldedInSteps
<1>11. AddsInSteps(c, w, n)
    <2> SUFFICES ASSUME NEW i \in 1 .. n PROVE c[i] = c[i - 1] \cup w[i]
        BY DEF AddsInSteps
    <2>1. i - 1 \in 0 .. n
        BY <1>1
    <2>2. c[i - 1] \in A /\ c[i] = step[c[i - 1]][i]
        BY <1>10, <2>1 DEF Steps
    <2> QED
        BY <1>6, <2>2
<1>12. c[n] = c[0] \cup UNION {w[i] : i \in 1 .. n}
    <2>1. n \in Nat
        BY <1>1
    <2> QED
        BY <1>11, <2>1, UnionInSteps
<1>13. UNION {w[i] : i \in 1 .. n} = WindowsFound(focus, text, size)
    <2>1. 1 .. n = 1 .. Len(focus) - size + 1
        BY <1>1 DEF m
    <2>2. \A i \in 1 .. n : w[i] = IF Occurs(Window(focus, i, size), text)
                                   THEN i .. i + size - 1 ELSE {}
        BY DEF w
    <2> QED
        BY <2>1, <2>2 DEF WindowsFound
<1> QED
    BY <1>1, <1>2, <1>10, <1>12, <1>13 DEF places, m, Steps

\* Windows lie in the focus.
LEMMA WindowsInside ==
    ASSUME NEW T, NEW focus \in Seq(T), NEW text, NEW size \in Nat \ {0}
    PROVE  WindowsFound(focus, text, size) \in SUBSET (1 .. Len(focus))
<1>1. Len(focus) \in Nat
    OBVIOUS
<1>2. \A i \in 1 .. Len(focus) - size + 1 : i .. i + size - 1 \subseteq 1 .. Len(focus)
    BY <1>1
<1> QED
    BY <1>2 DEF WindowsFound

\* What a longer piece marks, its pairs mark.
LEMMA WindowsByPairs ==
    ASSUME NEW T, NEW focus \in Seq(T), NEW U, NEW text \in Seq(U), NEW size \in Nat \ {0, 1}
    PROVE  WindowsFound(focus, text, size) \subseteq WindowsFound(focus, text, 2)
<1> SUFFICES ASSUME NEW i \in 1 .. Len(focus) - size + 1, Occurs(Window(focus, i, size), text),
                    NEW p \in i .. i + size - 1
             PROVE  p \in WindowsFound(focus, text, 2)
    BY DEF WindowsFound
<1>1. Len(focus) \in Nat
    OBVIOUS
<1> DEFINE k == IF p = i + size - 1 THEN p - 1 ELSE p
<1>2. k \in i .. i + size - 2 /\ p \in k .. k + 2 - 1
    BY <1>1
<1> HIDE DEF k
<1>3. k \in 1 .. Len(focus) - 1 /\ Occurs(Window(focus, k, 2), text)
    <2>1. size \in Nat
        OBVIOUS
    <2> QED
        BY <1>2, <2>1, PairsOfPiece
<1>4. k \in 1 .. Len(focus) - 2 + 1
    BY <1>1, <1>3
<1> QED
    BY <1>2, <1>3, <1>4 DEF WindowsFound

\* The places of the pairs of a focus that occur in a text, and the characters they cover.
PairsFound(focus, text) == {i \in 1 .. Len(focus) - 1 : Occurs(Window(focus, i, 2), text)}

WithNext(pairs) == pairs \cup {i + 1 : i \in pairs}

\* Longest pieces first, windows skipped: what is covered is what the pairs cover.
LEMMA CoveredByPairs ==
    ASSUME NEW T, NEW focus \in Seq(T), NEW U, NEW text \in Seq(U)
    PROVE  Covered(focus, text) = WithNext(PairsFound(focus, text))
<1> DEFINE sized(size, covered) ==
               FoldLeft(LAMBDA c, i : CoverWindow(c, focus, text, i, size),
                        covered, [i \in 1 .. Len(focus) - size + 1 |-> i])
           found(size) == WindowsFound(focus, text, size)
<1>1. Covered(focus, text) = sized(2, sized(3, sized(4, {})))
    BY DEF Covered
<1>2. found(2) \in SUBSET (1 .. Len(focus)) /\ found(3) \subseteq found(2) /\ found(4) \subseteq found(2)
    <2>1. 2 \in Nat \ {0} /\ 3 \in Nat \ {0, 1} /\ 4 \in Nat \ {0, 1}
        OBVIOUS
    <2> QED
        BY <2>1, WindowsInside, WindowsByPairs
<1>3. ASSUME NEW size \in Nat \ {0}, NEW covered \in SUBSET (1 .. Len(focus))
      PROVE  sized(size, covered) = covered \cup found(size)
    BY MarkedBySize
<1> HIDE DEF sized, found
<1>4. sized(4, {}) = found(4)
    <2>1. 4 \in Nat \ {0} /\ {} \in SUBSET (1 .. Len(focus))
        OBVIOUS
    <2>2. sized(4, {}) = {} \cup found(4)
        BY <1>3, <2>1
    <2> QED
        BY <2>2
<1>5. sized(3, found(4)) = found(4) \cup found(3)
    <2>1. 3 \in Nat \ {0} /\ found(4) \in SUBSET (1 .. Len(focus))
        BY <1>2
    <2> QED
        BY <1>3, <2>1
<1>6. sized(2, found(4) \cup found(3)) = found(2)
    <2>1. 2 \in Nat \ {0} /\ found(4) \cup found(3) \in SUBSET (1 .. Len(focus))
        BY <1>2
    <2>2. sized(2, found(4) \cup found(3)) = (found(4) \cup found(3)) \cup found(2)
        BY <1>3, <2>1
    <2> QED
        BY <1>2, <2>2
<1>7. found(2) = WithNext(PairsFound(focus, text))
    <2>1. Len(focus) - 2 + 1 = Len(focus) - 1 /\ Len(focus) \in Nat
        OBVIOUS
    <2>2. \A i \in 1 .. Len(focus) - 1 : i .. i + 2 - 1 = {i, i + 1}
        BY <2>1
    <2>3. found(2) = UNION {i .. i + 2 - 1 : i \in PairsFound(focus, text)}
        BY <2>1 DEF found, WindowsFound, PairsFound
    <2>4. UNION {i .. i + 2 - 1 : i \in PairsFound(focus, text)}
              = UNION {{i, i + 1} : i \in PairsFound(focus, text)}
        BY <2>2 DEF PairsFound
    <2> DEFINE pairs == PairsFound(focus, text)
    <2> HIDE DEF pairs
    <2>5. UNION {{i, i + 1} : i \in pairs} = pairs \cup {i + 1 : i \in pairs}
        OBVIOUS
    <2> QED
        BY <2>3, <2>4, <2>5 DEF pairs, WithNext
<1> QED
    BY <1>1, <1>4, <1>5, <1>6, <1>7

\* The beginnings of the texts that are put together, one after the other.
Beginnings(c, seqs) ==
    /\ c[0] = <<>> /\ c[Len(seqs)] = FlattenSeq(seqs)
    /\ \A i \in 1 .. Len(seqs) : c[i] = c[i - 1] \o seqs[i]

\* The texts that are put together begin so.
LEMMA PutTogether ==
    ASSUME NEW U, NEW seqs \in Seq(Seq(U))
    PROVE  \E c \in [0 .. Len(seqs) -> Seq(U)] : Beginnings(c, seqs)
<1> DEFINE n == Len(seqs)
           A == Seq(U)
           step == [a \in A |-> [i \in 1 .. n |-> a \o seqs[i]]]
           Chosen(f) == f = [i \in 1 .. n |-> IF i = 1 THEN seqs[i] ELSE f[i - 1] \o seqs[i]]
           flat == CHOOSE f : Chosen(f)
<1>1. n \in Nat /\ DOMAIN seqs = 1 .. n /\ \A i \in 1 .. n : seqs[i] \in A
    OBVIOUS
<1>2. CASE n = 0
    <2>1. seqs = <<>> /\ FlattenSeq(seqs) = seqs
        BY <1>2 DEF FlattenSeq
    <2> DEFINE c == [i \in 0 .. n |-> <<>>]
    <2>2. c \in [0 .. n -> A] /\ c[0] = <<>>
        BY <1>2
    <2> HIDE DEF c
    <2>3. Len(seqs) = 0 /\ \A i \in 1 .. 0 : FALSE
        BY <1>2
    <2>4. Beginnings(c, seqs)
        BY <2>1, <2>2, <2>3 DEF Beginnings
    <2> QED
        BY <2>2, <2>4
<1>3. CASE n # 0
    <2>1. FlattenSeq(seqs) = flat[n]
        BY <1>3 DEF FlattenSeq
    <2>2. <<>> \in A /\ \A a \in A, i \in 1 .. n : a \o seqs[i] \in A
        BY <1>1
    <2>3. \A a \in A : <<>> \o a = a
        OBVIOUS
    <2> HIDE DEF A, n
    <2>4. step \in [A -> [1 .. n -> A]] /\ \A a \in A, i \in 1 .. n : step[a][i] = a \o seqs[i]
        BY <2>2
    <2> HIDE DEF step
    <2>5. \E f : Chosen(f)
        <3>1. PICK c \in [0 .. n -> A] : Steps(c, <<>>, step, n, c[n])
            BY <1>1, <2>2, <2>4, StepsExist
        <3> DEFINE f == [i \in 1 .. n |-> c[i]]
        <3>2. ASSUME NEW i \in 1 .. n
              PROVE  f[i] = IF i = 1 THEN seqs[i] ELSE f[i - 1] \o seqs[i]
            <4>1. i - 1 \in 0 .. n /\ i \in 0 .. n /\ (i # 1 => i - 1 \in 1 .. n)
                BY <1>1
            <4>2. c[i] = step[c[i - 1]][i] /\ c[0] = <<>>
                BY <3>1 DEF Steps
            <4>3. c[i] = c[i - 1] \o seqs[i]
                BY <2>4, <3>1, <4>1, <4>2
            <4>4. i = 1 => c[i] = seqs[i]
                BY <1>1, <2>3, <4>2, <4>3
            <4> QED
                BY <4>1, <4>3, <4>4
        <3>3. f = [i \in 1 .. n |-> f[i]]
            OBVIOUS
        <3> HIDE DEF f
        <3>4. f = [i \in 1 .. n |-> IF i = 1 THEN seqs[i] ELSE f[i - 1] \o seqs[i]]
            BY <3>2, <3>3
        <3> QED
            BY <3>4
    <2>6. Chosen(flat)
        BY <2>5
    <2> HIDE DEF flat
    <2>7. flat[1] = seqs[1] /\ \A i \in 1 .. n : i # 1 => flat[i] = flat[i - 1] \o seqs[i]
        <3>1. 1 \in 1 .. n
            BY <1>1, <1>3
        <3> QED
            BY <2>6, <3>1
    <2> DEFINE odd == {i \in 1 .. n : flat[i] \notin A}
    <2>8. odd = {}
        <3> SUFFICES ASSUME odd # {} PROVE FALSE
            OBVIOUS
        <3>1. odd \in SUBSET Nat
            OBVIOUS
        <3>2. PICK i \in odd : \A k \in odd : i <= k
            BY <3>1, LeastNumber
        <3>3. i \in 1 .. n /\ flat[i] \notin A
            BY <3>2
        <3>4. i # 1
            BY <1>1, <2>7, <3>3
        <3>5. i - 1 \in 1 .. n /\ ~(i <= i - 1)
            BY <1>1, <3>3, <3>4
        <3>6. i - 1 \notin odd
            <4> HIDE DEF odd
            <4> QED
                BY <3>2, <3>5
        <3>7. flat[i - 1] \in A
            BY <3>5, <3>6
        <3> QED
            BY <2>2, <2>7, <3>3, <3>4, <3>7
    <2>9. \A i \in 1 .. n : flat[i] \in A
        BY <2>8
    <2> HIDE DEF odd
    <2> DEFINE c == [i \in 0 .. n |-> IF i = 0 THEN <<>> ELSE flat[i]]
    <2>10. \A i \in 0 .. n : c[i] = IF i = 0 THEN <<>> ELSE flat[i]
        OBVIOUS
    <2>11. c \in [0 .. n -> A]
        <3>1. \A i \in 0 .. n : i # 0 => i \in 1 .. n
            BY <1>1
        <3> QED
            BY <2>2, <2>9, <3>1
    <2>12. c[0] = <<>> /\ c[n] = flat[n]
        BY <1>1, <1>3, <2>10
    <2> HIDE DEF c
    <2>13. ASSUME NEW i \in 1 .. n PROVE c[i] = c[i - 1] \o seqs[i]
        <3>1. i \in 0 .. n /\ i # 0 /\ i - 1 \in 0 .. n
            BY <1>1
        <3>2. CASE i = 1
            <4>1. c[i] = seqs[i] /\ c[i - 1] = <<>>
                BY <2>7, <2>10, <3>1, <3>2
            <4> QED
                BY <1>1, <2>3, <4>1
        <3>3. CASE i # 1
            <4>1. i - 1 # 0
                BY <3>1, <3>3
            <4> QED
                BY <2>7, <2>10, <3>1, <3>3, <4>1
        <3> QED
            BY <3>2, <3>3
    <2> QED
        BY <2>1, <2>11, <2>12, <2>13 DEF Beginnings, n, A
<1> QED
    BY <1>2, <1>3

\* No pair of characters is found across a joint.
LEMMA PairBesideJoint ==
    ASSUME NEW U, NEW a \in Seq(U), NEW b \in Seq(U), Mark \in U,
           NEW x, NEW y, x # Mark, y # Mark
    PROVE  /\ a \o (<<Mark>> \o b) \in Seq(U)
           /\ HasPair(a \o (<<Mark>> \o b), x, y) <=> HasPair(a, x, y) \/ HasPair(b, x, y)
<1> DEFINE s == a \o (<<Mark>> \o b)
<1>1. /\ s \in Seq(U) /\ Len(s) = Len(a) + 1 + Len(b)
      /\ Len(a) \in Nat /\ Len(b) \in Nat
      /\ \A i \in 1 .. Len(a) : s[i] = a[i]
      /\ s[Len(a) + 1] = Mark
      /\ \A j \in 1 .. Len(b) : s[Len(a) + 1 + j] = b[j]
    OBVIOUS
<1> HIDE DEF s
<1>2. ASSUME HasPair(s, x, y) PROVE HasPair(a, x, y) \/ HasPair(b, x, y)
    <2>1. PICK i \in 1 .. Len(s) - 1 : s[i] = x /\ s[i + 1] = y
        BY <1>2 DEF HasPair
    <2>2. i # Len(a) + 1 /\ i + 1 # Len(a) + 1
        BY <1>1, <2>1
    <2>3. CASE i < Len(a)
        <3>1. i \in 1 .. Len(a) - 1 /\ i \in 1 .. Len(a) /\ i + 1 \in 1 .. Len(a)
            BY <1>1, <2>1, <2>3
        <3>2. a[i] = x /\ a[i + 1] = y
            BY <1>1, <2>1, <3>1
        <3> QED
            BY <3>1, <3>2 DEF HasPair
    <2>4. CASE ~(i < Len(a))
        <3> DEFINE m == Len(a)
                   n == Len(b)
                   j == i - m - 1
        <3>1. /\ m \in Nat /\ n \in Nat /\ i \in 1 .. m + 1 + n - 1
              /\ i # m + 1 /\ i + 1 # m + 1 /\ ~(i < m)
            BY <1>1, <2>1, <2>2, <2>4
        <3>2. /\ j \in 1 .. n - 1 /\ j \in 1 .. n /\ j + 1 \in 1 .. n
              /\ m + 1 + j = i /\ m + 1 + (j + 1) = i + 1
            <4> HIDE DEF m, n
            <4> QED
                BY <3>1
        <3> HIDE DEF j
        <3>3. b[j] = x /\ b[j + 1] = y
            BY <1>1, <2>1, <3>2
        <3> QED
            BY <3>2, <3>3 DEF HasPair
    <2> QED
        BY <2>3, <2>4
<1>3. ASSUME HasPair(a, x, y) PROVE HasPair(s, x, y)
    <2>1. PICK i \in 1 .. Len(a) - 1 : a[i] = x /\ a[i + 1] = y
        BY <1>3 DEF HasPair
    <2>2. i \in 1 .. Len(s) - 1 /\ i \in 1 .. Len(a) /\ i + 1 \in 1 .. Len(a)
        BY <1>1
    <2>3. s[i] = x /\ s[i + 1] = y
        BY <1>1, <2>1, <2>2
    <2> QED
        BY <2>2, <2>3 DEF HasPair
<1>4. ASSUME HasPair(b, x, y) PROVE HasPair(s, x, y)
    <2>1. PICK j \in 1 .. Len(b) - 1 : b[j] = x /\ b[j + 1] = y
        BY <1>4 DEF HasPair
    <2> DEFINE m == Len(a)
               n == Len(b)
               i == m + 1 + j
    <2>2. /\ i \in 1 .. Len(s) - 1 /\ j \in 1 .. n /\ j + 1 \in 1 .. n
          /\ i + 1 = m + 1 + (j + 1) /\ i = m + 1 + j
        <3>1. m \in Nat /\ n \in Nat /\ Len(s) = m + 1 + n /\ j \in 1 .. n - 1
            BY <1>1
        <3> HIDE DEF m, n
        <3> QED
            BY <3>1
    <2> HIDE DEF i
    <2>3. s[i] = x /\ s[i + 1] = y
        BY <1>1, <2>1, <2>2
    <2> QED
        BY <2>2, <2>3 DEF HasPair
<1> QED
    BY <1>1, <1>2, <1>3, <1>4 DEF s

\* The texts that are joined have the pairs of the whole.
LEMMA PairInJoined ==
    ASSUME NEW U, Mark \in U, NEW texts \in Seq(Seq(U)), NEW x, NEW y, x # Mark, y # Mark
    PROVE  /\ Joined(texts) \in Seq(U)
           /\ HasPair(Joined(texts), x, y)
                  <=> \E k \in 1 .. Len(texts) : HasPair(texts[k], x, y)
<1> DEFINE n == Len(texts)
           seqs == [i \in DOMAIN texts |-> <<Mark>> \o texts[i]]
<1>1. n \in Nat /\ DOMAIN texts = 1 .. n /\ \A i \in 1 .. n : texts[i] \in Seq(U)
    OBVIOUS
<1>2. \A i \in 1 .. n : <<Mark>> \o texts[i] \in Seq(U)
    BY <1>1
<1>3. seqs \in Seq(Seq(U)) /\ Len(seqs) = n
    <2>1. seqs \in [1 .. n -> Seq(U)]
        BY <1>1, <1>2
    <2> HIDE DEF seqs
    <2> QED
        BY <1>1, <2>1, TableIsSequence
<1>4. \A i \in 1 .. n : seqs[i] = <<Mark>> \o texts[i]
    BY <1>1
<1>5. Joined(texts) = FlattenSeq(seqs)
    BY DEF Joined
<1> HIDE DEF n, seqs
<1>6. PICK c \in [0 .. n -> Seq(U)] : Beginnings(c, seqs)
    BY <1>3, PutTogether
<1>7. c[0] = <<>> /\ c[n] = Joined(texts) /\ \A i \in 1 .. n : c[i] = c[i - 1] \o seqs[i]
    BY <1>3, <1>5, <1>6 DEF Beginnings
<1> DEFINE Some(i) == \E k \in 1 .. i : HasPair(texts[k], x, y)
           odd == {i \in 0 .. n : ~(HasPair(c[i], x, y) <=> Some(i))}
<1>8. ~Some(0) /\ ~HasPair(<<>>, x, y)
    <2>1. 1 .. 0 = {} /\ 1 .. Len(<<>>) - 1 = {}
        OBVIOUS
    <2> QED
        BY <2>1 DEF HasPair
<1>9. ASSUME NEW i \in 1 .. n PROVE Some(i) <=> Some(i - 1) \/ HasPair(texts[i], x, y)
    <2>1. \A k : k \in 1 .. i <=> k \in 1 .. i - 1 \/ k = i
        BY <1>1
    <2> QED
        BY <2>1
<1> HIDE DEF Some
<1>10. odd = {}
    <2> SUFFICES ASSUME odd # {} PROVE FALSE
        OBVIOUS
    <2>1. odd \in SUBSET Nat
        OBVIOUS
    <2>2. PICK i \in odd : \A k \in odd : i <= k
        BY <2>1, LeastNumber
    <2>3. i \in 0 .. n /\ ~(HasPair(c[i], x, y) <=> Some(i))
        BY <2>2
    <2>4. i # 0
        BY <1>7, <1>8, <2>3
    <2>5. i - 1 \in 0 .. n /\ i \in 1 .. n /\ ~(i <= i - 1)
        BY <1>1, <2>3, <2>4
    <2>6. i - 1 \notin odd
        <3> HIDE DEF odd
        <3> QED
            BY <2>2, <2>5
    <2>7. HasPair(c[i - 1], x, y) <=> Some(i - 1)
        BY <2>5, <2>6
    <2>8. c[i] = c[i - 1] \o (<<Mark>> \o texts[i])
        BY <1>4, <1>7, <2>5
    <2>9. c[i - 1] \in Seq(U) /\ texts[i] \in Seq(U)
        BY <1>1, <1>6, <2>5
    <2>10. HasPair(c[i], x, y) <=> HasPair(c[i - 1], x, y) \/ HasPair(texts[i], x, y)
        BY <2>8, <2>9, PairBesideJoint
    <2> QED
        BY <1>9, <2>3, <2>5, <2>7, <2>10
<1>11. n \in 0 .. n /\ c[n] \in Seq(U)
    BY <1>1, <1>6
<1>12. HasPair(c[n], x, y) <=> Some(n)
    BY <1>10, <1>11
<1> QED
    BY <1>7, <1>11, <1>12 DEF Some, n

\* The characters of a document, and the gap.
Letters(doc) ==
    {Mark} \cup ToSet(doc.important) \cup ToSet(doc.body)
        \cup UNION {ToSet(chunk) : chunk \in ToSet(doc.chunks)}

TextsOf(doc) == {doc.important, doc.body} \cup ToSet(doc.chunks)

\* The texts of a document are sequences of its characters.
LEMMA TextsAreSequences ==
    ASSUME NEW i \in DOMAIN Documents
    PROVE  /\ \A text \in TextsOf(Documents[i]) : text \in Seq(Letters(Documents[i]))
           /\ Documents[i].chunks \in Seq(Seq(Letters(Documents[i])))
<1> DEFINE doc == Documents[i]
           U == Letters(doc)
<1>1. /\ doc.important \in Seq(ToSet(doc.important)) /\ doc.body \in Seq(ToSet(doc.body))
      /\ doc.chunks \in Seq(ToSet(doc.chunks))
      /\ \A chunk \in ToSet(doc.chunks) : chunk \in Seq(ToSet(chunk))
    BY DocumentsAssumption
<1>2. /\ ToSet(doc.important) \subseteq U /\ ToSet(doc.body) \subseteq U
      /\ \A chunk \in ToSet(doc.chunks) : ToSet(chunk) \subseteq U
    BY DEF Letters
<1> HIDE DEF doc, U
<1>3. doc.important \in Seq(U) /\ doc.body \in Seq(U)
    BY <1>1, <1>2, SequenceWidened
<1>4. \A chunk \in ToSet(doc.chunks) : chunk \in Seq(U)
    BY <1>1, <1>2, SequenceWidened
<1>5. doc.chunks \in Seq(Seq(U))
    <2>1. ToSet(doc.chunks) \subseteq Seq(U)
        BY <1>4
    <2> QED
        BY <1>1, <2>1, SequenceWidened
<1> QED
    BY <1>3, <1>4, <1>5 DEF doc, U, TextsOf

\* A pair is in the joined document exactly when it is in one of its texts.
LEMMA PairInCorpus ==
    ASSUME NEW i \in DOMAIN Documents, NEW x, NEW y, x # Mark, y # Mark
    PROVE  /\ Corpus(Documents[i]) \in Seq(Letters(Documents[i]))
           /\ HasPair(Corpus(Documents[i]), x, y)
                  <=> \E text \in TextsOf(Documents[i]) : HasPair(text, x, y)
<1> DEFINE doc == Documents[i]
           U == Letters(doc)
<1>1. Mark \in U
    BY DEF Letters
<1>2. /\ doc.important \in Seq(U) /\ doc.body \in Seq(U)
      /\ doc.chunks \in Seq(Seq(U))
    BY TextsAreSequences DEF TextsOf
<1> HIDE DEF doc, U
<1>3. /\ Evidence(doc) \in Seq(U)
      /\ HasPair(Evidence(doc), x, y) <=> \E k \in 1 .. Len(doc.chunks) : HasPair(doc.chunks[k], x, y)
    BY <1>1, <1>2, PairInJoined DEF Evidence
<1> DEFINE parts == <<doc.important, doc.body, Evidence(doc)>>
<1>4. /\ parts \in Seq(Seq(U)) /\ Len(parts) = 3 /\ Corpus(doc) = Joined(parts)
      /\ parts[1] = doc.important /\ parts[2] = doc.body /\ parts[3] = Evidence(doc)
    <2>1. Corpus(doc) = Joined(parts)
        BY DEF Corpus
    <2> DEFINE evidence == Evidence(doc)
               important == doc.important
               body == doc.body
    <2> HIDE DEF evidence, important, body
    <2>2. evidence \in Seq(U) /\ important \in Seq(U) /\ body \in Seq(U)
        BY <1>2, <1>3 DEF evidence, important, body
    <2>3. /\ <<important, body, evidence>> \in Seq(Seq(U)) /\ Len(<<important, body, evidence>>) = 3
          /\ <<important, body, evidence>>[1] = important
          /\ <<important, body, evidence>>[2] = body
          /\ <<important, body, evidence>>[3] = evidence
        BY <2>2
    <2>4. parts = <<important, body, evidence>>
        BY DEF evidence, important, body
    <2> HIDE DEF parts
    <2> QED
        BY <2>1, <2>3, <2>4 DEF evidence, important, body
<1> HIDE DEF parts
<1>5. /\ Corpus(doc) \in Seq(U)
      /\ HasPair(Corpus(doc), x, y) <=> \E k \in 1 .. Len(parts) : HasPair(parts[k], x, y)
    BY <1>1, <1>4, PairInJoined
<1>6. \A k : k \in 1 .. Len(parts) <=> k = 1 \/ k = 2 \/ k = 3
    BY <1>4
<1>7. HasPair(Corpus(doc), x, y)
          <=> HasPair(doc.important, x, y) \/ HasPair(doc.body, x, y) \/ HasPair(Evidence(doc), x, y)
    BY <1>4, <1>5, <1>6
<1>8. ToSet(doc.chunks) = {doc.chunks[k] : k \in 1 .. Len(doc.chunks)}
    BY <1>2 DEF ToSet
<1> QED
    BY <1>3, <1>5, <1>7, <1>8 DEF TextsOf, doc, U

\* The places of the pairs of a focus that are in one of a document's texts.
PairsIn(focus, doc) ==
    {k \in 1 .. Len(focus) - 1 :
        \E text \in TextsOf(doc) : Occurs(Window(focus, k, 2), text)}

\* The coverage of a document counts the characters in pairs of its texts.
LEMMA CoverageOfDocument ==
    ASSUME NEW i \in DOMAIN Documents, NEW T, NEW query \in Seq(T)
    PROVE  QueryCoverage(query, Corpus(Documents[i])) =
               IF Focus(query) = <<>> THEN 0
               ELSE (10000 * Cardinality(WithNext(PairsIn(Focus(query), Documents[i]))))
                        \div Len(Focus(query))
<1> DEFINE doc == Documents[i]
           U == Letters(doc)
           focus == Focus(query)
           found == PairsIn(focus, doc)
<1>1. focus \in Seq(T \ {Mark})
    BY FocusHasNoGaps
<1>2. Corpus(doc) \in Seq(U) /\ \A text \in TextsOf(doc) : text \in Seq(U)
    <2>1. ASSUME NEW x, x # Mark PROVE Corpus(doc) \in Seq(U)
        <3>1. /\ Corpus(Documents[i]) \in Seq(Letters(Documents[i]))
              /\ HasPair(Corpus(Documents[i]), x, x)
                     <=> \E text \in TextsOf(Documents[i]) : HasPair(text, x, x)
            BY <2>1, PairInCorpus
        <3> QED
            BY <3>1
    <2>2. 1 # Mark \/ 2 # Mark
        BY 1 # 2
    <2>3. Corpus(doc) \in Seq(U)
        <3>1. CASE 1 # Mark
            BY <2>1, <3>1
        <3>2. CASE 2 # Mark
            BY <2>1, <3>2
        <3> QED
            BY <2>2, <3>1, <3>2
    <2>4. \A text \in TextsOf(doc) : text \in Seq(U)
        BY TextsAreSequences
    <2> QED
        BY <2>3, <2>4
<1>3. PairsFound(focus, Corpus(doc)) = found
    <2> SUFFICES ASSUME NEW k \in 1 .. Len(focus) - 1
                 PROVE  Occurs(Window(focus, k, 2), Corpus(doc))
                            <=> \E text \in TextsOf(doc) : Occurs(Window(focus, k, 2), text)
        BY DEF PairsFound, PairsIn
    <2> DEFINE pair == Window(focus, k, 2)
    <2> HIDE DEF focus, doc, U
    <2>1. /\ pair \in Seq(T \ {Mark}) /\ Len(pair) = 2
        BY <1>1, PairWindow
    <2> HIDE DEF pair
    <2>2. pair[1] # Mark /\ pair[2] # Mark
        <3>1. 1 \in DOMAIN pair /\ 2 \in DOMAIN pair
            BY <2>1
        <3>2. pair[1] \in T \ {Mark} /\ pair[2] \in T \ {Mark}
            <4> DEFINE letters == T \ {Mark}
            <4>1. pair \in Seq(letters)
                BY <2>1
            <4> HIDE DEF letters
            <4>2. pair[1] \in letters /\ pair[2] \in letters
                BY <3>1, <4>1
            <4> QED
                BY <4>2 DEF letters
        <3> QED
            BY <3>2
    <2>3. Occurs(pair, Corpus(doc)) <=> HasPair(Corpus(doc), pair[1], pair[2])
        BY <1>2, <2>1, PairOccurs
    <2>4. \A text \in TextsOf(doc) : Occurs(pair, text) <=> HasPair(text, pair[1], pair[2])
        BY <1>2, <2>1, PairOccurs
    <2>5. HasPair(Corpus(doc), pair[1], pair[2])
              <=> \E text \in TextsOf(doc) : HasPair(text, pair[1], pair[2])
        BY <2>2, PairInCorpus DEF doc
    <2> QED
        BY <2>3, <2>4, <2>5 DEF pair
<1> HIDE DEF focus, doc, U
<1>4. Covered(focus, Corpus(doc)) = WithNext(found)
    BY <1>1, <1>2, <1>3, CoveredByPairs
<1> HIDE DEF found
<1>5. QueryCoverage(query, Corpus(doc))
          = IF focus = <<>> THEN 0
            ELSE (10000 * Cardinality(Covered(focus, Corpus(doc)))) \div Len(focus)
    BY DEF QueryCoverage, focus
<1> QED
    BY <1>4, <1>5 DEF focus, doc, found

\* What a search found is scored for a document.
LEMMA FoundIsScored ==
    ASSUME NEW q \in Questions, NEW c \in Contexts, NEW n \in Limits, NEW v \in DOMAIN Presets,
           NEW i \in DOMAIN Found[q][c][n][v]
    PROVE  \E place \in DOMAIN Documents : Found[q][c][n][v][i] = Scored(place, q, c, v)
<1> DEFINE ranking == Ranking(q, c, v)
           results == FirstOf(ranking, n)
<1>1. ranking \in Seq(Hits(q, c, v))
    BY RankingInOrder
<1>2. n \in Nat
    BY LimitsAreNumbers
<1>3. Found[q][c][n][v] = results
    BY FoundByRank
<1> HIDE DEF ranking
<1>4. results \in Seq(Hits(q, c, v))
    BY <1>1, <1>2, CutElements
<1> HIDE DEF results
<1>5. results[i] \in Hits(q, c, v)
    BY <1>3, <1>4
<1> QED
    BY <1>3, <1>5 DEF Hits

\* The coverage of a result counts the pairs of the document it names.
CountsPairs(query, item) ==
    item.coverage =
        IF Focus(query) = <<>> THEN 0
        ELSE (10000 * Cardinality(WithNext(PairsIn(Focus(query), DocumentOf(item.id)))))
                 \div Len(Focus(query))

LEMMA CoverageOfFound ==
    ASSUME NEW q \in Questions, NEW c \in Contexts, NEW n \in DOMAIN Found[q][c][ToolLimit]["v4"]
    PROVE  CountsPairs(q, Found[q][c][ToolLimit]["v4"][n])
<1> DEFINE item == Found[q][c][ToolLimit]["v4"][n]
<1>1. ToolLimit \in Limits /\ "v4" \in DOMAIN Presets
    BY DEF Limits, Presets
<1>2. PICK place \in DOMAIN Documents : item = Scored(place, q, c, "v4")
    BY <1>1, FoundIsScored
<1> HIDE DEF item
<1>3. item.id = Documents[place].id /\ item.coverage = QueryCoverage(q, Corpus(Documents[place]))
    BY <1>1, <1>2, ScoredParts
<1>4. DocumentOf(item.id) = Documents[place]
    <2>1. Documents[place] \in ToSet(Documents)
        BY DEF ToSet
    <2>2. \A d \in ToSet(Documents) : d.id = item.id => d = Documents[place]
        BY <1>3, DocumentsAssumption DEF ToSet
    <2> QED
        BY <1>3, <2>1, <2>2 DEF DocumentOf
<1>5. q \in Seq(ToSet(q))
    BY QuestionsAssumption
<1> QED
    BY <1>3, <1>4, <1>5, CoverageOfDocument DEF item, CountsPairs

----------------------------------------------------------------------------
(* The server and the script.                                               *)

ServerIInv ==
    SettingsTypeOK /\ BuilderConsistent /\ RequestConsistent /\ ReplyConsistent

LEMMA InitServer == Init => ServerIInv
<1> SUFFICES ASSUME Init PROVE ServerIInv
    OBVIOUS
<1>1. SettingsTypeOK
    BY DEF Init, SettingsTypeOK
<1>2. Len(Documents) \in Nat
    BY DocumentsAssumption
<1>3. BuilderConsistent
    BY <1>2 DEF Init, BuilderConsistent, Idle
<1>4. RequestConsistent /\ ReplyConsistent
    BY DEF Init, RequestConsistent, ReplyConsistent, Answered
<1> QED
    BY <1>1, <1>3, <1>4 DEF ServerIInv

\* The rows of a complete index are the documents.
LEMMA AllRows == Rows(Len(Documents)) = DocumentIds
BY DEF Rows, DocumentIds

LEMMA BuilderKeepsConsistent ==
    ASSUME BuilderConsistent, BuilderStep
    PROVE  BuilderConsistent' /\ (index' # index => index' = DocumentIds)
<1> USE DEF BuilderConsistent
<1>0. Len(Documents) \in Nat /\ BatchSize \in Nat \ {0}
    BY DocumentsAssumption, BatchSizeAssumption
<1>1. CASE EmbedBatch
    <2>1. Smaller(builder.rows + BatchSize, Len(Documents)) \in 0 .. Len(Documents)
        BY <1>0 DEF Smaller
    <2> QED
        BY <1>1, <2>1 DEF EmbedBatch
<1>2. CASE OpenDraft
    BY <1>2 DEF OpenDraft
<1>3. CASE WriteDraft
    BY <1>3, AllRows DEF WriteDraft
<1>4. CASE ReplaceIndex
    BY <1>0, <1>4 DEF ReplaceIndex, Idle
<1>5. CASE BuildEnds
    BY <1>0, <1>5 DEF BuildEnds, Idle
<1> QED
    BY <1>1, <1>2, <1>3, <1>4, <1>5 DEF BuilderStep

\* What the server keeps does not hang on the files.
LEMMA ServerUnchanged ==
    ASSUME ServerIInv, UNCHANGED <<settings, request, reply>>
    PROVE  SettingsTypeOK' /\ RequestConsistent' /\ ReplyConsistent'
BY DEF ServerIInv, SettingsTypeOK, RequestConsistent, ReplyConsistent, SearchEnded, Answered

LEMMA BuilderKeepsServer ==
    ASSUME ServerIInv, BuilderStep
    PROVE  ServerIInv' /\ (index' # index => index' = DocumentIds)
<1>1. UNCHANGED <<settings, request, reply>>
    BY DEF BuilderStep, EmbedBatch, OpenDraft, WriteDraft, ReplaceIndex, BuildEnds
<1>2. BuilderConsistent' /\ (index' # index => index' = DocumentIds)
    BY BuilderKeepsConsistent DEF ServerIInv
<1> QED
    BY <1>1, <1>2, ServerUnchanged DEF ServerIInv

LEMMA ServerKeepsServer ==
    ASSUME ServerIInv, ServerStep
    PROVE  ServerIInv' /\ index' = index
<1>1. UNCHANGED <<settings, index, draft, builder>>
    BY DEF ServerStep, Chat, Search, Ask, EmbeddingArrives, FallBack, SearchRaises,
           ToolTimesOut, AgentAnswers, ReplyTaken
<1>2. SettingsTypeOK' /\ BuilderConsistent'
    BY <1>1 DEF ServerIInv, SettingsTypeOK, BuilderConsistent
<1>3. RequestConsistent'
    <2>0. RequestConsistent
        BY DEF ServerIInv
    <2> USE <1>1, <2>0 DEF RequestConsistent
    <2>1. CASE UNCHANGED request
        BY <2>1 DEF SearchEnded
    <2>2. ASSUME NEW q \in Questions, Ask(q) PROVE RequestConsistent'
        BY <2>2 DEF Ask, SearchEnded
    <2>3. CASE EmbeddingArrives
        BY <2>3 DEF EmbeddingArrives, Searching, SearchEnded
    <2>4. CASE FallBack
        BY <2>4 DEF FallBack, Searching, SearchEnded
    <2>5. CASE SearchRaises
        BY <2>5 DEF SearchRaises, Searching, SearchEnded
    <2>6. CASE ToolTimesOut
        BY <2>6 DEF ToolTimesOut, Searching, SearchEnded
    <2>7. CASE AgentAnswers
        BY <2>7 DEF AgentAnswers
    <2> QED
        BY <2>1, <2>2, <2>3, <2>4, <2>5, <2>6, <2>7 DEF ServerStep, Chat, Search, ReplyTaken
<1>4. ReplyConsistent'
    <2>1. CASE UNCHANGED reply
        BY <1>1, <2>1 DEF ServerIInv, ReplyConsistent, Answered
    <2>2. CASE reply' = NoReply
        BY <2>2 DEF ReplyConsistent, Answered
    <2>3. ASSUME NEW q \in Questions, NEW c \in Contexts, Chat(q, c) PROVE ReplyConsistent'
        <3>1. reply'.route = "chat"
            BY <2>3 DEF Chat
        <3> QED
            BY <3>1 DEF ReplyConsistent, Answered
    <2>4. ASSUME NEW q \in Questions, NEW c \in Contexts, Search(q, c) PROVE ReplyConsistent'
        <3>1. /\ reply'.route = "search" /\ reply'.question = q
              /\ reply'.results = Found[q][c][ToolLimit]["v4"]
            BY <2>4 DEF Search
        <3> QED
            BY <3>1 DEF ReplyConsistent, Answered
    <2>5. CASE AgentAnswers
        <3> DEFINE q == request.question
                   plain == Found[q][{}][ToolLimit][settings.version]
        <3> SUFFICES ASSUME request.mode # "hybrid"
                     PROVE  /\ q \in Questions
                            /\ reply'.answer =
                                  Decide(q, IF request.mode \in {"raised", "timed_out"} THEN <<>>
                                            ELSE BoundToolResult(plain))
            <4>1. reply'.route = "agent" /\ reply'.question = q /\ reply'.mode = request.mode
                BY <2>5 DEF AgentAnswers
            <4> QED
                BY <1>1, <4>1 DEF ReplyConsistent, Answered
        <3>1. /\ request # NoRequest /\ request.results # NoReply
              /\ reply'.answer = Decide(q, BoundToolResult(request.results))
            BY <2>5 DEF AgentAnswers
        <3>2. /\ q \in Questions /\ settings.version \in DOMAIN Presets
              /\ request.lexical = LexicalCandidates(q, settings.version)
            BY <3>1 DEF ServerIInv, SettingsTypeOK, RequestConsistent
        <3>3. CASE request.mode \in {"raised", "timed_out"}
            <4>1. request.results = <<>>
                BY <3>1, <3>3 DEF ServerIInv, RequestConsistent, SearchEnded
            <4>2. BoundToolResult(<<>>) = <<>>
                BY DEF BoundToolResult
            <4> QED
                BY <3>1, <3>2, <3>3, <4>1, <4>2
        <3>4. CASE request.mode \notin {"raised", "timed_out"}
            <4>1. request.results = FirstOf(request.lexical, ToolLimit)
                BY <3>1, <3>4 DEF ServerIInv, RequestConsistent, SearchEnded
            <4>2. request.results = plain
                BY <3>2, <4>1, CandidatesCut
            <4> QED
                BY <3>1, <3>2, <3>4, <4>2
        <3> QED
            BY <3>3, <3>4
    <2> QED
        BY <2>1, <2>2, <2>3, <2>4, <2>5
           DEF ServerStep, Ask, EmbeddingArrives, FallBack, SearchRaises, ToolTimesOut, ReplyTaken
<1> QED
    BY <1>1, <1>2, <1>3, <1>4 DEF ServerIInv

----------------------------------------------------------------------------
(* What the plain search adds up to.                                        *)

\* What one more case adds.
NextParts(version, parts, n) ==
    LET case == Cases[n]
        results == FirstOf(LexicalCandidates(case.question, version), ToolLimit)
    IN [ranks |-> IF case.expected = {} THEN parts.ranks
                  ELSE Append(parts.ranks, Reciprocal(RankOf(case, results))),
        passed |-> IF Passed(case, results) THEN parts.passed \cup {case.question}
                   ELSE parts.passed]

NoParts == [ranks |-> <<>>, passed |-> {}]

IsCourse(course, version, cases) ==
    course = [n \in 0 .. cases |-> IF n = 0 THEN NoParts
                                   ELSE NextParts(version, course[n - 1], n)]

\* There is such a course, however many cases it covers: a least number without
\* one would have the course of its predecessor, which goes on for one case.
LEMMA CourseExists ==
    ASSUME NEW version, NEW cases \in Nat
    PROVE  \E course : IsCourse(course, version, cases)
<1> DEFINE without == {n \in Nat : ~ \E course : IsCourse(course, version, n)}
<1> SUFFICES ASSUME without # {} PROVE FALSE
    OBVIOUS
<1>1. PICK n \in without : \A k \in without : n <= k
    BY LeastNumber
<1>2. n \in Nat /\ \A course : ~IsCourse(course, version, n)
    BY <1>1
<1>3. CASE n = 0
    <2> DEFINE course == [k \in 0 .. 0 |-> NoParts]
    <2>1. course = [k \in 0 .. 0 |-> IF k = 0 THEN NoParts
                                      ELSE NextParts(version, course[k - 1], k)]
        OBVIOUS
    <2> HIDE DEF course
    <2> QED
        BY <1>2, <1>3, <2>1 DEF IsCourse
<1>4. CASE n # 0
    <2>1. n - 1 \in Nat /\ n - 1 \notin without
        BY <1>1, <1>2, <1>4
    <2>2. PICK before : IsCourse(before, version, n - 1)
        BY <2>1
    <2> DEFINE course == [k \in 0 .. n |-> IF k = n THEN NextParts(version, before[n - 1], n)
                                            ELSE before[k]]
               step(f, k) == IF k = 0 THEN NoParts ELSE NextParts(version, f[k - 1], k)
    <2>3. before = [k \in 0 .. n - 1 |-> step(before, k)]
        BY <2>2 DEF IsCourse
    <2>4. \A k \in 0 .. n - 1 : course[k] = before[k]
        BY <1>2
    <2>5. \A k \in 0 .. n : course[k] = step(course, k)
        <3> TAKE k \in 0 .. n
        <3>1. CASE k = n
            <4>1. n - 1 \in 0 .. n - 1 /\ course[n - 1] = before[n - 1]
                BY <2>1, <2>4
            <4> QED
                BY <1>4, <3>1, <4>1
        <3>2. CASE k # n
            <4>1. k \in 0 .. n - 1 /\ course[k] = before[k] /\ before[k] = step(before, k)
                BY <1>2, <2>3, <2>4, <3>2
            <4>2. k # 0 => k - 1 \in 0 .. n - 1 /\ course[k - 1] = before[k - 1]
                BY <1>2, <2>4, <4>1
            <4> HIDE DEF course
            <4> QED
                BY <4>1, <4>2
        <3> QED
            BY <3>1, <3>2
    <2>6. course = [k \in 0 .. n |-> course[k]]
        OBVIOUS
    <2> HIDE DEF course
    <2>7. course = [k \in 0 .. n |-> step(course, k)]
        BY <2>5, <2>6
    <2> QED
        BY <1>2, <2>7 DEF IsCourse
<1> QED
    BY <1>3, <1>4

\* So PlainCourse is the one that its definition describes.
LEMMA PlainCourseIsCourse ==
    ASSUME NEW version
    PROVE  /\ PlainCourse(version)[0] = NoParts
           /\ \A n \in 1 .. Len(Cases) :
                 PlainCourse(version)[n] = NextParts(version, PlainCourse(version)[n - 1], n)
<1>1. Len(Cases) \in Nat
    BY CasesAssumption
<1>2. PlainCourse(version) = CHOOSE course : IsCourse(course, version, Len(Cases))
    BY DEF PlainCourse, IsCourse, NextParts, NoParts
<1>3. IsCourse(PlainCourse(version), version, Len(Cases))
    BY <1>1, <1>2, CourseExists
<1> DEFINE course == PlainCourse(version)
<1> HIDE DEF course
<1>4. course = [n \in 0 .. Len(Cases) |-> IF n = 0 THEN NoParts
                                          ELSE NextParts(version, course[n - 1], n)]
    BY <1>3 DEF course, IsCourse
<1>5. \A n \in 0 .. Len(Cases) :
          course[n] = IF n = 0 THEN NoParts ELSE NextParts(version, course[n - 1], n)
    BY <1>4
<1> QED
    BY <1>1, <1>5 DEF course

----------------------------------------------------------------------------
(* The evaluation.                                                          *)

\* A tally goes on as the course does, unless the outcome is hybrid.
LEMMA TallyGoesOn ==
    ASSUME NEW version, NEW n \in 1 .. Len(Cases), NEW tally, NEW outcome,
           DOMAIN tally = DOMAIN NoTally, tally.modes \in Seq(Modes), outcome.mode \in Modes,
           outcome.mode # "hybrid" =>
               outcome.results = FirstOf(LexicalCandidates(Cases[n].question, version), ToolLimit),
           MeasuredLike(tally, ToSet(tally.modes), version, n - 1)
    PROVE  /\ DOMAIN Tallied(tally, Cases[n], outcome) = DOMAIN NoTally
           /\ Tallied(tally, Cases[n], outcome).modes \in Seq(Modes)
           /\ ToSet(Tallied(tally, Cases[n], outcome).modes)
                  = ToSet(tally.modes) \cup {outcome.mode}
           /\ MeasuredLike(Tallied(tally, Cases[n], outcome),
                           ToSet(Tallied(tally, Cases[n], outcome).modes), version, n)
<1> DEFINE after == Tallied(tally, Cases[n], outcome)
           results == FirstOf(LexicalCandidates(Cases[n].question, version), ToolLimit)
           course == PlainCourse(version)
<1>1. /\ DOMAIN after = DOMAIN NoTally
      /\ after.modes = Append(tally.modes, outcome.mode)
      /\ after.ranks = IF Cases[n].expected = {} THEN tally.ranks
                       ELSE Append(tally.ranks, Reciprocal(RankOf(Cases[n], outcome.results)))
      /\ after.passed = IF Passed(Cases[n], outcome.results)
                        THEN tally.passed \cup {Cases[n].question} ELSE tally.passed
    BY DEF Tallied, NoTally
<1>2. course[n] = NextParts(version, course[n - 1], n)
    BY PlainCourseIsCourse
<1>3. /\ course[n].ranks = IF Cases[n].expected = {} THEN course[n - 1].ranks
                           ELSE Append(course[n - 1].ranks, Reciprocal(RankOf(Cases[n], results)))
      /\ course[n].passed = IF Passed(Cases[n], results)
                            THEN course[n - 1].passed \cup {Cases[n].question}
                            ELSE course[n - 1].passed
    BY <1>2 DEF NextParts
<1>4. ToSet(after.modes) = ToSet(tally.modes) \cup {outcome.mode}
    BY <1>1, AppendedElements
<1>5. after.modes \in Seq(Modes)
    BY <1>1
<1> HIDE DEF after, course, results
<1>6. ASSUME "hybrid" \notin ToSet(after.modes)
      PROVE  after.ranks = course[n].ranks /\ after.passed = course[n].passed
    <2>1. outcome.results = results /\ "hybrid" \notin ToSet(tally.modes)
        BY <1>4, <1>6 DEF results
    <2>2. tally.ranks = course[n - 1].ranks /\ tally.passed = course[n - 1].passed
        BY <2>1 DEF MeasuredLike, course
    <2> QED
        BY <1>1, <1>3, <2>1, <2>2
<1> QED
    BY <1>1, <1>4, <1>5, <1>6 DEF MeasuredLike, after, course

\* A measurement that has not begun is that of the plain search.
LEMMA NothingMeasured ==
    ASSUME NEW version
    PROVE  /\ DOMAIN NoTally = DOMAIN NoTally /\ NoTally.modes \in Seq(Modes)
           /\ "hybrid" \notin ToSet(NoTally.modes)
           /\ MeasuredLike(NoTally, ToSet(NoTally.modes), version, 0)
BY PlainCourseIsCourse DEF NoTally, NoParts, MeasuredLike, ToSet

LEMMA InitEvaluation == EvalInit => EvaluationConsistent /\ DetailConsistent
<1> SUFFICES ASSUME EvalInit PROVE EvaluationConsistent /\ DetailConsistent
    OBVIOUS
<1>1. DetailConsistent
    BY DEF EvalInit, DetailConsistent
<1>2. CASE evaluation = [phase |-> "off"]
    BY <1>1, <1>2 DEF EvaluationConsistent
<1>3. ASSUME NEW plan \in Plans,
             evaluation = [phase |-> "running", plan |-> plan, case |-> 1,
                           tally |-> NoTally, reports |-> <<>>]
      PROVE  EvaluationConsistent
    <2>1. ReportsConsistent(<<>>)
        BY DEF ReportsConsistent, ToSet
    <2>2. 1 \in 1 .. Len(Cases) + 1 /\ 1 - 1 = 0
        BY CasesAssumption
    <2>3. MeasuredLike(NoTally, ToSet(NoTally.modes), Head(plan).version, 0)
        BY NothingMeasured
    <2>4. NoTally.modes \in Seq(Modes) /\ "hybrid" \notin ToSet(NoTally.modes)
        BY NothingMeasured
    <2>5. /\ plan \in Seq([version : DOMAIN Presets, semantic : BOOLEAN]) \ {<<>>}
          /\ \A i \in DOMAIN plan : plan[i].semantic => plan[i].version = "v4"
        BY PlansAssumption
    <2>6. /\ evaluation.phase = "running" /\ evaluation.plan = plan /\ evaluation.case = 1
          /\ evaluation.tally = NoTally /\ evaluation.reports = <<>>
          /\ DOMAIN evaluation = {"phase", "plan", "case", "tally", "reports"}
        BY <1>3
    <2> QED
        BY <2>1, <2>2, <2>3, <2>4, <2>5, <2>6 DEF EvaluationConsistent
<1> QED
    BY <1>1, <1>2, <1>3 DEF EvalInit

LEMMA JudgingKeepsConsistent ==
    ASSUME EvaluationConsistent, JudgeCase
    PROVE  EvaluationConsistent' /\ DetailConsistent'
<1> DEFINE n == evaluation.case
           setting == Head(evaluation.plan)
           lexical == LexicalCandidates(Cases[n].question, setting.version)
<1>1. /\ evaluation.phase = "running" /\ n \in 1 .. Len(Cases)
      /\ DOMAIN evaluation = {"phase", "plan", "case", "tally", "reports"}
      /\ DOMAIN evaluation.tally = DOMAIN NoTally
      /\ evaluation.tally.modes \in Seq(Modes)
      /\ ~setting.semantic => "hybrid" \notin ToSet(evaluation.tally.modes)
      /\ MeasuredLike(evaluation.tally, ToSet(evaluation.tally.modes), setting.version, n - 1)
      /\ Len(Cases) \in Nat
    BY CasesAssumption DEF JudgeCase, EvaluationConsistent
<1>2. PICK outcome \in Outcomes(Cases[n].question, setting.semantic, lexical) :
          /\ evaluation' = [evaluation EXCEPT !.case = @ + 1,
                                              !.tally = Tallied(@, Cases[n], outcome)]
          /\ detail' = [question |-> Cases[n].question, results |-> outcome.results,
                        refused |-> Refused(Cases[n].question, outcome.results)]
    BY DEF JudgeCase
<1>3. /\ outcome.mode \in Modes
      /\ ~setting.semantic => outcome.mode # "hybrid"
      /\ outcome.mode # "hybrid" => outcome.results = FirstOf(lexical, ToolLimit)
    BY DEF Outcomes, Modes
<1> DEFINE after == Tallied(evaluation.tally, Cases[n], outcome)
<1>4. /\ DOMAIN after = DOMAIN NoTally /\ after.modes \in Seq(Modes)
      /\ ToSet(after.modes) = ToSet(evaluation.tally.modes) \cup {outcome.mode}
      /\ MeasuredLike(after, ToSet(after.modes), setting.version, n)
    <2>1. outcome.mode # "hybrid" =>
              outcome.results = FirstOf(LexicalCandidates(Cases[n].question, setting.version),
                                        ToolLimit)
        BY <1>3
    <2> HIDE DEF after, n, setting
    <2>2. /\ DOMAIN Tallied(evaluation.tally, Cases[n], outcome) = DOMAIN NoTally
          /\ Tallied(evaluation.tally, Cases[n], outcome).modes \in Seq(Modes)
          /\ ToSet(Tallied(evaluation.tally, Cases[n], outcome).modes)
                 = ToSet(evaluation.tally.modes) \cup {outcome.mode}
          /\ MeasuredLike(Tallied(evaluation.tally, Cases[n], outcome),
                          ToSet(Tallied(evaluation.tally, Cases[n], outcome).modes),
                          setting.version, n)
        BY <1>1, <1>3, <2>1, TallyGoesOn, Zenon
    <2> QED
        BY <2>2, Zenon DEF after
<1>5. /\ DOMAIN evaluation' = DOMAIN evaluation
      /\ evaluation'.phase = "running" /\ evaluation'.plan = evaluation.plan
      /\ evaluation'.case = n + 1 /\ evaluation'.tally = after
      /\ evaluation'.reports = evaluation.reports
    BY <1>1, <1>2
<1>6. n + 1 \in 1 .. Len(Cases) + 1 /\ n + 1 - 1 = n
    BY <1>1
<1>7. DetailConsistent'
    BY <1>2 DEF DetailConsistent, Refused
<1> HIDE DEF after
<1>8. MeasuredLike(evaluation'.tally, ToSet(evaluation'.tally.modes),
                   Head(evaluation'.plan).version, evaluation'.case - 1)
    <2>1. evaluation'.case - 1 = n
        <3>1. evaluation'.case = n + 1
            BY <1>5, Zenon
        <3>2. n \in Int
            BY <1>1
        <3> HIDE DEF n
        <3> QED
            BY <3>1, <3>2
    <2>2. Head(evaluation'.plan) = setting
        BY <1>5, Zenon
    <2> HIDE DEF n, setting
    <2> QED
        BY <1>4, <1>5, <2>1, <2>2, Zenon
<1>9. ~Head(evaluation'.plan).semantic => "hybrid" \notin ToSet(evaluation'.tally.modes)
    <2>1. ~setting.semantic => "hybrid" \notin ToSet(after.modes)
        BY <1>1, <1>3, <1>4
    <2>2. Head(evaluation'.plan) = setting /\ evaluation'.tally = after
        BY <1>5, Zenon
    <2> HIDE DEF setting
    <2> QED
        BY <2>1, <2>2, Zenon
<1>10. EvaluationConsistent'
    BY <1>1, <1>4, <1>5, <1>6, <1>8, <1>9 DEF EvaluationConsistent
<1> QED
    BY <1>7, <1>10

\* A report says of its tally what the course says of all cases.
LEMMA ReportedLikeTally ==
    ASSUME EvaluationConsistent, FinishVersion
    PROVE  LET setting == Head(evaluation.plan)
               name == IF setting.semantic THEN "v5-hybrid" ELSE setting.version
           IN ReportsConsistent(Append(evaluation.reports, Report(name, evaluation.tally)))
<1> DEFINE setting == Head(evaluation.plan)
           name == IF setting.semantic THEN "v5-hybrid" ELSE setting.version
           report == Report(name, evaluation.tally)
           longer == Append(evaluation.reports, report)
<1>1. /\ evaluation.case - 1 = Len(Cases)
      /\ MeasuredLike(evaluation.tally, ToSet(evaluation.tally.modes), setting.version,
                      evaluation.case - 1)
      /\ ~setting.semantic => "hybrid" \notin ToSet(evaluation.tally.modes)
      /\ ReportsConsistent(evaluation.reports)
      /\ evaluation.plan \in Seq([version : DOMAIN Presets, semantic : BOOLEAN]) \ {<<>>}
      /\ \A i \in DOMAIN evaluation.plan :
            evaluation.plan[i].semantic => evaluation.plan[i].version = "v4"
    BY CasesAssumption DEF FinishVersion, EvaluationConsistent
<1>2. /\ setting.version \in DOMAIN Presets
      /\ setting.semantic => setting.version = "v4"
    <2>1. /\ 1 \in DOMAIN evaluation.plan /\ setting = evaluation.plan[1]
          /\ setting \in [version : DOMAIN Presets, semantic : BOOLEAN]
        BY <1>1, HeadAndTail
    <2> QED
        BY <1>1, <2>1
<1>3. (IF name = "v5-hybrid" THEN "v4" ELSE name) = setting.version
    BY <1>2 DEF Presets
<1>4. name # "v5-hybrid" => "hybrid" \notin ToSet(evaluation.tally.modes)
    BY <1>1
<1>5. /\ report.modes = ToSet(evaluation.tally.modes) /\ report.version = name
      /\ report.ranks = evaluation.tally.ranks /\ report.passed = evaluation.tally.passed
    BY DEF Report
<1> HIDE DEF report, name, setting
<1>6. MeasuredLike(report, report.modes,
                   IF report.version = "v5-hybrid" THEN "v4" ELSE report.version, Len(Cases))
    BY <1>1, <1>3, <1>5 DEF MeasuredLike
<1>7. /\ longer \in Seq(ToSet(longer))
      /\ DOMAIN longer = DOMAIN evaluation.reports \cup {Len(evaluation.reports) + 1}
      /\ \A i \in DOMAIN evaluation.reports : longer[i] = evaluation.reports[i]
      /\ longer[Len(evaluation.reports) + 1] = report
    BY <1>1, AppendedSequence DEF ReportsConsistent
<1> HIDE DEF longer
<1>8. ReportsConsistent(longer)
    BY <1>1, <1>4, <1>5, <1>6, <1>7 DEF ReportsConsistent
<1> QED
    BY <1>8 DEF longer, report, name, setting

LEMMA FinishKeepsConsistent ==
    ASSUME EvaluationConsistent, FinishVersion
    PROVE  EvaluationConsistent'
<1> DEFINE setting == Head(evaluation.plan)
           name == IF setting.semantic THEN "v5-hybrid" ELSE setting.version
           reports == Append(evaluation.reports, Report(name, evaluation.tally))
           left == Tail(evaluation.plan)
<1>1. ReportsConsistent(reports)
    BY ReportedLikeTally
<1>2. /\ evaluation.plan \in Seq([version : DOMAIN Presets, semantic : BOOLEAN]) \ {<<>>}
      /\ \A i \in DOMAIN evaluation.plan :
            evaluation.plan[i].semantic => evaluation.plan[i].version = "v4"
      /\ Len(Cases) \in Nat
    BY CasesAssumption DEF FinishVersion, EvaluationConsistent
<1>3. evaluation' = IF left = <<>> THEN [phase |-> "done", reports |-> reports]
                    ELSE [phase |-> "running", plan |-> left, case |-> 1,
                          tally |-> NoTally, reports |-> reports]
    BY DEF FinishVersion
<1> HIDE DEF reports
<1>4. CASE left = <<>>
    <2>1. evaluation'.phase = "done" /\ evaluation'.reports = reports
        BY <1>3, <1>4
    <2> QED
        BY <1>1, <2>1 DEF EvaluationConsistent
<1>5. CASE left # <<>>
    <2>1. /\ evaluation'.phase = "running" /\ evaluation'.plan = left /\ evaluation'.case = 1
          /\ evaluation'.tally = NoTally /\ evaluation'.reports = reports
          /\ DOMAIN evaluation' = {"phase", "plan", "case", "tally", "reports"}
        BY <1>3, <1>5
    <2>2. /\ left \in Seq([version : DOMAIN Presets, semantic : BOOLEAN]) \ {<<>>}
          /\ \A i \in DOMAIN left : left[i].semantic => left[i].version = "v4"
        BY <1>2, <1>5, HeadAndTail
    <2>3. 1 \in 1 .. Len(Cases) + 1 /\ 1 - 1 = 0
        BY <1>2
    <2>4. /\ MeasuredLike(NoTally, ToSet(NoTally.modes), Head(left).version, 0)
          /\ NoTally.modes \in Seq(Modes) /\ "hybrid" \notin ToSet(NoTally.modes)
        BY NothingMeasured
    <2> HIDE DEF left
    <2> QED
        BY <1>1, <2>1, <2>2, <2>3, <2>4 DEF EvaluationConsistent
<1> QED
    BY <1>4, <1>5

\* Every step keeps the invariant, and changes the index only to a complete one.
LEMMA StepInvariant ==
    ASSUME EvalIInv, [EvalNext]_allVars
    PROVE  EvalIInv' /\ (index' # index => index' = DocumentIds)
<1>0. ServerIInv /\ EvaluationConsistent /\ DetailConsistent
    BY DEF EvalIInv, ServerIInv
<1> SUFFICES /\ ServerIInv' /\ EvaluationConsistent' /\ DetailConsistent'
             /\ index' # index => index' = DocumentIds
    BY DEF EvalIInv, ServerIInv
<1>1. ASSUME UNCHANGED vars PROVE ServerIInv' /\ index' = index
    BY <1>0, <1>1, ServerUnchanged DEF vars, ServerIInv, BuilderConsistent
<1>2. ASSUME UNCHANGED <<evaluation, detail>> PROVE EvaluationConsistent' /\ DetailConsistent'
    BY <1>0, <1>2 DEF EvaluationConsistent, DetailConsistent
<1>3. CASE UNCHANGED allVars
    BY <1>1, <1>2, <1>3 DEF allVars
<1>4. CASE ServerStep /\ UNCHANGED <<evaluation, detail>>
    BY <1>0, <1>2, <1>4, ServerKeepsServer
<1>5. CASE BuilderStep /\ UNCHANGED <<evaluation, detail>>
    BY <1>0, <1>2, <1>5, BuilderKeepsServer
<1>6. CASE EvaluationStep
    <2>1. ServerIInv' /\ index' = index
        BY <1>1, <1>6 DEF EvaluationStep
    <2>2. CASE JudgeCase
        BY <1>0, <2>1, <2>2, JudgingKeepsConsistent
    <2>3. CASE EvaluationRaises
        BY <2>1, <2>3 DEF EvaluationRaises, EvaluationConsistent, DetailConsistent
    <2>4. CASE FinishVersion
        BY <1>0, <2>1, <2>4, FinishKeepsConsistent DEF FinishVersion, DetailConsistent
    <2> QED
        BY <1>6, <2>2, <2>3, <2>4 DEF EvaluationStep
<1> QED
    BY <1>3, <1>4, <1>5, <1>6 DEF EvalNext

\* The invariant: what is about to be put in place as index is complete, a question
\* carries what the lexical search found for it, and what an evaluation has
\* tallied and reported without a hybrid result is what the plain search adds up to.
THEOREM EvaluationInvariance == EvalSpec => []EvalIInv
<1>1. EvalInit => EvalIInv
    BY InitServer, InitEvaluation DEF EvalInit, EvalIInv, ServerIInv
<1>2. EvalIInv /\ [EvalNext]_allVars => EvalIInv'
    BY StepInvariant
<1> QED
    BY <1>1, <1>2, PTL DEF EvalSpec

\* save_vector_index: whoever reads the index finds none, an earlier one or a
\* complete one, wherever the script that builds it is stopped.
THEOREM IndexIsReplacedWhole == EvalSpec => IndexChangesWhole
<1>1. EvalIInv /\ [EvalNext]_allVars => [index' # index => index' = DocumentIds]_index
    BY StepInvariant
<1> QED
    BY <1>1, EvaluationInvariance, PTL DEF EvalSpec, IndexChangesWhole

\* A model that is given no results has nothing to cite.
LEMMA NothingToCite ==
    ASSUME NEW question
    PROVE  Decide(question, <<>>).sources = <<>> /\ Decide(question, <<>>).status # "grounded"
BY DEF Decide

\* hybrid_search_documents: a search that falls back returns what a lexical search for as
\* many documents returns, and the agent answers on it; a call that raised or ran out of
\* its time leaves the agent nothing to cite.
THEOREM FallbackIsPlainSearch == EvalSpec => []FallbackLosesNothing
<1> DEFINE plain(question) == Found[question][{}][ToolLimit][settings.version]
           fellBack == {"lexical", "index_missing", "embedding_unavailable"}
<1>1. ASSUME EvalIInv, SearchEnded(fellBack)
      PROVE  request.results = plain(request.question)
    <2>1. /\ request.question \in Questions /\ settings.version \in DOMAIN Presets
          /\ request.lexical = LexicalCandidates(request.question, settings.version)
          /\ request.results = FirstOf(request.lexical, ToolLimit)
        BY <1>1 DEF EvalIInv, SettingsTypeOK, RequestConsistent, SearchEnded
    <2> QED
        BY <2>1, CandidatesCut
<1>2. ASSUME EvalIInv, Answered({"agent"}), reply.mode \in fellBack
      PROVE  reply.answer = Decide(reply.question, BoundToolResult(plain(reply.question)))
    BY <1>2 DEF EvalIInv, ReplyConsistent
<1>3. ASSUME EvalIInv, Answered({"agent"}), reply.mode \in {"raised", "timed_out"}
      PROVE  reply.answer.sources = <<>>
    <2>1. reply.answer = Decide(reply.question, <<>>)
        BY <1>3 DEF EvalIInv, ReplyConsistent
    <2> QED
        BY <2>1, NothingToCite
<1>4. EvalIInv => FallbackLosesNothing
    BY <1>1, <1>2, <1>3 DEF FallbackLosesNothing
<1> QED
    BY <1>4, EvaluationInvariance, PTL

\* DeterministicModel._has_strong_evidence against MIN_SUPPORTED_SCORE: what the lexical
\* agent answers from evidence, /api/chat never refuses.
THEOREM ChatFollowsAgent == EvalSpec => []AgentNeverBolderThanChat
<1>1. EvalIInv => AgentNeverBolderThanChat
    <2> SUFFICES ASSUME EvalIInv, Answered({"agent"}), settings.version = "v4",
                        reply.mode # "hybrid", reply.answer.status = "grounded"
                 PROVE  ChatAnswer(reply.question, Found[reply.question][{}][ChatLimit]["v4"]).status
                            = "grounded"
        BY DEF AgentNeverBolderThanChat
    <2>1. /\ reply.question \in Questions
          /\ reply.answer =
                Decide(reply.question,
                       IF reply.mode \in {"raised", "timed_out"} THEN <<>>
                       ELSE BoundToolResult(Found[reply.question][{}][ToolLimit]["v4"]))
        BY DEF EvalIInv, ReplyConsistent
    <2>2. reply.answer =
              Decide(reply.question, BoundToolResult(Found[reply.question][{}][ToolLimit]["v4"]))
        BY <2>1, NothingToCite
    <2> QED
        BY <2>1, <2>2, GroundedInBoth
<1> QED
    BY <1>1, EvaluationInvariance, PTL

\* _merge_semantic_results: no candidate that is better in words and vector, by what the
\* rounded blend can show, stands behind another or is cut off, none is named twice, and the rows are those that were loaded
\* before the wait, whatever the script has put in place meanwhile.
THEOREM HybridIsInOrder == EvalSpec => []HybridKeepsTheBest
<1>1. EvalIInv => HybridKeepsTheBest
    <2> DEFINE q == request.question
               rows == request.rows
               lexical == request.lexical
               ids == Ids(request.results)
               candidates == Candidates(q, rows, lexical)
    <2>1. ASSUME EvalIInv, SearchEnded({"hybrid"})
          PROVE  /\ IsInjective(ids)
                 /\ ToSet(ids) \subseteq candidates
                 /\ Len(ids) = Smaller(ToolLimit, Cardinality(candidates))
                 /\ \A n \in DOMAIN ids, a \in candidates :
                       Better(q, rows, lexical, a, ids[n]) => \E k \in 1 .. n - 1 : ids[k] = a
        <3>1. /\ q \in Questions /\ settings.version \in DOMAIN Presets
              /\ lexical = LexicalCandidates(q, settings.version)
              /\ request.results = MergeSemanticResults(lexical, SimilarityIn(rows, q), ToolLimit)
            BY <2>1 DEF EvalIInv, SettingsTypeOK, RequestConsistent, SearchEnded
        <3>2. Larger(ToolLimit, FetchLimit) \in Limits
            BY DEF Limits
        <3>3. PlainResults(lexical)
            BY <3>1, <3>2, FoundIsPlain DEF LexicalCandidates
        <3> HIDE DEF q, rows, lexical
        <3> QED
            BY <3>1, <3>3, HybridInOrder
    <2> QED
        BY <2>1 DEF HybridKeepsTheBest
<1> QED
    BY <1>1, EvaluationInvariance, PTL

\* _query_coverage: the coverage that a search reports counts exactly the characters of the
\* focused question that lie in a pair of neighbours of one of the document's texts.
THEOREM CoverageCountsPairs == EvalSpec => []CoverageIsExact
<1>1. EvalIInv => CoverageIsExact
    <2> DEFINE focus == Focus(reply.question)
               pairs(doc) == {i \in 1 .. Len(focus) - 1 :
                                 \E text \in {doc.important, doc.body} \cup ToSet(doc.chunks) :
                                     Occurs(Window(focus, i, 2), text)}
               marked(doc) == pairs(doc) \cup {i + 1 : i \in pairs(doc)}
               exact(item) ==
                   item.coverage =
                       IF focus = <<>> THEN 0
                       ELSE (10000 * Cardinality(marked(DocumentOf(item.id)))) \div Len(focus)
    <2>1. CoverageIsExact
              <=> (Answered({"search"}) => \A n \in DOMAIN reply.results : exact(reply.results[n]))
        BY DEF CoverageIsExact
    <2> SUFFICES ASSUME EvalIInv, Answered({"search"}), NEW n \in DOMAIN reply.results
                 PROVE  exact(reply.results[n])
        <3> HIDE DEF exact
        <3> QED
            BY <2>1
    <2>2. /\ reply.question \in Questions
          /\ \E context \in Contexts :
                reply.results = Found[reply.question][context][ToolLimit]["v4"]
        BY DEF EvalIInv, ServerIInv, ReplyConsistent
    <2>3. PICK context \in Contexts :
              reply.results = Found[reply.question][context][ToolLimit]["v4"]
        BY <2>2
    <2> DEFINE found == Found[reply.question][context][ToolLimit]["v4"]
               doc == DocumentOf(found[n].id)
    <2>4. n \in DOMAIN found
        BY <2>3
    <2>5. CountsPairs(reply.question, found[n])
        BY <2>2, <2>4, CoverageOfFound
    <2> DEFINE counted == PairsIn(focus, doc)
    <2>6. pairs(doc) = counted
        BY DEF PairsIn, TextsOf
    <2>7. found[n].coverage =
              IF focus = <<>> THEN 0
              ELSE (10000 * Cardinality(WithNext(counted))) \div Len(focus)
        BY <2>5 DEF CountsPairs
    <2>8. marked(doc) = WithNext(counted)
        <3> HIDE DEF pairs, counted, doc
        <3> QED
            BY <2>6 DEF WithNext
    <2> HIDE DEF marked, counted
    <2>9. exact(found[n])
        BY <2>7, <2>8
    <2> HIDE DEF exact
    <2> QED
        BY <2>3, <2>9
<1> QED
    BY <1>1, EvaluationInvariance, PTL

\* evaluate_version against DeterministicModel.decide: the refusals that are counted
\* are those of the agent, whatever the policy says and the search finds, unless
\* the results are too long for the context of the model.
THEOREM RefusalsAreThoseOfAgent == EvalSpec => []EvaluationRefusesAsAgent
<1>1. EvalIInv => EvaluationRefusesAsAgent
    <2> SUFFICES ASSUME EvalIInv, detail # NoDetail
                 PROVE  /\ detail.refused = (Decide(detail.question, detail.results).status # "grounded")
                        /\ FitsContext(detail.results) => BoundToolResult(detail.results) = detail.results
        BY DEF EvaluationRefusesAsAgent
    <2>1. detail.refused = Refused(detail.question, detail.results)
        BY DEF EvalIInv, DetailConsistent
    <2> DEFINE refuses == \/ AssessQuestion(detail.question) # "ALLOWED"
                          \/ \A n \in DOMAIN detail.results : ~HasStrongEvidence(detail.results[n])
    <2>2. Decide(detail.question, detail.results).status # "grounded" <=> refuses
        BY DEF Decide
    <2> QED
        BY <2>1, <2>2 DEF Refused, BoundToolResult
<1> QED
    BY <1>1, EvaluationInvariance, PTL

\* comparison_summary: measured without a hybrid result, v5-hybrid has the passed cases
\* and the ranks of the v4 that was measured before it.
THEOREM UnavailableHybridIsPlain == EvalSpec => []UnavailableHybridChangesNothing
<1>1. EvalIInv => UnavailableHybridChangesNothing
    <2> DEFINE reports == evaluation.reports
    <2> SUFFICES ASSUME EvalIInv, evaluation.phase = "done",
                        NEW n \in DOMAIN reports \ {1},
                        reports[n].version = "v5-hybrid", "hybrid" \notin reports[n].modes,
                        reports[n - 1].version = "v4"
                 PROVE  /\ Comparison(reports)[n] = [improved |-> {}, regressed |-> {}]
                        /\ reports[n].ranks = reports[n - 1].ranks
        BY DEF UnavailableHybridChangesNothing
    <2>1. ReportsConsistent(reports)
        BY DEF EvalIInv, EvaluationConsistent
    <2>2. n \in DOMAIN reports /\ n - 1 \in DOMAIN reports
        BY <2>1 DEF ReportsConsistent
    <2>3. MeasuredLike(reports[n], reports[n].modes, "v4", Len(Cases))
        BY <2>1, <2>2 DEF ReportsConsistent
    <2>4. /\ MeasuredLike(reports[n - 1], reports[n - 1].modes, "v4", Len(Cases))
          /\ "hybrid" \notin reports[n - 1].modes
        BY <2>1, <2>2 DEF ReportsConsistent
    <2>5. reports[n].passed = reports[n - 1].passed /\ reports[n].ranks = reports[n - 1].ranks
        BY <2>3, <2>4 DEF MeasuredLike
    <2>6. Comparison(reports)[n] = [improved |-> reports[n].passed \ reports[n - 1].passed,
                                    regressed |-> reports[n - 1].passed \ reports[n].passed]
        BY <2>2 DEF Comparison
    <2> QED
        BY <2>5, <2>6
<1> QED
    BY <1>1, EvaluationInvariance, PTL
=============================================================================
