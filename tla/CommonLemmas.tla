---------------------------- MODULE CommonLemmas ----------------------------
(***************************************************************************)
(* Lemmas that the proofs of several components need: about sequences that *)
(* repeat nothing (governance's approvals and recovery's signatures are    *)
(* vectors whose length the code compares with a threshold, which is right *)
(* only because they have as many members as entries), about the greatest  *)
(* number of a finite set, about quotients, about induction over the       *)
(* numbers and over sequences, and about loops over a sequence.            *)
(***************************************************************************)
EXTENDS Vectors, Integers, FiniteSetTheorems, SequenceTheorems, WellFoundedInduction, TLAPS

-----------------------------------------------------------------------------
(* Sequences that repeat nothing *)

\* What push_back does to the set of members.
LEMMA MembersAppend ==
    ASSUME NEW S, NEW s \in Seq(S), NEW a \in S
    PROVE  Members(Append(s, a)) = Members(s) \cup {a}
<1> DEFINE t == Append(s, a)
<1>1. /\ DOMAIN s = 1..Len(s)
      /\ Len(s) \in Nat
      /\ DOMAIN t = 1..(Len(s) + 1)
      /\ t[Len(s) + 1] = a
      /\ \A i \in 1..Len(s) : t[i] = s[i]
  OBVIOUS
<1>2. ASSUME NEW x \in Members(t) PROVE x \in Members(s) \cup {a}
  <2>1. PICK i \in DOMAIN t : x = t[i]
    BY DEF Members
  <2>2. CASE i \in 1..Len(s)
    BY <1>1, <2>1, <2>2 DEF Members
  <2>3. CASE i = Len(s) + 1
    BY <1>1, <2>1, <2>3
  <2> QED
    BY <1>1, <2>1, <2>2, <2>3
<1>3. ASSUME NEW x \in Members(s) PROVE x \in Members(t)
  <2>1. PICK i \in DOMAIN s : x = s[i]
    BY DEF Members
  <2> QED
    BY <1>1, <2>1 DEF Members
<1>4. a \in Members(t)
  BY <1>1 DEF Members
<1> QED
  BY <1>2, <1>3, <1>4

\* The empty vector has no members.
LEMMA MembersEmpty == Members(<<>>) = {}
BY DEF Members

\* A vector that repeats nobody has as many members as entries.
LEMMA VectorCounts ==
    ASSUME NEW S, NEW s \in Seq(S), ~HasDuplicates(s)
    PROVE  IsFiniteSet(Members(s)) /\ Cardinality(Members(s)) = Len(s)
<1>1. Len(s) \in Nat /\ DOMAIN s = 1..Len(s)
  OBVIOUS
<1>2. s \in [1..Len(s) -> Members(s)]
  <2>1. s = [i \in 1..Len(s) |-> s[i]]
    BY <1>1
  <2>2. \A i \in 1..Len(s) : s[i] \in Members(s)
    BY <1>1 DEF Members
  <2> QED
    BY <2>1, <2>2
<1>3. \A i, j \in 1..Len(s) : s[i] = s[j] => i = j
  BY <1>1 DEF HasDuplicates
<1>4. \A a \in Members(s) : \E i \in 1..Len(s) : s[i] = a
  BY <1>1 DEF Members
<1>5. s \in Bijection(1..Len(s), Members(s))
  BY <1>2, <1>3, <1>4 DEF Bijection, Injection, Surjection, IsInjective
<1>6. ExistsBijection(1..Len(s), Members(s))
  BY <1>5 DEF ExistsBijection
<1>7. IsFiniteSet(1..Len(s)) /\ Cardinality(1..Len(s)) = Len(s)
  <2>1. \A n \in Nat : IsFiniteSet(1..n) /\ Cardinality(1..n) = n
    BY FS_Interval
  <2> QED
    BY <1>1, <2>1
<1> QED
  BY <1>6, <1>7, FS_Bijection

\* Somebody new at the end repeats nobody.
LEMMA AppendIsNew ==
    ASSUME NEW S, NEW s \in Seq(S), ~HasDuplicates(s), NEW a \in S, a \notin Members(s)
    PROVE  Append(s, a) \in Seq(S) /\ ~HasDuplicates(Append(s, a))
<1>1. /\ Len(s) \in Nat /\ DOMAIN s = 1..Len(s)
      /\ DOMAIN Append(s, a) = 1..(Len(s) + 1)
      /\ Append(s, a)[Len(s) + 1] = a
      /\ \A i \in 1..Len(s) : Append(s, a)[i] = s[i]
  OBVIOUS
<1>2. SUFFICES ASSUME NEW i \in 1..(Len(s) + 1), NEW j \in 1..(Len(s) + 1), i < j,
                      Append(s, a)[i] = Append(s, a)[j]
               PROVE  FALSE
  BY <1>1 DEF HasDuplicates
<1>3. i \in 1..Len(s)
  BY <1>1, <1>2
<1>4. CASE j \in 1..Len(s)
  BY <1>1, <1>2, <1>3, <1>4 DEF HasDuplicates
<1>5. CASE j = Len(s) + 1
  BY <1>1, <1>2, <1>3, <1>5 DEF Members
<1> QED
  BY <1>1, <1>4, <1>5

\* Members of two sequences in a row.
LEMMA MembersConcat ==
    ASSUME NEW S, NEW s \in Seq(S), NEW t \in Seq(S)
    PROVE  Members(s \o t) = Members(s) \cup Members(t)
<1> DEFINE u == s \o t
<1>1. /\ Len(s) \in Nat /\ Len(t) \in Nat
      /\ DOMAIN s = 1..Len(s) /\ DOMAIN t = 1..Len(t) /\ DOMAIN u = 1..(Len(s) + Len(t))
      /\ \A i \in 1..Len(s) : u[i] = s[i]
      /\ \A i \in 1..Len(t) : u[Len(s) + i] = t[i]
  OBVIOUS
<1> HIDE DEF u
<1>2. ASSUME NEW x \in Members(u) PROVE x \in Members(s) \cup Members(t)
  <2>1. PICK i \in 1..(Len(s) + Len(t)) : x = u[i]
    BY <1>1 DEF Members
  <2>2. CASE i \in 1..Len(s)
    BY <1>1, <2>1, <2>2 DEF Members
  <2>3. CASE i \notin 1..Len(s)
    <3>1. i - Len(s) \in 1..Len(t) /\ Len(s) + (i - Len(s)) = i
      BY <1>1, <2>3
    <3> QED
      BY <1>1, <2>1, <3>1 DEF Members
  <2> QED
    BY <2>2, <2>3
<1>3. ASSUME NEW x \in Members(s) PROVE x \in Members(u)
  <2>1. PICK i \in 1..Len(s) : x = s[i]
    BY <1>1 DEF Members
  <2>2. i \in 1..(Len(s) + Len(t))
    BY <1>1
  <2> QED
    BY <1>1, <2>1, <2>2 DEF Members
<1>4. ASSUME NEW x \in Members(t) PROVE x \in Members(u)
  <2>1. PICK i \in 1..Len(t) : x = t[i]
    BY <1>1 DEF Members
  <2>2. Len(s) + i \in 1..(Len(s) + Len(t))
    BY <1>1
  <2> QED
    BY <1>1, <2>1, <2>2 DEF Members
<1> QED
  BY <1>2, <1>3, <1>4 DEF u

\* Taking x out takes out nothing else, and repeats nobody.
LEMMA WithoutOne ==
    ASSUME NEW S, NEW s \in Seq(S), ~HasDuplicates(s), NEW x
    PROVE  /\ Without(s, x) \in Seq(S) /\ ~HasDuplicates(Without(s, x))
           /\ Members(Without(s, x)) = Members(s) \ {x}
           /\ Len(Without(s, x)) = IF x \in Members(s) THEN Len(s) - 1 ELSE Len(s)
<1>0. Len(s) \in Nat /\ DOMAIN s = 1..Len(s) /\ \A i \in 1..Len(s) : s[i] \in S
  OBVIOUS
<1>1. CASE x \notin Members(s)
  BY <1>1 DEF Without
<1>2. CASE x \in Members(s)
  <2> DEFINE p == CHOOSE i \in DOMAIN s : s[i] = x
             n == Len(s) - 1
             t == [i \in 1..n |-> IF i < p THEN s[i] ELSE s[i + 1]]
  <2>1. p \in 1..Len(s) /\ s[p] = x
    BY <1>0, <1>2 DEF Members
  <2>2. Without(s, x) = t
    BY <1>2 DEF Without
  <2> HIDE DEF p
  <2>3. n \in Nat /\ \A i \in 1..n : i \in 1..Len(s) /\ i + 1 \in 1..Len(s)
    BY <1>0, <2>1
  <2> HIDE DEF n
  <2>4. t \in Seq(S) /\ Len(t) = n
    BY <1>0, <2>3
  <2>5. \A i, j \in 1..Len(s) : s[i] = s[j] => i = j
    BY <1>0 DEF HasDuplicates
  <2>6. ~HasDuplicates(t)
    <3>1. SUFFICES ASSUME NEW i \in 1..n, NEW j \in 1..n, i < j, t[i] = t[j] PROVE FALSE
      BY <2>4 DEF HasDuplicates
    <3>2. CASE j < p
      BY <2>1, <2>3, <2>5, <3>1, <3>2
    <3>3. CASE i < p /\ ~(j < p)
      BY <2>1, <2>3, <2>5, <3>1, <3>3
    <3>4. CASE ~(i < p)
      BY <2>1, <2>3, <2>5, <3>1, <3>4
    <3> QED
      BY <2>1, <2>3, <3>1, <3>2, <3>3, <3>4
  <2>7. ASSUME NEW y \in Members(t) PROVE y \in Members(s) \ {x}
    <3>1. PICK i \in 1..n : y = t[i]
      BY <2>4 DEF Members
    <3>2. PICK j \in 1..Len(s) : y = s[j] /\ j # p
      BY <2>1, <2>3, <3>1
    <3> QED
      BY <1>0, <2>1, <2>5, <3>2 DEF Members
  <2>8. ASSUME NEW y \in Members(s) \ {x} PROVE y \in Members(t)
    <3>1. PICK j \in 1..Len(s) : y = s[j] /\ j # p
      BY <1>0, <2>1 DEF Members
    <3>2. \E i \in 1..n : t[i] = y
      <4>1. CASE j < p
        <5>1. j \in 1..n
          BY <1>0, <2>1, <3>1, <4>1 DEF n
        <5> QED
          BY <3>1, <4>1, <5>1
      <4>2. CASE ~(j < p)
        <5>1. j - 1 \in 1..n /\ ~(j - 1 < p) /\ (j - 1) + 1 = j
          BY <1>0, <2>1, <3>1, <4>2 DEF n
        <5> QED
          BY <3>1, <5>1
      <4> QED
        BY <4>1, <4>2
    <3> QED
      BY <2>4, <3>2 DEF Members
  <2>9. Members(t) = Members(s) \ {x}
    BY <2>7, <2>8
  <2> QED
    BY <1>2, <2>2, <2>4, <2>6, <2>9 DEF n
<1> QED
  BY <1>1, <1>2

\* The end of a vector repeats nobody and has nobody else.
LEMMA EndOfVector ==
    ASSUME NEW S, NEW s \in Seq(S), ~HasDuplicates(s), NEW a \in 1..(Len(s) + 1)
    PROVE  /\ SubSeq(s, a, Len(s)) \in Seq(S) /\ ~HasDuplicates(SubSeq(s, a, Len(s)))
           /\ Members(SubSeq(s, a, Len(s))) \subseteq Members(s)
           /\ Len(SubSeq(s, a, Len(s))) = Len(s) + 1 - a
<1> DEFINE t == SubSeq(s, a, Len(s))
           m == Len(s) + 1 - a
<1>1. Len(s) \in Nat /\ DOMAIN s = 1..Len(s) /\ m \in Nat
  OBVIOUS
<1>2. t \in Seq(S) /\ Len(t) = m /\ DOMAIN t = 1..m
  OBVIOUS
<1>3. \A i \in 1..m : t[i] = s[a + i - 1] /\ a + i - 1 \in 1..Len(s)
  OBVIOUS
<1> HIDE DEF t, m
<1>4. \A i, j \in 1..Len(s) : s[i] = s[j] => i = j
  BY <1>1 DEF HasDuplicates
<1>5. ~HasDuplicates(t)
  <2>1. SUFFICES ASSUME NEW i \in 1..m, NEW j \in 1..m, i < j, t[i] = t[j] PROVE FALSE
    BY <1>2 DEF HasDuplicates
  <2>2. a + i - 1 = a + j - 1
    BY <1>3, <1>4, <2>1
  <2> QED
    BY <1>1, <2>1, <2>2
<1>6. Members(t) \subseteq Members(s)
  BY <1>1, <1>2, <1>3 DEF Members
<1> QED
  BY <1>2, <1>5, <1>6 DEF t, m

-----------------------------------------------------------------------------
(* Numbers *)

\* A finite set of numbers that is not empty has a greatest one.
LEMMA GreatestNumber ==
    ASSUME NEW S \in SUBSET Nat, IsFiniteSet(S), S # {}
    PROVE  \E t \in S : \A u \in S : u <= t
<1> DEFINE Above(t) == {v \in S : v >= t}
           F == {Above(t) : t \in S}
           R == StrictSubsetOrdering(S)
<1>1. F \subseteq FiniteSubsetsOf(S) /\ F # {}
  <2>1. ASSUME NEW t \in S PROVE Above(t) \in FiniteSubsetsOf(S)
    <3>1. IsFiniteSet(Above(t))
      BY FS_Subset
    <3> QED
      BY <3>1 DEF FiniteSubsetsOf
  <2> QED
    BY <2>1
<1>2. PICK x \in F : \A y \in F : ~(<<y, x>> \in R)
  <2>1. IsWellFoundedOn(R, FiniteSubsetsOf(S))
    BY FS_StrictSubsetOrderingWellFounded
  <2> HIDE DEF F, R
  <2> QED
    BY <1>1, <2>1, WFMin
<1>3. PICK t \in S : x = Above(t)
  OBVIOUS
<1>4. ASSUME NEW u \in S, u > t PROVE FALSE
  <2>0. t \in Nat /\ u \in Nat /\ \A v \in S : v \in Nat
    OBVIOUS
  <2>1. ASSUME NEW v \in Above(u) PROVE v \in Above(t)
    <3>1. v \in S /\ v \in Nat /\ v >= u
      BY <2>0
    <3>2. v >= t
      BY <1>4, <2>0, <3>1
    <3> QED
      BY <3>1, <3>2
  <2>1a. t \in Above(t) /\ t \notin Above(u)
    BY <1>4, <2>0
  <2>2. <<Above(u), Above(t)>> \in R
    BY <2>1, <2>1a DEF StrictSubsetOrdering
  <2> QED
    BY <1>2, <1>3, <2>2
<1> QED
  BY <1>4

\* A set of positions that is not empty has a last one.
LEMMA LastPosition ==
    ASSUME NEW n \in Nat, NEW T \in SUBSET (1..n), T # {}
    PROVE  \E i \in T : \A j \in T : j <= i
<1>1. T \in SUBSET Nat
  OBVIOUS
<1>2. IsFiniteSet(T)
  <2>1. IsFiniteSet(1..n)
    BY FS_Interval
  <2> QED
    BY <2>1, FS_Subset
<1> QED
  BY <1>1, <1>2, GreatestNumber

\* ... and a first one.
LEMMA FirstPosition ==
    ASSUME NEW n \in Nat, NEW T \in SUBSET (1..n), T # {}
    PROVE  \E i \in T : \A j \in T : i <= j
<1> DEFINE U == {n + 1 - i : i \in T}
<1>1. U \in SUBSET (1..n) /\ U # {}
  <2>1. \A i \in 1..n : n + 1 - i \in 1..n
    OBVIOUS
  <2>2. U \subseteq 1..n
    BY <2>1
  <2>3. U # {}
    OBVIOUS
  <2> QED
    BY <2>2, <2>3
<1>2. PICK u \in U : \A v \in U : v <= u
  <2> HIDE DEF U
  <2> QED
    BY <1>1, LastPosition
<1>3. PICK i \in T : u = n + 1 - i
  OBVIOUS
<1>4. ASSUME NEW j \in T PROVE i <= j
  <2>1. n + 1 - j \in U
    OBVIOUS
  <2>2. n + 1 - j <= n + 1 - i
    BY <1>2, <1>3, <2>1
  <2> QED
    BY <2>2
<1> QED
  BY <1>4

\* The elements of a finite set of numbers have the ranks 1, 2, ... up to its
\* size, each a rank of its own that grows with the element.
LEMMA Ranks ==
    ASSUME NEW F \in SUBSET Nat, IsFiniteSet(F)
    PROVE  LET rank(i) == Cardinality({j \in F : j <= i})
           IN  /\ \A i \in F : rank(i) \in 1..Cardinality(F)
               /\ \A i, j \in F : i < j => rank(i) < rank(j)
               /\ \A n \in 1..Cardinality(F) : \E i \in F : rank(i) = n
<1> DEFINE Up(i) == {j \in F : j <= i}
           rank(i) == Cardinality(Up(i))
           N == Cardinality(F)
<1>0. N \in Nat
  BY FS_CardinalityType
<1>1. ASSUME NEW i \in F PROVE IsFiniteSet(Up(i)) /\ rank(i) \in 1..N
  <2>1. IsFiniteSet(Up(i)) /\ rank(i) <= N
    BY FS_Subset
  <2>2. rank(i) \in Nat
    BY <2>1, FS_CardinalityType
  <2>3. i \in Up(i)
    OBVIOUS
  <2>4. rank(i) # 0
    BY <2>1, <2>3, FS_EmptySet
  <2> QED
    BY <1>0, <2>1, <2>2, <2>4
<1>2. ASSUME NEW i \in F, NEW j \in F, i < j PROVE rank(i) < rank(j)
  <2>1. i \in Nat /\ j \in Nat /\ \A k \in F : k \in Nat
    OBVIOUS
  <2>2. ASSUME NEW k \in Up(i) PROVE k \in Up(j)
    <3>1. k \in F /\ k \in Nat /\ k <= i
      BY <2>1
    <3>2. k <= j
      BY <1>2, <2>1, <3>1
    <3> QED
      BY <3>1, <3>2
  <2>3. j \in Up(j) /\ j \notin Up(i)
    BY <1>2, <2>1
  <2>4. IsFiniteSet(Up(j)) /\ rank(j) \in Nat /\ rank(i) \in Nat
    BY <1>0, <1>1
  <2> HIDE DEF Up
  <2>5. rank(i) <= rank(j) /\ rank(i) # rank(j)
    BY <2>2, <2>3, <2>4, FS_Subset
  <2> QED
    BY <2>4, <2>5
<1>3. ASSUME NEW n \in 1..N PROVE \E i \in F : rank(i) = n
  <2> DEFINE r == [i \in F |-> rank(i)]
  <2>1. \A i \in F : r[i] = rank(i) /\ rank(i) \in 1..N
    BY <1>1
  <2>2. r \in [F -> 1..N]
    BY <2>1
  <2>3. \A i, j \in F : r[i] = r[j] => i = j
    <3>1. SUFFICES ASSUME NEW i \in F, NEW j \in F, i # j PROVE r[i] # r[j]
      OBVIOUS
    <3>2. i < j \/ j < i
      BY <3>1
    <3>3. rank(i) < rank(j) \/ rank(j) < rank(i)
      BY <1>2, <3>2
    <3>4. rank(i) \in Nat /\ rank(j) \in Nat
      BY <1>0, <1>1
    <3> HIDE DEF rank
    <3> QED
      BY <3>3, <3>4
  <2> HIDE DEF r
  <2>4. r \in Injection(F, 1..N)
    BY <2>2, <2>3 DEF Injection, IsInjective
  <2>5. IsFiniteSet(1..N) /\ Cardinality(1..N) = N
    BY <1>0, FS_Interval
  <2>6. r \in Surjection(F, 1..N)
    BY <2>4, <2>5, FS_Injection DEF N
  <2>7. \E i \in F : r[i] = n
    BY <2>6 DEF Surjection
  <2> QED
    BY <2>1, <2>7
<1> HIDE DEF Up
<1> QED
  BY <1>1, <1>2, <1>3 DEF Up

\* What an integer division returns.
LEMMA Quotient ==
    ASSUME NEW a \in Nat, NEW m \in Nat \ {0}
    PROVE  /\ a \div m \in Nat
           /\ m * (a \div m) <= a
           /\ a < m * (a \div m) + m
OBVIOUS

\* A product tells apart factors that differ.
LEMMA Cancels ==
    ASSUME NEW m \in Nat \ {0}, NEW a \in Int, NEW b \in Int, m * a < m * b + m
    PROVE  a <= b
<1>1. SUFFICES ASSUME a >= b + 1 PROVE FALSE
  OBVIOUS
<1>2. m * a >= m * (b + 1)
  BY <1>1
<1>3. m * (b + 1) = m * b + m
  OBVIOUS
<1> QED
  BY <1>2, <1>3

-----------------------------------------------------------------------------
(* Induction over a set: the library's theorems take a predicate, which no  *)
(* prover here can instantiate; a set can be.                               *)

\* A set that has zero, and with a number the next, has every number.
LEMMA NaturalInduction ==
    ASSUME NEW S, 0 \in S, \A n \in Nat : n \in S => n + 1 \in S
    PROVE  \A n \in Nat : n \in S
<1> SUFFICES ASSUME NEW m \in Nat, m \notin S PROVE FALSE
  OBVIOUS
<1> DEFINE T == {i \in 1..(m + 1) : i - 1 \notin S}
<1>1. m + 1 \in Nat /\ T \in SUBSET (1..(m + 1)) /\ m + 1 \in T
  OBVIOUS
<1>2. PICK i \in T : \A j \in T : i <= j
  <2> HIDE DEF T
  <2> QED
    BY <1>1, FirstPosition
<1>3. i \in 1..(m + 1) /\ i - 1 \notin S
  OBVIOUS
<1>4. i # 1
  BY <1>3
<1>5. i - 1 \in 1..(m + 1) /\ i - 2 \in Nat
  BY <1>3, <1>4
<1>6. i - 2 \in S
  <2>1. CASE i - 1 \in T
    BY <1>2, <1>3, <2>1
  <2>2. CASE i - 1 \notin T
    <3>1. (i - 1) - 1 \in S
      BY <1>5, <2>2
    <3> QED
      BY <1>3, <3>1
  <2> QED
    BY <2>1, <2>2
<1>7. (i - 2) + 1 \in S
  BY <1>5, <1>6
<1> QED
  BY <1>3, <1>7

\* A set that has the empty sequence, and with a sequence every longer one.
LEMMA SequenceInduction ==
    ASSUME NEW X, NEW S, <<>> \in S,
           \A s \in Seq(X), x \in X : s \in S => Append(s, x) \in S
    PROVE  \A s \in Seq(X) : s \in S
<1> DEFINE N == {n \in Nat : \A s \in Seq(X) : Len(s) = n => s \in S}
<1>1. 0 \in N
  BY EmptySeq
<1>2. ASSUME NEW n \in Nat, n \in N PROVE n + 1 \in N
  <2> SUFFICES ASSUME NEW s \in Seq(X), Len(s) = n + 1 PROVE s \in S
    OBVIOUS
  <2> DEFINE t == SubSeq(s, 1, n)
             x == s[n + 1]
  <2>1. t \in Seq(X) /\ Len(t) = n /\ x \in X
    OBVIOUS
  <2>2. s = Append(t, x)
    OBVIOUS
  <2>3. t \in S
    BY <1>2, <2>1
  <2> HIDE DEF t, x
  <2> QED
    BY <2>1, <2>2, <2>3
<1>3. \A n \in Nat : n \in N
  <2> HIDE DEF N
  <2> QED
    BY <1>1, <1>2, NaturalInduction
<1> TAKE s \in Seq(X)
<1>4. Len(s) \in Nat
  OBVIOUS
<1> QED
  BY <1>3, <1>4

-----------------------------------------------------------------------------
(* Loops over sequences *)

\* f is what a loop does with a value of V and an entry from X.
IsStep(f, V, X) == f \in [V \X X -> V]

\* What a loop has computed after each of the first n entries.
Passes(after, f, base, s, n) ==
    /\ after[0] = base
    /\ \A i \in 1..n : after[i] = f[<<after[i - 1], s[i]>>]

\* Every loop has its values, one before the first entry and one after each.
LEMMA PassesExist ==
    ASSUME NEW V, NEW X, NEW f, IsStep(f, V, X), NEW base \in V
    PROVE  \A s \in Seq(X) : \E after \in [0..Len(s) -> V] : Passes(after, f, base, s, Len(s))
<1> DEFINE S == {s \in Seq(X) : \E after \in [0..Len(s) -> V] : Passes(after, f, base, s, Len(s))}
<1>1. <<>> \in S
  <2> DEFINE after == [i \in 0..0 |-> base]
  <2>1. after \in [0..Len(<<>>) -> V] /\ Passes(after, f, base, <<>>, Len(<<>>))
    BY DEF Passes
  <2> HIDE DEF after
  <2> QED
    BY <2>1
<1>2. ASSUME NEW s \in Seq(X), NEW x \in X, s \in S PROVE Append(s, x) \in S
  <2> DEFINE t == Append(s, x)
             n == Len(s)
  <2>1. PICK a \in [0..n -> V] : Passes(a, f, base, s, Len(s))
    BY <1>2
  <2>2. n \in Nat /\ t \in Seq(X) /\ Len(t) = n + 1 /\ t[n + 1] = x
          /\ \A i \in 1..n : t[i] = s[i]
    OBVIOUS
  <2> DEFINE b == [i \in 0..(n + 1) |-> IF i = n + 1 THEN f[<<a[n], x>>] ELSE a[i]]
  <2>3. f[<<a[n], x>>] \in V
    <3>1. n \in 0..n
      BY <2>2
    <3>2. a[n] \in V
      BY <2>1, <3>1
    <3> QED
      BY <3>2 DEF IsStep
  <2>4. b \in [0..(n + 1) -> V]
    BY <2>1, <2>2, <2>3
  <2>5. b[0] = base
    BY <2>1, <2>2 DEF Passes
  <2>6. ASSUME NEW i \in 1..(n + 1) PROVE b[i] = f[<<b[i - 1], t[i]>>]
    <3>1. CASE i = n + 1
      <4>1. i - 1 = n /\ i \in 0..(n + 1) /\ n \in 0..(n + 1) /\ n # n + 1
        BY <2>2, <3>1
      <4>2. b[i] = f[<<a[n], x>>] /\ b[n] = a[n]
        BY <3>1, <4>1
      <4> QED
        BY <2>2, <3>1, <4>1, <4>2
    <3>2. CASE i # n + 1
      <4>1. i \in 1..n /\ i - 1 # n + 1 /\ i - 1 \in 0..(n + 1) /\ i \in 0..(n + 1)
        BY <2>2, <3>2
      <4>2. b[i] = a[i] /\ b[i - 1] = a[i - 1]
        BY <3>2, <4>1
      <4>3. a[i] = f[<<a[i - 1], s[i]>>]
        BY <2>1, <4>1 DEF Passes
      <4> QED
        BY <2>2, <4>1, <4>2, <4>3
    <3> QED
      BY <3>1, <3>2
  <2>7. Passes(b, f, base, t, Len(t))
    BY <2>2, <2>5, <2>6 DEF Passes
  <2> HIDE DEF b, t, n
  <2> QED
    BY <2>2, <2>4, <2>7 DEF t
<1>3. \A s \in Seq(X) : s \in S
  <2> HIDE DEF S
  <2> QED
    BY <1>1, <1>2, SequenceInduction
<1> QED
  BY <1>3

\* ... and only those: two records of a loop agree as far as both go.
LEMMA PassesAgree ==
    ASSUME NEW f, NEW base, NEW s, NEW n \in Nat,
           NEW a, NEW b, Passes(a, f, base, s, n), Passes(b, f, base, s, n)
    PROVE  \A i \in 0..n : a[i] = b[i]
<1> DEFINE S == {i \in Nat : i <= n => a[i] = b[i]}
<1>1. 0 \in S
  BY DEF Passes
<1>2. ASSUME NEW i \in Nat, i \in S PROVE i + 1 \in S
  <2> SUFFICES ASSUME i + 1 <= n PROVE a[i + 1] = b[i + 1]
    OBVIOUS
  <2>1. i + 1 \in 1..n /\ (i + 1) - 1 = i /\ i <= n
    OBVIOUS
  <2>2. a[i] = b[i]
    BY <1>2, <2>1
  <2>3. a[i + 1] = f[<<a[(i + 1) - 1], s[i + 1]>>] /\ b[i + 1] = f[<<b[(i + 1) - 1], s[i + 1]>>]
    BY <2>1 DEF Passes
  <2> QED
    BY <2>1, <2>2, <2>3
<1>3. \A i \in Nat : i \in S
  <2> HIDE DEF S
  <2> QED
    BY <1>1, <1>2, NaturalInduction
<1> QED
  BY <1>3

\* Folded is what a loop ends with, whoever has recorded it.
LEMMA FoldedEnds ==
    ASSUME NEW V, NEW X, NEW f, IsStep(f, V, X), NEW base \in V
    PROVE  \A s \in Seq(X) : \A after :
              Passes(after, f, base, s, Len(s))
              => Folded(f, base, s) = after[Len(s)] /\ after[Len(s)] \in V
<1> SUFFICES ASSUME NEW s \in Seq(X), NEW after, Passes(after, f, base, s, Len(s))
             PROVE  Folded(f, base, s) = after[Len(s)] /\ after[Len(s)] \in V
  OBVIOUS
<1> DEFINE D(g) == [i \in 0..Len(s) |-> IF i = 0 THEN base ELSE f[<<g[i - 1], s[i]>>]]
           c == CHOOSE g : g = D(g)
<1>0. Len(s) \in Nat
  OBVIOUS
<1>1. PICK a \in [0..Len(s) -> V] : Passes(a, f, base, s, Len(s))
  BY PassesExist
<1>2. a = D(a)
  BY <1>0, <1>1 DEF Passes
<1>3. c = D(c)
  <2> HIDE DEF D
  <2> QED
    BY <1>2
<1>4. Passes(c, f, base, s, Len(s))
  <2>1. c[0] = base
    <3> HIDE DEF c
    <3> QED
      BY <1>0, <1>3
  <2>2. ASSUME NEW i \in 1..Len(s) PROVE c[i] = f[<<c[i - 1], s[i]>>]
    <3> HIDE DEF c
    <3> QED
      BY <1>0, <1>3
  <2> QED
    BY <2>1, <2>2 DEF Passes
<1>5. Folded(f, base, s) = c[Len(s)]
  BY DEF Folded
<1> HIDE DEF c
<1>6. Len(s) \in 0..Len(s)
  BY <1>0
<1>7. c[Len(s)] = after[Len(s)] /\ a[Len(s)] = after[Len(s)]
  <2>1. \A i \in 0..Len(s) : c[i] = after[i]
    BY <1>0, <1>4, PassesAgree
  <2>2. \A i \in 0..Len(s) : a[i] = after[i]
    BY <1>0, <1>1, PassesAgree
  <2> QED
    BY <1>6, <2>1, <2>2
<1> QED
  BY <1>1, <1>5, <1>6, <1>7

\* A loop over nothing changes nothing, and one more entry is one more step.
LEMMA FoldedAppend ==
    ASSUME NEW V, NEW X, NEW f, IsStep(f, V, X), NEW base \in V
    PROVE  /\ Folded(f, base, <<>>) = base
           /\ \A s \in Seq(X), x \in X :
                 Folded(f, base, Append(s, x)) = f[<<Folded(f, base, s), x>>]
<1>1. Folded(f, base, <<>>) = base
  <2> DEFINE e == <<>>
  <2>1. e \in Seq(X) /\ Len(e) = 0
    OBVIOUS
  <2>2. PICK a \in [0..Len(e) -> V] : Passes(a, f, base, e, Len(e))
    BY <2>1, PassesExist
  <2>3. Folded(f, base, e) = a[Len(e)]
    BY <2>1, <2>2, FoldedEnds
  <2> QED
    BY <2>1, <2>2, <2>3 DEF Passes
<1>2. ASSUME NEW s \in Seq(X), NEW x \in X
      PROVE  Folded(f, base, Append(s, x)) = f[<<Folded(f, base, s), x>>]
  <2> DEFINE t == Append(s, x)
             n == Len(s)
  <2>1. t \in Seq(X) /\ n \in Nat /\ Len(t) = n + 1 /\ t[n + 1] = x
          /\ \A i \in 1..n : t[i] = s[i]
    OBVIOUS
  <2> HIDE DEF t, n
  <2>2. PICK a \in [0..Len(t) -> V] : Passes(a, f, base, t, Len(t))
    BY <2>1, PassesExist
  <2>3. Folded(f, base, t) = a[n + 1]
    BY <2>1, <2>2, FoldedEnds
  <2>4. Passes(a, f, base, s, n)
    BY <2>1, <2>2 DEF Passes
  <2>5. Folded(f, base, s) = a[n]
    BY <2>4, FoldedEnds DEF n
  <2>6. a[n + 1] = f[<<a[n], x>>]
    <3>1. n + 1 \in 1..Len(t) /\ (n + 1) - 1 = n
      BY <2>1
    <3> QED
      BY <2>1, <2>2, <3>1 DEF Passes
  <2> QED
    BY <2>3, <2>5, <2>6 DEF t
<1> QED
  BY <1>1, <1>2

\* A loop over s \o t is one over s and then one over t.
LEMMA FoldedConcat ==
    ASSUME NEW V, NEW X, NEW f, IsStep(f, V, X), NEW base \in V,
           NEW s \in Seq(X), NEW t \in Seq(X)
    PROVE  /\ Folded(f, base, s) \in V
           /\ Folded(f, base, s \o t) = Folded(f, Folded(f, base, s), t)
<1> DEFINE u == s \o t
           n == Len(s)
           m == Len(t)
<1>1. u \in Seq(X) /\ n \in Nat /\ m \in Nat /\ Len(u) = n + m
        /\ (\A i \in 1..n : u[i] = s[i]) /\ (\A i \in 1..m : u[n + i] = t[i])
  OBVIOUS
<1> HIDE DEF u, n, m
<1>2. PICK a \in [0..Len(u) -> V] : Passes(a, f, base, u, Len(u))
  BY <1>1, PassesExist
<1>3. Folded(f, base, u) = a[n + m]
  <2>1. u \in Seq(X)
    BY <1>1
  <2>2. Folded(f, base, u) = a[Len(u)]
    BY <1>2, <2>1, FoldedEnds
  <2> QED
    BY <1>1, <2>2
<1>4. Passes(a, f, base, s, n)
  BY <1>1, <1>2 DEF Passes
<1>5. Folded(f, base, s) = a[n] /\ a[n] \in V
  BY <1>4, FoldedEnds DEF n
<1> DEFINE b == [i \in 0..m |-> a[n + i]]
<1>6. Passes(b, f, a[n], t, m)
  <2>1. b[0] = a[n]
    BY <1>1
  <2>2. ASSUME NEW i \in 1..m PROVE b[i] = f[<<b[i - 1], t[i]>>]
    <3>1. n + i \in 1..Len(u) /\ (n + i) - 1 = n + (i - 1) /\ i - 1 \in 0..m /\ i \in 0..m
      BY <1>1
    <3>2. a[n + i] = f[<<a[(n + i) - 1], u[n + i]>>]
      BY <1>2, <3>1 DEF Passes
    <3>3. b[i] = a[n + i] /\ b[i - 1] = a[(n + i) - 1]
      BY <3>1
    <3> QED
      BY <1>1, <3>2, <3>3
  <2> HIDE DEF b
  <2> QED
    BY <2>1, <2>2 DEF Passes
<1>7. Folded(f, a[n], t) = b[m]
  <2> HIDE DEF b
  <2> QED
    BY <1>5, <1>6, FoldedEnds DEF m
<1>8. b[m] = a[n + m]
  BY <1>1
<1> QED
  BY <1>3, <1>5, <1>7, <1>8 DEF u

=============================================================================
