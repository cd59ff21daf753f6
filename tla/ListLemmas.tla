----------------------------- MODULE ListLemmas -----------------------------
(***************************************************************************)
(* Facts of no particular specification. Induction without an operator     *)
(* as a parameter: every non-empty set of natural numbers has a least      *)
(* element, so what fails for some number has a first one that it fails    *)
(* for; with that, a recursive function over an interval exists and        *)
(* satisfies its equations. And lists whose elements differ, and their     *)
(* parts.                                                                  *)
(***************************************************************************)
EXTENDS Integers, Sequences, SequencesExt, FiniteSetTheorems, SequenceTheorems, WellFoundedInduction, TLAPS

(* The order of the natural numbers as a set of pairs                      *)
Lower == {pair \in Nat \X Nat : pair[1] < pair[2]}

(* It is well founded.                                                     *)
LEMMA LowerWellFounded == IsWellFoundedOn(Lower, Nat)
BY NatLessThanWellFounded DEF Lower, OpToRel

(* A set of natural numbers has a least element.                           *)
LEMMA LeastNatural ==
  ASSUME NEW S \in SUBSET Nat, S # {}
  PROVE  \E m \in S : \A k \in S : m <= k
<1>1. PICK m \in S : \A k \in S : <<k, m>> \notin Lower
  BY LowerWellFounded, WFMin
<1>2. ASSUME NEW k \in S
      PROVE  m <= k
  <2>1. <<k, m>> \in Nat \X Nat /\ <<k, m>>[1] = k /\ <<k, m>>[2] = m
    OBVIOUS
  <2>2. ~(k < m)
    BY <2>1, <1>1 DEF Lower
  <2> QED
    BY <2>2
<1> QED
  BY <1>2

(* What holds at 0 and passes from a number to the next holds up to n.     *)
LEMMA UpTo ==
  ASSUME NEW n \in Nat, NEW Good, 0 \in Good,
         \A i \in 1..n : i - 1 \in Good => i \in Good
  PROVE  0..n \subseteq Good
<1> DEFINE Bad == {i \in 0..n : i \notin Good}
<1>1. SUFFICES ASSUME Bad # {} PROVE FALSE
  OBVIOUS
<1>2. Bad \in SUBSET Nat
  OBVIOUS
<1>3. PICK m \in Bad : \A k \in Bad : m <= k
  BY <1>1, <1>2, LeastNatural
<1>4. m \in 1..n /\ m - 1 \in 0..n
  BY <1>3
<1>5. m - 1 \in Good
  BY <1>3, <1>4
<1> QED
  BY <1>3, <1>4, <1>5

(* f is the function over 0..n that begins with base and goes on by step.  *)
Folds(f, n, Q, base, step) ==
  f \in [0..n -> Q] /\ f[0] = base /\ \A i \in 1..n : f[i] = step[i][f[i - 1]]

(* A function that is given by its value at 0 and by a step exists.        *)
LEMMA FoldDefined ==
  ASSUME NEW n \in Nat, NEW Q, NEW base \in Q, NEW step \in [1..n -> [Q -> Q]]
  PROVE  \E f : Folds(f, n, Q, base, step)
<1> DEFINE Good == {k \in 0..n : \E f : Folds(f, k, Q, base, step)}
<1>1. 0 \in Good
  <2> DEFINE g == [i \in 0..0 |-> base]
  <2>1. Folds(g, 0, Q, base, step)
    BY DEF Folds
  <2> HIDE DEF g
  <2> QED
    BY <2>1
<1>2. ASSUME NEW k \in 1..n, k - 1 \in Good
      PROVE  k \in Good
  <2>1. PICK f : Folds(f, k - 1, Q, base, step)
    BY <1>2
  <2> DEFINE g == [i \in 0..k |-> IF i = k THEN step[k][f[k - 1]] ELSE f[i]]
  <2>2. k \in Nat \ {0} /\ k - 1 \in 0..(k - 1)
    BY <1>2
  <2>3. /\ f \in [0..(k - 1) -> Q] /\ f[0] = base
        /\ \A i \in 1..(k - 1) : f[i] = step[i][f[i - 1]]
    BY <2>1 DEF Folds
  <2>4. step[k][f[k - 1]] \in Q
    <3>1. f[k - 1] \in Q
      BY <2>2, <2>3
    <3>2. step[k] \in [Q -> Q]
      BY <1>2
    <3> QED
      BY <3>1, <3>2
  <2>5. g \in [0..k -> Q] /\ g[0] = base
    <3>1. ASSUME NEW i \in 0..k
          PROVE  (IF i = k THEN step[k][f[k - 1]] ELSE f[i]) \in Q
      BY <2>2, <2>3, <2>4
    <3> QED
      BY <2>2, <2>3, <3>1
  <2>6. ASSUME NEW i \in 1..k
        PROVE  g[i] = step[i][g[i - 1]]
    <3>1. i - 1 \in 0..k /\ i - 1 # k /\ i \in 0..k
      BY <2>2
    <3>2. g[i - 1] = f[i - 1]
      BY <3>1
    <3>3. CASE i = k
      BY <3>1, <3>2, <3>3
    <3>4. CASE i # k
      <4>1. i \in 1..(k - 1) /\ g[i] = f[i]
        BY <2>2, <3>1, <3>4
      <4> QED
        BY <4>1, <3>2, <2>3
    <3> QED
      BY <3>3, <3>4
  <2> HIDE DEF g
  <2>7. Folds(g, k, Q, base, step)
    BY <2>5, <2>6 DEF Folds
  <2> QED
    BY <2>7
<1>3. 0..n \subseteq Good
  <2> HIDE DEF Good
  <2> QED
    BY <1>1, <1>2, UpTo
<1>4. n \in Good
  BY <1>3
<1> QED
  BY <1>4

-----------------------------------------------------------------------------
(* Lists                                                                   *)

(* What stands in a list                                                   *)
LEMMA SetOf ==
  ASSUME NEW T, NEW s \in Seq(T)
  PROVE  ToSet(s) = {s[i] : i \in 1..Len(s)} /\ ToSet(s) \subseteq T
BY DEF ToSet

(* A list is empty or has elements.                                        *)
LEMMA HowLong ==
  ASSUME NEW T, NEW s \in Seq(T)
  PROVE  /\ Len(s) \in Nat /\ DOMAIN s = 1..Len(s) /\ (s = <<>> <=> Len(s) = 0)
         /\ \A i \in 1..Len(s) : s[i] \in T
BY EmptySeq

(* Nothing stands in the empty list.                                       *)
LEMMA EmptyList == ToSet(<<>>) = {} /\ \A T : <<>> \in Seq(T)
<1>1. DOMAIN <<>> = {}
  OBVIOUS
<1> QED
  BY <1>1 DEF ToSet

(* No element of a list stands in it twice.                                *)
Distinct(s) == \A i, j \in 1..Len(s) : s[i] = s[j] => i = j

(* A new element at the end keeps the elements distinct.                   *)
LEMMA AppendDistinct ==
  ASSUME NEW T, NEW s \in Seq(T), Distinct(s), NEW x \in T, x \notin ToSet(s)
  PROVE  Append(s, x) \in Seq(T) /\ Distinct(Append(s, x)) /\ ToSet(Append(s, x)) = ToSet(s) \cup {x}
<1> DEFINE t == Append(s, x)
<1>1. /\ t \in Seq(T) /\ Len(s) \in Nat /\ Len(t) = Len(s) + 1 /\ t[Len(s) + 1] = x
      /\ \A i \in 1..Len(s) : t[i] = s[i] /\ i \in 1..Len(t)
      /\ \A i \in 1..Len(t) : i \in 1..Len(s) \/ i = Len(s) + 1
      /\ Len(s) + 1 \in 1..Len(t)
  OBVIOUS
<1> HIDE DEF t
<1>2. ToSet(s) = {s[i] : i \in 1..Len(s)} /\ ToSet(t) = {t[i] : i \in 1..Len(t)}
  BY <1>1, SetOf
<1>3. Distinct(t)
  BY <1>1, <1>2 DEF Distinct
<1>4. ToSet(t) \subseteq ToSet(s) \cup {x}
  BY <1>1, <1>2
<1>5. ToSet(s) \cup {x} \subseteq ToSet(t)
  BY <1>1, <1>2
<1> QED
  BY <1>1, <1>3, <1>4, <1>5 DEF t

(* SetToSeq lists a finite set without repetition.                         *)
LEMMA SetListed ==
  ASSUME NEW S, IsFiniteSet(S)
  PROVE  SetToSeq(S) \in Seq(S) /\ Distinct(SetToSeq(S))
<1> DEFINE n == Cardinality(S)
<1>1. n \in Nat /\ ExistsBijection(1..n, S)
  BY FS_CardinalityType, FS_Bijection, FS_NatBijection
<1>2. PICK f \in Bijection(1..n, S) : TRUE
  BY <1>1 DEF ExistsBijection
<1>3. f \in [1..n -> S] /\ IsInjective(f)
  BY <1>2 DEF Bijection, Injection
<1>4. SetToSeq(S) \in [1..n -> S] /\ IsInjective(SetToSeq(S))
  BY <1>3 DEF SetToSeq
<1>5. SetToSeq(S) \in Seq(S) /\ Len(SetToSeq(S)) = n
  BY <1>1, <1>4
<1>6. DOMAIN SetToSeq(S) = 1..Len(SetToSeq(S))
  BY <1>4, <1>5
<1> QED
  BY <1>4, <1>5, <1>6 DEF IsInjective, Distinct

(* The first n elements of a list                                          *)
LEMMA FirstPart ==
  ASSUME NEW T, NEW s \in Seq(T), NEW n \in 0..Len(s), NEW m, m = SubSeq(s, 1, n)
  PROVE  m \in Seq(T) /\ Len(m) = n /\ \A i \in 1..n : m[i] = s[i] /\ i \in 1..Len(s)
OBVIOUS

(* The rest of it                                                          *)
LEMMA LastPart ==
  ASSUME NEW T, NEW s \in Seq(T), NEW n \in 0..Len(s), NEW rest, rest = SubSeq(s, n + 1, Len(s))
  PROVE  /\ rest \in Seq(T) /\ Len(rest) = Len(s) - n
         /\ \A i \in 1..(Len(s) - n) : rest[i] = s[n + i] /\ n + i \in 1..Len(s)
<1>1. Len(s) \in Nat /\ n \in Nat /\ n <= Len(s)
  OBVIOUS
<1>2. \A i \in (n + 1)..Len(s) : s[i] \in T
  BY <1>1
<1>3. CASE n = Len(s)
  <2>1. rest = <<>>
    BY <1>1, <1>3
  <2> QED
    BY <2>1, <1>1, <1>3
<1>4. CASE n < Len(s)
  <2>1. rest \in Seq(T) /\ Len(rest) = Len(s) - n
    BY <1>1, <1>2, <1>4
  <2>2. \A i \in 1..(Len(s) - n) : rest[i] = s[n + i]
    BY <1>1, <1>2, <1>4
  <2> QED
    BY <2>1, <2>2, <1>1
<1> QED
  BY <1>1, <1>3, <1>4

(* A list without its last element                                         *)
LEMMA OneLess ==
  ASSUME NEW T, NEW s \in Seq(T)
  PROVE  /\ Front(s) \in Seq(T) /\ Len(Front(s)) \in Nat
         /\ s # <<>> => Len(Front(s)) = Len(s) - 1
         /\ \A i \in 1..Len(Front(s)) : i \in 1..Len(s) /\ Front(s)[i] = s[i]
<1>1. Front(s) = SubSeq(s, 1, Len(s) - 1)
  BY DEF Front
<1>2. Len(s) \in Nat /\ (s # <<>> => Len(s) >= 1) /\ (s = <<>> => Len(s) = 0)
  BY HowLong
<1>3. CASE s = <<>>
  <2>1. Front(s) = SubSeq(s, 1, 0 - 1)
    BY <1>1, <1>2, <1>3
  <2>2. SubSeq(s, 1, 0 - 1) = <<>>
    BY <1>3
  <2> QED
    BY <2>1, <2>2, <1>3
<1>4. CASE s # <<>>
  <2>1. Len(s) - 1 \in Nat /\ 1 \in 1..Len(s) + 1
    BY <1>2, <1>4
  <2>2. \A i \in 1 .. Len(s) - 1 : s[i] \in T
    BY <1>2
  <2>3. PICK k \in Nat : k = Len(s) - 1
    BY <2>1
  <2>4. SubSeq(s, 1, k) \in Seq(T) /\ Len(SubSeq(s, 1, k)) = k
        /\ \A i \in 1..k : SubSeq(s, 1, k)[i] = s[i]
    BY <2>2, <2>3, <1>2, SubSeqProperties
  <2> QED
    BY <1>1, <1>2, <1>4, <2>3, <2>4
<1> QED
  BY <1>3, <1>4

-----------------------------------------------------------------------------
(* Finite orders                                                           *)

(* In a finite set with a strict total order there is one element for each *)
(* rank: the number of elements below it.                                  *)
LEMMA Ranks ==
  ASSUME NEW S, IsFiniteSet(S), NEW R,
         \A x \in S : <<x, x>> \notin R,
         \A x, y, z \in S : <<x, y>> \in R /\ <<y, z>> \in R => <<x, z>> \in R,
         \A x, y \in S : x = y \/ <<x, y>> \in R \/ <<y, x>> \in R
  PROVE  \A k \in 1..Cardinality(S) : \E i \in S : Cardinality({j \in S : <<j, i>> \in R}) = k - 1
<1> DEFINE n == Cardinality(S)
           Below(i) == {j \in S : <<j, i>> \in R}
           rank == [i \in S |-> Cardinality(Below(i))]
<1>1. n \in Nat
  BY FS_CardinalityType
<1>2. ASSUME NEW i \in S
      PROVE  Cardinality(Below(i)) \in Nat /\ Cardinality(Below(i)) < n /\ IsFiniteSet(Below(i))
  <2>1. Below(i) \in SUBSET S /\ Below(i) # S
    OBVIOUS
  <2> HIDE DEF Below
  <2>2. /\ IsFiniteSet(Below(i)) /\ Cardinality(Below(i)) <= Cardinality(S)
        /\ Cardinality(S) # Cardinality(Below(i))
    BY <2>1, FS_Subset
  <2>3. Cardinality(Below(i)) \in Nat
    BY <2>2, FS_CardinalityType
  <2> QED
    BY <2>2, <2>3, <1>1
<1>3. ASSUME NEW i \in S, NEW j \in S, <<i, j>> \in R
      PROVE  Cardinality(Below(i)) # Cardinality(Below(j))
  <2>1. Below(i) \in SUBSET Below(j) /\ Below(i) # Below(j)
    BY <1>3
  <2>2. IsFiniteSet(Below(j))
    BY <1>2
  <2> HIDE DEF Below
  <2> QED
    BY <2>1, <2>2, FS_Subset
<1>4. rank \in [S -> 0..(n - 1)]
  <2> HIDE DEF Below, n
  <2>1. \A i \in S : Cardinality(Below(i)) \in 0..(n - 1)
    BY <1>1, <1>2
  <2> QED
    BY <2>1
<1>5. \A i, j \in S : rank[i] = rank[j] => i = j
  <2> HIDE DEF Below
  <2> QED
    BY <1>3
<1>6. rank \in Injection(S, 0..(n - 1))
  <2> HIDE DEF rank, n
  <2> QED
    BY <1>4, <1>5 DEF Injection, IsInjective
<1>7. IsFiniteSet(0..(n - 1)) /\ Cardinality(0..(n - 1)) = n
  <2> HIDE DEF n
  <2> QED
    BY <1>1, FS_Interval
<1>8. rank \in Surjection(S, 0..(n - 1))
  <2> HIDE DEF rank
  <2> QED
    BY <1>6, <1>7, FS_Injection
<1>9. \A k \in 0..(n - 1) : \E i \in S : rank[i] = k
  <2> HIDE DEF rank, n
  <2> QED
    BY <1>8 DEF Surjection
<1> QED
  <2> SUFFICES ASSUME NEW k \in 1..n
               PROVE  \E i \in S : Cardinality(Below(i)) = k - 1
    OBVIOUS
  <2>1. k - 1 \in 0..(n - 1)
    BY <1>1
  <2>2. PICK i \in S : rank[i] = k - 1
    BY <2>1, <1>9
  <2> QED
    BY <2>2

(* A finite set of natural numbers has a largest element.                  *)
LEMMA LargestNatural ==
  ASSUME NEW S \in SUBSET Nat, IsFiniteSet(S), S # {}
  PROVE  \E m \in S : \A k \in S : k <= m
<1>1. Cardinality(S) \in Nat /\ Cardinality(S) # 0
  BY FS_CardinalityType, FS_EmptySet
<1>2. \A x, y \in S : <<x, y>> \in Lower <=> x < y
  BY DEF Lower
<1>3. PICK m \in S : Cardinality({j \in S : <<j, m>> \in Lower}) = Cardinality(S) - 1
  <2>1. \A k \in 1..Cardinality(S) : \E i \in S : Cardinality({j \in S : <<j, i>> \in Lower}) = k - 1
    <3>1. \A x \in S : <<x, x>> \notin Lower
      BY <1>2
    <3>2. \A x, y, z \in S : <<x, y>> \in Lower /\ <<y, z>> \in Lower => <<x, z>> \in Lower
      BY <1>2
    <3>3. \A x, y \in S : x = y \/ <<x, y>> \in Lower \/ <<y, x>> \in Lower
      <4>1. \A x, y \in S : x = y \/ x < y \/ y < x
        OBVIOUS
      <4> QED
        BY <4>1, <1>2
    <3> QED
      BY <3>1, <3>2, <3>3, Ranks
  <2> QED
    BY <2>1, <1>1
<1> DEFINE low == {j \in S : <<j, m>> \in Lower}
<1>4. IsFiniteSet(S \ {m}) /\ Cardinality(S \ {m}) = Cardinality(S) - 1
  BY FS_RemoveElement
<1>5. low \in SUBSET (S \ {m}) /\ Cardinality(S \ {m}) = Cardinality(low)
  BY <1>2, <1>3, <1>4
<1>6. S \ {m} = low
  <2> HIDE DEF low
  <2> QED
    BY <1>4, <1>5, FS_Subset
<1>7. \A k \in S \ {m} : k < m
  BY <1>2, <1>6
<1> QED
  BY <1>7

(* The values of a function on a finite set are finitely many.             *)
LEMMA FiniteValues ==
  ASSUME NEW D, IsFiniteSet(D), NEW f
  PROVE  IsFiniteSet({f[x] : x \in D})
<1> DEFINE T == {f[x] : x \in D}
           g == [x \in D |-> f[x]]
<1>1. g \in Surjection(D, T)
  BY DEF Surjection
<1> HIDE DEF g
<1> QED
  BY <1>1, FS_Surjection
=============================================================================
