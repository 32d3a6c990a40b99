--------------------------- MODULE OrderingProofs ---------------------------
(***************************************************************************)
(* Lemmas about Ordering, and the induction over finite sets they need.    *)
(* An order is given as a set of pairs: a definition that sorts by an      *)
(* operator is expanded where it is used, and the pairs are collected.     *)
(***************************************************************************)
EXTENDS Ordering, Integers, Sequences, SequencesExt, FiniteSetsExt, FiniteSetTheorems,
        SequenceTheorems, WellFoundedInduction, TLAPS

(* A property of the empty set that survives every added element holds of  *)
(* a finite set: the property is the set of the sets that have it.         *)
LEMMA GrowFinite ==
    ASSUME NEW S, IsFiniteSet(S), NEW C, {} \in C,
           \A T \in SUBSET S, x \in S : T \in C => T \union {x} \in C
    PROVE  S \in C
<1> SUFFICES ASSUME S \notin C PROVE FALSE  OBVIOUS
<1> DEFINE R == StrictSubsetOrdering(S)
           Bad == {T \in SUBSET S : T \notin C}
<1>1. Bad \subseteq FiniteSubsetsOf(S)  BY FS_Subset DEF FiniteSubsetsOf
<1>2. S \in Bad  OBVIOUS
<1>3. PICK T \in Bad : \A U \in Bad : <<U, T>> \notin R
  <2> HIDE DEF R, Bad
  <2>1. IsWellFoundedOn(R, FiniteSubsetsOf(S))
    BY FS_StrictSubsetOrderingWellFounded DEF R
  <2> QED BY <1>1, <1>2, <2>1, WFMin
<1>4. PICK x \in T : TRUE  OBVIOUS
<1>5. T \ {x} \in SUBSET S /\ T \ {x} # T  OBVIOUS
<1>6. T \ {x} \in C  BY <1>3, <1>5 DEF StrictSubsetOrdering
<1> QED
  <2>1. T = (T \ {x}) \union {x}  OBVIOUS
  <2> QED BY <1>6, <2>1

(* A finite set of integers that is not empty has a least element.         *)
LEMMA LeastElement ==
    ASSUME NEW S \in SUBSET Int, IsFiniteSet(S), S # {}
    PROVE  \E m \in S : \A k \in S : m <= k
<1> DEFINE C == {T \in SUBSET S : T = {} \/ \E m \in T : \A k \in T : m <= k}
<1>1. \A T \in SUBSET S, x \in S : T \in C => T \union {x} \in C
  <2> SUFFICES ASSUME NEW T \in SUBSET S, NEW x \in S, T \in C,
                      T \union {x} \notin C
               PROVE  FALSE
    OBVIOUS
  <2>1. T # {}  OBVIOUS
  <2>2. PICK m \in T : \A k \in T : m <= k  BY <2>1
  <2>3. m \in Int /\ x \in Int /\ T \subseteq Int  OBVIOUS
  <2>4. CASE m <= x  BY <2>2, <2>3, <2>4
  <2>5. CASE x < m
    <3>1. \A k \in T \union {x} : x <= k  BY <2>2, <2>3, <2>5
    <3> QED BY <3>1
  <2> QED BY <2>3, <2>4, <2>5
<1>2. {} \in C  OBVIOUS
<1> HIDE DEF C
<1>3. S \in C  BY <1>1, <1>2, GrowFinite
<1> QED BY <1>3 DEF C

(* The least and the greatest of a finite set of numbers.                  *)
LEMMA LeastIn ==
    ASSUME NEW S \in SUBSET Int, IsFiniteSet(S), S # {}
    PROVE  Min(S) \in S /\ \A k \in S : Min(S) <= k
<1>1. \E m \in S : \A k \in S : m <= k  BY LeastElement
<1> QED BY <1>1 DEF Min

LEMMA GreatestIn ==
    ASSUME NEW S \in SUBSET Int, IsFiniteSet(S), S # {}
    PROVE  Max(S) \in S /\ \A k \in S : k <= Max(S)
<1>1. PICK T : T = {-k : k \in S}  OBVIOUS
<1>2. T \in SUBSET Int /\ T # {}
  <2>1. PICK k \in S : TRUE  OBVIOUS
  <2>2. -k \in T  BY <1>1
  <2>3. \A t \in T : t \in Int  BY <1>1
  <2> QED BY <2>2, <2>3
<1>3. IsFiniteSet(T)
  <2>1. PICK f : f = [k \in S |-> -k]  OBVIOUS
  <2>2. f \in Surjection(S, T)  BY <1>1, <2>1 DEF Surjection
  <2> QED BY <2>2, FS_Surjection
<1>4. PICK t \in T : \A k \in T : t <= k  BY <1>2, <1>3, LeastElement
<1>5. PICK m \in S : t = -m  BY <1>1, <1>4
<1>6. \A k \in S : m >= k
  <2> SUFFICES ASSUME NEW k \in S PROVE m >= k  OBVIOUS
  <2>1. -k \in T  BY <1>1
  <2>2. -m <= -k  BY <1>4, <1>5, <2>1
  <2> QED BY <2>2
<1> QED BY <1>6 DEF Max

StrictTotal(S, R) ==
    /\ \A x \in S : <<x, x>> \notin R
    /\ \A x, y, z \in S : <<x, y>> \in R /\ <<y, z>> \in R => <<x, z>> \in R
    /\ \A x, y \in S : x = y \/ <<x, y>> \in R \/ <<y, x>> \in R

Below(S, R, x) == {y \in S : <<y, x>> \in R}

Sorted(S, R) == [n \in 1..Cardinality(S) |-> CHOOSE x \in S : Cardinality(Below(S, R, x)) = n - 1]

(* What comes before an element: fewer than all, and fewer than what comes *)
(* before a later one.                                                     *)
LEMMA BelowGrows ==
    ASSUME NEW S, IsFiniteSet(S), NEW R, StrictTotal(S, R)
    PROVE  /\ \A x \in S : Cardinality(Below(S, R, x)) \in 0..Cardinality(S) - 1
           /\ \A x, y \in S : <<x, y>> \in R =>
                  Cardinality(Below(S, R, x)) < Cardinality(Below(S, R, y))
<1>1. Cardinality(S) \in Nat  BY FS_CardinalityType
<1>2. ASSUME NEW x \in S
      PROVE  /\ IsFiniteSet(Below(S, R, x)) /\ Cardinality(Below(S, R, x)) \in Nat
             /\ Cardinality(Below(S, R, x)) < Cardinality(S)
  <2>1. Below(S, R, x) \in SUBSET S /\ Below(S, R, x) # S  BY DEF Below, StrictTotal
  <2> QED BY <2>1, <1>1, FS_Subset, FS_CardinalityType
<1>3. ASSUME NEW x \in S, NEW y \in S, <<x, y>> \in R
      PROVE  Cardinality(Below(S, R, x)) < Cardinality(Below(S, R, y))
  <2>1. Below(S, R, x) \in SUBSET Below(S, R, y)  BY <1>3 DEF Below, StrictTotal
  <2>2. Below(S, R, x) # Below(S, R, y)  BY <1>3 DEF Below, StrictTotal
  <2>3. IsFiniteSet(Below(S, R, y))  BY <1>2
  <2>4. /\ Cardinality(Below(S, R, x)) <= Cardinality(Below(S, R, y))
        /\ Cardinality(Below(S, R, x)) # Cardinality(Below(S, R, y))
    BY <2>1, <2>2, <2>3, FS_Subset
  <2> QED BY <2>4, <1>2
<1> QED BY <1>1, <1>2, <1>3

(* Sorting a finite set by a strict total order gives each of its elements *)
(* once, in that order.                                                    *)
LEMMA SortedInOrder ==
    ASSUME NEW S, IsFiniteSet(S), NEW R, StrictTotal(S, R)
    PROVE  /\ Sorted(S, R) \in [1..Cardinality(S) -> S]
           /\ \A x \in S : \E n \in 1..Cardinality(S) : Sorted(S, R)[n] = x
           /\ \A m, n \in 1..Cardinality(S) :
                 /\ m < n <=> <<Sorted(S, R)[m], Sorted(S, R)[n]>> \in R
                 /\ Sorted(S, R)[m] = Sorted(S, R)[n] => m = n
<1> DEFINE N == Cardinality(S)
           rank == [x \in S |-> Cardinality(Below(S, R, x)) + 1]
           o == Sorted(S, R)
<1>0. N \in Nat  BY FS_CardinalityType
<1>1. rank \in [S -> 1..N] /\ \A x, y \in S : <<x, y>> \in R => rank[x] < rank[y]
  <2>1. \A x \in S : Cardinality(Below(S, R, x)) \in 0..N - 1  BY BelowGrows
  <2>2. \A x, y \in S : <<x, y>> \in R => Cardinality(Below(S, R, x)) < Cardinality(Below(S, R, y))
    BY BelowGrows
  <2> HIDE DEF N
  <2> QED BY <2>1, <2>2, <1>0
<1>2. \A x, y \in S : rank[x] = rank[y] => x = y
  <2> HIDE DEF rank, N
  <2> SUFFICES ASSUME NEW x \in S, NEW y \in S, rank[x] = rank[y], x # y PROVE FALSE  OBVIOUS
  <2>1. rank[x] \in 1..N /\ rank[y] \in 1..N  BY <1>1
  <2>2. <<x, y>> \in R \/ <<y, x>> \in R  BY DEF StrictTotal
  <2> QED BY <1>0, <1>1, <2>1, <2>2
<1>3. IsFiniteSet(1..N) /\ Cardinality(1..N) = N
  BY <1>0, FS_Interval
<1>4. \A n \in 1..N : \E x \in S : rank[x] = n
  <2> HIDE DEF rank
  <2>1. rank \in Injection(S, 1..N)  BY <1>1, <1>2 DEF Injection, IsInjective
  <2>2. rank \in Surjection(S, 1..N)
    BY <1>3, <2>1, FS_Injection DEF N, Surjection
  <2> QED BY <2>2 DEF Surjection
<1>5. \A n \in 1..N : o[n] \in S /\ rank[o[n]] = n
  <2> SUFFICES ASSUME NEW n \in 1..N PROVE o[n] \in S /\ rank[o[n]] = n  OBVIOUS
  <2>1. PICK x \in S : rank[x] = n  BY <1>4
  <2>2. Cardinality(Below(S, R, x)) \in 0..N - 1  BY BelowGrows
  <2>3. Cardinality(Below(S, R, x)) = n - 1  BY <1>0, <2>1, <2>2
  <2>4. o[n] = CHOOSE y \in S : Cardinality(Below(S, R, y)) = n - 1  BY DEF Sorted
  <2>5. o[n] \in S /\ Cardinality(Below(S, R, o[n])) = n - 1  BY <2>3, <2>4
  <2> QED BY <2>5, <1>0
<1>6. o = [n \in 1..N |-> o[n]]  BY DEF Sorted
<1> HIDE DEF o, rank, N
<1>7. \A x \in S : \E n \in 1..N : o[n] = x
  BY <1>1, <1>2, <1>5
<1>8. \A m, n \in 1..N : o[m] = o[n] => m = n  BY <1>5
<1>9. ASSUME NEW m \in 1..N, NEW n \in 1..N PROVE m < n <=> <<o[m], o[n]>> \in R
  <2>1. o[m] \in S /\ o[n] \in S /\ rank[o[m]] = m /\ rank[o[n]] = n  BY <1>5
  <2>2. CASE m < n
    <3>1. o[m] # o[n]  BY <1>0, <2>1, <2>2
    <3>2. ~(<<o[n], o[m]>> \in R)  BY <1>0, <1>1, <2>1, <2>2
    <3> QED BY <2>1, <2>2, <3>1, <3>2 DEF StrictTotal
  <2>3. CASE ~(m < n)  BY <1>0, <1>1, <2>1, <2>3
  <2> QED BY <2>2, <2>3
<1> QED BY <1>5, <1>6, <1>7, <1>8, <1>9 DEF o, N

(* The positions of a sequence, in their order.                            *)
LEMMA PickedSorts ==
    ASSUME NEW D, NEW s \in Seq(D), NEW at \in SUBSET DOMAIN s
    PROVE  \E f \in [1..Cardinality(at) -> at] :
              /\ Cardinality(at) \in Nat /\ IsFiniteSet(at)
              /\ Picked(s, at) = [n \in 1..Cardinality(at) |-> s[f[n]]]
              /\ \A i \in at : \E n \in 1..Cardinality(at) : f[n] = i
              /\ \A m, n \in 1..Cardinality(at) :
                    (m < n <=> f[m] < f[n]) /\ (f[m] = f[n] => m = n)
<1> DEFINE R == {p \in at \X at : p[1] < p[2]}
           f == Sorted(at, R)
<1>1. DOMAIN s = 1..Len(s) /\ Len(s) \in Nat /\ at \subseteq Int  OBVIOUS
<1>2. IsFiniteSet(at)
  <2>1. IsFiniteSet(1..Len(s))  BY <1>1, FS_Interval
  <2> QED BY <1>1, <2>1, FS_Subset
<1>3. StrictTotal(at, R)
  <2>1. \A i, j \in at : <<i, j>> \in R <=> i < j  OBVIOUS
  <2> HIDE DEF R
  <2> QED BY <1>1, <2>1 DEF StrictTotal
<1>4. Ordered(at, LAMBDA i, j : i < j) = f
  <2>1. \A j \in at : {i \in at : i < j} = Below(at, R, j)  BY DEF Below
  <2> HIDE DEF R
  <2>2. Ordered(at, LAMBDA i, j : i < j)
           = [n \in 1..Cardinality(at) |-> CHOOSE j \in at : Cardinality({i \in at : i < j}) = n - 1]
    BY DEF Ordered
  <2> QED BY <2>1, <2>2 DEF Sorted
<1>5. Picked(s, at) = [n \in 1..Cardinality(at) |-> s[f[n]]]  BY <1>4 DEF Picked
<1>6. \A i, j \in at : <<i, j>> \in R <=> i < j  OBVIOUS
<1> HIDE DEF f, R
<1>7. /\ f \in [1..Cardinality(at) -> at]
      /\ \A x \in at : \E n \in 1..Cardinality(at) : f[n] = x
      /\ \A m, n \in 1..Cardinality(at) :
            (m < n <=> <<f[m], f[n]>> \in R) /\ (f[m] = f[n] => m = n)
  BY <1>2, <1>3, SortedInOrder DEF f
<1>8. \A m, n \in 1..Cardinality(at) : m < n <=> f[m] < f[n]  BY <1>6, <1>7
<1> QED BY <1>2, <1>5, <1>7, <1>8, FS_CardinalityType

(* The lesser and the greater of two numbers.                              *)
LEMMA LesserOfTwo ==
    ASSUME NEW a \in Int, NEW b \in Int
    PROVE  Min({a, b}) \in {a, b} /\ Min({a, b}) <= a /\ Min({a, b}) <= b
<1>1. CASE a <= b
  <2>1. \A y \in {a, b} : a <= y  BY <1>1
  <2>2. \A x \in {a, b} : (\A y \in {a, b} : x <= y) => x = a  BY <1>1
  <2> QED BY <1>1, <2>1, <2>2 DEF Min
<1>2. CASE b < a
  <2>1. \A y \in {a, b} : b <= y  BY <1>2
  <2>2. \A x \in {a, b} : (\A y \in {a, b} : x <= y) => x = b  BY <1>2
  <2> QED BY <1>2, <2>1, <2>2 DEF Min
<1> QED BY <1>1, <1>2

LEMMA GreaterOfTwo ==
    ASSUME NEW a \in Int, NEW b \in Int
    PROVE  Max({a, b}) = IF b > a THEN b ELSE a
<1>1. CASE b > a
  <2>1. \A y \in {a, b} : b >= y  BY <1>1
  <2>2. \A x \in {a, b} : (\A y \in {a, b} : x >= y) => x = b  BY <1>1
  <2> QED BY <1>1, <2>1, <2>2 DEF Max
<1>2. CASE ~(b > a)
  <2>1. \A y \in {a, b} : a >= y  BY <1>2
  <2>2. \A x \in {a, b} : (\A y \in {a, b} : x >= y) => x = a  BY <1>2
  <2> QED BY <1>2, <2>1, <2>2 DEF Max
<1> QED BY <1>1, <1>2

(* A sequence and what is appended to it.                                  *)
LEMMA AppendSet ==
    ASSUME NEW D, NEW s \in Seq(D), NEW e \in D
    PROVE  /\ Append(s, e) \in Seq(D) /\ Len(Append(s, e)) = Len(s) + 1
           /\ DOMAIN Append(s, e) = 1..(Len(s) + 1)
           /\ \A n \in DOMAIN s : Append(s, e)[n] = s[n]
           /\ Append(s, e)[Len(s) + 1] = e
           /\ ToSet(Append(s, e)) = ToSet(s) \union {e}
           /\ IsInjective(s) /\ e \notin ToSet(s) => IsInjective(Append(s, e))
<1>1. Len(s) \in Nat /\ DOMAIN s = 1..Len(s)  OBVIOUS
<1>2. PICK t : t = Append(s, e)  OBVIOUS
<1>3. /\ t \in Seq(D) /\ Len(t) = Len(s) + 1 /\ DOMAIN t = 1..(Len(s) + 1)
      /\ \A n \in DOMAIN s : t[n] = s[n]
      /\ t[Len(s) + 1] = e
  BY <1>2
<1>4. ToSet(t) = ToSet(s) \union {e}  BY <1>1, <1>3 DEF ToSet
<1>5. IsInjective(s) /\ e \notin ToSet(s) => IsInjective(t)
  BY <1>1, <1>3 DEF IsInjective, ToSet
<1> QED BY <1>2, <1>3, <1>4, <1>5

---------------------------------------------------------------------------
(* Lists of the elements of a set.                                         *)

\* A list of the elements of a set, each once.
Lists(s, S) ==
    /\ s \in Seq(S) /\ DOMAIN s = 1..Len(s) /\ Len(s) = Cardinality(S) /\ Len(s) \in Nat
    /\ \A n \in DOMAIN s : s[n] \in S
    /\ \A x \in S : \E n \in DOMAIN s : s[n] = x
    /\ \A m, n \in DOMAIN s : s[m] = s[n] => m = n

(* A function from the positions 1..m is a sequence of m elements.         *)
LEMMA FunctionIsSequence ==
    ASSUME NEW S, NEW m \in Nat, NEW f \in [1..m -> S]
    PROVE  f \in Seq(S) /\ Len(f) = m
<1>1. f \in Seq(S)  BY SeqDef
<1>2. Len(f) \in Nat /\ 1..Len(f) = 1..m  BY <1>1, LenProperties
<1>3. Len(f) = m  BY <1>2
<1> QED BY <1>1, <1>3

(* The list of a set in an order has each element once.                    *)
LEMMA SortedLists ==
    ASSUME NEW S, IsFiniteSet(S), NEW R, StrictTotal(S, R)
    PROVE  Lists(Sorted(S, R), S)
<1>1. PICK n \in Nat : n = Cardinality(S)  BY FS_CardinalityType
<1>2. PICK f : f = Sorted(S, R)  OBVIOUS
<1>3. /\ f \in [1..n -> S] /\ \A x \in S : \E k \in 1..n : f[k] = x
      /\ \A k, m \in 1..n : f[k] = f[m] => k = m
  <2>1. /\ Sorted(S, R) \in [1..Cardinality(S) -> S]
        /\ \A x \in S : \E k \in 1..Cardinality(S) : Sorted(S, R)[k] = x
        /\ \A k, m \in 1..Cardinality(S) :
              /\ k < m <=> <<Sorted(S, R)[k], Sorted(S, R)[m]>> \in R
              /\ Sorted(S, R)[k] = Sorted(S, R)[m] => k = m
    BY SortedInOrder, Zenon
  <2> QED BY <1>1, <1>2, <2>1
<1>4. f \in Seq(S) /\ Len(f) = n  BY <1>3, FunctionIsSequence
<1> QED BY <1>1, <1>2, <1>3, <1>4 DEF Lists

(* A list of a set holds the set.                                          *)
LEMMA ListsHas ==
    ASSUME NEW S, NEW s, Lists(s, S)
    PROVE  ToSet(s) = S
BY DEF Lists, ToSet

(* What a sequence holds is a finite set.                                  *)
LEMMA ListOfFinite ==
    ASSUME NEW S, NEW s \in Seq(S)
    PROVE  IsFiniteSet(ToSet(s)) /\ ToSet(s) \subseteq S
<1>1. IsFiniteSet(DOMAIN s)
  <2>1. DOMAIN s = 1..Len(s) /\ Len(s) \in Nat  OBVIOUS
  <2> QED BY <2>1, FS_Interval
<1>2. s \in Surjection(DOMAIN s, ToSet(s))
  <2>1. s = [i \in DOMAIN s |-> s[i]]  OBVIOUS
  <2> QED BY <2>1 DEF Surjection, ToSet
<1> QED BY <1>1, <1>2, FS_Surjection DEF ToSet

\* Some elements of a set, each once.
Part(s, S) ==
    /\ s \in Seq(S) /\ \A n \in DOMAIN s : s[n] \in S
    /\ \A m, n \in DOMAIN s : s[m] = s[n] => m = n

(* The first elements of a list.                                           *)
LEMMA FirstOf ==
    ASSUME NEW S, NEW s, Lists(s, S), NEW n \in Nat
    PROVE  Part(SubSeq(s, 1, Min({n, Cardinality(S)})), S)
<1>1. PICK l \in Nat : l = Len(s) /\ l = Cardinality(S) /\ DOMAIN s = 1..l  BY DEF Lists
<1>2. PICK k \in Nat : k = Min({n, Cardinality(S)}) /\ k <= l
  <2>1. Min({n, l}) \in {n, l} /\ Min({n, l}) <= l  BY LesserOfTwo
  <2> QED BY <1>1, <2>1
<1>3. \A i \in 1..k : s[i] \in S /\ i \in DOMAIN s  BY <1>1, <1>2 DEF Lists
<1>4. PICK t : t = SubSeq(s, 1, k)  OBVIOUS
<1>5. t \in Seq(S) /\ Len(t) = k /\ \A i \in 1..k : t[i] = s[i]
  <2>1. /\ SubSeq(s, 1, k) \in Seq(S) /\ Len(SubSeq(s, 1, k)) = IF 1 <= k THEN k - 1 + 1 ELSE 0
        /\ \A i \in 1..(k - 1 + 1) : SubSeq(s, 1, k)[i] = s[1 + i - 1]
    BY <1>3, SubSeqProperties
  <2>2. k - 1 + 1 = k /\ \A i \in 1..k : 1 + i - 1 = i  OBVIOUS
  <2>3. Len(t) = k
    <3>1. CASE 1 <= k  BY <1>4, <2>1, <2>2, <3>1
    <3>2. CASE k = 0  BY <1>4, <2>1, <3>2
    <3> QED BY <3>1, <3>2
  <2>4. \A i \in 1..k : t[i] = s[i]
    <3> SUFFICES ASSUME NEW i \in 1..k PROVE t[i] = s[i]  OBVIOUS
    <3>1. i \in 1..(k - 1 + 1) /\ 1 + i - 1 = i  OBVIOUS
    <3> QED BY <1>4, <2>1, <3>1
  <2> QED BY <1>4, <2>1, <2>3, <2>4
<1>6. DOMAIN t = 1..k  BY <1>5
<1>7. \A i \in DOMAIN t : t[i] \in S  BY <1>3, <1>5, <1>6
<1>8. \A i, j \in DOMAIN t : t[i] = t[j] => i = j  BY <1>3, <1>5, <1>6 DEF Lists
<1> QED BY <1>2, <1>4, <1>5, <1>7, <1>8 DEF Part

---------------------------------------------------------------------------
(* Orders by numbers.                                                      *)

\* An order by numbers: the second where the first is the same, and the
\* third where both are.  No two elements agree in all three.
ByKeys(S, p, q, r, R) ==
    /\ p \in [S -> Int] /\ q \in [S -> Int] /\ r \in [S -> Int]
    /\ \A x, y \in S : p[x] = p[y] /\ q[x] = q[y] /\ r[x] = r[y] => x = y
    /\ \A x, y \in S : <<x, y>> \in R <=> (\/ p[x] < p[y]
                                           \/ p[x] = p[y] /\ q[x] < q[y]
                                           \/ p[x] = p[y] /\ q[x] = q[y] /\ r[x] < r[y])

(* Such an order is strict and total.                                      *)
LEMMA ByNumbers ==
    ASSUME NEW S, NEW p, NEW q, NEW r, NEW R, ByKeys(S, p, q, r, R)
    PROVE  StrictTotal(S, R)
<1>0. /\ p \in [S -> Int] /\ q \in [S -> Int] /\ r \in [S -> Int]
      /\ \A x, y \in S : p[x] = p[y] /\ q[x] = q[y] /\ r[x] = r[y] => x = y
      /\ \A x, y \in S : <<x, y>> \in R <=> (\/ p[x] < p[y]
                                             \/ p[x] = p[y] /\ q[x] < q[y]
                                             \/ p[x] = p[y] /\ q[x] = q[y] /\ r[x] < r[y])
  BY DEF ByKeys
<1>1. \A x \in S : p[x] \in Int /\ q[x] \in Int /\ r[x] \in Int  BY <1>0
<1>2. \A x \in S : <<x, x>> \notin R  BY <1>0, <1>1
<1>3. \A x, y, z \in S : <<x, y>> \in R /\ <<y, z>> \in R => <<x, z>> \in R  BY <1>0, <1>1
<1>4. ASSUME NEW x \in S, NEW y \in S, <<x, y>> \notin R, <<y, x>> \notin R PROVE x = y
  <2>0. /\ ~(p[x] < p[y]) /\ ~(p[y] < p[x])
        /\ p[x] = p[y] => ~(q[x] < q[y]) /\ ~(q[y] < q[x])
        /\ p[x] = p[y] /\ q[x] = q[y] => ~(r[x] < r[y]) /\ ~(r[y] < r[x])
    BY <1>0, <1>4, Zenon
  <2>1. p[x] = p[y]  BY <1>1, <2>0
  <2>2. q[x] = q[y]  BY <1>1, <2>0, <2>1
  <2>3. r[x] = r[y]  BY <1>1, <2>0, <2>1, <2>2
  <2> QED BY <1>0, <2>1, <2>2, <2>3
<1> QED BY <1>2, <1>3, <1>4 DEF StrictTotal

(* Numbers in their order.                                                 *)
LEMMA NumbersListed ==
    ASSUME NEW S \in SUBSET Int, IsFiniteSet(S)
    PROVE  Lists(Ordered(S, <), S)
<1> DEFINE R == {p \in S \X S : p[1] < p[2]}
<1>1. \A i, j \in S : <<i, j>> \in R <=> i < j  OBVIOUS
<1>2. StrictTotal(S, R)
  <2> HIDE DEF R
  <2> QED BY <1>1 DEF StrictTotal
<1>3. Ordered(S, <) = Sorted(S, R)
  <2>1. \A j \in S : {i \in S : i < j} = Below(S, R, j)  BY <1>1 DEF Below
  <2> HIDE DEF R
  <2>2. Ordered(S, <) = [n \in 1..Cardinality(S) |-> CHOOSE j \in S : Cardinality({i \in S : i < j}) = n - 1]
    BY DEF Ordered
  <2> QED BY <2>1, <2>2 DEF Sorted
<1> HIDE DEF R
<1> QED BY <1>2, <1>3, SortedLists

---------------------------------------------------------------------------
(* Induction over an interval.                                             *)

(* What holds of 0, and of a number if of the one before, holds up to N.   *)
LEMMA Upward ==
    ASSUME NEW N \in Nat, NEW C, 0 \in C, \A k \in 1..N : k - 1 \in C => k \in C
    PROVE  \A k \in 0..N : k \in C
<1> SUFFICES ASSUME {k \in 0..N : k \notin C} # {} PROVE FALSE  OBVIOUS
<1>1. PICK B : B = {k \in 0..N : k \notin C}  OBVIOUS
<1>2. B \in SUBSET Int /\ IsFiniteSet(B)
  <2>1. IsFiniteSet(0..N)  BY FS_Interval
  <2> QED BY <1>1, <2>1, FS_Subset
<1>3. PICK m \in B : \A k \in B : m <= k  BY <1>1, <1>2, LeastElement
<1>4. m \in 1..N /\ m - 1 \in 0..N /\ ~(m <= m - 1)  BY <1>1, <1>3
<1>5. m - 1 \in C  BY <1>1, <1>3, <1>4
<1> QED BY <1>1, <1>3, <1>4, <1>5

(* A value at each step, from the value at the step before.                *)
Recurs(N, S, a, step) ==
    \E f \in [0..N -> S] : f[0] = a /\ \A k \in 1..N : f[k] = step[k][f[k - 1]]

LEMMA Recursion ==
    ASSUME NEW N \in Nat, NEW S, NEW a \in S, NEW step \in [1..N -> [S -> S]]
    PROVE  Recurs(N, S, a, step)
<1> DEFINE Good(n, f) == f[0] = a /\ \A k \in 1..n : f[k] = step[k][f[k - 1]]
           C == {n \in 0..N : \E f \in [0..n -> S] : Good(n, f)}
<1>1. 0 \in C
  <2>1. PICK f : f = [k \in 0..0 |-> a]  OBVIOUS
  <2>2. f \in [0..0 -> S] /\ Good(0, f)  BY <2>1
  <2> HIDE DEF Good
  <2>3. 0 \in 0..N  OBVIOUS
  <2> QED BY <2>2, <2>3, Zenon
<1>2. ASSUME NEW n \in 1..N, n - 1 \in C PROVE n \in C
  <2>1. PICK m \in 0..N : m = n - 1 /\ n = m + 1  OBVIOUS
  <2>2. PICK f \in [0..m -> S] : Good(m, f)  BY <1>2, <2>1
  <2>3. PICK g : g = [k \in 0..n |-> IF k = n THEN step[n][f[m]] ELSE f[k]]  OBVIOUS
  <2>4. \A k \in 0..m : g[k] = f[k] /\ f[k] \in S  BY <2>1, <2>2, <2>3
  <2>5. g[n] = step[n][f[m]] /\ g[n] \in S
    <3>1. m \in 0..m /\ n \in 0..n  OBVIOUS
    <3> QED BY <2>3, <2>4, <3>1
  <2>6. g \in [0..n -> S]
    <3>1. \A k \in 0..n : k = n \/ k \in 0..m  BY <2>1
    <3> QED BY <2>3, <2>4, <2>5, <3>1
  <2>7. \A k \in 1..n : g[k] = step[k][g[k - 1]]
    <3> SUFFICES ASSUME NEW k \in 1..n PROVE g[k] = step[k][g[k - 1]]  OBVIOUS
    <3>1. CASE k = n
      <4>1. k - 1 = m /\ m \in 0..m  BY <2>1, <3>1
      <4> QED BY <2>4, <2>5, <3>1, <4>1
    <3>2. CASE k # n
      <4>1. k \in 1..m /\ k \in 0..m /\ k - 1 \in 0..m  BY <2>1, <3>2
      <4>2. f[k] = step[k][f[k - 1]]  BY <2>2, <4>1
      <4> QED BY <2>4, <4>1, <4>2
    <3> QED BY <3>1, <3>2
  <2>8. g[0] = a  BY <2>2, <2>4
  <2>9. Good(n, g)  BY <2>7, <2>8
  <2> HIDE DEF Good
  <2>10. n \in 0..N  OBVIOUS
  <2> QED BY <2>6, <2>9, <2>10, Zenon
<1> HIDE DEF C
<1>3. \A k \in 1..N : k - 1 \in C => k \in C  BY <1>2
<1>4. N \in C
  <2>1. \A k \in 0..N : k \in C  BY <1>1, <1>3, Upward
  <2> QED BY <2>1
<1> QED BY <1>4 DEF C, Recurs
=============================================================================
