-------------------------- MODULE DetectionsProofs ---------------------------
(***************************************************************************)
(* Detections, for every palette, every answer of the model and every size *)
(* of the frame: nothing is counted twice, an emergency gets through, and  *)
(* the queue is the longest there is.  First the numbers of Letterbox,     *)
(* then what sorting, filtering and the suppression do with a sequence,    *)
(* then the backends, the scan over the gaps, and the lane.                *)
(***************************************************************************)
EXTENDS Detections, FiniteSetTheorems, TLAPS

(* What a quotient of integers is.                                         *)
LEMMA Quotient ==
  ASSUME NEW n \in Int, NEW d \in Nat \ {0}
  PROVE  /\ n \div d \in Int
         /\ d * (n \div d) <= n
         /\ n < d * (n \div d) + d
  OBVIOUS

(* A quotient lies between two numbers when its dividend does.             *)
LEMMA QuotientWithin ==
  ASSUME NEW n \in Int, NEW d \in Nat \ {0}, NEW a \in Int, NEW b \in Int,
         d * a <= n, n < d * b + d
  PROVE  n \div d \in a..b
<1> DEFINE q == n \div d
<1>1. q \in Int /\ d * q <= n /\ n < d * q + d
  BY Quotient
<1>2. d * q < d * (b + 1) /\ d * a < d * (q + 1)
  BY <1>1
<1>3. q < b + 1 /\ a < q + 1
  BY <1>1, <1>2
<1> QED
  BY <1>1, <1>3

(* The border fills the input: with the resized frame it is InputSize      *)
(* pixels wide, for odd and for even remainders.                           *)
LEMMA BordersFill ==
  ASSUME NEW u \in 0..InputSize
  PROVE  /\ padBefore(u) \in 0..InputSize
         /\ padBefore(u) + u + padAfter(u) = InputSize
  BY InputSizeAssumption DEF padBefore, padAfter, Rounded

(* The resized frame fits into the input.                                  *)
LEMMA ResizedFits ==
  ASSUME NEW longer \in Nat \ {0}, NEW size \in 1..longer
  PROVE  new_unpad(size, longer) \in 0..InputSize
<1> DEFINE n == 2 * (size * InputSize) + longer
<1>1. size * InputSize \in Nat /\ size * InputSize <= longer * InputSize
  BY InputSizeAssumption
<1>2. n \in Int /\ (2 * longer) * 0 <= n /\ n < (2 * longer) * InputSize + 2 * longer
  BY <1>1, InputSizeAssumption
<1>3. n \div (2 * longer) \in 0..InputSize
  BY <1>2, QuotientWithin, InputSizeAssumption
<1> QED
  BY <1>3 DEF new_unpad, Rounded

(* The tensor that is split into the planes of the input has exactly the   *)
(* size the model expects, whatever the size of the frame (preprocess).    *)
THEOREM InputFilled ==
  ASSUME NEW longer \in Nat \ {0}, NEW size \in 1..longer
  PROVE  LET u == new_unpad(size, longer)
         IN  padBefore(u) + u + padAfter(u) = InputSize
  BY ResizedFits, BordersFill

(* A larger dividend has no smaller quotient.                              *)
LEMMA QuotientMonotone ==
  ASSUME NEW m \in Int, NEW n \in Int, NEW d \in Nat \ {0}, m <= n
  PROVE  m \div d <= n \div d
<1> DEFINE p == m \div d
           q == n \div d
<1>1. p \in Int /\ d * p <= m
  BY Quotient
<1>2. q \in Int /\ n < d * q + d
  BY Quotient
<1>3. d * p < d * (q + 1)
  BY <1>1, <1>2
<1>4. p < q + 1
  BY <1>1, <1>2, <1>3
<1> QED
  BY <1>1, <1>2, <1>4

(* What is rounded before the clipping to a side of the frame.             *)
LEMMA RoundedInFrame ==
  ASSUME NEW size \in Nat, NEW n \in 0..(size * InputSize)
  PROVE  Rounded(n, InputSize) \in 0..size
<1> DEFINE k == 2 * n + InputSize
<1>1. size * InputSize \in Nat
  BY InputSizeAssumption
<1>2. /\ k \in Int /\ 2 * InputSize \in Nat \ {0}
      /\ (2 * InputSize) * 0 <= k /\ k < (2 * InputSize) * size + 2 * InputSize
  BY <1>1, InputSizeAssumption
<1>3. k \div (2 * InputSize) \in 0..size
  BY <1>2, QuotientWithin
<1> QED
  BY <1>3 DEF Rounded

(* Whatever the model answers, the box that goes to the suppression and to *)
(* the queue length lies in the frame and is not turned over: the rows and *)
(* columns it is brought back to keep their order (postprocess).           *)
THEOREM BoxInFrame ==
  ASSUME NEW longer \in Nat \ {0}, NEW size \in 1..longer,
         NEW x \in Int, NEW y \in Int, x <= y
  PROVE  /\ scaleBack(x, size, longer) \in 0..size
         /\ scaleBack(x, size, longer) <= scaleBack(y, size, longer)
<1> DEFINE pad == padBefore(new_unpad(size, longer))
           m == (x - pad) * longer
           n == (y - pad) * longer
           clipped(k) == IF k < 0 THEN 0 ELSE IF k > size * InputSize THEN size
                         ELSE Rounded(k, InputSize)
<1>1. pad \in Int
  BY ResizedFits, BordersFill
<1>2. m \in Int /\ n \in Int /\ m <= n
  <2>1. (y - pad) * longer - (x - pad) * longer = (y - x) * longer
    BY <1>1
  <2>2. (y - x) * longer >= 0
    OBVIOUS
  <2> QED
    BY <1>1, <2>1, <2>2
<1>3. size \in Nat /\ size * InputSize \in Int
  BY InputSizeAssumption
<1> HIDE DEF m, n
<1>4. ASSUME NEW k \in Int
      PROVE  clipped(k) \in 0..size
  <2>1. CASE k \in 0..(size * InputSize)
    BY <2>1, <1>3, RoundedInFrame
  <2> QED
    BY <2>1, <1>3
<1>5. clipped(m) <= clipped(n)
  <2>1. CASE 0 <= m /\ n <= size * InputSize
    <3>1. clipped(m) = Rounded(m, InputSize) /\ clipped(n) = Rounded(n, InputSize)
      BY <2>1, <1>2, <1>3
    <3>2. Rounded(m, InputSize) <= Rounded(n, InputSize)
      BY <1>2, QuotientMonotone, InputSizeAssumption DEF Rounded
    <3> QED
      BY <3>1, <3>2
  <2>2. CASE m < 0
    BY <2>2, <1>2, <1>3, <1>4
  <2>3. CASE n > size * InputSize
    <3>1. clipped(n) = size
      BY <2>3, <1>2, <1>3, InputSizeAssumption
    <3> QED
      BY <3>1, <1>2, <1>3, <1>4
  <2> QED
    BY <2>1, <2>2, <2>3, <1>2, <1>3
<1>6. scaleBack(x, size, longer) = clipped(m) /\ scaleBack(y, size, longer) = clipped(n)
  BY DEF scaleBack, m, n
<1> QED
  BY <1>2, <1>4, <1>5, <1>6
-----------------------------------------------------------------------------
(* Order                                                                   *)

(* The indices that come before i in Ordered.                              *)
Before(I, key, i) == {j \in I : key[j] < key[i] \/ (key[j] = key[i] /\ j < i)}

(* An index that comes before another one has fewer before it.             *)
LEMMA RankGrows ==
  ASSUME NEW I \in SUBSET Int, IsFiniteSet(I), NEW key, \A i \in I : key[i] \in Int,
         NEW i \in I, NEW j \in I, i \in Before(I, key, j)
  PROVE  Cardinality(Before(I, key, i)) < Cardinality(Before(I, key, j))
<1> DEFINE A == Before(I, key, i)
           B == Before(I, key, j)
<1>1. B \subseteq I /\ IsFiniteSet(B)
  <2>1. B \subseteq I
    BY DEF Before
  <2> HIDE DEF B
  <2> QED
    BY <2>1, FS_Subset
<1>2. i \in B /\ i \notin A
  BY DEF Before
<1>3. A \subseteq B
  <2> SUFFICES ASSUME NEW k \in I, k \in A
               PROVE  k \in B
    BY DEF Before
  <2>1. /\ i \in Int /\ j \in Int /\ k \in Int
        /\ key[i] \in Int /\ key[j] \in Int /\ key[k] \in Int
    OBVIOUS
  <2>2. /\ key[k] < key[i] \/ (key[k] = key[i] /\ k < i)
        /\ key[i] < key[j] \/ (key[i] = key[j] /\ i < j)
    BY DEF Before
  <2>3. key[k] < key[j] \/ (key[k] = key[j] /\ k < j)
    BY <2>1, <2>2
  <2> QED
    BY <2>3 DEF Before
<1>4. A # B
  BY <1>2
<1> HIDE DEF A, B
<1>5. IsFiniteSet(A) /\ Cardinality(A) <= Cardinality(B) /\ Cardinality(A) # Cardinality(B)
  BY <1>1, <1>3, <1>4, FS_Subset
<1>6. Cardinality(A) \in Nat /\ Cardinality(B) \in Nat
  BY <1>1, <1>5, FS_CardinalityType
<1> QED
  BY <1>5, <1>6 DEF A, B

(* Before the members of a set there are 0, 1, 2, ... of them, up to all   *)
(* but one, and before no two of them as many.                             *)
LEMMA RankBijective ==
  ASSUME NEW I \in SUBSET Int, IsFiniteSet(I), NEW key, \A i \in I : key[i] \in Int
  PROVE  /\ \A i \in I : Cardinality(Before(I, key, i)) \in 0..(Cardinality(I) - 1)
         /\ \A i, j \in I :
              Cardinality(Before(I, key, i)) = Cardinality(Before(I, key, j)) => i = j
         /\ \A n \in 0..(Cardinality(I) - 1) :
              \E i \in I : Cardinality(Before(I, key, i)) = n
<1> DEFINE T == 0..(Cardinality(I) - 1)
           rank == [i \in I |-> Cardinality(Before(I, key, i))]
<1>1. Cardinality(I) \in Nat
  BY FS_CardinalityType
<1>2. \A i \in I : rank[i] \in T
  <2> SUFFICES ASSUME NEW i \in I
               PROVE  Cardinality(Before(I, key, i)) \in T
    OBVIOUS
  <2>1. Before(I, key, i) \subseteq I /\ i \notin Before(I, key, i)
    BY DEF Before
  <2>2. /\ IsFiniteSet(Before(I, key, i))
        /\ Cardinality(Before(I, key, i)) <= Cardinality(I)
        /\ Cardinality(Before(I, key, i)) # Cardinality(I)
    BY <2>1, FS_Subset
  <2>3. Cardinality(Before(I, key, i)) \in Nat
    BY <2>2, FS_CardinalityType
  <2> QED
    BY <1>1, <2>2, <2>3
<1>3. \A i, j \in I : i # j => rank[i] # rank[j]
  <2> SUFFICES ASSUME NEW i \in I, NEW j \in I, i # j
               PROVE  rank[i] # rank[j]
    OBVIOUS
  <2>1. rank[i] \in Int /\ rank[j] \in Int
    BY <1>1, <1>2
  <2>2. i \in Before(I, key, j) \/ j \in Before(I, key, i)
    BY DEF Before
  <2>3. rank[i] < rank[j] \/ rank[j] < rank[i]
    BY <2>2, RankGrows
  <2> QED
    BY <2>1, <2>3
<1>4. rank \in Injection(I, T)
  <2>1. rank \in [I -> T] /\ DOMAIN rank = I
    BY <1>2
  <2> HIDE DEF rank, T
  <2>2. \A i, j \in DOMAIN rank : rank[i] = rank[j] => i = j
    BY <2>1, <1>3
  <2> QED
    BY <2>1, <2>2 DEF Injection, IsInjective
<1>5. IsFiniteSet(T) /\ Cardinality(T) = Cardinality(I)
  <2>1. /\ IsFiniteSet(T)
        /\ Cardinality(T) = IF 0 > Cardinality(I) - 1 THEN 0 ELSE (Cardinality(I) - 1) - 0 + 1
    BY <1>1, FS_Interval
  <2> QED
    BY <1>1, <2>1
<1>6. rank \in Surjection(I, T)
  BY <1>4, <1>5, FS_Injection
<1>7. \A n \in T : \E i \in I : rank[i] = n
  BY <1>6 DEF Surjection
<1> QED
  BY <1>2, <1>3, <1>7

(* The member at place n of Ordered has n - 1 before it.                   *)
LEMMA OrderedRank ==
  ASSUME NEW I \in SUBSET Int, IsFiniteSet(I), NEW key, \A i \in I : key[i] \in Int,
         NEW n \in 1..Cardinality(I)
  PROVE  /\ Ordered(I, key)[n] \in I
         /\ Cardinality(Before(I, key, Ordered(I, key)[n])) = n - 1
<1> DEFINE c == Cardinality(I)
           o == Ordered(I, key)
           rank(i) == Cardinality(Before(I, key, i))
<1>1. c \in Nat
  BY FS_CardinalityType
<1>2. o = [k \in 1..c |-> CHOOSE i \in I : rank(i) = k - 1]
  BY DEF Ordered, Before
<1>3. n - 1 \in 0..(c - 1)
  BY <1>1
<1>4. \E i \in I : rank(i) = n - 1
  BY <1>3, RankBijective
<1>5. o[n] = CHOOSE i \in I : rank(i) = n - 1
  BY <1>2
<1> QED
  BY <1>4, <1>5

(* Ordered lists every member of the set, and each of them once.           *)
LEMMA OrderedLists ==
  ASSUME NEW I \in SUBSET Int, IsFiniteSet(I), NEW key, \A i \in I : key[i] \in Int
  PROVE  /\ Ordered(I, key) \in [1..Cardinality(I) -> I]
         /\ \A m, n \in 1..Cardinality(I) : Ordered(I, key)[m] = Ordered(I, key)[n] => m = n
         /\ \A i \in I : \E n \in 1..Cardinality(I) : Ordered(I, key)[n] = i
<1> DEFINE c == Cardinality(I)
           o == Ordered(I, key)
           rank(i) == Cardinality(Before(I, key, i))
<1>1. c \in Nat
  BY FS_CardinalityType
<1>2. o = [n \in 1..c |-> CHOOSE i \in I : rank(i) = n - 1]
  BY DEF Ordered, Before
<1>3. ASSUME NEW n \in 1..c
      PROVE  o[n] \in I /\ rank(o[n]) = n - 1
  BY OrderedRank
<1>4. ASSUME NEW i \in I
      PROVE  \E n \in 1..c : o[n] = i
  <2>1. rank(i) \in 0..(c - 1)
    BY RankBijective
  <2>2. rank(i) + 1 \in 1..c /\ (rank(i) + 1) - 1 = rank(i)
    BY <1>1, <2>1
  <2>3. o[rank(i) + 1] \in I /\ rank(o[rank(i) + 1]) = rank(i)
    <3> DEFINE n == rank(i) + 1
    <3>1. n \in 1..c /\ n - 1 = rank(i)
      BY <2>2
    <3> HIDE DEF n
    <3>2. o[n] \in I /\ rank(o[n]) = n - 1
      BY <3>1, <1>3
    <3> QED
      BY <3>1, <3>2 DEF n
  <2>4. o[rank(i) + 1] = i
    <3> DEFINE k == o[rank(i) + 1]
    <3>1. k \in I /\ rank(k) = rank(i)
      BY <2>3
    <3> HIDE DEF k
    <3>2. \A u, v \in I : rank(u) = rank(v) => u = v
      BY RankBijective
    <3> QED
      BY <3>1, <3>2 DEF k
  <2> QED
    BY <2>2, <2>4
<1>5. o \in [1..c -> I]
  BY <1>2, <1>3
<1>6. ASSUME NEW m \in 1..c, NEW n \in 1..c, o[m] = o[n]
      PROVE  m = n
  BY <1>1, <1>3, <1>6
<1> QED
  BY <1>4, <1>5, <1>6

(* Ordered goes up with the keys.                                          *)
LEMMA OrderedRises ==
  ASSUME NEW I \in SUBSET Int, IsFiniteSet(I), NEW key, \A i \in I : key[i] \in Int,
         NEW m \in 1..Cardinality(I), NEW n \in 1..Cardinality(I), m <= n
  PROVE  key[Ordered(I, key)[m]] <= key[Ordered(I, key)[n]]
<1> DEFINE i == Ordered(I, key)[m]
           j == Ordered(I, key)[n]
<1>1. /\ i \in I /\ Cardinality(Before(I, key, i)) = m - 1
      /\ j \in I /\ Cardinality(Before(I, key, j)) = n - 1
  BY OrderedRank
<1> HIDE DEF i, j
<1>2. m \in Int /\ n \in Int
  BY FS_CardinalityType
<1>3. ~(key[j] < key[i])
  <2> SUFFICES ASSUME key[j] < key[i]
               PROVE  FALSE
    OBVIOUS
  <2>1. j \in Before(I, key, i)
    BY <1>1 DEF Before
  <2>2. Cardinality(Before(I, key, j)) < Cardinality(Before(I, key, i))
    BY <1>1, <2>1, RankGrows
  <2> QED
    BY <1>1, <1>2, <2>2
<1>4. key[i] \in Int /\ key[j] \in Int
  BY <1>1
<1> QED
  BY <1>3, <1>4 DEF i, j

-----------------------------------------------------------------------------
(* Parts of a sequence                                                     *)

(* e holds the elements of s at the indices I, each index once.            *)
Picks(e, s, I) ==
  \E o \in [DOMAIN e -> I] :
    /\ \A n \in DOMAIN e : e[n] = s[o[n]]
    /\ \A m, n \in DOMAIN e : o[m] = o[n] => m = n
    /\ \A i \in I : \E n \in DOMAIN e : o[n] = i

(* A sequence by the order of its indices is a part of it.                 *)
LEMMA OrderedPicks ==
  ASSUME NEW S, NEW s \in Seq(S), NEW I \in SUBSET DOMAIN s,
         NEW key, \A i \in I : key[i] \in Int,
         NEW e, e = [n \in DOMAIN Ordered(I, key) |-> s[Ordered(I, key)[n]]]
  PROVE  e \in Seq(S) /\ Picks(e, s, I)
<1> DEFINE o == Ordered(I, key)
           c == Cardinality(I)
<1>1. DOMAIN s = 1..Len(s) /\ Len(s) \in Nat
  OBVIOUS
<1>2. I \in SUBSET Int /\ IsFiniteSet(I)
  <2>1. IsFiniteSet(1..Len(s))
    BY <1>1, FS_Interval
  <2> QED
    BY <1>1, <2>1, FS_Subset
<1>3. c \in Nat
  BY <1>2, FS_CardinalityType
<1>4. /\ o \in [1..c -> I]
      /\ \A m, n \in 1..c : o[m] = o[n] => m = n
      /\ \A i \in I : \E n \in 1..c : o[n] = i
  BY <1>2, OrderedLists
<1> HIDE DEF o, c
<1>5. e = [n \in 1..c |-> s[o[n]]] /\ DOMAIN e = 1..c
  BY <1>4 DEF o
<1>6. \A n \in 1..c : e[n] \in S
  BY <1>4, <1>5
<1>7. e \in Seq(S)
  BY <1>3, <1>5, <1>6
<1>8. Picks(e, s, I)
  <2>1. o \in [DOMAIN e -> I]
    BY <1>4, <1>5
  <2>2. /\ \A n \in DOMAIN e : e[n] = s[o[n]]
        /\ \A m, n \in DOMAIN e : o[m] = o[n] => m = n
        /\ \A i \in I : \E n \in DOMAIN e : o[n] = i
    BY <1>4, <1>5
  <2> QED
    BY <2>1, <2>2 DEF Picks
<1> QED
  BY <1>7, <1>8

(* ElementsAt is a part of the sequence.                                   *)
LEMMA ElementsAtPicks ==
  ASSUME NEW S, NEW s \in Seq(S), NEW I \in SUBSET DOMAIN s
  PROVE  ElementsAt(s, I) \in Seq(S) /\ Picks(ElementsAt(s, I), s, I)
<1> DEFINE key == [i \in I |-> i]
<1>1. \A i \in I : key[i] \in Int
  OBVIOUS
<1>2. ElementsAt(s, I) = [n \in DOMAIN Ordered(I, key) |-> s[Ordered(I, key)[n]]]
  BY DEF ElementsAt
<1> HIDE DEF key
<1> QED
  BY <1>1, <1>2, OrderedPicks

(* The elements of a part are those at its indices.                        *)
LEMMA PickedElements ==
  ASSUME NEW e, NEW s, NEW I, Picks(e, s, I)
  PROVE  /\ \A n \in DOMAIN e : \E i \in I : e[n] = s[i]
         /\ \A i \in I : \E n \in DOMAIN e : e[n] = s[i]
  BY DEF Picks

(* No two elements of a sequence overlap.                                  *)
NoneOverlap(s) == \A i, j \in DOMAIN s : i # j => ~Overlapping(s[i], s[j])

(* In a part of a sequence two elements overlap only if they do in the     *)
(* sequence.                                                               *)
LEMMA PickedApart ==
  ASSUME NEW s, NEW I, NEW e, Picks(e, s, I),
         \A i, j \in I : i # j => ~Overlapping(s[i], s[j])
  PROVE  NoneOverlap(e)
<1>1. PICK o \in [DOMAIN e -> I] :
        /\ \A n \in DOMAIN e : e[n] = s[o[n]]
        /\ \A m, n \in DOMAIN e : o[m] = o[n] => m = n
  BY DEF Picks
<1> SUFFICES ASSUME NEW m \in DOMAIN e, NEW n \in DOMAIN e, m # n
             PROVE  ~Overlapping(e[m], e[n])
  BY DEF NoneOverlap
<1>2. o[m] \in I /\ o[n] \in I /\ o[m] # o[n] /\ e[m] = s[o[m]] /\ e[n] = s[o[n]]
  BY <1>1
<1>3. ~Overlapping(s[o[m]], s[o[n]])
  BY <1>2
<1> QED
  BY <1>2, <1>3

-----------------------------------------------------------------------------
(* Suppression                                                             *)

(* The boxes of the backends.  A motorcycle is named apart only because    *)
(* the provers do not know that a literal is a string.                     *)
Boxes ==
  [column : Nat, top : Int, bottom : Int, class : STRING \cup {"Motorcycle"},
   confidence : Int, isVehicle : BOOLEAN, isEmergency : BOOLEAN]

(* The larger and the smaller of two integers.                             *)
LEMMA MaxOfTwo ==
  ASSUME NEW a \in Int, NEW b \in Int
  PROVE  Max({a, b}) = IF a >= b THEN a ELSE b
<1> DEFINE m == IF a >= b THEN a ELSE b
<1>1. m \in {a, b} /\ \A y \in {a, b} : m >= y
  OBVIOUS
<1>2. \A x \in {a, b} : (\A y \in {a, b} : x >= y) => x = m
  OBVIOUS
<1> QED
  BY <1>1, <1>2 DEF Max

(* The same for the smaller one.                                           *)
LEMMA MinOfTwo ==
  ASSUME NEW a \in Int, NEW b \in Int
  PROVE  Min({a, b}) = IF a <= b THEN a ELSE b
<1> DEFINE m == IF a <= b THEN a ELSE b
<1>1. m \in {a, b} /\ \A y \in {a, b} : m <= y
  OBVIOUS
<1>2. \A x \in {a, b} : (\A y \in {a, b} : x <= y) => x = m
  OBVIOUS
<1> QED
  BY <1>1, <1>2 DEF Min

(* Two boxes overlap each other.                                           *)
LEMMA OverlappingSymmetric ==
  ASSUME NEW d, NEW e, d.top \in Int, d.bottom \in Int, e.top \in Int, e.bottom \in Int
  PROVE  Overlapping(d, e) <=> Overlapping(e, d)
<1>1. Common(d, e) = Common(e, d)
  <2>1. {d.bottom, e.bottom} = {e.bottom, d.bottom} /\ {d.top, e.top} = {e.top, d.top}
    OBVIOUS
  <2> QED
    BY <2>1 DEF Common
<1> DEFINE u == Height(d) + Height(e) - Common(d, e)
           v == Height(e) + Height(d) - Common(e, d)
<1>2. u = v
  <2>1. /\ Min({d.bottom, e.bottom}) \in Int
        /\ Max({d.top, e.top}) \in Int
    BY MinOfTwo, MaxOfTwo
  <2>2. Min({d.bottom, e.bottom}) - Max({d.top, e.top}) \in Int
    BY <2>1
  <2>3. Common(d, e) \in Int
    BY <2>2, MaxOfTwo DEF Common
  <2>4. Height(d) \in Int /\ Height(e) \in Int
    BY DEF Height
  <2> QED
    BY <1>1, <2>3, <2>4
<1>3. Height(d) + Height(e) = Height(e) + Height(d)
  BY DEF Height
<1>4. /\ Overlapping(d, e) <=> (Height(d) + Height(e) <= 0
                                  \/ 100 * Common(d, e) > NmsThreshold * u)
      /\ Overlapping(e, d) <=> (Height(e) + Height(d) <= 0
                                  \/ 100 * Common(e, d) > NmsThreshold * v)
  BY DEF Overlapping
<1> HIDE DEF u, v
<1> QED
  BY <1>1, <1>2, <1>3, <1>4

(* The boxes that come before the one at j.                                *)
Ahead(s, j) == {i \in DOMAIN s : Sooner(s, i, j)}

(* There are as many boxes ahead of a box as it has a place in the order,  *)
(* fewer than ahead of a box that comes later.                             *)
LEMMA AheadGrows ==
  ASSUME NEW s \in Seq(Boxes), NEW i \in DOMAIN s, NEW j \in DOMAIN s, Sooner(s, i, j)
  PROVE  /\ Cardinality(Ahead(s, i)) \in Nat
         /\ Cardinality(Ahead(s, j)) \in Nat
         /\ Cardinality(Ahead(s, i)) < Cardinality(Ahead(s, j))
<1> DEFINE A == Ahead(s, i)
           B == Ahead(s, j)
<1>1. DOMAIN s = 1..Len(s) /\ Len(s) \in Nat /\ IsFiniteSet(1..Len(s))
  <2>1. DOMAIN s = 1..Len(s) /\ Len(s) \in Nat
    OBVIOUS
  <2> QED
    BY <2>1, FS_Interval
<1>2. \A k \in DOMAIN s : k \in Int /\ s[k].confidence \in Int
  <2> SUFFICES ASSUME NEW k \in DOMAIN s
               PROVE  k \in Int /\ s[k].confidence \in Int
    OBVIOUS
  <2>1. k \in Int /\ s[k] \in Boxes
    BY <1>1
  <2> QED
    BY <2>1 DEF Boxes
<1>3. i \in B /\ i \notin A
  BY <1>2 DEF Ahead, Sooner
<1>4. A \subseteq B
  <2> SUFFICES ASSUME NEW k \in DOMAIN s, Sooner(s, k, i)
               PROVE  Sooner(s, k, j)
    BY DEF Ahead
  <2> QED
    BY <1>2 DEF Sooner
<1>5. A \subseteq DOMAIN s /\ B \subseteq DOMAIN s
  BY DEF Ahead
<1> HIDE DEF A, B
<1>6. IsFiniteSet(A) /\ IsFiniteSet(B)
  BY <1>1, <1>5, FS_Subset
<1>7. Cardinality(A) <= Cardinality(B) /\ Cardinality(A) # Cardinality(B)
  BY <1>3, <1>4, <1>6, FS_Subset
<1>8. Cardinality(A) \in Nat /\ Cardinality(B) \in Nat
  BY <1>6, FS_CardinalityType
<1> QED
  BY <1>7, <1>8 DEF A, B

(* What the suppression keeps of some of the boxes.                        *)
KeepsAmong(s, D, K) ==
  /\ K \subseteq D
  /\ \A j \in D : j \in K <=> ~\E i \in K : Sooner(s, i, j) /\ Overlapping(s[i], s[j])

(* A set of naturals that has a member has a least one.                    *)
LEMMA LeastNatural ==
  ASSUME NEW T \in SUBSET Nat, T # {}
  PROVE  \E n \in T : \A m \in T : n <= m
<1>1. \E n \in T : \A m \in T : ~(<<m, n>> \in OpToRel(<, Nat))
  BY NatLessThanWellFounded, WFMin
<1>2. PICK n \in T : \A m \in T : ~(<<m, n>> \in OpToRel(<, Nat))
  BY <1>1
<1>3. \A m \in T : ~(m < n)
  <2> SUFFICES ASSUME NEW m \in T, m < n
               PROVE  FALSE
    OBVIOUS
  <2>1. <<m, n>> \in Nat \X Nat /\ <<m, n>>[1] < <<m, n>>[2]
    OBVIOUS
  <2>2. <<m, n>> \in OpToRel(<, Nat)
    BY <2>1 DEF OpToRel
  <2> QED
    BY <1>2, <2>2
<1> QED
  BY <1>3

(* There is a set that the suppression keeps, whatever the boxes: of the   *)
(* boxes with fewer than n ahead of them it is found from n to n, because  *)
(* what suppresses a box has fewer ahead of it.                            *)
LEMMA KernelExists ==
  ASSUME NEW s \in Seq(Boxes)
  PROVE  \E K \in SUBSET DOMAIN s : KeepsAmong(s, DOMAIN s, K)
<1> DEFINE rank(j) == Cardinality(Ahead(s, j))
           Among(n) == {j \in DOMAIN s : rank(j) < n}
           Bad == {n \in Nat : ~\E K \in SUBSET DOMAIN s : KeepsAmong(s, Among(n), K)}
<1>1. DOMAIN s = 1..Len(s) /\ Len(s) \in Nat /\ IsFiniteSet(1..Len(s))
  <2>1. DOMAIN s = 1..Len(s) /\ Len(s) \in Nat
    OBVIOUS
  <2> QED
    BY <2>1, FS_Interval
<1>2. \A j \in DOMAIN s : rank(j) \in 0..Len(s)
  <2> SUFFICES ASSUME NEW j \in DOMAIN s
               PROVE  Cardinality(Ahead(s, j)) \in 0..Len(s)
    OBVIOUS
  <2>1. Ahead(s, j) \in SUBSET (1..Len(s))
    BY <1>1 DEF Ahead
  <2>2. Cardinality(1..Len(s)) = Len(s)
    <3>1. Cardinality(1..Len(s)) = IF 1 > Len(s) THEN 0 ELSE Len(s) - 1 + 1
      BY <1>1, FS_Interval
    <3> QED
      BY <1>1, <3>1
  <2>3. IsFiniteSet(Ahead(s, j)) /\ Cardinality(Ahead(s, j)) <= Len(s)
    BY <1>1, <2>1, <2>2, FS_Subset
  <2> QED
    BY <1>1, <2>3, FS_CardinalityType
<1>3. 0 \notin Bad
  <2>1. Among(0) = {}
    BY <1>2
  <2>2. KeepsAmong(s, Among(0), {})
    BY <2>1 DEF KeepsAmong
  <2> QED
    BY <2>2
<1>4. ASSUME NEW n \in Nat, n \notin Bad
      PROVE  n + 1 \notin Bad
  <2>1. PICK K \in SUBSET DOMAIN s : KeepsAmong(s, Among(n), K)
    BY <1>4
  <2> DEFINE free(j) == ~\E i \in K : Sooner(s, i, j) /\ Overlapping(s[i], s[j])
             L == K \cup {j \in Among(n + 1) \ Among(n) : free(j)}
  <2>2. Among(n) \subseteq Among(n + 1) /\ \A j \in Among(n + 1) \ Among(n) : rank(j) = n
    BY <1>2
  <2>3. L \subseteq Among(n + 1) /\ L \subseteq DOMAIN s
    BY <2>1, <2>2 DEF KeepsAmong
  <2>4. \A i \in L, j \in Among(n + 1) : Sooner(s, i, j) => i \in K
    <3> SUFFICES ASSUME NEW i \in L, NEW j \in Among(n + 1), Sooner(s, i, j), i \notin K
                 PROVE  FALSE
      OBVIOUS
    <3>1. i \in DOMAIN s /\ j \in DOMAIN s /\ rank(i) = n /\ rank(j) < n + 1
      BY <2>2, <2>3
    <3>2. rank(i) < rank(j) /\ rank(i) \in Nat /\ rank(j) \in Nat
      BY <3>1, AheadGrows
    <3> QED
      BY <3>1, <3>2
  <2>5. ASSUME NEW j \in Among(n + 1)
        PROVE  (\E i \in L : Sooner(s, i, j) /\ Overlapping(s[i], s[j])) <=> ~free(j)
    BY <2>4
  <2>6. ASSUME NEW j \in Among(n + 1)
        PROVE  j \in L <=> free(j)
    <3>1. CASE j \in Among(n)
      BY <2>1, <3>1 DEF KeepsAmong
    <3>2. CASE j \notin Among(n)
      <4>1. j \notin K
        BY <2>1, <3>2 DEF KeepsAmong
      <4> QED
        BY <3>2, <4>1
    <3> QED
      BY <3>1, <3>2
  <2>7. KeepsAmong(s, Among(n + 1), L)
    BY <2>3, <2>5, <2>6 DEF KeepsAmong
  <2> QED
    BY <2>3, <2>7
<1>5. Bad = {}
  <2> SUFFICES ASSUME Bad # {}
               PROVE  FALSE
    OBVIOUS
  <2>1. Bad \in SUBSET Nat
    OBVIOUS
  <2> HIDE DEF Bad
  <2>2. PICK n \in Bad : \A m \in Bad : n <= m
    BY <2>1, LeastNatural
  <2>3. n \in Nat /\ n # 0
    BY <1>3, <2>1
  <2>4. n - 1 \in Nat /\ (n - 1) + 1 = n /\ ~(n <= n - 1)
    BY <2>3
  <2>5. n - 1 \notin Bad
    BY <2>2, <2>4
  <2>6. (n - 1) + 1 \notin Bad
    BY <1>4, <2>4, <2>5
  <2> QED
    BY <2>4, <2>6
<1>6. Among(Len(s) + 1) = DOMAIN s
  BY <1>1, <1>2
<1>7. Len(s) + 1 \in Nat
  BY <1>1
<1>8. Len(s) + 1 \notin Bad
  BY <1>5, Zenon
<1>9. \E K \in SUBSET DOMAIN s : KeepsAmong(s, Among(Len(s) + 1), K)
  BY <1>7, <1>8
<1> QED
  BY <1>6, <1>9

(* The suppression keeps a box exactly when no box that it keeps, and that *)
(* comes sooner, overlaps it.                                              *)
LEMMA KeptIsKernel ==
  ASSUME NEW s \in Seq(Boxes)
  PROVE  KeepsAmong(s, DOMAIN s, Kept(s))
<1>1. Kept(s) = CHOOSE K \in SUBSET DOMAIN s :
        \A j \in DOMAIN s : j \in K <=> ~\E i \in K : Sooner(s, i, j) /\ Overlapping(s[i], s[j])
  BY DEF Kept
<1>2. \E K \in SUBSET DOMAIN s :
        \A j \in DOMAIN s : j \in K <=> ~\E i \in K : Sooner(s, i, j) /\ Overlapping(s[i], s[j])
  BY KernelExists DEF KeepsAmong
<1> QED
  BY <1>1, <1>2 DEF KeepsAmong

(* The suppression keeps a part of the boxes, of which none overlap.       *)
LEMMA NMSKeeps ==
  ASSUME NEW S \in SUBSET Boxes, NEW s \in Seq(S)
  PROVE  /\ NMSBoxes(s) \in Seq(S)
         /\ Picks(NMSBoxes(s), s, Kept(s))
         /\ NoneOverlap(NMSBoxes(s))
<1> DEFINE key == [i \in DOMAIN s |-> -s[i].confidence]
<1>1. s \in Seq(Boxes) /\ DOMAIN s = 1..Len(s) /\ \A i \in DOMAIN s : s[i] \in Boxes /\ i \in Int
  OBVIOUS
<1>2. Kept(s) \in SUBSET DOMAIN s
  BY <1>1, KeptIsKernel DEF KeepsAmong
<1>3. \A i \in Kept(s) : key[i] \in Int
  <2> SUFFICES ASSUME NEW i \in DOMAIN s
               PROVE  -s[i].confidence \in Int
    BY <1>2
  <2>1. s[i].confidence \in Int
    BY <1>1 DEF Boxes
  <2> QED
    BY <2>1
<1>4. NMSBoxes(s) = [n \in DOMAIN Ordered(Kept(s), key) |-> s[Ordered(Kept(s), key)[n]]]
  BY DEF NMSBoxes
<1> HIDE DEF key
<1>5. NMSBoxes(s) \in Seq(S) /\ Picks(NMSBoxes(s), s, Kept(s))
  BY <1>2, <1>3, <1>4, OrderedPicks
<1>6. ASSUME NEW i \in Kept(s), NEW j \in Kept(s), i # j
      PROVE  ~Overlapping(s[i], s[j])
  <2>1. /\ s[i].confidence \in Int /\ s[i].top \in Int /\ s[i].bottom \in Int
        /\ s[j].confidence \in Int /\ s[j].top \in Int /\ s[j].bottom \in Int
    BY <1>1, <1>2 DEF Boxes
  <2>2. i \in Int /\ j \in Int
    BY <1>1, <1>2
  <2>3. Sooner(s, i, j) \/ Sooner(s, j, i)
    BY <1>6, <2>1, <2>2 DEF Sooner
  <2>4. Overlapping(s[i], s[j]) <=> Overlapping(s[j], s[i])
    BY <2>1, OverlappingSymmetric
  <2> QED
    BY <1>1, <2>3, <2>4, KeptIsKernel DEF KeepsAmong
<1> QED
  BY <1>5, <1>6, PickedApart

(* A box that the suppression drops is covered by one at least as          *)
(* confident.                                                              *)
LEMMA DroppedIsCovered ==
  ASSUME NEW s \in Seq(Boxes), NEW j \in DOMAIN s
  PROVE  \/ j \in Kept(s)
         \/ \E i \in Kept(s) : /\ s[i].confidence >= s[j].confidence
                               /\ Overlapping(s[j], s[i])
<1> SUFFICES ASSUME j \notin Kept(s)
             PROVE  \E i \in Kept(s) : /\ s[i].confidence >= s[j].confidence
                                       /\ Overlapping(s[j], s[i])
  OBVIOUS
<1>1. PICK i \in Kept(s) : Sooner(s, i, j) /\ Overlapping(s[i], s[j])
  BY KeptIsKernel DEF KeepsAmong
<1>2. i \in DOMAIN s
  BY KeptIsKernel DEF KeepsAmong
<1>3. /\ s[i].confidence \in Int /\ s[i].top \in Int /\ s[i].bottom \in Int
      /\ s[j].confidence \in Int /\ s[j].top \in Int /\ s[j].bottom \in Int
  <2>1. s[i] \in Boxes /\ s[j] \in Boxes
    BY <1>2
  <2> QED
    BY <2>1 DEF Boxes
<1>4. s[i].confidence >= s[j].confidence
  BY <1>1, <1>3 DEF Sooner
<1>5. Overlapping(s[j], s[i])
  BY <1>1, <1>3, OverlappingSymmetric
<1> QED
  BY <1>4, <1>5

-----------------------------------------------------------------------------
(* Backends                                                                *)

(* The boxes that a backend makes of what the model saw.                   *)
Told(b) ==
  {d \in Boxes : /\ d.isVehicle <=> isVehicleClass(b, d.class)
                 /\ d.isEmergency <=> isEmergencyClass(b, d.class)}

(* A row of populateDetection is one of them.                              *)
LEMMA PopulateTold ==
  ASSUME NEW b, NEW a, a.column \in Nat, a.class \in STRING, a.score \in Int,
         NEW top \in Int, NEW bottom \in Int
  PROVE  populateDetection(b, a, top, bottom) \in Told(b)
<1> DEFINE d == populateDetection(b, a, top, bottom)
<1>1. isVehicleClass(b, a.class) \in BOOLEAN /\ isEmergencyClass(b, a.class) \in BOOLEAN
  BY DEF isVehicleClass, isEmergencyClass
<1>2. /\ d \in Boxes /\ d.class = a.class
      /\ d.isVehicle = isVehicleClass(b, a.class)
      /\ d.isEmergency = isEmergencyClass(b, a.class)
  BY <1>1 DEF populateDetection, Boxes
<1> HIDE DEF d
<1> QED
  BY <1>2 DEF Told, d

(* The decoding makes nothing else.                                        *)
LEMMA DecodedTold ==
  ASSUME NEW b \in Backend, NEW as \in Seq(Palette[b])
  PROVE  Decoded(b, as) \in Seq(Told(b))
<1> DEFINE I == {i \in DOMAIN as : as[i].score > ConfThreshold[b]}
           confident == ElementsAt(as, I)
           row(y) == scaleBack(y, FrameRows, FrameCols)
           found(i) == populateDetection(b, confident[i], row(confident[i].y1),
                                         row(confident[i].y2))
<1>1. I \in SUBSET DOMAIN as
  OBVIOUS
<1> HIDE DEF I
<1>2. confident \in Seq(Palette[b])
  BY <1>1, ElementsAtPicks
<1>3. Decoded(b, as) = [i \in DOMAIN confident |-> found(i)]
  BY DEF Decoded, I
<1> HIDE DEF confident
<1>4. \A y \in Int : row(y) \in Int
  <2> SUFFICES ASSUME NEW y \in Int
               PROVE  scaleBack(y, FrameRows, FrameCols) \in Int
    OBVIOUS
  <2>1. FrameCols \in Nat \ {0} /\ FrameRows \in 1..FrameCols /\ y <= y
    BY DetectionsAssumption
  <2>2. scaleBack(y, FrameRows, FrameCols) \in 0..FrameRows
    BY <2>1, BoxInFrame
  <2> QED
    BY <2>1, <2>2
<1> HIDE DEF row
<1>5. ASSUME NEW i \in DOMAIN confident
      PROVE  found(i) \in Told(b)
  <2>1. confident[i] \in Palette[b]
    BY <1>2
  <2>2. confident[i] \in [column : Nat, y1 : Int, y2 : Int, class : STRING, score : Int]
    BY <2>1, DetectionsAssumption
  <2> DEFINE a == confident[i]
  <2>3. /\ a.column \in Nat /\ a.class \in STRING /\ a.score \in Int
        /\ a.y1 \in Int /\ a.y2 \in Int
    BY <2>2
  <2> HIDE DEF a
  <2>4. populateDetection(b, a, row(a.y1), row(a.y2)) \in Told(b)
    BY <1>4, <2>3, PopulateTold
  <2> QED
    BY <2>4 DEF a
<1> HIDE DEF found
<1>6. DOMAIN confident = 1..Len(confident) /\ Len(confident) \in Nat
  BY <1>2
<1> QED
  BY <1>3, <1>5, <1>6

(* Whether two boxes overlap depends on where they are.                    *)
SamePlace(d, e) == d.column = e.column /\ d.top = e.top /\ d.bottom = e.bottom

(* Boxes in the places of two others overlap as these do.                  *)
LEMMA OverlappingByPlace ==
  ASSUME NEW d, NEW e, NEW f, NEW g, SamePlace(d, f), SamePlace(e, g)
  PROVE  Overlapping(d, e) <=> Overlapping(f, g)
<1>1. Common(d, e) = Common(f, g)
  BY DEF SamePlace, Common
<1>2. Height(d) = Height(f) /\ Height(e) = Height(g)
  BY DEF SamePlace, Height
<1> QED
  BY <1>1, <1>2 DEF Overlapping

(* A motorcycle made up for a person stands where the person stood.        *)
LEMMA RiderInPlace ==
  ASSUME NEW d \in Boxes,
         NEW r, r = [d EXCEPT !.class = "Motorcycle", !.isVehicle = TRUE, !.isEmergency = FALSE]
  PROVE  r \in Boxes /\ ~r.isEmergency /\ SamePlace(r, d)
<1>1. r \in Boxes
  BY DEF Boxes
<1>2. ~r.isEmergency /\ r.column = d.column /\ r.top = d.top /\ r.bottom = d.bottom
  BY DEF Boxes
<1> QED
  BY <1>1, <1>2 DEF SamePlace

(* One sequence after another.                                             *)
LEMMA Concatenated ==
  ASSUME NEW S, NEW s \in Seq(S), NEW t \in Seq(S)
  PROVE  /\ s \o t \in Seq(S)
         /\ Len(s \o t) = Len(s) + Len(t)
         /\ \A n \in 1..(Len(s) + Len(t)) :
              (s \o t)[n] = IF n <= Len(s) THEN s[n] ELSE t[n - Len(s)]
  OBVIOUS

(* What the loop of the YOLOv8 backend makes of boxes of which none        *)
(* overlap: riders stand where their persons stood, an emergency is none   *)
(* of them, and no vehicle is lost.                                        *)
LEMMA RidersApart ==
  ASSUME NEW kept \in Seq(Told("yolov8")), NoneOverlap(kept)
  PROVE  /\ WithRiders(kept) \in Seq(Boxes)
         /\ NoneOverlap(WithRiders(kept))
         /\ \A n \in DOMAIN WithRiders(kept) :
              WithRiders(kept)[n].isEmergency =>
                \E i \in DOMAIN kept : WithRiders(kept)[n] = kept[i]
         /\ \A i \in DOMAIN kept :
              kept[i].class # "Person" /\ kept[i].isVehicle =>
                \E n \in DOMAIN WithRiders(kept) : WithRiders(kept)[n] = kept[i]
<1> DEFINE I == {i \in DOMAIN kept : kept[i].class # "Person" /\ kept[i].isVehicle}
           J == {i \in DOMAIN kept : kept[i].class = "Person"}
           M == {i \in DOMAIN kept : kept[i].class = "Motorcycle"}
           v == ElementsAt(kept, I)
           persons == ElementsAt(kept, J)
           motorcycles == ElementsAt(kept, M)
           count == Max({0, Len(persons) - Len(motorcycles)})
           rider(d) == [d EXCEPT !.class = "Motorcycle", !.isVehicle = TRUE,
                                 !.isEmergency = FALSE]
           riders == [i \in 1..count |-> rider(persons[i])]
           W == v \o riders
<1>1. WithRiders(kept) = W
  BY DEF WithRiders
<1>2. I \in SUBSET DOMAIN kept /\ J \in SUBSET DOMAIN kept /\ M \in SUBSET DOMAIN kept
  OBVIOUS
<1>3. I \cap J = {}
  OBVIOUS
<1>4. kept \in Seq(Boxes)
  BY DEF Told
<1>5. \A i \in DOMAIN kept : kept[i].class # "Person" /\ kept[i].isVehicle <=> i \in I
  OBVIOUS
<1> HIDE DEF I, J, M
<1>6. /\ v \in Seq(Boxes) /\ Picks(v, kept, I)
      /\ persons \in Seq(Boxes) /\ Picks(persons, kept, J)
      /\ motorcycles \in Seq(Boxes)
  BY <1>2, <1>4, ElementsAtPicks
<1> HIDE DEF v, persons, motorcycles
<1>7. /\ Len(v) \in Nat /\ DOMAIN v = 1..Len(v)
      /\ Len(persons) \in Nat /\ DOMAIN persons = 1..Len(persons)
      /\ Len(motorcycles) \in Nat
  BY <1>6
<1>8. count \in 0..Len(persons)
  <2>1. Len(persons) - Len(motorcycles) \in Int
    BY <1>7
  <2>2. count = IF 0 >= Len(persons) - Len(motorcycles) THEN 0
                ELSE Len(persons) - Len(motorcycles)
    BY <2>1, MaxOfTwo
  <2> QED
    BY <1>7, <2>2
<1> HIDE DEF count
<1>9. ASSUME NEW d \in Boxes
      PROVE  rider(d) \in Boxes /\ ~rider(d).isEmergency /\ SamePlace(rider(d), d)
  BY RiderInPlace
<1> HIDE DEF rider
<1>10. \A i \in 1..count : persons[i] \in Boxes /\ i \in DOMAIN persons
  BY <1>6, <1>7, <1>8
<1>11. /\ riders \in Seq(Boxes) /\ Len(riders) = count
       /\ \A i \in 1..count : riders[i] = rider(persons[i])
  BY <1>8, <1>9, <1>10
<1> HIDE DEF riders
<1>12. /\ W \in Seq(Boxes) /\ Len(W) = Len(v) + count /\ DOMAIN W = 1..(Len(v) + count)
       /\ \A n \in 1..(Len(v) + count) :
            W[n] = IF n <= Len(v) THEN v[n] ELSE riders[n - Len(v)]
  <2>1. v \in Seq(Boxes) /\ riders \in Seq(Boxes)
    BY <1>6, <1>11
  <2>2. /\ W \in Seq(Boxes) /\ Len(W) = Len(v) + Len(riders)
        /\ \A n \in 1..(Len(v) + Len(riders)) :
             W[n] = IF n <= Len(v) THEN v[n] ELSE riders[n - Len(v)]
    BY <2>1, Concatenated
  <2> QED
    BY <1>11, <2>2
<1> HIDE DEF W
<1>13. PICK o \in [DOMAIN v -> I] :
         /\ \A n \in DOMAIN v : v[n] = kept[o[n]]
         /\ \A m, n \in DOMAIN v : o[m] = o[n] => m = n
         /\ \A i \in I : \E n \in DOMAIN v : o[n] = i
  BY <1>6 DEF Picks
<1>14. PICK p \in [DOMAIN persons -> J] :
         /\ \A n \in DOMAIN persons : persons[n] = kept[p[n]]
         /\ \A m, n \in DOMAIN persons : p[m] = p[n] => m = n
  BY <1>6 DEF Picks
<1> DEFINE w(n) == IF n <= Len(v) THEN o[n] ELSE p[n - Len(v)]
<1>15. ASSUME NEW n \in 1..(Len(v) + count), n > Len(v)
       PROVE  /\ n - Len(v) \in 1..count /\ n - Len(v) \in DOMAIN persons
              /\ W[n] = rider(kept[p[n - Len(v)]]) /\ kept[p[n - Len(v)]] \in Boxes
              /\ w(n) = p[n - Len(v)] /\ w(n) \in J
  <2>1. n - Len(v) \in 1..count /\ ~(n <= Len(v))
    BY <1>7, <1>8, <1>15
  <2>2. W[n] = riders[n - Len(v)] /\ w(n) = p[n - Len(v)]
    BY <1>12, <2>1
  <2>3. n - Len(v) \in DOMAIN persons /\ persons[n - Len(v)] \in Boxes
    BY <1>10, <2>1
  <2> QED
    BY <1>11, <1>14, <2>1, <2>2, <2>3
<1>16. ASSUME NEW n \in 1..(Len(v) + count), n <= Len(v)
       PROVE  n \in DOMAIN v /\ W[n] = kept[o[n]] /\ w(n) = o[n] /\ w(n) \in I
  <2>1. n \in DOMAIN v
    BY <1>7, <1>8, <1>16
  <2>2. W[n] = v[n] /\ w(n) = o[n]
    BY <1>12, <1>16
  <2> QED
    BY <1>13, <2>1, <2>2
<1>17. \A n \in 1..(Len(v) + count) : w(n) \in DOMAIN kept /\ SamePlace(W[n], kept[w(n)])
  <2> SUFFICES ASSUME NEW n \in 1..(Len(v) + count)
               PROVE  w(n) \in DOMAIN kept /\ SamePlace(W[n], kept[w(n)])
    OBVIOUS
  <2>1. CASE n <= Len(v)
    BY <1>2, <1>16, <2>1 DEF SamePlace
  <2>2. CASE ~(n <= Len(v))
    <3>1. n > Len(v)
      BY <1>7, <1>8, <2>2
    <3> QED
      BY <1>2, <1>9, <1>15, <3>1
  <2> QED
    BY <2>1, <2>2
<1>18. ASSUME NEW m \in 1..(Len(v) + count), NEW n \in 1..(Len(v) + count), w(m) = w(n)
       PROVE  m = n
  <2>1. m \in Int /\ n \in Int /\ Len(v) \in Int
    BY <1>7, <1>8
  <2>2. CASE m <= Len(v) /\ n <= Len(v)
    BY <1>13, <1>16, <1>18, <2>2
  <2>3. CASE m > Len(v) /\ n > Len(v)
    <3>1. m - Len(v) = n - Len(v)
      BY <1>14, <1>15, <1>18, <2>3
    <3> QED
      BY <2>1, <3>1
  <2>4. CASE (m <= Len(v) /\ n > Len(v)) \/ (m > Len(v) /\ n <= Len(v))
    <3>1. w(m) \in I \cap J
      BY <1>15, <1>16, <1>18, <2>4
    <3> QED
      BY <1>3, <3>1
  <2> QED
    BY <2>1, <2>2, <2>3, <2>4
<1> HIDE DEF w
<1>19. NoneOverlap(W)
  <2> SUFFICES ASSUME NEW m \in 1..(Len(v) + count), NEW n \in 1..(Len(v) + count), m # n
               PROVE  ~Overlapping(W[m], W[n])
    BY <1>12 DEF NoneOverlap
  <2>1. w(m) \in DOMAIN kept /\ w(n) \in DOMAIN kept /\ w(m) # w(n)
    BY <1>17, <1>18
  <2>2. ~Overlapping(kept[w(m)], kept[w(n)])
    BY <2>1 DEF NoneOverlap
  <2> QED
    BY <1>17, <2>2, OverlappingByPlace
<1>20. ASSUME NEW n \in DOMAIN W, W[n].isEmergency
       PROVE  \E i \in DOMAIN kept : W[n] = kept[i]
  <2>1. n \in 1..(Len(v) + count)
    BY <1>12
  <2>2. n <= Len(v)
    <3> SUFFICES ASSUME n > Len(v)
                 PROVE  FALSE
      BY <1>7, <1>8, <2>1
    <3> QED
      BY <1>9, <1>15, <1>20, <2>1
  <2> QED
    BY <1>2, <1>13, <1>16, <2>1, <2>2
<1>21. ASSUME NEW i \in I
       PROVE  \E n \in DOMAIN W : W[n] = kept[i]
  <2>1. PICK n \in DOMAIN v : o[n] = i
    BY <1>13
  <2>2. n \in 1..(Len(v) + count) /\ n <= Len(v)
    BY <1>7, <1>8, <2>1
  <2> QED
    BY <1>12, <1>16, <2>1, <2>2
<1> QED
  BY <1>1, <1>5, <1>12, <1>19, <1>20, <1>21

(* What the model saw, as boxes of the frame.                              *)
Found(b, as) == IF b \in Yolo THEN ToSet(Decoded(b, as)) ELSE ToSet(postprocessRtDetr(as))

(* Something at least as confident covers the box.                         *)
Covered(b, found, d) ==
  \E e \in found \ {d} : b \in Yolo /\ e.confidence >= d.confidence /\ Overlapping(d, e)

(* The result of a backend is true to what the model saw.                  *)
TrueTo(b, found, result) ==
  /\ result \in Seq(Boxes)
  /\ b \in Yolo => NoneOverlap(result)
  /\ \A n \in DOMAIN result :
       result[n].isEmergency => result[n] \in found /\ result[n].class = EmergencyClass[b]
  /\ EmergencyIsCounted =>
       \A d \in found :
         d.class = EmergencyClass[b] /\ ~Covered(b, found, d) =>
           \E n \in DOMAIN result : result[n] = d /\ d.isVehicle /\ d.isEmergency

(* An emergency is a vehicle.                                              *)
LEMMA EmergencyTold ==
  ASSUME NEW b, NEW d \in Told(b)
  PROVE  /\ d.isEmergency <=> d.class = EmergencyClass[b]
         /\ d.isEmergency => d.isVehicle
  BY DEF Told, isVehicleClass, isEmergencyClass

(* The suppression of a YOLO backend loses only what is covered.           *)
LEMMA SuppressionFaithful ==
  ASSUME NEW b \in Yolo, NEW s \in Seq(Told(b))
  PROVE  /\ NMSBoxes(s) \in Seq(Told(b))
         /\ NoneOverlap(NMSBoxes(s))
         /\ \A i \in DOMAIN NMSBoxes(s) : NMSBoxes(s)[i] \in ToSet(s)
         /\ \A d \in ToSet(s) : ~Covered(b, ToSet(s), d) =>
              \E i \in DOMAIN NMSBoxes(s) : NMSBoxes(s)[i] = d
<1>1. Told(b) \in SUBSET Boxes /\ s \in Seq(Boxes)
  BY DEF Told
<1>2. /\ NMSBoxes(s) \in Seq(Told(b)) /\ NoneOverlap(NMSBoxes(s))
      /\ Picks(NMSBoxes(s), s, Kept(s))
  BY <1>1, NMSKeeps
<1>3. Kept(s) \subseteq DOMAIN s
  BY <1>1, KeptIsKernel DEF KeepsAmong
<1>4. \A i \in DOMAIN NMSBoxes(s) : NMSBoxes(s)[i] \in ToSet(s)
  BY <1>2, <1>3, PickedElements DEF ToSet
<1>5. ASSUME NEW d \in ToSet(s), ~Covered(b, ToSet(s), d)
      PROVE  \E i \in DOMAIN NMSBoxes(s) : NMSBoxes(s)[i] = d
  <2>1. PICK j \in DOMAIN s : s[j] = d
    BY DEF ToSet
  <2>2. PICK i \in Kept(s) : s[i] = d
    <3>1. CASE j \in Kept(s)
      BY <2>1, <3>1
    <3>2. CASE \E i \in Kept(s) : s[i].confidence >= s[j].confidence /\ Overlapping(s[j], s[i])
      <4>1. PICK i \in Kept(s) : s[i].confidence >= d.confidence /\ Overlapping(d, s[i])
        BY <2>1, <3>2
      <4>2. s[i] \in ToSet(s)
        BY <1>3 DEF ToSet
      <4>3. s[i] = d
        BY <1>5, <4>1, <4>2 DEF Covered
      <4> QED
        BY <4>3
    <3> QED
      BY <1>1, <3>1, <3>2, DroppedIsCovered
  <2> QED
    BY <1>2, <2>2, PickedElements
<1> QED
  BY <1>2, <1>4, <1>5

(* The YOLOv8 backend is true to what the model saw.                       *)
LEMMA YoloV8True ==
  ASSUME "yolov8" \in Backend, NEW as \in Seq(Palette["yolov8"])
  PROVE  TrueTo("yolov8", ToSet(Decoded("yolov8", as)), postprocessYoloV8(as))
<1> DEFINE b == "yolov8"
           s == Decoded(b, as)
           kept == NMSBoxes(s)
           found == ToSet(s)
           result == WithRiders(kept)
<1>1. b \in Yolo /\ postprocessYoloV8(as) = result
  BY DEF Yolo, postprocessYoloV8
<1>2. s \in Seq(Told(b))
  BY DecodedTold
<1> HIDE DEF s
<1>3. /\ kept \in Seq(Told(b)) /\ NoneOverlap(kept)
      /\ \A i \in DOMAIN kept : kept[i] \in found
      /\ \A d \in found : ~Covered(b, found, d) => \E i \in DOMAIN kept : kept[i] = d
  BY <1>1, <1>2, SuppressionFaithful
<1>4. \A i \in DOMAIN kept : kept[i] \in Told(b)
  BY <1>3
<1> HIDE DEF kept, found
<1>5. /\ result \in Seq(Boxes) /\ NoneOverlap(result)
      /\ \A n \in DOMAIN result :
           result[n].isEmergency => \E i \in DOMAIN kept : result[n] = kept[i]
      /\ \A i \in DOMAIN kept :
           kept[i].class # "Person" /\ kept[i].isVehicle =>
             \E n \in DOMAIN result : result[n] = kept[i]
  BY <1>3, RidersApart
<1> HIDE DEF result
<1>6. \A n \in DOMAIN result :
        result[n].isEmergency => result[n] \in found /\ result[n].class = EmergencyClass[b]
  BY <1>3, <1>4, <1>5, EmergencyTold
<1>7. ASSUME EmergencyIsCounted, NEW d \in found, d.class = EmergencyClass[b],
             ~Covered(b, found, d)
      PROVE  \E n \in DOMAIN result : result[n] = d /\ d.isVehicle /\ d.isEmergency
  <2>1. PICK i \in DOMAIN kept : kept[i] = d
    BY <1>3, <1>7
  <2>2. d.isEmergency /\ d.isVehicle
    BY <1>4, <1>7, <2>1, EmergencyTold
  <2>3. d.class # "Person"
    BY <1>7 DEF EmergencyIsCounted
  <2> QED
    BY <1>5, <2>1, <2>2, <2>3
<1> QED
  BY <1>1, <1>5, <1>6, <1>7 DEF TrueTo, found, s

(* So is the OIV7 backend.                                                 *)
LEMMA OIV7True ==
  ASSUME "yolov8_oiv7" \in Backend, NEW as \in Seq(Palette["yolov8_oiv7"])
  PROVE  TrueTo("yolov8_oiv7", ToSet(Decoded("yolov8_oiv7", as)), postprocessOIV7(as))
<1> DEFINE b == "yolov8_oiv7"
           s == Decoded(b, as)
           kept == NMSBoxes(s)
           found == ToSet(s)
           I == {i \in DOMAIN kept : kept[i].class # "Motorcycle" /\ kept[i].isVehicle}
           result == ElementsAt(kept, I)
<1>1. b \in Yolo /\ postprocessOIV7(as) = result
  BY DEF Yolo, postprocessOIV7
<1>2. s \in Seq(Told(b))
  BY DecodedTold
<1> HIDE DEF s
<1>3. /\ kept \in Seq(Told(b)) /\ NoneOverlap(kept)
      /\ \A i \in DOMAIN kept : kept[i] \in found
      /\ \A d \in found : ~Covered(b, found, d) => \E i \in DOMAIN kept : kept[i] = d
  BY <1>1, <1>2, SuppressionFaithful
<1>4. kept \in Seq(Boxes) /\ \A i \in DOMAIN kept : kept[i] \in Told(b)
  BY <1>3 DEF Told
<1> HIDE DEF kept, found
<1>5. /\ I \in SUBSET DOMAIN kept
      /\ \A i \in DOMAIN kept : kept[i].class # "Motorcycle" /\ kept[i].isVehicle => i \in I
  OBVIOUS
<1> HIDE DEF I
<1>6. result \in Seq(Boxes) /\ Picks(result, kept, I)
  BY <1>4, <1>5, ElementsAtPicks
<1>7. /\ \A n \in DOMAIN result : \E i \in I : result[n] = kept[i]
      /\ \A i \in I : \E n \in DOMAIN result : result[n] = kept[i]
  BY <1>6, PickedElements
<1>8. NoneOverlap(result)
  <2>1. \A i, j \in I : i # j => ~Overlapping(kept[i], kept[j])
    BY <1>3, <1>5 DEF NoneOverlap
  <2> QED
    BY <1>6, <2>1, PickedApart
<1> HIDE DEF result
<1>9. \A n \in DOMAIN result :
        result[n].isEmergency => result[n] \in found /\ result[n].class = EmergencyClass[b]
  BY <1>3, <1>4, <1>5, <1>7, EmergencyTold
<1>10. ASSUME EmergencyIsCounted, NEW d \in found, d.class = EmergencyClass[b],
              ~Covered(b, found, d)
       PROVE  \E n \in DOMAIN result : result[n] = d /\ d.isVehicle /\ d.isEmergency
  <2>1. PICK i \in DOMAIN kept : kept[i] = d
    BY <1>3, <1>10
  <2>2. d.isEmergency /\ d.isVehicle
    BY <1>4, <1>10, <2>1, EmergencyTold
  <2>3. d.class # "Motorcycle"
    BY <1>10 DEF EmergencyIsCounted
  <2>4. i \in I
    BY <1>5, <2>1, <2>2, <2>3
  <2> QED
    BY <1>7, <2>1, <2>2, <2>4
<1> QED
  BY <1>1, <1>6, <1>8, <1>9, <1>10 DEF TrueTo, found, s

(* The indices and the elements of a sequence.                             *)
LEMMA SequenceOf ==
  ASSUME NEW S, NEW s \in Seq(S)
  PROVE  /\ DOMAIN s = 1..Len(s) /\ Len(s) \in Nat
         /\ \A i \in DOMAIN s : s[i] \in S
  OBVIOUS

(* A function on the numbers up to another is a sequence.                  *)
LEMMA FunctionIsSequence ==
  ASSUME NEW S, NEW n \in Nat, NEW f \in [1..n -> S]
  PROVE  f \in Seq(S)
  OBVIOUS

(* RT-DETR suppresses nothing, and its result is what it saw.              *)
LEMMA RtDetrTrue ==
  ASSUME NEW b \in Backend, b = "rt_detrv2", NEW as \in Seq(Palette[b])
  PROVE  TrueTo(b, ToSet(postprocessRtDetr(as)), postprocessRtDetr(as))
<1>0. /\ DOMAIN as = 1..Len(as) /\ Len(as) \in Nat
      /\ \A i \in DOMAIN as : as[i] \in Palette[b]
  BY SequenceOf
<1> DEFINE clamp(y) == Min({Max({0, y}), FrameRows})
           box(i) == populateDetection(b, as[i], clamp(as[i].y1), clamp(as[i].y2))
           found == [i \in DOMAIN as |-> box(i)]
           I == {i \in DOMAIN found : /\ found[i].confidence >= ConfThreshold[b]
                                      /\ found[i].top < found[i].bottom
                                      /\ found[i].isVehicle}
           result == ElementsAt(found, I)
<1>1. postprocessRtDetr(as) = result
  BY DEF postprocessRtDetr
<1>2. \A y \in Int : clamp(y) \in Int
  <2> SUFFICES ASSUME NEW y \in Int
               PROVE  Min({Max({0, y}), FrameRows}) \in Int
    OBVIOUS
  <2>1. FrameRows \in Int /\ Max({0, y}) \in Int
    BY MaxOfTwo, DetectionsAssumption
  <2> QED
    BY <2>1, MinOfTwo
<1> HIDE DEF clamp
<1>3. ASSUME NEW i \in DOMAIN as
      PROVE  box(i) \in Told(b)
  <2> DEFINE a == as[i]
  <2>1. as[i] \in Palette[b]
    BY <1>0
  <2>2. a \in [column : Nat, y1 : Int, y2 : Int, class : STRING, score : Int]
    BY <2>1, DetectionsAssumption
  <2>3. /\ a.column \in Nat /\ a.class \in STRING /\ a.score \in Int
        /\ a.y1 \in Int /\ a.y2 \in Int
    BY <2>2
  <2> HIDE DEF a
  <2>4. populateDetection(b, a, clamp(a.y1), clamp(a.y2)) \in Told(b)
    BY <1>2, <2>3, PopulateTold
  <2> QED
    BY <2>4 DEF a
<1> HIDE DEF box
<1>4. found \in Seq(Told(b))
  <2>1. \A i \in 1..Len(as) : box(i) \in Told(b)
    BY <1>0, <1>3
  <2>2. found = [i \in 1..Len(as) |-> box(i)]
    BY <1>0
  <2> HIDE DEF found
  <2>3. found \in [1..Len(as) -> Told(b)]
    BY <2>1, <2>2
  <2> QED
    BY <1>0, <2>3, FunctionIsSequence
<1> HIDE DEF found
<1>5. I \in SUBSET DOMAIN found
  OBVIOUS
<1> HIDE DEF I
<1>6. result \in Seq(Told(b))
  BY <1>4, <1>5, ElementsAtPicks
<1>7. \A n \in DOMAIN result : result[n] \in Told(b) /\ result[n] \in ToSet(result)
  BY <1>6 DEF ToSet
<1>8. result \in Seq(Boxes)
  BY <1>6 DEF Told
<1> HIDE DEF result
<1>9. \A d \in ToSet(result) : \E n \in DOMAIN result : result[n] = d
  BY DEF ToSet
<1>10. \A d \in ToSet(result) : d.class = EmergencyClass[b] =>
         \E n \in DOMAIN result : result[n] = d /\ d.isVehicle /\ d.isEmergency
  BY <1>7, <1>9, EmergencyTold
<1>11. \A n \in DOMAIN result :
         result[n].isEmergency =>
           result[n] \in ToSet(result) /\ result[n].class = EmergencyClass[b]
  BY <1>7, EmergencyTold
<1>12. b \notin Yolo
  BY DEF Yolo
<1>13. TrueTo(b, ToSet(result), result)
  BY <1>8, <1>10, <1>11, <1>12 DEF TrueTo
<1> QED
  BY <1>1, <1>13

(* Every backend is true to what its model saw.                            *)
LEMMA DetectedTrue ==
  ASSUME NEW b \in Backend, NEW as \in Seq(Palette[b])
  PROVE  TrueTo(b, Found(b, as), Detected(b, as))
<1>1. b \in {"yolov8", "yolov8_oiv7", "rt_detrv2"}
  BY DetectionsAssumption
<1>2. CASE b = "yolov8"
  BY <1>2, YoloV8True DEF Found, Detected, Yolo
<1>3. CASE b = "yolov8_oiv7"
  BY <1>3, OIV7True DEF Found, Detected, Yolo
<1>4. CASE b = "rt_detrv2"
  BY <1>4, RtDetrTrue DEF Found, Detected, Yolo
<1> QED
  BY <1>1, <1>2, <1>3, <1>4

-----------------------------------------------------------------------------
(* The queue                                                               *)

(* A function on the numbers up to n, of which each value is a step from   *)
(* the one before.                                                         *)
Iterates(f, X, first, n, step) ==
  /\ f \in [0..n -> X] /\ f[0] = first
  /\ \A i \in 1..n : f[i] = step[<<f[i - 1], i>>]

(* A recursion on the numbers up to n has a solution.                      *)
LEMMA Recursion ==
  ASSUME NEW X, NEW first \in X, NEW n \in Nat, NEW step \in [X \X (1..n) -> X]
  PROVE  \E f : Iterates(f, X, first, n, step)
<1> DEFINE Solves(m, f) == /\ f \in [0..m -> X] /\ f[0] = first
                           /\ \A i \in 1..m : f[i] = step[<<f[i - 1], i>>]
           Bad == {m \in 0..n : ~\E f : Solves(m, f)}
<1>1. 0 \notin Bad
  <2>1. Solves(0, [i \in 0..0 |-> first])
    OBVIOUS
  <2> QED
    BY <2>1
<1>2. ASSUME NEW m \in 0..(n - 1), m \notin Bad
      PROVE  m + 1 \notin Bad
  <2>1. PICK f : Solves(m, f)
    BY <1>2
  <2> DEFINE g == [i \in 0..(m + 1) |-> IF i <= m THEN f[i] ELSE step[<<f[m], m + 1>>]]
  <2>2. step[<<f[m], m + 1>>] \in X
    BY <2>1
  <2>3. g \in [0..(m + 1) -> X] /\ g[0] = first
    BY <2>1, <2>2
  <2>4. ASSUME NEW i \in 1..(m + 1)
        PROVE  g[i] = step[<<g[i - 1], i>>]
    <3>1. CASE i <= m
      <4>1. i \in 1..m /\ i - 1 \in 0..(m + 1) /\ i - 1 <= m
        BY <3>1
      <4> QED
        BY <2>1, <3>1, <4>1
    <3>2. CASE i = m + 1
      <4>1. i - 1 = m /\ g[m] = f[m] /\ g[m + 1] = step[<<f[m], m + 1>>]
        BY <3>2
      <4> QED
        BY <3>2, <4>1
    <3> QED
      BY <3>1, <3>2
  <2>5. Solves(m + 1, g)
    BY <2>3, <2>4
  <2> QED
    BY <2>5
<1>3. Bad = {}
  <2> SUFFICES ASSUME Bad # {}
               PROVE  FALSE
    OBVIOUS
  <2>1. Bad \subseteq 0..n
    OBVIOUS
  <2> HIDE DEF Bad
  <2>2. PICK m \in Bad : \A k \in Bad : m <= k
    BY <2>1, LeastNatural
  <2>3. m # 0 /\ m \in 0..n
    BY <1>1, <2>1
  <2>4. m - 1 \in 0..(n - 1) /\ (m - 1) + 1 = m /\ ~(m <= m - 1)
    BY <2>3
  <2>5. m - 1 \notin Bad
    BY <2>2, <2>4
  <2>6. (m - 1) + 1 \notin Bad
    BY <1>2, <2>4, <2>5
  <2> QED
    BY <2>4, <2>6
<1>4. \E f : Solves(n, f)
  <2>1. n \in 0..n
    OBVIOUS
  <2> QED
    BY <1>3, <2>1
<1> QED
  BY <1>4 DEF Iterates

(* The heights add up to an integer.                                       *)
LEMMA TotalIsInteger ==
  ASSUME NEW s \in Seq(Boxes)
  PROVE  TotalHeight(s) \in Int
<1> DEFINE n == Len(s)
           Sums(f) == f = [i \in 0..n |-> IF i = 0 THEN 0 ELSE f[i - 1] + VehicleHeight(s[i])]
           sum == CHOOSE f : Sums(f)
<1>1. n \in Nat
  OBVIOUS
<1>2. \A i \in 1..n : VehicleHeight(s[i]) \in Int
  <2> SUFFICES ASSUME NEW i \in 1..n
               PROVE  VehicleHeight(s[i]) \in Int
    OBVIOUS
  <2>1. s[i] \in Boxes
    OBVIOUS
  <2>2. s[i].bottom - s[i].top \in Int
    BY <2>1 DEF Boxes
  <2> QED
    BY <2>2, MaxOfTwo DEF VehicleHeight, Height
<1> HIDE DEF n
<1>3. \E f : Sums(f)
  <2> DEFINE step == [x \in Int \X (1..n) |-> x[1] + VehicleHeight(s[x[2]])]
  <2> DEFINE X == Int
             first == 0
  <2>1. step \in [X \X (1..n) -> X] /\ first \in X
    BY <1>2
  <2>2. \A x \in Int, i \in 1..n : step[<<x, i>>] = x + VehicleHeight(s[i])
    OBVIOUS
  <2> HIDE DEF step, X, first
  <2>0. \E f : Iterates(f, X, first, n, step)
    BY <1>1, <2>1, Recursion
  <2>3. PICK f : Iterates(f, Int, 0, n, step)
    BY <2>0 DEF X, first
  <2>4. ASSUME NEW i \in 0..n
        PROVE  f[i] = IF i = 0 THEN 0 ELSE f[i - 1] + VehicleHeight(s[i])
    <3>1. CASE i = 0
      BY <2>3, <3>1 DEF Iterates
    <3>2. CASE i # 0
      <4>1. i \in 1..n /\ i - 1 \in 0..n
        BY <1>1, <3>2
      <4>2. f[i - 1] \in Int
        BY <2>3, <4>1 DEF Iterates
      <4> QED
        BY <2>2, <2>3, <3>2, <4>1, <4>2 DEF Iterates
    <3> QED
      BY <3>1, <3>2
  <2>5. Sums(f)
    BY <2>3, <2>4 DEF Iterates
  <2> QED
    BY <2>5
<1>4. Sums(sum)
  BY <1>3
<1> HIDE DEF sum
<1>5. /\ sum[0] = 0
      /\ \A i \in 1..n : sum[i] = sum[i - 1] + VehicleHeight(s[i])
  BY <1>1, <1>4
<1> DEFINE Bad == {i \in 0..n : sum[i] \notin Int}
<1>6. Bad = {}
  <2> SUFFICES ASSUME Bad # {}
               PROVE  FALSE
    OBVIOUS
  <2>1. Bad \in SUBSET Nat /\ Bad # {}
    BY <1>1
  <2>2. PICK m \in Bad : \A k \in Bad : m <= k
    BY <2>1, LeastNatural
  <2>3. m \in 1..n /\ m - 1 \in 0..n /\ ~(m <= m - 1)
    BY <1>1, <1>5
  <2>4. sum[m - 1] \in Int
    BY <2>2, <2>3
  <2> QED
    BY <1>2, <1>5, <2>3, <2>4
<1>7. sum[n] \in Int
  BY <1>1, <1>6
<1>8. TotalHeight(s) = sum[n]
  BY DEF TotalHeight, sum, n
<1> QED
  BY <1>7, <1>8

(* A longer gap separates whatever a shorter one does, and no gap nothing. *)
LEMMA ApartMonotone ==
  ASSUME NEW s \in Seq(Boxes), NEW g \in Int, Apart(s, g)
  PROVE  g > 0 /\ \A h \in Int : g <= h => Apart(s, h)
<1> DEFINE t == TotalHeight(s)
           n == Len(s)
<1>1. n \in Nat /\ t \in Int
  BY TotalIsInteger
<1>2. t > 0 /\ 2 * n * g > 3 * t
  BY DEF Apart
<1> HIDE DEF n, t
<1>3. 2 * n * g > 0
  BY <1>1, <1>2
<1>4. g > 0
  <2> SUFFICES ASSUME g <= 0
               PROVE  FALSE
    OBVIOUS
  <2>1. (2 * n) * g <= (2 * n) * 0
    BY <1>1
  <2> QED
    BY <1>1, <1>3, <2>1
<1>5. ASSUME NEW h \in Int, g <= h
      PROVE  t > 0 /\ 2 * n * h > 3 * t
  <2>1. 2 * n \in Nat
    BY <1>1
  <2>2. (2 * n) * g <= (2 * n) * h
    BY <1>5, <2>1
  <2>3. (2 * n) * g \in Int /\ (2 * n) * h \in Int
    BY <2>1
  <2> QED
    BY <1>1, <1>2, <2>2, <2>3
<1> QED
  BY <1>4, <1>5 DEF Apart, t, n

(* v holds the vehicles of s from the far end of the lane to the near one. *)
Sorted(s, v, o) ==
  /\ v \in Seq(Boxes) /\ Len(v) = Len(s)
  /\ o \in [1..Len(s) -> DOMAIN s]
  /\ \A m \in 1..Len(s) : v[m] = s[o[m]]
  /\ \A m, n \in 1..Len(s) : o[m] = o[n] => m = n
  /\ \A i \in DOMAIN s : \E m \in 1..Len(s) : o[m] = i
  /\ \A m, n \in 1..Len(s) : m <= n => v[m].bottom <= v[n].bottom

(* calculateQueueLength sorts them so.                                     *)
LEMMA VehiclesSorted ==
  ASSUME NEW s \in Seq(Boxes)
  PROVE  \E o : Sorted(s, SortedBy(s, [i \in DOMAIN s |-> s[i].bottom]), o)
<1> DEFINE n == Len(s)
           key == [i \in DOMAIN s |-> s[i].bottom]
           o == Ordered(DOMAIN s, key)
           v == SortedBy(s, key)
<1>1. n \in Nat /\ DOMAIN s = 1..n /\ \A i \in 1..n : s[i] \in Boxes
  BY SequenceOf
<1>2. \A i \in DOMAIN s : key[i] \in Int /\ key[i] = s[i].bottom
  BY <1>1 DEF Boxes
<1>3. IsFiniteSet(DOMAIN s) /\ Cardinality(DOMAIN s) = n /\ DOMAIN s \in SUBSET Int
  <2>1. IsFiniteSet(1..n) /\ Cardinality(1..n) = IF 1 > n THEN 0 ELSE n - 1 + 1
    BY <1>1, FS_Interval
  <2> QED
    BY <1>1, <2>1
<1> HIDE DEF key, n
<1>4. /\ o \in [1..n -> DOMAIN s]
      /\ \A k, m \in 1..n : o[k] = o[m] => k = m
      /\ \A i \in DOMAIN s : \E m \in 1..n : o[m] = i
  <2> DEFINE c == Cardinality(DOMAIN s)
  <2>1. /\ o \in [1..c -> DOMAIN s]
        /\ \A k, m \in 1..c : o[k] = o[m] => k = m
        /\ \A i \in DOMAIN s : \E m \in 1..c : o[m] = i
    BY <1>2, <1>3, OrderedLists
  <2>2. c = n
    BY <1>3
  <2> HIDE DEF o, c
  <2> QED
    BY <2>1, <2>2
<1>5. \A k, m \in 1..n : k <= m => key[o[k]] <= key[o[m]]
  BY <1>2, <1>3, OrderedRises
<1>6. v = [m \in 1..n |-> s[o[m]]]
  <2>1. v = [m \in DOMAIN o |-> s[o[m]]]
    BY DEF SortedBy
  <2> HIDE DEF o
  <2> QED
    BY <1>4, <2>1
<1> HIDE DEF o, v
<1>7. v \in [1..n -> Boxes]
  BY <1>1, <1>4, <1>6
<1>8. v \in Seq(Boxes) /\ Len(v) = n
  <2>1. v \in Seq(Boxes)
    BY <1>1, <1>7, FunctionIsSequence
  <2> QED
    BY <1>1, <1>7, <2>1
<1>9. \A k, m \in 1..n : k <= m => v[k].bottom <= v[m].bottom
  BY <1>2, <1>4, <1>5, <1>6
<1>10. Sorted(s, v, o)
  BY <1>4, <1>6, <1>8, <1>9 DEF Sorted, n
<1> QED
  BY <1>10 DEF v, key

-----------------------------------------------------------------------------
(* Runs of vehicles                                                        *)

(* There is a gap between this vehicle and the one before it.              *)
Gap(s, v, i) == Apart(s, v[i].bottom - v[i - 1].bottom)

(* From p to q there is none.                                              *)
Run(s, v, p, q) ==
  /\ p \in 1..Len(v) /\ q \in 1..Len(v) /\ p <= q
  /\ \A i \in (p + 1)..q : ~Gap(s, v, i)

(* The vehicles from p to q are fewer than those of the cluster c, or as   *)
(* many over no longer a distance.                                         *)
NoLonger(v, p, q, c) ==
  \/ q - p < c[2] - c[1]
  \/ q - p = c[2] - c[1] /\ v[q].bottom - v[p].bottom <= v[c[2]].bottom - v[c[1]].bottom

(* A pair of indices of v.                                                 *)
Cluster(v, c) == c[1] \in 1..Len(v) /\ c[2] \in 1..Len(v)

(* The better of two clusters is one of them, and what is no longer than   *)
(* one of them is no longer than it.                                       *)
LEMMA BetterNoShorter ==
  ASSUME NEW v \in Seq(Boxes), NEW b, Cluster(v, b), NEW c, Cluster(v, c)
  PROVE  /\ Better(v, b, c) \in {b, c}
         /\ \A p, q \in 1..Len(v) :
              NoLonger(v, p, q, b) \/ NoLonger(v, p, q, c) => NoLonger(v, p, q, Better(v, b, c))
<1>1. Len(v) \in Nat /\ \A i \in 1..Len(v) : v[i].bottom \in Int
  <2>1. Len(v) \in Nat /\ \A i \in 1..Len(v) : v[i] \in Boxes
    BY SequenceOf
  <2> QED
    BY <2>1 DEF Boxes
<1> DEFINE low(i) == v[i].bottom
           span(x) == low(x[2]) - low(x[1])
           count(x) == x[2] - x[1]
<1>2. Better(v, b, c) = IF count(c) > count(b) \/ (count(c) = count(b) /\ span(c) > span(b))
                        THEN c ELSE b
  BY DEF Better
<1>3. ASSUME NEW p \in 1..Len(v), NEW q \in 1..Len(v),
             NoLonger(v, p, q, b) \/ NoLonger(v, p, q, c)
      PROVE  NoLonger(v, p, q, Better(v, b, c))
  <2> DEFINE d == low(q) - low(p)
  <2>1. \A x : NoLonger(v, p, q, x) <=> (q - p < count(x) \/ (q - p = count(x) /\ d <= span(x)))
    BY DEF NoLonger
  <2>2. \A i \in 1..Len(v) : low(i) \in Int
    BY <1>1
  <2> HIDE DEF low
  <2>3. d \in Int /\ span(b) \in Int /\ span(c) \in Int
    <3>1. low(p) \in Int /\ low(q) \in Int
      BY <2>2
    <3>2. low(b[1]) \in Int /\ low(b[2]) \in Int
      BY <2>2 DEF Cluster
    <3>3. low(c[1]) \in Int /\ low(c[2]) \in Int
      BY <2>2 DEF Cluster
    <3> QED
      BY <3>1, <3>2, <3>3
  <2>4. q - p \in Int /\ count(b) \in Int /\ count(c) \in Int
    BY <1>1 DEF Cluster
  <2> HIDE DEF d, span, count
  <2> QED
    BY <1>2, <1>3, <2>1, <2>3, <2>4
<1> QED
  BY <1>2, <1>3

(* The scan goes from vehicle to vehicle.                                  *)
LEMMA ScanSteps ==
  ASSUME NEW s, NEW v \in Seq(Boxes)
  PROVE  \E f : /\ Scanned(s, v) = f[Len(v)]
                /\ f[0] = [best |-> <<1, 1>>, start |-> 1]
                /\ \A i \in 1..Len(v) : f[i] = Visited(s, v, f[i - 1], i)
<1> DEFINE n == Len(v)
           X == [best : Nat \X Nat, start : Nat]
           first == [best |-> <<1, 1>>, start |-> 1]
           step == [x \in X \X (1..n) |-> Visited(s, v, x[1], x[2])]
           Solves(f) == f = [i \in 0..n |-> IF i = 0 THEN first ELSE Visited(s, v, f[i - 1], i)]
           scan == CHOOSE f : Solves(f)
<1>1. n \in Nat
  BY SequenceOf
<1>2. Scanned(s, v) = scan[n]
  BY DEF Scanned
<1> HIDE DEF n
<1>3. ASSUME NEW x \in X, NEW i \in 1..n
      PROVE  Visited(s, v, x, i) \in X
  <2> DEFINE c == <<x.start, i - 1>>
             b == Better(v, x.best, c)
  <2>1. c \in Nat \X Nat /\ x.best \in Nat \X Nat
    BY <1>1
  <2>2. b = c \/ b = x.best
    BY DEF Better
  <2>3. b \in Nat \X Nat
    BY <2>1, <2>2
  <2>4. Visited(s, v, x, i) = [best |-> b, start |-> i] \/ Visited(s, v, x, i) = x
    BY DEF Visited
  <2> HIDE DEF b
  <2> QED
    BY <1>1, <2>3, <2>4
<1>4. step \in [X \X (1..n) -> X] /\ first \in X
  BY <1>3
<1>5. \A x \in X, i \in 1..n : step[<<x, i>>] = Visited(s, v, x, i)
  OBVIOUS
<1> HIDE DEF step, X, first
<1>6. PICK f : Iterates(f, X, first, n, step)
  BY <1>1, <1>4, Recursion
<1>7. ASSUME NEW i \in 0..n
      PROVE  f[i] = IF i = 0 THEN first ELSE Visited(s, v, f[i - 1], i)
  <2>1. CASE i = 0
    BY <1>6, <2>1 DEF Iterates
  <2>2. CASE i # 0
    <3>1. i \in 1..n /\ i - 1 \in 0..n
      BY <1>1, <2>2
    <3>2. f[i - 1] \in X
      BY <1>6, <3>1 DEF Iterates
    <3> QED
      BY <1>5, <1>6, <2>2, <3>1, <3>2 DEF Iterates
  <2> QED
    BY <2>1, <2>2
<1>8. Solves(f)
  BY <1>6, <1>7 DEF Iterates
<1>9. Solves(scan)
  BY <1>8
<1> HIDE DEF scan
<1>10. scan[0] = first /\ \A i \in 1..n : scan[i] = Visited(s, v, scan[i - 1], i)
  BY <1>1, <1>9
<1> QED
  BY <1>2, <1>10 DEF n, first

(* What the scan knows after vehicle i: the run that begins at start goes  *)
(* on, and no run before it is longer than the best.                       *)
ScanKnows(s, v, i, scan) ==
  /\ scan.start \in 1..i
  /\ scan.start = 1 \/ Gap(s, v, scan.start)
  /\ Run(s, v, scan.start, i)
  /\ Run(s, v, scan.best[1], scan.best[2])
  /\ \A p, q \in 1..Len(v) :
       Run(s, v, p, q) /\ q <= i /\ p < scan.start => NoLonger(v, p, q, scan.best)

(* A run that begins in another one and ends with it is no longer.         *)
LEMMA SuffixNoLonger ==
  ASSUME NEW s, NEW v \in Seq(Boxes),
         \A m, n \in 1..Len(v) : m <= n => v[m].bottom <= v[n].bottom,
         NEW p \in 1..Len(v), NEW q \in 1..Len(v), NEW a \in 1..Len(v), NEW z \in 1..Len(v),
         a <= p, p <= q, q <= z
  PROVE  NoLonger(v, p, q, <<a, z>>)
<1> DEFINE low(i) == v[i].bottom
<1>1. Len(v) \in Nat /\ \A i \in 1..Len(v) : low(i) \in Int
  <2>1. Len(v) \in Nat /\ \A i \in 1..Len(v) : v[i] \in Boxes
    BY SequenceOf
  <2> QED
    BY <2>1 DEF Boxes
<1>2. low(a) <= low(p) /\ low(q) <= low(z)
  OBVIOUS
<1>3. NoLonger(v, p, q, <<a, z>>) <=>
        \/ q - p < z - a
        \/ q - p = z - a /\ low(q) - low(p) <= low(z) - low(a)
  BY DEF NoLonger
<1>4. low(p) \in Int /\ low(q) \in Int /\ low(a) \in Int /\ low(z) \in Int
  BY <1>1
<1> HIDE DEF low
<1>5. low(q) - low(p) <= low(z) - low(a)
  BY <1>2, <1>4
<1>6. q - p <= z - a /\ q - p \in Int /\ z - a \in Int
  BY <1>1
<1> QED
  BY <1>3, <1>5, <1>6

(* The first vehicle is a run.                                             *)
LEMMA ScanBegins ==
  ASSUME NEW s, NEW v \in Seq(Boxes), Len(v) >= 1,
         NEW scan, scan = [best |-> <<1, 1>>, start |-> 1]
  PROVE  ScanKnows(s, v, 1, Visited(s, v, scan, 1))
<1>1. Len(v) \in Nat /\ 1 \in 1..Len(v)
  BY SequenceOf
<1>2. Visited(s, v, scan, 1) = scan
  BY DEF Visited
<1>3. Run(s, v, 1, 1)
  BY <1>1 DEF Run
<1>4. scan.start = 1 /\ scan.best[1] = 1 /\ scan.best[2] = 1
  OBVIOUS
<1>5. \A p \in 1..Len(v) : ~(p < 1)
  BY <1>1
<1> QED
  BY <1>2, <1>3, <1>4, <1>5 DEF ScanKnows

(* The next vehicle goes on with the run or begins another.                *)
LEMMA ScanGoesOn ==
  ASSUME NEW s, NEW v \in Seq(Boxes),
         \A m, n \in 1..Len(v) : m <= n => v[m].bottom <= v[n].bottom,
         NEW i \in 2..Len(v), NEW scan, ScanKnows(s, v, i - 1, scan)
  PROVE  ScanKnows(s, v, i, Visited(s, v, scan, i))
<1> DEFINE b == scan.best
           a == scan.start
           c == <<a, i - 1>>
           next == Visited(s, v, scan, i)
<1>0. Len(v) \in Nat /\ i \in Int /\ i - 1 \in 1..Len(v) /\ i \in 1..Len(v) /\ i > 1
  BY SequenceOf
<1>1. /\ a \in 1..(i - 1) /\ (a = 1 \/ Gap(s, v, a))
      /\ Run(s, v, a, i - 1) /\ Run(s, v, b[1], b[2])
      /\ \A p, q \in 1..Len(v) : Run(s, v, p, q) /\ q <= i - 1 /\ p < a => NoLonger(v, p, q, b)
  BY DEF ScanKnows
<1>2. next = IF Gap(s, v, i) THEN [best |-> Better(v, b, c), start |-> i] ELSE scan
  BY <1>0 DEF Visited, Gap
<1> HIDE DEF next, a, b
<1>3. a \in 1..(i - 1) /\ a \in 1..Len(v)
  BY <1>0, <1>1 DEF Run
<1>4. CASE ~Gap(s, v, i)
  <2>1. next = scan
    BY <1>2, <1>4
  <2>2. Run(s, v, a, i)
    BY <1>0, <1>1, <1>3, <1>4 DEF Run
  <2>3. ASSUME NEW p \in 1..Len(v), NEW q \in 1..Len(v), Run(s, v, p, q), q <= i, p < a
        PROVE  NoLonger(v, p, q, b)
    <3>1. q # i
      <4> SUFFICES ASSUME q = i
                   PROVE  FALSE
        OBVIOUS
      <4>1. a \in (p + 1)..q
        BY <1>0, <1>3, <2>3
      <4>2. a # 1
        BY <1>0, <1>3, <2>3
      <4> QED
        BY <1>1, <2>3, <4>1, <4>2 DEF Run
    <3>2. q <= i - 1
      BY <1>0, <2>3, <3>1
    <3> QED
      BY <1>1, <2>3, <3>2
  <2>4. a \in 1..i
    BY <1>0, <1>3
  <2> QED
    <3>1. \A p, q \in 1..Len(v) : Run(s, v, p, q) /\ q <= i /\ p < a => NoLonger(v, p, q, b)
      BY <2>3
    <3>2. ScanKnows(s, v, i, scan)
      BY <1>1, <2>2, <2>4, <3>1 DEF ScanKnows, a, b
    <3> QED
      BY <2>1, <3>2 DEF next
<1>5. CASE Gap(s, v, i)
  <2> DEFINE d == Better(v, b, c)
  <2>1. next.best = d /\ next.start = i
    BY <1>2, <1>5
  <2>2. Cluster(v, b) /\ Cluster(v, c)
    BY <1>0, <1>1, <1>3 DEF Cluster, Run
  <2>3. /\ d \in {b, c}
        /\ \A p, q \in 1..Len(v) :
             NoLonger(v, p, q, b) \/ NoLonger(v, p, q, c) => NoLonger(v, p, q, d)
    BY <2>2, BetterNoShorter
  <2>4. Run(s, v, c[1], c[2])
    BY <1>1
  <2> HIDE DEF c, d
  <2>5. Run(s, v, d[1], d[2])
    BY <1>1, <2>3, <2>4
  <2>6. Run(s, v, i, i)
    BY <1>0 DEF Run
  <2>7. ASSUME NEW p \in 1..Len(v), NEW q \in 1..Len(v), Run(s, v, p, q), q <= i, p < i
        PROVE  NoLonger(v, p, q, d)
    <3>1. p \in Int /\ q \in Int /\ a \in Int /\ p <= q
      BY <1>0, <1>3, <2>7 DEF Run
    <3>2. q <= i - 1
      <4> SUFFICES ASSUME q = i
                   PROVE  FALSE
        BY <1>0, <2>7, <3>1
      <4>1. i \in (p + 1)..q
        BY <1>0, <2>7, <3>1
      <4> QED
        BY <1>5, <2>7, <4>1 DEF Run
    <3>3. CASE p < a
      BY <1>1, <2>3, <2>7, <3>2, <3>3
    <3>4. CASE a <= p
      <4>1. NoLonger(v, p, q, <<a, i - 1>>)
        BY <1>0, <1>3, <3>1, <3>2, <3>4, SuffixNoLonger
      <4> QED
        BY <2>3, <4>1 DEF c
    <3> QED
      BY <3>1, <3>3, <3>4
  <2>8. i \in 1..i
    BY <1>0
  <2> QED
    <3>1. \A p, q \in 1..Len(v) : Run(s, v, p, q) /\ q <= i /\ p < i => NoLonger(v, p, q, d)
      BY <2>7
    <3>2. ScanKnows(s, v, i, next)
      BY <1>5, <2>1, <2>5, <2>6, <2>8, <3>1 DEF ScanKnows
    <3> QED
      BY <3>2 DEF next
<1> QED
  BY <1>4, <1>5 DEF next

(* The best cluster is a run, and no run is longer.                        *)
LEMMA BestIsLongest ==
  ASSUME NEW s, NEW v \in Seq(Boxes), Len(v) >= 1,
         \A m, n \in 1..Len(v) : m <= n => v[m].bottom <= v[n].bottom
  PROVE  /\ Run(s, v, BestCluster(s, v)[1], BestCluster(s, v)[2])
         /\ \A p, q \in 1..Len(v) :
              Run(s, v, p, q) => NoLonger(v, p, q, BestCluster(s, v))
<1> DEFINE n == Len(v)
<1>1. n \in Nat /\ n >= 1
  BY SequenceOf
<1>2. PICK f : /\ Scanned(s, v) = f[n]
               /\ f[0] = [best |-> <<1, 1>>, start |-> 1]
               /\ \A i \in 1..n : f[i] = Visited(s, v, f[i - 1], i)
  BY ScanSteps
<1>3. ScanKnows(s, v, 1, f[1])
  <2>1. ScanKnows(s, v, 1, Visited(s, v, f[0], 1))
    BY <1>2, ScanBegins
  <2>2. 1 \in 1..n /\ 1 - 1 = 0
    BY <1>1
  <2>3. f[1] = Visited(s, v, f[1 - 1], 1)
    BY <1>2, <2>2
  <2> QED
    BY <2>1, <2>2, <2>3
<1>4. ASSUME NEW i \in 2..n, ScanKnows(s, v, i - 1, f[i - 1])
      PROVE  ScanKnows(s, v, i, f[i])
  <2>1. ScanKnows(s, v, i, Visited(s, v, f[i - 1], i))
    BY <1>4, ScanGoesOn
  <2>2. i \in 1..n
    BY <1>1
  <2> QED
    BY <1>2, <2>1, <2>2
<1> DEFINE Bad == {i \in 1..n : ~ScanKnows(s, v, i, f[i])}
<1>5. Bad = {}
  <2> SUFFICES ASSUME Bad # {}
               PROVE  FALSE
    OBVIOUS
  <2>1. Bad \in SUBSET Nat /\ Bad # {}
    BY <1>1
  <2>2. PICK m \in Bad : \A k \in Bad : m <= k
    BY <2>1, LeastNatural
  <2>3. m # 1 /\ m \in 1..n
    BY <1>3
  <2>4. m \in 2..n /\ m - 1 \in 1..n /\ ~(m <= m - 1)
    BY <1>1, <2>3
  <2>5. ScanKnows(s, v, m - 1, f[m - 1])
    BY <2>2, <2>4
  <2> QED
    BY <1>4, <2>4, <2>5
<1> DEFINE scan == f[n]
           b == scan.best
           a == scan.start
           c == <<a, n>>
           best == Better(v, b, c)
<1>6. /\ a \in 1..n /\ Run(s, v, a, n) /\ Run(s, v, b[1], b[2])
      /\ \A p, q \in 1..n : Run(s, v, p, q) /\ q <= n /\ p < a => NoLonger(v, p, q, b)
  <2>1. ScanKnows(s, v, n, f[n])
    <3>1. n \in 1..n /\ n \notin Bad
      BY <1>1, <1>5
    <3> QED
      BY <3>1
  <2> QED
    BY <2>1 DEF ScanKnows
<1>7. BestCluster(s, v) = best
  BY <1>2 DEF BestCluster
<1> HIDE DEF a, b
<1>8. Cluster(v, b) /\ Cluster(v, c)
  BY <1>1, <1>6 DEF Cluster, Run
<1>9. /\ best \in {b, c}
      /\ \A p, q \in 1..n :
           NoLonger(v, p, q, b) \/ NoLonger(v, p, q, c) => NoLonger(v, p, q, best)
  BY <1>8, BetterNoShorter
<1>10. Run(s, v, c[1], c[2])
  BY <1>6
<1> HIDE DEF c, best
<1>11. Run(s, v, best[1], best[2])
  BY <1>6, <1>9, <1>10
<1>12. ASSUME NEW p \in 1..n, NEW q \in 1..n, Run(s, v, p, q)
       PROVE  NoLonger(v, p, q, best)
  <2>1. p \in Int /\ q \in Int /\ a \in Int /\ p <= q /\ q <= n
    BY <1>1, <1>6, <1>12 DEF Run
  <2>2. CASE p < a
    BY <1>6, <1>9, <1>12, <2>1, <2>2
  <2>3. CASE a <= p
    <3>1. NoLonger(v, p, q, <<a, n>>)
      <4>1. n \in 1..n
        BY <1>1
      <4> QED
        BY <1>6, <2>1, <2>3, <4>1, SuffixNoLonger
    <3> QED
      BY <1>9, <3>1 DEF c
  <2> QED
    BY <2>1, <2>2, <2>3
<1> QED
  BY <1>7, <1>11, <1>12

-----------------------------------------------------------------------------
(* Groups without a gap                                                    *)

(* The vehicles of a run.                                                  *)
Members(o, p, q) == {o[m] : m \in p..q}

(* A run is a group without a gap: between two of its vehicles that are    *)
(* apart there is a third, for the first that is as near as the nearer one *)
(* comes after one that is not, and this one is not as far as the other.   *)
LEMMA RunIsContinuous ==
  ASSUME NEW s \in Seq(Boxes), NEW v, NEW o, Sorted(s, v, o),
         NEW p, NEW q, Run(s, v, p, q)
  PROVE  Continuous(s, Members(o, p, q))
<1> DEFINE low(i) == s[i].bottom
           n == Len(s)
<1>1. n \in Nat /\ DOMAIN s = 1..n /\ \A i \in DOMAIN s : low(i) \in Int
  <2>1. n \in Nat /\ DOMAIN s = 1..n /\ \A i \in DOMAIN s : s[i] \in Boxes
    BY SequenceOf
  <2> QED
    BY <2>1 DEF Boxes
<1>2. /\ Len(v) = n /\ o \in [1..n -> DOMAIN s]
      /\ \A m \in 1..n : v[m] = s[o[m]]
      /\ \A m, k \in 1..n : m <= k => low(o[m]) <= low(o[k])
  BY DEF Sorted
<1>3. /\ p \in 1..n /\ q \in 1..n /\ p <= q
      /\ \A i \in (p + 1)..q : ~Apart(s, low(o[i]) - low(o[i - 1]))
  <2>1. /\ p \in 1..n /\ q \in 1..n /\ p <= q
        /\ \A i \in (p + 1)..q : ~Gap(s, v, i)
    BY <1>2 DEF Run
  <2>2. ASSUME NEW i \in (p + 1)..q
        PROVE  ~Apart(s, low(o[i]) - low(o[i - 1]))
    <3>1. i \in 1..n /\ i - 1 \in 1..n
      BY <1>1, <2>1
    <3>2. v[i] = s[o[i]] /\ v[i - 1] = s[o[i - 1]]
      BY <1>2, <3>1
    <3> QED
      BY <2>1, <3>2 DEF Gap
  <2> QED
    BY <2>1, <2>2
<1>4. SUFFICES ASSUME NEW x \in p..q, NEW y \in p..q, Apart(s, low(o[y]) - low(o[x])),
                      ~\E k \in Members(o, p, q) : low(o[x]) < low(k) /\ low(k) < low(o[y])
               PROVE  FALSE
  BY DEF Continuous, Members
<1> HIDE DEF low, n
<1>5. /\ x \in 1..n /\ y \in 1..n /\ x \in Int /\ y \in Int /\ p \in Int /\ q \in Int
      /\ low(o[x]) \in Int /\ low(o[y]) \in Int
  <2>1. p \in 1..n /\ q \in 1..n
    BY <1>3
  <2>2. /\ x \in 1..n /\ y \in 1..n /\ x \in Int /\ y \in Int /\ p \in Int /\ q \in Int
    BY <1>1, <2>1
  <2>3. o[x] \in DOMAIN s /\ o[y] \in DOMAIN s
    BY <1>2, <2>2
  <2> QED
    BY <1>1, <2>2, <2>3
<1>6. low(o[x]) < low(o[y])
  <2>1. low(o[y]) - low(o[x]) \in Int
    BY <1>5
  <2>2. low(o[y]) - low(o[x]) > 0
    BY <1>4, <2>1, ApartMonotone
  <2> QED
    BY <1>5, <2>2
<1>7. x < y
  BY <1>2, <1>5, <1>6
<1> DEFINE Near == {m \in x..y : low(o[m]) = low(o[y])}
<1>8. Near \in SUBSET Nat /\ y \in Near
  BY <1>5, <1>7
<1>9. PICK m \in Near : \A k \in Near : m <= k
  BY <1>8, LeastNatural
<1>10. m \in x..y /\ low(o[m]) = low(o[y]) /\ m # x
  BY <1>5, <1>6, <1>9
<1>11. /\ m \in (p + 1)..q /\ m - 1 \in x..y /\ m - 1 \in p..q /\ m - 1 \in 1..n /\ m \in 1..n
       /\ ~(m <= m - 1) /\ x <= m - 1 /\ m - 1 <= m
  BY <1>1, <1>3, <1>5, <1>10
<1>12. low(o[m - 1]) # low(o[y])
  BY <1>9, <1>11
<1>13. low(o[m - 1]) \in Int /\ low(o[m]) \in Int
  BY <1>1, <1>2, <1>11
<1>14. low(o[x]) <= low(o[m - 1]) /\ low(o[m - 1]) <= low(o[y])
  BY <1>2, <1>5, <1>10, <1>11
<1>15. o[m - 1] \in Members(o, p, q)
  BY <1>11 DEF Members
<1>16. ~(low(o[x]) < low(o[m - 1]) /\ low(o[m - 1]) < low(o[y]))
  BY <1>4, <1>15
<1>17. low(o[m - 1]) = low(o[x])
  BY <1>5, <1>12, <1>13, <1>14, <1>16
<1> QED
  BY <1>3, <1>4, <1>10, <1>11, <1>17

(* A set of numbers from 1 to n that has a member has a greatest one.      *)
LEMMA GreatestIndex ==
  ASSUME NEW n \in Nat, NEW T \in SUBSET (1..n), T # {}
  PROVE  \E m \in T : \A k \in T : k <= m
<1> DEFINE U == {n - m : m \in T}
<1>1. U \in SUBSET Nat /\ U # {}
  <2>1. \A m \in T : n - m \in Nat
    OBVIOUS
  <2> QED
    BY <2>1
<1> HIDE DEF U
<1>2. PICK u \in U : \A w \in U : u <= w
  BY <1>1, LeastNatural
<1>3. PICK m \in T : u = n - m
  BY DEF U
<1>4. ASSUME NEW k \in T
      PROVE  k <= m
  <2>1. n - k \in U /\ k \in 1..n /\ m \in 1..n
    BY DEF U
  <2>2. n - m <= n - k
    BY <1>2, <1>3, <2>1
  <2> QED
    BY <2>1, <2>2
<1> QED
  BY <1>4

(* A number of a set that is below none or above none of it is its Max or  *)
(* its Min.                                                                *)
LEMMA GreatestIsMax ==
  ASSUME NEW T \in SUBSET Int, NEW t \in T
  PROVE  /\ (\A u \in T : u <= t) => Max(T) = t
         /\ (\A u \in T : t <= u) => Min(T) = t
<1>1. ASSUME \A u \in T : u <= t
      PROVE  Max(T) = t
  <2>1. \A x \in T : (\A y \in T : x >= y) => x = t
    BY <1>1
  <2> QED
    BY <1>1, <2>1 DEF Max
<1>2. ASSUME \A u \in T : t <= u
      PROVE  Min(T) = t
  <2>1. \A x \in T : (\A y \in T : x <= y) => x = t
    BY <1>2
  <2> QED
    BY <1>2, <2>1 DEF Min
<1> QED
  BY <1>1, <1>2

(* The distance from the first to the last vehicle of a group.             *)
Span(s, C) == Max({s[i].bottom : i \in C}) - Min({s[i].bottom : i \in C})

(* It is that between the ends, where the group lies between two of its    *)
(* own.                                                                    *)
LEMMA SpanOfEnds ==
  ASSUME NEW s \in Seq(Boxes), NEW v, NEW o, Sorted(s, v, o),
         NEW p \in 1..Len(v), NEW q \in 1..Len(v),
         NEW C, C \subseteq Members(o, p, q), o[p] \in C, o[q] \in C
  PROVE  Span(s, C) = v[q].bottom - v[p].bottom
<1> DEFINE n == Len(s)
           low(i) == s[i].bottom
           T == {low(i) : i \in C}
<1>1. n \in Nat /\ \A i \in DOMAIN s : low(i) \in Int
  <2>1. n \in Nat /\ \A i \in DOMAIN s : s[i] \in Boxes
    BY SequenceOf
  <2> QED
    BY <2>1 DEF Boxes
<1>2. /\ Len(v) = n /\ o \in [1..n -> DOMAIN s]
      /\ \A m \in 1..n : v[m].bottom = low(o[m])
      /\ \A m, k \in 1..n : m <= k => low(o[m]) <= low(o[k])
  <2>1. /\ Len(v) = n /\ o \in [1..n -> DOMAIN s]
        /\ \A m \in 1..n : v[m] = s[o[m]]
        /\ \A m, k \in 1..n : m <= k => v[m].bottom <= v[k].bottom
    BY DEF Sorted
  <2>2. \A m \in 1..n : v[m].bottom = low(o[m])
    BY <2>1
  <2> HIDE DEF low
  <2> QED
    BY <2>1, <2>2
<1>3. Span(s, C) = Max(T) - Min(T)
  BY DEF Span
<1> HIDE DEF low, n
<1>4. ASSUME NEW i \in C
      PROVE  low(i) \in Int /\ low(o[p]) <= low(i) /\ low(i) <= low(o[q])
  <2>1. PICK m \in p..q : i = o[m]
    BY DEF Members
  <2>2. p \in 1..n /\ q \in 1..n /\ m \in 1..n /\ p <= m /\ m <= q
    BY <1>1, <1>2
  <2>3. o[m] \in DOMAIN s
    BY <1>2, <2>2
  <2> QED
    BY <1>1, <1>2, <2>1, <2>2, <2>3
<1>5. T \in SUBSET Int /\ low(o[p]) \in T /\ low(o[q]) \in T
  BY <1>4
<1>6. (\A u \in T : u <= low(o[q])) /\ (\A u \in T : low(o[p]) <= u)
  BY <1>4
<1> HIDE DEF T
<1>7. Max(T) = low(o[q]) /\ Min(T) = low(o[p])
  BY <1>5, <1>6, GreatestIsMax
<1>8. v[q].bottom = low(o[q]) /\ v[p].bottom = low(o[p])
  BY <1>2
<1> QED
  BY <1>3, <1>7, <1>8

(* From p to q there are as many vehicles as numbers.                      *)
LEMMA MembersCounted ==
  ASSUME NEW s \in Seq(Boxes), NEW v, NEW o, Sorted(s, v, o),
         NEW p \in 1..Len(v), NEW q \in 1..Len(v), p <= q
  PROVE  /\ IsFiniteSet(Members(o, p, q)) /\ Members(o, p, q) \subseteq DOMAIN s
         /\ Cardinality(Members(o, p, q)) = q - p + 1
<1> DEFINE n == Len(s)
           I == p..q
           M == Members(o, p, q)
           f == [m \in I |-> o[m]]
<1>1. n \in Nat /\ Len(v) = n /\ o \in [1..n -> DOMAIN s]
      /\ \A m, k \in 1..n : o[m] = o[k] => m = k
  BY SequenceOf DEF Sorted
<1>2. I \subseteq 1..n /\ p \in Int /\ q \in Int
  BY <1>1
<1>3. IsFiniteSet(I) /\ Cardinality(I) = q - p + 1
  BY <1>2, FS_Interval
<1>4. M = {o[m] : m \in I}
  BY DEF Members
<1> HIDE DEF I, n, M
<1>5. M \subseteq DOMAIN s
  BY <1>1, <1>2, <1>4
<1>6. f \in [I -> M] /\ \A m, k \in I : f[m] = f[k] => m = k
  BY <1>1, <1>2, <1>4
<1>7. \A x \in M : \E m \in I : f[m] = x
  BY <1>4
<1>8. f \in Bijection(I, M)
  BY <1>6, <1>7 DEF Bijection, Injection, Surjection, IsInjective
<1>9. ExistsBijection(I, M)
  BY <1>8 DEF ExistsBijection
<1> QED
  BY <1>3, <1>5, <1>9, FS_Bijection DEF M

(* A group without a gap lies in a run that begins and ends with vehicles  *)
(* of the group: were there a gap in it, then the last of the group before *)
(* the gap and the first after it would be apart, and a third of the group *)
(* would have to stand between them.                                       *)
LEMMA GroupInRun ==
  ASSUME NEW s \in Seq(Boxes), NEW v, NEW o, Sorted(s, v, o),
         NEW C \in SUBSET DOMAIN s, C # {}, Continuous(s, C)
  PROVE  \E p, q \in 1..Len(v) :
           /\ Run(s, v, p, q) /\ C \subseteq Members(o, p, q)
           /\ o[p] \in C /\ o[q] \in C
<1> DEFINE n == Len(s)
           low(i) == s[i].bottom
           M == {m \in 1..n : o[m] \in C}
<1>1. n \in Nat /\ \A i \in DOMAIN s : low(i) \in Int
  <2>1. n \in Nat /\ \A i \in DOMAIN s : s[i] \in Boxes
    BY SequenceOf
  <2> QED
    BY <2>1 DEF Boxes
<1>2. /\ Len(v) = n /\ o \in [1..n -> DOMAIN s]
      /\ \A i \in DOMAIN s : \E m \in 1..n : o[m] = i
      /\ \A m, k \in 1..n : m <= k => low(o[m]) <= low(o[k])
      /\ \A m \in 1..n : v[m].bottom = low(o[m])
  <2>1. /\ Len(v) = n /\ o \in [1..n -> DOMAIN s]
        /\ \A i \in DOMAIN s : \E m \in 1..n : o[m] = i
        /\ \A m \in 1..n : v[m] = s[o[m]]
        /\ \A m, k \in 1..n : m <= k => v[m].bottom <= v[k].bottom
    BY DEF Sorted
  <2>2. \A m \in 1..n : v[m].bottom = low(o[m])
    BY <2>1
  <2> HIDE DEF low
  <2> QED
    BY <2>1, <2>2
<1>3. ASSUME NEW i \in C, NEW j \in C, Apart(s, low(j) - low(i))
      PROVE  \E k \in C : low(i) < low(k) /\ low(k) < low(j)
  BY <1>3 DEF Continuous
<1> HIDE DEF low, n
<1>4. M \in SUBSET Nat /\ M \in SUBSET (1..n) /\ M # {}
  <2>1. PICK i \in C : TRUE
    OBVIOUS
  <2>2. PICK m \in 1..n : o[m] = i
    BY <1>2
  <2> QED
    BY <1>1, <2>2
<1>5. \A i \in C : \E m \in M : o[m] = i
  BY <1>2
<1>6. \A m \in M : m \in 1..n /\ o[m] \in C /\ low(o[m]) \in Int
  BY <1>1, <1>2
<1>7. \A m \in 1..n : o[m] \in C => m \in M
  OBVIOUS
<1> HIDE DEF M
<1>8. PICK p \in M : \A k \in M : p <= k
  BY <1>4, LeastNatural
<1>9. PICK q \in M : \A k \in M : k <= q
  BY <1>1, <1>4, GreatestIndex
<1>10. C \subseteq Members(o, p, q)
  <2> SUFFICES ASSUME NEW i \in C
               PROVE  i \in Members(o, p, q)
    OBVIOUS
  <2>1. PICK m \in M : o[m] = i
    BY <1>5
  <2>2. m \in p..q
    BY <1>1, <1>4, <1>8, <1>9
  <2> QED
    BY <2>1, <2>2 DEF Members
<1>11. ASSUME NEW t \in (p + 1)..q, Gap(s, v, t)
       PROVE  FALSE
  <2>1. /\ p \in 1..n /\ q \in 1..n /\ t \in 1..n /\ t - 1 \in 1..n
        /\ p < t /\ t <= q /\ t \in Int
    BY <1>1, <1>6
  <2> DEFINE Below == {m \in M : m < t}
             Above == {m \in M : t <= m}
  <2>2. Below \in SUBSET (1..n) /\ p \in Below
    BY <1>4, <2>1
  <2>3. Above \in SUBSET Nat /\ q \in Above
    BY <1>4, <2>1
  <2>4. PICK a \in Below : \A k \in Below : k <= a
    BY <1>1, <2>2, GreatestIndex
  <2>5. PICK b \in Above : \A k \in Above : b <= k
    BY <2>3, LeastNatural
  <2>6. /\ a \in M /\ b \in M /\ a \in 1..n /\ b \in 1..n /\ a \in Int /\ b \in Int
        /\ a < t /\ t <= b /\ a <= t - 1
    BY <1>1, <1>6, <2>1
  <2>7. low(o[a]) <= low(o[t - 1]) /\ low(o[t]) <= low(o[b])
    BY <1>2, <2>1, <2>6
  <2>8. low(o[t]) \in Int /\ low(o[t - 1]) \in Int /\ low(o[a]) \in Int /\ low(o[b]) \in Int
    BY <1>1, <1>2, <2>1, <2>6
  <2>9. Apart(s, low(o[t]) - low(o[t - 1]))
    BY <1>2, <1>11, <2>1 DEF Gap
  <2>10. Apart(s, low(o[b]) - low(o[a]))
    <3>1. low(o[t]) - low(o[t - 1]) \in Int /\ low(o[b]) - low(o[a]) \in Int
      BY <2>8
    <3>2. low(o[t]) - low(o[t - 1]) <= low(o[b]) - low(o[a])
      BY <2>7, <2>8
    <3> QED
      BY <2>9, <3>1, <3>2, ApartMonotone
  <2>11. o[a] \in C /\ o[b] \in C
    BY <1>6, <2>6
  <2>12. PICK k \in C : low(o[a]) < low(k) /\ low(k) < low(o[b])
    BY <1>3, <2>10, <2>11
  <2>13. PICK m \in M : o[m] = k
    BY <1>5
  <2>14. m \in 1..n /\ m \in Int /\ low(o[m]) \in Int
    BY <1>1, <1>6
  <2>15. ~(m <= a)
    <3>1. m <= a => low(o[m]) <= low(o[a])
      BY <1>2, <2>6, <2>14
    <3> QED
      BY <2>8, <2>12, <2>13, <2>14, <3>1
  <2>16. ~(b <= m)
    <3>1. b <= m => low(o[b]) <= low(o[m])
      BY <1>2, <2>6, <2>14
    <3> QED
      BY <2>8, <2>12, <2>13, <2>14, <3>1
  <2>17. m \in Below \/ m \in Above
    BY <2>1, <2>14
  <2> QED
    BY <2>4, <2>5, <2>15, <2>16, <2>17
<1>12. Run(s, v, p, q)
  <2>1. p \in 1..Len(v) /\ q \in 1..Len(v) /\ p <= q
    BY <1>2, <1>6, <1>8
  <2> QED
    BY <1>11, <2>1 DEF Run
<1> QED
  BY <1>10, <1>12, <1>6, <1>2

(* The groups without a gap.                                               *)
Groups(s) == {C \in SUBSET DOMAIN s : C # {} /\ Continuous(s, C)}

(* The best cluster is such a group, no group is larger, and none as large *)
(* is longer.                                                              *)
LEMMA BestIsLargestGroup ==
  ASSUME NEW s \in Seq(Boxes), s # <<>>, NEW v, NEW o, Sorted(s, v, o),
         NEW c, c = BestCluster(s, v)
  PROVE  /\ c[1] \in 1..Len(v) /\ c[2] \in 1..Len(v) /\ c[1] <= c[2]
         /\ \E C \in Groups(s) : /\ Cardinality(C) = c[2] - c[1] + 1
                                 /\ Span(s, C) = v[c[2]].bottom - v[c[1]].bottom
         /\ \A C \in Groups(s) :
              /\ Cardinality(C) \in Nat /\ Cardinality(C) <= c[2] - c[1] + 1
              /\ Cardinality(C) = c[2] - c[1] + 1
                   => Span(s, C) \in Int /\ Span(s, C) <= v[c[2]].bottom - v[c[1]].bottom
<1> DEFINE d(p, q) == v[q].bottom - v[p].bottom
           a == c[1]
           z == c[2]
           N == Len(v)
<1>1. /\ v \in Seq(Boxes) /\ N \in Nat /\ N >= 1
      /\ \A m, k \in 1..N : m <= k => v[m].bottom <= v[k].bottom
  <2>1. Len(s) \in Nat /\ Len(s) # 0
    BY SequenceOf
  <2> QED
    BY <2>1 DEF Sorted
<1>2. /\ Run(s, v, a, z)
      /\ \A p, q \in 1..N : Run(s, v, p, q) => NoLonger(v, p, q, c)
  BY <1>1, BestIsLongest
<1>3. a \in 1..N /\ z \in 1..N /\ a <= z /\ a \in Int /\ z \in Int
  BY <1>1, <1>2 DEF Run
<1>4. \A p, q \in 1..N : d(p, q) \in Int
  <2> DEFINE low(m) == v[m].bottom
  <2>1. \A m \in 1..N : v[m] \in Boxes
    BY <1>1, SequenceOf
  <2>2. \A m \in 1..N : low(m) \in Int
    BY <2>1 DEF Boxes
  <2>3. \A p, q : d(p, q) = low(q) - low(p)
    OBVIOUS
  <2> HIDE DEF low, d, N
  <2> QED
    BY <2>2, <2>3
<1>5. \A p, q \in 1..N : NoLonger(v, p, q, c) <=>
                           q - p < z - a \/ (q - p = z - a /\ d(p, q) <= d(a, z))
  BY DEF NoLonger
<1> HIDE DEF d, a, z, N
<1>6. \E C \in Groups(s) : Cardinality(C) = z - a + 1 /\ Span(s, C) = d(a, z)
  <2> DEFINE C == Members(o, a, z)
  <2>1. C \subseteq DOMAIN s /\ Cardinality(C) = z - a + 1
    BY <1>3, MembersCounted DEF N
  <2>2. o[a] \in C /\ o[z] \in C
    BY <1>3 DEF Members
  <2>3. Continuous(s, C)
    BY <1>2, RunIsContinuous
  <2> HIDE DEF C
  <2>4. C \subseteq Members(o, a, z)
    BY DEF C
  <2>5. Span(s, C) = v[z].bottom - v[a].bottom
    BY <1>3, <2>2, <2>4, SpanOfEnds DEF N
  <2>6. C \in Groups(s)
    BY <2>1, <2>2, <2>3 DEF Groups
  <2> QED
    BY <2>1, <2>5, <2>6 DEF d
<1>7. ASSUME NEW C \in Groups(s)
      PROVE  /\ Cardinality(C) \in Nat /\ Cardinality(C) <= z - a + 1
             /\ Cardinality(C) = z - a + 1 => Span(s, C) \in Int /\ Span(s, C) <= d(a, z)
  <2>1. C \in SUBSET DOMAIN s /\ C # {} /\ Continuous(s, C)
    BY DEF Groups
  <2>2. PICK p \in 1..N, q \in 1..N :
          /\ Run(s, v, p, q) /\ C \subseteq Members(o, p, q)
          /\ o[p] \in C /\ o[q] \in C
    BY <2>1, GroupInRun DEF N
  <2>3. p <= q /\ p \in Int /\ q \in Int
    BY <2>2 DEF Run
  <2>4. Span(s, C) = d(p, q)
    BY <2>2, SpanOfEnds DEF N, d
  <2>5. IsFiniteSet(Members(o, p, q)) /\ Cardinality(Members(o, p, q)) = q - p + 1
    BY <2>3, MembersCounted DEF N
  <2>6. IsFiniteSet(C) /\ Cardinality(C) <= q - p + 1
    <3>1. C \in SUBSET Members(o, p, q)
      BY <2>2
    <3> QED
      BY <2>5, <3>1, FS_Subset
  <2>7. Cardinality(C) \in Nat
    BY <2>6, FS_CardinalityType
  <2>8. q - p < z - a \/ (q - p = z - a /\ d(p, q) <= d(a, z))
    BY <1>2, <1>5, <2>2
  <2>9. d(p, q) \in Int
    BY <1>4
  <2> QED
    BY <1>3, <2>3, <2>4, <2>6, <2>7, <2>8, <2>9
<1> QED
  BY <1>3, <1>6, <1>7 DEF a, z, d, N

(* What QueueIsLongestCluster says, of any vehicles.                       *)
QueueTold(s) ==
  LET largest == {C \in Groups(s) : \A D \in Groups(s) : Cardinality(D) <= Cardinality(C)}
      lengths == IF \E C \in largest : Cardinality(C) = 1
                 THEN {VehicleHeight(s[i]) : i \in DOMAIN s}
                 ELSE {Max({Span(s, C) : C \in largest})}
  IN  calculateQueueLength(s) \in
        {Min({RoiHeight, l}) : l \in IF s = <<>> THEN {0} ELSE lengths}

(* It holds of them: with more than one vehicle in the best cluster the    *)
(* largest groups are those of its size, and it is the longest of them.    *)
LEMMA QueueOfVehicles ==
  ASSUME NEW s \in Seq(Boxes)
  PROVE  QueueTold(s)
<1> DEFINE largest == {C \in Groups(s) : \A D \in Groups(s) : Cardinality(D) <= Cardinality(C)}
           alone   == \E C \in largest : Cardinality(C) = 1
           heights == {VehicleHeight(s[i]) : i \in DOMAIN s}
           spans   == {Span(s, C) : C \in largest}
           lengths == IF alone THEN heights ELSE {Max(spans)}
           capped(l) == Min({RoiHeight, l})
<1>1. QueueTold(s) <=> calculateQueueLength(s) \in
                         {capped(l) : l \in IF s = <<>> THEN {0} ELSE lengths}
  BY DEF QueueTold, Span
<1>2. CASE s = <<>>
  <2>1. calculateQueueLength(s) = 0
    BY <1>2 DEF calculateQueueLength
  <2>2. capped(0) = 0
    <3>1. RoiHeight \in Int /\ RoiHeight >= 0
      BY DetectionsAssumption DEF RoiHeight
    <3> QED
      BY <3>1, MinOfTwo
  <2> QED
    BY <1>1, <1>2, <2>1, <2>2
<1>3. CASE s # <<>>
  <2> DEFINE v == SortedBy(s, [i \in DOMAIN s |-> s[i].bottom])
             c == BestCluster(s, v)
             a == c[1]
             z == c[2]
             k == z - a + 1
             length == v[z].bottom - v[a].bottom
  <2>1. calculateQueueLength(s) = capped(IF a = z THEN VehicleHeight(v[a]) ELSE length)
    BY <1>3 DEF calculateQueueLength
  <2>2. PICK o : Sorted(s, v, o)
    BY VehiclesSorted
  <2> HIDE DEF v, c
  <2>3. /\ a \in 1..Len(v) /\ z \in 1..Len(v) /\ a <= z
        /\ \E C \in Groups(s) : Cardinality(C) = k /\ Span(s, C) = length
        /\ \A C \in Groups(s) :
              /\ Cardinality(C) \in Nat /\ Cardinality(C) <= k
              /\ Cardinality(C) = k => Span(s, C) \in Int /\ Span(s, C) <= length
    BY <1>3, <2>2, BestIsLargestGroup DEF c
  <2>4. a \in Int /\ z \in Int /\ k \in Int
    BY <2>3
  <2>5. k = 1 <=> a = z
    BY <2>4
  <2>6. v[a] = s[o[a]] /\ o[a] \in DOMAIN s
    BY <2>2, <2>3 DEF Sorted
  <2> HIDE DEF a, z, k, length
  <2>7. PICK B \in Groups(s) : Cardinality(B) = k /\ Span(s, B) = length
    BY <2>3
  <2>8. B \in largest
    BY <2>3, <2>7
  <2>9. \A C \in largest : Cardinality(C) = k
    <3> SUFFICES ASSUME NEW C \in largest
                 PROVE  Cardinality(C) = k
      OBVIOUS
    <3>1. Cardinality(B) <= Cardinality(C) /\ Cardinality(C) <= k /\ Cardinality(C) \in Nat
      BY <2>3
    <3> QED
      BY <2>4, <2>7, <3>1
  <2>10. \A C \in largest : Span(s, C) \in Int /\ Span(s, C) <= length
    BY <2>3, <2>9
  <2> HIDE DEF capped
  <2>11. CASE a = z
    <3>1. alone
      BY <2>5, <2>7, <2>8, <2>11
    <3>2. VehicleHeight(v[a]) \in heights
      BY <2>6
    <3> HIDE DEF alone, heights
    <3> QED
      BY <1>1, <1>3, <2>1, <2>11, <3>1, <3>2
  <2>12. CASE a # z
    <3>1. ~alone
      BY <2>5, <2>9, <2>12
    <3>2. spans \in SUBSET Int /\ length \in spans /\ \A x \in spans : x <= length
      BY <2>7, <2>8, <2>10
    <3> HIDE DEF alone, spans
    <3>3. Max(spans) = length
      BY <3>2, GreatestIsMax
    <3> QED
      BY <1>1, <1>3, <2>1, <2>12, <3>1, <3>3
  <2> QED
    BY <2>11, <2>12
<1> QED
  BY <1>2, <1>3

-----------------------------------------------------------------------------
(* The lane                                                                *)

(* The lane has the vehicles of the result that are in the region, each    *)
(* once.                                                                   *)
LEMMA InLaneKeeps ==
  ASSUME NEW result \in Seq(Boxes)
  PROVE  /\ InLane(result) \in Seq(Boxes)
         /\ \A n \in DOMAIN InLane(result) :
              \E i \in DOMAIN result : InLane(result)[n] = result[i] /\ InRoi(result[i])
         /\ \A i \in DOMAIN result : result[i].isVehicle /\ InRoi(result[i]) =>
              \E n \in DOMAIN InLane(result) : InLane(result)[n] = result[i]
         /\ NoneOverlap(result) => NoneOverlap(InLane(result))
<1> DEFINE I == {i \in DOMAIN result : result[i].isVehicle /\ InRoi(result[i])}
<1>1. InLane(result) = ElementsAt(result, I)
  BY DEF InLane
<1>2. /\ I \in SUBSET DOMAIN result
      /\ \A i \in DOMAIN result : i \in I <=> result[i].isVehicle /\ InRoi(result[i])
  OBVIOUS
<1> HIDE DEF I
<1>3. InLane(result) \in Seq(Boxes) /\ Picks(InLane(result), result, I)
  BY <1>1, <1>2, ElementsAtPicks
<1>4. NoneOverlap(result) => NoneOverlap(InLane(result))
  <2> SUFFICES ASSUME NoneOverlap(result)
               PROVE  NoneOverlap(InLane(result))
    OBVIOUS
  <2>1. \A i, j \in I : i # j => ~Overlapping(result[i], result[j])
    BY <1>2 DEF NoneOverlap
  <2> QED
    BY <1>3, <2>1, PickedApart
<1> QED
  BY <1>2, <1>3, <1>4, PickedElements

(* What holds of a lane whenever the program may read it.                  *)
LaneInv ==
  /\ backend \in Backend
  /\ anchors \in Seq(Palette[backend])
  /\ Published => Metrics = buildLaneMetrics(InLane(Detected(backend, anchors)))
  /\ backend \in Yolo => NoneOverlap(Metrics.detections)
  /\ Metrics.detections \in Seq(Boxes) /\ Metrics = buildLaneMetrics(Metrics.detections)

(* The detections of the metrics are those they are built from.            *)
LEMMA MetricsTell ==
  ASSUME NEW s
  PROVE  /\ buildLaneMetrics(s).detections = s
         /\ buildLaneMetrics(s).EmergencyDetected <=> \E i \in DOMAIN s : s[i].isEmergency
  BY DEF buildLaneMetrics

(* No two of no detections overlap.                                        *)
LEMMA EmptyLaneApart ==
  /\ NoneOverlap(InLane(<<>>)) /\ InLane(<<>>) \in Seq(Boxes)
  /\ NoneOverlap(<<>>) /\ <<>> \in Seq(Boxes)
<1>1. <<>> \in Seq(Boxes) /\ NoneOverlap(<<>>)
  BY DEF NoneOverlap
<1> QED
  BY <1>1, InLaneKeeps

(* A lane begins that way.                                                 *)
LEMMA LaneInit == Init => LaneInv
<1> SUFFICES ASSUME Init
             PROVE  LaneInv
  OBVIOUS
<1>1. backend \in Backend /\ anchors = <<>> /\ ~Published /\ Metrics = buildLaneMetrics(<<>>)
  BY DEF Init, Published
<1>2. anchors \in Seq(Palette[backend])
  BY <1>1
<1> QED
  BY <1>1, <1>2, MetricsTell, EmptyLaneApart DEF LaneInv

(* Every step leaves it so.                                                *)
LEMMA LaneStep == LaneInv /\ [Next]_vars => LaneInv'
<1> SUFFICES ASSUME LaneInv, [Next]_vars
             PROVE  LaneInv'
  OBVIOUS
<1>1. CASE Infer
  <2> DEFINE result == Detected(backend, anchors)
  <2>1. /\ Metrics' = buildLaneMetrics(InLane(result))
        /\ UNCHANGED <<backend, anchors>>
    BY <1>1 DEF Infer, Finish
  <2>2. TrueTo(backend, Found(backend, anchors), result)
    BY DetectedTrue DEF LaneInv
  <2>3. InLane(result) \in Seq(Boxes) /\ (backend \in Yolo => NoneOverlap(InLane(result)))
    BY <2>2, InLaneKeeps DEF TrueTo
  <2> QED
    BY <2>1, <2>3, MetricsTell DEF LaneInv
<1>2. CASE InferFails
  <2>1. /\ Metrics' = buildLaneMetrics(InLane(<<>>)) /\ failed'
        /\ UNCHANGED <<backend, anchors>>
    BY <1>2 DEF InferFails, Finish
  <2> QED
    BY <2>1, MetricsTell, EmptyLaneApart DEF LaneInv, Published
<1>3. ASSUME NEW a \in Palette[backend], ModelAnswers(a)
      PROVE  LaneInv'
  <2>1. /\ anchors' = Append(anchors, a) /\ stage' = "runtime"
        /\ UNCHANGED <<backend, Metrics>>
    BY <1>3 DEF ModelAnswers
  <2>2. anchors' \in Seq(Palette[backend])
    BY <2>1 DEF LaneInv
  <2> QED
    BY <2>1, <2>2 DEF LaneInv, Published
<1>4. CASE UNCHANGED vars
  BY <1>4 DEF LaneInv, Published, vars
<1> QED
  BY <1>1, <1>2, <1>3, <1>4 DEF Next

(* LaneInv holds throughout.                                               *)
LEMMA LaneAlways == Spec => []LaneInv
  BY LaneInit, LaneStep, PTL DEF Spec

(* A YOLO backend counts nothing twice, whatever the model answers: the    *)
(* suppression keeps no two boxes that overlap, and neither the filters    *)
(* nor the motorcycles made up for riders bring a second one into the lane *)
(* (postprocess, runOneCycle).                                             *)
THEOREM NothingCountedTwice == Spec => []CountedOnce
<1>1. LaneInv => CountedOnce
  BY DEF LaneInv, CountedOnce, NoneOverlap
<1> QED
  BY <1>1, LaneAlways, PTL

(* What the model saw of the emergency class in the region is reported     *)
(* unless something covers it, and nothing else is, as long as the         *)
(* configured class is none that its backend puts aside (isEmergencyClass, *)
(* isVehicleClass, postprocess, runOneCycle, buildLaneMetrics).            *)
THEOREM EmergencyReported ==
  ASSUME EmergencyIsCounted
  PROVE  Spec => []EmergencyNotMissed
<1>1. LaneInv => EmergencyNotMissed
  <2> SUFFICES ASSUME LaneInv, Published
               PROVE  EmergencyNotMissed
    BY DEF EmergencyNotMissed
  <2> DEFINE result == Detected(backend, anchors)
             found == Found(backend, anchors)
             urgent == {d \in found : d.class = EmergencyClass[backend] /\ InRoi(d)}
             covered == {d \in urgent : Covered(backend, found, d)}
  <2>1. TrueTo(backend, found, result)
    BY DetectedTrue DEF LaneInv
  <2>2. Metrics.EmergencyDetected <=>
          \E n \in DOMAIN InLane(result) : InLane(result)[n].isEmergency
    BY MetricsTell DEF LaneInv
  <2> HIDE DEF result, found
  <2>3. ASSUME NEW d \in urgent \ covered
        PROVE  Metrics.EmergencyDetected
    <3>1. PICK n \in DOMAIN result : result[n] = d /\ d.isVehicle /\ d.isEmergency
      BY <2>1 DEF TrueTo
    <3>2. \E m \in DOMAIN InLane(result) : InLane(result)[m] = d
      BY <2>1, <3>1, InLaneKeeps DEF TrueTo
    <3> QED
      BY <2>2, <3>1, <3>2
  <2>4. ASSUME Metrics.EmergencyDetected
        PROVE  urgent # {}
    <3>1. PICK n \in DOMAIN InLane(result) : InLane(result)[n].isEmergency
      BY <2>2, <2>4
    <3>2. PICK i \in DOMAIN result : InLane(result)[n] = result[i] /\ InRoi(result[i])
      BY <2>1, InLaneKeeps DEF TrueTo
    <3>3. result[i] \in found /\ result[i].class = EmergencyClass[backend]
      BY <2>1, <3>1, <3>2 DEF TrueTo
    <3> QED
      BY <3>2, <3>3
  <2>5. /\ urgent \ covered # {} => Metrics.EmergencyDetected
        /\ Metrics.EmergencyDetected => urgent # {}
    BY <2>3, <2>4
  <2> QED
    BY <2>5 DEF EmergencyNotMissed, found, Found, Covered
<1> QED
  BY <1>1, LaneAlways, PTL

(* The queue of a lane is the length of the best group that stands in it   *)
(* without a gap, whatever the vehicles and the rows of the region: one    *)
(* scan over the sorted gaps with the best cluster so far misses no group  *)
(* and takes the last one in (calculateQueueLength, updateBestCluster).    *)
THEOREM QueueIsLongest == Spec => []QueueIsLongestCluster
<1>1. LaneInv => QueueIsLongestCluster
  <2> SUFFICES ASSUME LaneInv
               PROVE  QueueIsLongestCluster
    OBVIOUS
  <2> DEFINE s == Metrics.detections
  <2>1. s \in Seq(Boxes) /\ Metrics = buildLaneMetrics(s)
    BY DEF LaneInv
  <2>2. Metrics.QueueLength = calculateQueueLength(s)
    BY <2>1 DEF buildLaneMetrics
  <2>3. QueueTold(s)
    BY <2>1, QueueOfVehicles
  <2> QED
    BY <2>2, <2>3 DEF QueueIsLongestCluster, QueueTold, Groups, Span
<1> QED
  BY <1>1, LaneAlways, PTL

=============================================================================
