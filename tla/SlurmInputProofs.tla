-------------------------- MODULE SlurmInputProofs --------------------------
(***************************************************************************)
(* Proofs about SlurmInput for every width of the integers, every script,  *)
(* every combination of flags and variables and every vocabulary.          *)
(***************************************************************************)
EXTENDS SlurmInput, FiniteSetTheorems, FunctionTheorems, SequenceTheorems, WellFoundedInduction, TLAPS

-----------------------------------------------------------------------------
(***************************************************************************)
(* Go's arithmetic and the time limit.                                     *)
(***************************************************************************)

\* An operation whose result is a natural number in range is exact.
LEMMA WrapExact ==
  ASSUME NEW x \in Nat, x <= MaxInt
  PROVE  Wrap(x) = x
  <1>1. Half \in Nat /\ Half > 0
    BY TimeAssumption
  <1>2. x + Half \in 0..(2 * Half - 1)
    BY <1>1 DEF MaxInt
  <1>3. (x + Half) % (2 * Half) = x + Half
    BY <1>1, <1>2
  <1>4. QED
    BY <1>1, <1>3 DEF Wrap

\* The seconds of a minute, an hour and a day.
LEMMA Lengths ==
  /\ Minute \in Nat /\ Minute >= 1 /\ Hour \in Nat /\ Hour >= 1 /\ Day \in Nat /\ Day >= 1
  <1>1. \A x \in Nat, y \in Nat : x >= 1 /\ y >= 1 => x * y \in Nat /\ x * y >= 1
    OBVIOUS
  <1>2. QED
    BY <1>1, TimeAssumption DEF Hour, Day

\* A field is at most its product with the length of its unit.
LEMMA Product ==
  ASSUME NEW x \in Nat, NEW y \in Nat, y >= 1
  PROVE  x * y \in Nat /\ x <= x * y
  OBVIOUS

\* The k-th field as a part of the sum, w being the length of its unit.
Part(t, k, w) == IF k <= Len(t.fields) THEN t.fields[k] * w ELSE 0

\* The meaning of a text is the sum of its parts.
LEMMA MeantParts ==
  ASSUME NEW t
  PROVE  Meant(t) = Part(t, 1, Weights(t)[1]) + Part(t, 2, Weights(t)[2])
                    + Part(t, 3, Weights(t)[3]) + Part(t, 4, Weights(t)[4])
  BY DEF Meant, Part

\* A part is a natural number, at least its field.
LEMMA PartType ==
  ASSUME NEW t, t.fields \in Seq(Nat), NEW k \in 1..4, NEW w \in Nat, w >= 1
  PROVE  Part(t, k, w) \in Nat /\ (k <= Len(t.fields) => t.fields[k] \in Nat /\ t.fields[k] <= Part(t, k, w))
  <1>1. k <= Len(t.fields) => t.fields[k] \in Nat
    OBVIOUS
  <1>2. QED
    BY <1>1, Product DEF Part

\* If every field fits the scan reads them all.
LEMMA ScanAll ==
  ASSUME NEW t, t.fields \in Seq(Nat), \A k \in 1..Len(t.fields) : t.fields[k] <= MaxInt,
         NEW k \in 1..4, NEW w \in Nat
  PROVE  /\ Scans(t, k) <=> k <= Len(t.fields)
         /\ Scan(t, k) * w = Part(t, k, w)
         /\ Scan(t, k) = Part(t, k, 1)
  <1>1. Scans(t, k) <=> k <= Len(t.fields)
    BY DEF Scans, Fits
  <1>2. k <= Len(t.fields) => t.fields[k] \in Nat
    OBVIOUS
  <1>3. CASE k <= Len(t.fields)
    BY <1>1, <1>2, <1>3 DEF Scan, Part
  <1>4. CASE ~(k <= Len(t.fields))
    BY <1>1, <1>4 DEF Scan, Part
  <1>5. QED
    BY <1>1, <1>3, <1>4

\* A sum of fields that fits is computed exactly: no field is cut off by the
\* scan, and no product and no sum wraps.
LEMMA SecondsExact ==
  ASSUME NEW t \in TimeText, isValidTimeSpec(t), Meant(t) <= MaxInt
  PROVE  Seconds(t) = Meant(t) /\ Meant(t) \in Nat
  <1>1. t.kind = "fields" /\ t.fields \in Seq(Nat)
    BY DEF isValidTimeSpec, TimeText
  <1>a. PICK fs : fs = t.fields
    OBVIOUS
  <1>b. PICK m \in Nat : m = Len(t.fields)
    BY <1>1
  <1>2. fs = t.fields /\ m = Len(t.fields)
    BY <1>a, <1>b
  <1>3. MaxInt \in Int
    BY TimeAssumption DEF MaxInt
  <1> DEFINE p(k, w) == Part(t, k, w)
  <1>4. \A k \in 1..4, w \in Nat : w >= 1 => p(k, w) \in Nat
    BY <1>1, PartType
  <1>5. \A k \in 1..4, w \in Nat : w >= 1 /\ k <= m => fs[k] \in Nat /\ fs[k] <= p(k, w)
    BY <1>1, <1>2, PartType
  <1>6. ASSUME \A k \in 1..m : fs[k] <= MaxInt
        PROVE  \A k \in 1..4, w \in Nat : /\ Scans(t, k) <=> k <= m
                                          /\ Scan(t, k) * w = p(k, w) /\ Scan(t, k) = p(k, 1)
    BY <1>1, <1>2, <1>6, ScanAll
  <1>8. CASE t.dash
    <2>1. m \in 2..4
      BY <1>2, <1>8 DEF isValidTimeSpec
    <2>2. Weights(t) = SubSeq(<<Day, Hour, Minute, 1>>, 1, m)
      BY <1>2, <1>8 DEF Weights
    <2>3. /\ Weights(t)[1] = Day /\ Weights(t)[2] = Hour
          /\ 3 <= m => Weights(t)[3] = Minute
          /\ 4 <= m => Weights(t)[4] = 1
      BY <2>1, <2>2
    <2>4. Meant(t) = p(1, Day) + p(2, Hour) + p(3, Minute) + p(4, 1)
      <3>1. p(3, Weights(t)[3]) = p(3, Minute) /\ p(4, Weights(t)[4]) = p(4, 1)
        BY <1>2, <2>3 DEF Part
      <3>2. QED
        BY <2>3, <3>1, MeantParts
    <2> HIDE DEF p
    <2>5. /\ p(1, Day) \in Nat /\ p(2, Hour) \in Nat /\ p(3, Minute) \in Nat /\ p(4, 1) \in Nat
      <3>1. p(1, Day) \in Nat /\ p(2, Hour) \in Nat
        BY <1>4, Lengths
      <3>2. p(3, Minute) \in Nat /\ p(4, 1) \in Nat
        BY <1>4, Lengths
      <3>3. QED
        BY <3>1, <3>2
    <2>6. /\ p(1, Day) <= MaxInt /\ p(2, Hour) <= MaxInt /\ p(3, Minute) <= MaxInt /\ p(4, 1) <= MaxInt
      BY <1>3, <2>4, <2>5
    <2>7. \A k \in 1..m : fs[k] <= MaxInt
      <3>0. 1 <= m /\ 2 <= m
        BY <2>1
      <3>1. fs[1] <= MaxInt /\ fs[2] <= MaxInt
        <4>1. fs[1] \in Nat /\ fs[1] <= p(1, Day) /\ fs[2] \in Nat /\ fs[2] <= p(2, Hour)
          BY <1>5, <3>0, Lengths
        <4>2. QED
          BY <1>3, <2>5, <2>6, <4>1
      <3>2. 3 <= m => fs[3] <= MaxInt
        BY <1>3, <1>5, <2>5, <2>6, Lengths
      <3>3. 4 <= m => fs[4] <= MaxInt
        BY <1>3, <1>5, <2>5, <2>6
      <3>4. \A k \in 1..m : k = 1 \/ k = 2 \/ (k = 3 /\ 3 <= m) \/ (k = 4 /\ 4 <= m)
        BY <2>1
      <3>5. QED
        BY <2>1, <3>1, <3>2, <3>3, <3>4
    <2>8. /\ Scan(t, 1) * Day = p(1, Day) /\ Scan(t, 2) * Hour = p(2, Hour)
          /\ Scan(t, 3) * Minute = p(3, Minute) /\ Scan(t, 4) = p(4, 1)
      BY <1>6, <2>7, Lengths
    <2>9. Seconds(t) = Wrap(Wrap(p(1, Day)) + Wrap(p(2, Hour)) + Wrap(p(3, Minute)) + p(4, 1))
      BY <1>8, <2>8 DEF Seconds
    <2>10. Wrap(p(1, Day)) = p(1, Day) /\ Wrap(p(2, Hour)) = p(2, Hour) /\ Wrap(p(3, Minute)) = p(3, Minute)
      BY <2>5, <2>6, WrapExact
    <2>11. Meant(t) \in Nat /\ Wrap(Meant(t)) = Meant(t)
      BY <2>4, <2>5, WrapExact
    <2>12. QED
      BY <2>4, <2>9, <2>10, <2>11
  <1>9. CASE ~t.dash /\ m = 3
    <2>1. Weights(t) = <<Hour, Minute, 1>>
      BY <1>2, <1>9 DEF Weights
    <2>2. Meant(t) = p(1, Hour) + p(2, Minute) + p(3, 1) + 0
      <3>1. p(4, Weights(t)[4]) = 0
        BY <1>2, <1>9 DEF Part
      <3>2. QED
        BY <2>1, <3>1, MeantParts
    <2> HIDE DEF p
    <2>3. p(1, Hour) \in Nat /\ p(2, Minute) \in Nat /\ p(3, 1) \in Nat
      BY <1>4, Lengths
    <2>4. p(1, Hour) <= MaxInt /\ p(2, Minute) <= MaxInt /\ p(3, 1) <= MaxInt
      BY <1>3, <2>2, <2>3
    <2>5. \A k \in 1..m : fs[k] <= MaxInt
      <3>1. fs[1] <= MaxInt /\ fs[2] <= MaxInt
        BY <1>3, <1>5, <1>9, <2>3, <2>4, Lengths
      <3>2. fs[3] <= MaxInt
        BY <1>3, <1>5, <1>9, <2>3, <2>4
      <3>3. \A k \in 1..m : k = 1 \/ k = 2 \/ k = 3
        BY <1>9
      <3>4. QED
        BY <3>1, <3>2, <3>3
    <2>6. /\ Scan(t, 1) * Hour = p(1, Hour) /\ Scan(t, 2) * Minute = p(2, Minute)
          /\ Scan(t, 3) = p(3, 1) /\ Scans(t, 3)
      BY <1>6, <1>9, <2>5, Lengths
    <2>7. Seconds(t) = Wrap(Wrap(p(1, Hour)) + Wrap(p(2, Minute)) + p(3, 1))
      BY <1>9, <2>6 DEF Seconds
    <2>8. Wrap(p(1, Hour)) = p(1, Hour) /\ Wrap(p(2, Minute)) = p(2, Minute)
      BY <2>3, <2>4, WrapExact
    <2>9. Meant(t) \in Nat /\ Wrap(Meant(t)) = Meant(t)
      BY <2>2, <2>3, WrapExact
    <2>10. p(1, Hour) + p(2, Minute) + p(3, 1) = Meant(t)
      BY <2>2, <2>3
    <2>11. QED
      BY <2>7, <2>8, <2>9, <2>10
  <1>10. CASE ~t.dash /\ m # 3
    <2>1. m \in 1..2
      BY <1>2, <1>10 DEF isValidTimeSpec
    <2>2. Weights(t) = SubSeq(<<Minute, 1>>, 1, m)
      BY <1>2, <1>10 DEF Weights
    <2>3. Weights(t)[1] = Minute /\ (2 <= m => Weights(t)[2] = 1)
      BY <2>1, <2>2
    <2>4. Meant(t) = p(1, Minute) + p(2, 1) + 0 + 0
      <3>1. p(2, Weights(t)[2]) = p(2, 1)
        BY <1>2, <2>3 DEF Part
      <3>2. p(3, Weights(t)[3]) = 0 /\ p(4, Weights(t)[4]) = 0
        BY <1>2, <2>1 DEF Part
      <3>3. QED
        BY <2>3, <3>1, <3>2, MeantParts
    <2> HIDE DEF p
    <2>5. p(1, Minute) \in Nat /\ p(2, 1) \in Nat
      BY <1>4, Lengths
    <2>6. p(1, Minute) <= MaxInt /\ p(2, 1) <= MaxInt
      BY <1>3, <2>4, <2>5
    <2>7. \A k \in 1..m : fs[k] <= MaxInt
      <3>1. fs[1] <= MaxInt
        BY <1>3, <1>5, <2>1, <2>5, <2>6, Lengths
      <3>2. 2 <= m => fs[2] <= MaxInt
        BY <1>3, <1>5, <2>5, <2>6
      <3>3. \A k \in 1..m : k = 1 \/ (k = 2 /\ 2 <= m)
        BY <2>1
      <3>4. QED
        BY <2>1, <3>1, <3>2, <3>3
    <2>8. Scan(t, 1) * Minute = p(1, Minute) /\ Scan(t, 2) = p(2, 1) /\ ~Scans(t, 3)
      BY <1>6, <2>1, <2>7, Lengths
    <2>9. Seconds(t) = Wrap(Wrap(p(1, Minute)) + p(2, 1))
      BY <1>10, <2>8 DEF Seconds
    <2>10. Wrap(p(1, Minute)) = p(1, Minute)
      BY <2>5, <2>6, WrapExact
    <2>11. Meant(t) \in Nat /\ Wrap(Meant(t)) = Meant(t)
      BY <2>4, <2>5, WrapExact
    <2>12. p(1, Minute) + p(2, 1) = Meant(t)
      BY <2>4, <2>5
    <2>13. QED
      BY <2>9, <2>10, <2>11, <2>12
  <1>11. QED
    BY <1>8, <1>9, <1>10

-----------------------------------------------------------------------------
(***************************************************************************)
(* Induction over the natural numbers, for sets of them.                   *)
(***************************************************************************)

\* A nonempty set of natural numbers has a smallest element.
LEMMA Smallest ==
  ASSUME NEW T \in SUBSET Nat, T # {}
  PROVE  \E x \in T : \A y \in T : x <= y
  <1> DEFINE R == {p \in Nat \X Nat : p[1] < p[2]}
  <1>1. IsWellFoundedOn(R, Nat)
    BY NatLessThanWellFounded DEF OpToRel
  <1>2. PICK x \in T : \A y \in T : ~(<<y, x>> \in R)
    BY <1>1, WFMin
  <1>3. ASSUME NEW y \in T PROVE x <= y
    <2>1. x \in Nat /\ y \in Nat
      OBVIOUS
    <2>2. <<y, x>> \in Nat \X Nat /\ <<y, x>>[1] = y /\ <<y, x>>[2] = x
      BY <2>1
    <2>3. ~(<<y, x>>[1] < <<y, x>>[2])
      BY <1>2, <2>2
    <2>4. QED
      BY <2>1, <2>2, <2>3
  <1>4. QED
    BY <1>3

\* A set that holds 0 and the successor of each element is all of Nat.
LEMMA Induction ==
  ASSUME NEW T \in SUBSET Nat, 0 \in T, \A k \in T : k + 1 \in T
  PROVE  T = Nat
  <1> DEFINE C == Nat \ T
  <1>1. SUFFICES ASSUME C # {} PROVE FALSE
    OBVIOUS
  <1>2. PICK x \in C : \A y \in C : x <= y
    BY <1>1, Smallest
  <1>3. x # 0 /\ x - 1 \in Nat
    BY <1>2
  <1>4. x - 1 \in T
    BY <1>2, <1>3
  <1>5. QED
    BY <1>2, <1>3, <1>4

-----------------------------------------------------------------------------
(***************************************************************************)
(* Sorting.                                                                *)
(***************************************************************************)

Increasing(s) == \A k, l \in 1..Len(s) : k < l => s[k] < s[l]

\* Numbers that increase from each to the next increase throughout.
LEMMA StepwiseIncreasing ==
  ASSUME NEW s \in Seq(Nat), \A k \in 2..Len(s) : s[k - 1] < s[k]
  PROVE  Increasing(s)
  <1> DEFINE m == Len(s)
             T == {d \in Nat : \A k \in 1..m : k + d + 1 \in 1..m => s[k] < s[k + d + 1]}
  <1>0. m \in Nat /\ \A k \in 1..m : s[k] \in Nat
    OBVIOUS
  <1> HIDE DEF m
  <1>1. \A k \in 2..m : s[k - 1] < s[k]
    BY DEF m
  <1>2. 0 \in T
    <2>1. SUFFICES ASSUME NEW k \in 1..m, k + 0 + 1 \in 1..m PROVE s[k] < s[k + 0 + 1]
      OBVIOUS
    <2>2. k + 1 \in 2..m /\ (k + 1) - 1 = k /\ k + 0 + 1 = k + 1
      BY <1>0, <2>1
    <2>3. QED
      BY <1>1, <2>2
  <1>3. ASSUME NEW d \in T PROVE d + 1 \in T
    <2>1. SUFFICES ASSUME NEW k \in 1..m, k + (d + 1) + 1 \in 1..m PROVE s[k] < s[k + (d + 1) + 1]
      OBVIOUS
    <2>2. /\ k + d + 1 \in 1..m /\ k + d + 2 \in 2..m /\ (k + d + 2) - 1 = k + d + 1
          /\ k + (d + 1) + 1 = k + d + 2
      BY <1>0, <2>1
    <2>3. s[k] < s[k + d + 1] /\ s[k + d + 1] < s[k + d + 2]
      BY <1>1, <2>2
    <2>4. s[k] \in Nat /\ s[k + d + 1] \in Nat /\ s[k + d + 2] \in Nat
      BY <1>0, <2>1, <2>2
    <2>5. s[k] < s[k + d + 2]
      BY <2>3, <2>4
    <2>6. QED
      BY <2>2, <2>5
  <1>4. T = Nat
    <2>1. T \in SUBSET Nat
      OBVIOUS
    <2> HIDE DEF T
    <2>2. QED
      BY <1>2, <1>3, <2>1, Induction
  <1>5. ASSUME NEW k \in 1..m, NEW l \in 1..m, k < l PROVE s[k] < s[l]
    <2>1. l - k - 1 \in Nat /\ k + (l - k - 1) + 1 = l
      BY <1>0, <1>5
    <2>2. l - k - 1 \in T
      BY <1>4, <2>1
    <2>3. QED
      BY <2>1, <2>2
  <1>6. QED
    BY <1>5 DEF Increasing, m

\* Sorting leaves increasing numbers where they are.
LEMMA SortedIncreasing ==
  ASSUME NEW s \in Seq(Nat), Increasing(s)
  PROVE  Sorted(s) = s
  <1> DEFINE m == Len(s)
             Less(v) == {j \in DOMAIN s : s[j] < v}
             NoMore(v) == {j \in DOMAIN s : s[j] <= v}
             pick(k) == CHOOSE v \in {s[j] : j \in DOMAIN s} :
                            Cardinality(Less(v)) < k /\ k <= Cardinality(NoMore(v))
  <1>1. m \in Nat /\ DOMAIN s = 1..m /\ \A k \in 1..m : s[k] \in Nat
    OBVIOUS
  <1>2. \A k, l \in 1..m : k < l => s[k] < s[l]
    BY DEF Increasing
  <1>3. s = [k \in DOMAIN s |-> s[k]]
    OBVIOUS
  <1> HIDE DEF m
  <1>4. ASSUME NEW k \in 1..m
        PROVE  Cardinality(Less(s[k])) = k - 1 /\ Cardinality(NoMore(s[k])) = k
    <2>1. Less(s[k]) = 1..(k - 1)
      <3>1. \A j \in 1..m : s[j] < s[k] <=> j < k
        BY <1>1, <1>2, <1>4
      <3>2. QED
        BY <1>1, <1>4, <3>1
    <2>2. NoMore(s[k]) = 1..k
      <3>1. \A j \in 1..m : s[j] <= s[k] <=> j <= k
        BY <1>1, <1>2, <1>4
      <3>2. QED
        BY <1>1, <1>4, <3>1
    <2>3. k \in Int /\ k - 1 \in Int /\ 1 \in Int /\ k >= 1
      BY <1>1, <1>4
    <2>4. /\ Cardinality(1..(k - 1)) = IF 1 > k - 1 THEN 0 ELSE (k - 1) - 1 + 1
          /\ Cardinality(1..k) = IF 1 > k THEN 0 ELSE k - 1 + 1
      BY <2>3, FS_Interval, Zenon
    <2>5. Cardinality(1..(k - 1)) = k - 1 /\ Cardinality(1..k) = k
      BY <2>3, <2>4
    <2> HIDE DEF Less, NoMore
    <2>6. QED
      BY <2>1, <2>2, <2>5
  <1>5. ASSUME NEW k \in 1..m PROVE pick(k) = s[k]
    <2> DEFINE V == {s[j] : j \in DOMAIN s}
               Ranked(v) == Cardinality(Less(v)) < k /\ k <= Cardinality(NoMore(v))
    <2>1. s[k] \in V
      BY <1>1, <1>5
    <2>2. Ranked(s[k])
      <3>1. Cardinality(Less(s[k])) = k - 1 /\ Cardinality(NoMore(s[k])) = k
        BY <1>4, <1>5
      <3>2. k \in Nat
        BY <1>1, <1>5
      <3> HIDE DEF Less, NoMore
      <3>3. QED
        BY <3>1, <3>2
    <2>3. \A v \in V : Ranked(v) => v = s[k]
      <3>1. SUFFICES ASSUME NEW j \in 1..m, Ranked(s[j]) PROVE s[j] = s[k]
        BY <1>1
      <3>2. j - 1 < k /\ k <= j
        <4>1. Cardinality(Less(s[j])) = j - 1 /\ Cardinality(NoMore(s[j])) = j
          BY <1>4, <3>1
        <4> HIDE DEF Less, NoMore
        <4>2. QED
          BY <3>1, <4>1
      <3>3. j = k
        BY <1>1, <1>5, <3>1, <3>2
      <3>4. QED
        BY <3>3
    <2> HIDE DEF V, Ranked
    <2>4. (CHOOSE v \in V : Ranked(v)) = s[k]
      BY <2>1, <2>2, <2>3
    <2>5. QED
      BY <2>4 DEF V, Ranked
  <1>6. Sorted(s) = [k \in DOMAIN s |-> pick(k)]
    BY DEF Sorted
  <1> HIDE DEF pick
  <1>7. QED
    BY <1>1, <1>3, <1>5, <1>6

-----------------------------------------------------------------------------
(***************************************************************************)
(* The array.                                                              *)
(***************************************************************************)

\* A remainder is what is left of a multiple.
LEMMA Remainder ==
  ASSUME NEW q \in Nat, NEW st \in Nat, st >= 1, NEW d \in 0..(st - 1)
  PROVE  (st * q + d) % st = d
  <1> DEFINE x == st * q + d
             e == x \div st
             u == x % st
  <1>1. x \in Nat /\ e \in Nat /\ u \in 0..(st - 1) /\ x = st * e + u
    OBVIOUS
  <1> HIDE DEF e, u
  <1>2. st * e - st * q = d - u
    BY <1>1
  <1>3. e = q
    <2>1. CASE e >= q + 1
      <3>1. st * e >= st * q + st
        BY <1>1, <2>1
      <3>2. QED
        BY <1>1, <1>2, <3>1
    <2>2. CASE q >= e + 1
      <3>1. st * q >= st * e + st
        BY <1>1, <2>2
      <3>2. QED
        BY <1>1, <1>2, <3>1
    <2>3. QED
      BY <1>1, <2>1, <2>2
  <1>4. u = d
    BY <1>1, <1>2, <1>3
  <1>5. QED
    BY <1>4 DEF u

\* From a multiple of the step the next multiple is one step away.
LEMMA NextMultiple ==
  ASSUME NEW x \in Nat, NEW st \in Nat, st >= 1, x % st = 0
  PROVE  (x + st) % st = 0 /\ \A d \in 1..(st - 1) : (x + d) % st # 0
  <1> DEFINE q == x \div st
  <1>1. q \in Nat /\ x = st * q
    OBVIOUS
  <1> HIDE DEF q
  <1>2. x + st = st * (q + 1) + 0
    BY <1>1
  <1>3. (x + st) % st = 0
    BY <1>1, <1>2, Remainder
  <1>4. \A d \in 1..(st - 1) : (x + d) % st # 0
    BY <1>1, Remainder
  <1>5. QED
    BY <1>3, <1>4

Elements(s) == {s[k] : k \in 1..Len(s)}

\* The indexes are, in order, those the array denotes.
Exact(t, s) == s \in Seq(Nat) /\ Increasing(s) /\ Elements(s) = Denoted(t)

\* A range that parseRangeIndexes accepts.
GoodRange(t) == t \in ArrayText /\ RangeMatches(t) /\ RangeOK(t)

\* The loop of parseRangeIndexes before the test of its condition.
Progress(t, j, s) ==
    /\ s \in Seq(Nat) /\ Increasing(s) /\ Len(s) <= Memory
    /\ j \in Nat /\ j >= t.from /\ (j - t.from) % Step(t) = 0
    /\ Elements(s) = {x \in Denoted(t) : x < j}

\* The numbers of a range.
LEMMA RangeNumbers ==
  ASSUME NEW t, GoodRange(t)
  PROVE  /\ t.kind = "range" /\ t.from \in Nat /\ t.to \in Nat /\ t.from <= t.to
         /\ Step(t) \in Nat /\ Step(t) >= 1
         /\ Denoted(t) = {x \in t.from..t.to : (x - t.from) % Step(t) = 0}
  <1>1. t.kind = "range" /\ t \in ArrayText
    BY DEF GoodRange, RangeMatches
  <1>2. t.from \in Nat /\ t.to \in Nat /\ t.num \in Nat
    BY <1>1 DEF ArrayText
  <1>3. t.from <= t.to /\ (t.mark # "" => t.num > 0)
    BY DEF GoodRange, RangeOK, RangeMatches
  <1>4. Step(t) \in Nat /\ Step(t) >= 1
    <2>1. CASE t.mark = ":"
      <3>1. Step(t) = t.num /\ t.num > 0
        BY <1>3, <2>1 DEF Step
      <3>2. QED
        BY <1>2, <3>1
    <2>2. CASE t.mark # ":"
      BY <2>2 DEF Step
    <2>3. QED
      BY <2>1, <2>2
  <1>5. QED
    BY <1>1, <1>2, <1>3, <1>4 DEF Denoted

\* The elements of a sequence that grows.
LEMMA ElementsAppend ==
  ASSUME NEW s \in Seq(Nat), NEW x \in Nat
  PROVE  /\ Append(s, x) \in Seq(Nat) /\ Len(Append(s, x)) = Len(s) + 1
         /\ Elements(Append(s, x)) = Elements(s) \cup {x}
         /\ Increasing(s) /\ (\A y \in Elements(s) : y < x) => Increasing(Append(s, x))
  <1> DEFINE m == Len(s)
             r == Append(s, x)
  <1>1. /\ m \in Nat /\ r \in Seq(Nat) /\ Len(r) = m + 1 /\ r[m + 1] = x
        /\ \A k \in 1..m : r[k] = s[k] /\ s[k] \in Nat
    OBVIOUS
  <1>2. Elements(r) = {r[k] : k \in 1..(m + 1)} /\ Elements(s) = {s[k] : k \in 1..m}
    BY <1>1 DEF Elements
  <1>3. Increasing(r) <=> \A k, l \in 1..(m + 1) : k < l => r[k] < r[l]
    BY <1>1 DEF Increasing
  <1>4. Increasing(s) <=> \A k, l \in 1..m : k < l => s[k] < s[l]
    BY DEF Increasing
  <1> HIDE DEF m, r
  <1>5. \A k \in 1..(m + 1) : k \in 1..m \/ k = m + 1
    BY <1>1
  <1>6. Elements(r) = Elements(s) \cup {x}
    <2>1. \A k \in 1..m : k \in 1..(m + 1)
      BY <1>1
    <2>2. m + 1 \in 1..(m + 1)
      BY <1>1
    <2>3. QED
      BY <1>1, <1>2, <1>5, <2>1, <2>2
  <1>7. ASSUME Increasing(s), \A y \in Elements(s) : y < x PROVE Increasing(r)
    <2>1. SUFFICES ASSUME NEW k \in 1..(m + 1), NEW l \in 1..(m + 1), k < l PROVE r[k] < r[l]
      BY <1>3
    <2>2. k \in 1..m
      BY <1>1, <2>1
    <2>3. CASE l \in 1..m
      BY <1>1, <1>4, <1>7, <2>1, <2>2, <2>3
    <2>4. CASE l = m + 1
      <3>1. s[k] \in Elements(s)
        BY <1>2, <2>2
      <3>2. QED
        BY <1>1, <1>7, <2>2, <2>4, <3>1
    <2>5. QED
      BY <1>5, <2>3, <2>4
  <1>8. QED
    BY <1>1, <1>6, <1>7 DEF m, r

\* The loop starts with nothing.
LEMMA ProgressStart ==
  ASSUME NEW t, GoodRange(t)
  PROVE  Progress(t, t.from, <<>>)
  <1>1. /\ t.from \in Nat /\ Step(t) \in Nat /\ Step(t) >= 1
        /\ Denoted(t) = {x \in t.from..t.to : (x - t.from) % Step(t) = 0} /\ t.to \in Nat
    BY RangeNumbers
  <1>2. (t.from - t.from) % Step(t) = 0
    <2>1. t.from - t.from = Step(t) * 0 + 0 /\ 0 \in 0..(Step(t) - 1)
      BY <1>1
    <2>2. QED
      BY <1>1, <2>1, Remainder
  <1>3. Len(<<>>) = 0 /\ <<>> \in Seq(Nat)
    OBVIOUS
  <1>4. Elements(<<>>) = {} /\ Increasing(<<>>)
    BY <1>3 DEF Elements, Increasing
  <1>5. {x \in Denoted(t) : x < t.from} = {}
    BY <1>1
  <1>6. QED
    BY <1>1, <1>2, <1>3, <1>4, <1>5, MemoryAssumption DEF Progress

\* One turn of the loop adds the next index.
LEMMA ProgressTurn ==
  ASSUME NEW t, GoodRange(t), NoWrap(t), NEW j, NEW s, Progress(t, j, s), j <= t.to, Len(s) < Memory
  PROVE  Progress(t, Wrap(j + Step(t)), Append(s, j))
  <1> DEFINE st == Step(t)
             x == j - t.from
  <1>1. /\ t.kind = "range" /\ t.from \in Nat /\ t.to \in Nat /\ st \in Nat /\ st >= 1
        /\ Denoted(t) = {y \in t.from..t.to : (y - t.from) % st = 0}
    BY RangeNumbers
  <1>2. /\ s \in Seq(Nat) /\ Increasing(s) /\ j \in Nat /\ j >= t.from /\ x % st = 0
        /\ Elements(s) = {y \in Denoted(t) : y < j} /\ Len(s) \in Nat
    BY DEF Progress
  <1> HIDE DEF st
  <1>3. x \in Nat
    BY <1>1, <1>2
  <1>4. Wrap(j + st) = j + st
    <2>1. t.to + st <= MaxInt /\ MaxInt \in Int
      BY <1>1, TimeAssumption DEF NoWrap, MaxInt, st
    <2>2. j + st \in Nat /\ j + st <= MaxInt
      BY <1>1, <1>2, <2>1
    <2>3. QED
      BY <2>2, WrapExact
  <1>5. (x + st) % st = 0 /\ \A d \in 1..(st - 1) : (x + d) % st # 0
    BY <1>1, <1>2, <1>3, NextMultiple
  <1>6. (j + st) - t.from = x + st
    BY <1>1, <1>2
  <1>7. j \in Denoted(t)
    BY <1>1, <1>2
  <1>8. \A y \in Denoted(t) : y < j + st => y <= j
    <2>1. SUFFICES ASSUME NEW y \in Denoted(t), y < j + st, ~(y <= j) PROVE FALSE
      OBVIOUS
    <2>2. y \in Nat /\ (y - t.from) % st = 0
      BY <1>1
    <2>3. y - j \in 1..(st - 1) /\ y - t.from = x + (y - j)
      <3>1. t.from \in Nat /\ st \in Nat /\ j \in Nat /\ y > j
        BY <1>1, <1>2, <2>1, <2>2
      <3>2. y - t.from = (j - t.from) + (y - j)
        BY <2>2, <3>1
      <3>3. y - j \in Int /\ y - j >= 1 /\ y - j <= st - 1
        BY <2>1, <2>2, <3>1
      <3>4. QED
        BY <3>1, <3>2, <3>3
    <2>4. QED
      BY <1>5, <2>2, <2>3
  <1>9. {y \in Denoted(t) : y < j + st} = {y \in Denoted(t) : y < j} \cup {j}
    <2>1. \A y \in Denoted(t) : y \in Nat
      BY <1>1
    <2>2. QED
      BY <1>1, <1>2, <1>7, <1>8, <2>1
  <1>10. \A y \in Elements(s) : y < j
    BY <1>2
  <1>11. /\ Append(s, j) \in Seq(Nat) /\ Len(Append(s, j)) = Len(s) + 1 /\ Increasing(Append(s, j))
         /\ Elements(Append(s, j)) = {y \in Denoted(t) : y < j + st}
    BY <1>2, <1>9, <1>10, ElementsAppend
  <1>12. j + st \in Nat /\ j + st >= t.from /\ Len(s) + 1 <= Memory
    BY <1>1, <1>2, MemoryAssumption
  <1>13. Progress(t, j + st, Append(s, j))
    BY <1>5, <1>6, <1>11, <1>12 DEF Progress, st
  <1>14. QED
    BY <1>4, <1>13 DEF st

\* When the loop ends all indexes are there.
LEMMA ProgressEnd ==
  ASSUME NEW t, GoodRange(t), NEW j, NEW s, Progress(t, j, s), j > t.to
  PROVE  Exact(t, Sorted(s))
  <1>1. /\ t.from \in Nat /\ t.to \in Nat
        /\ Denoted(t) = {y \in t.from..t.to : (y - t.from) % Step(t) = 0}
    BY RangeNumbers
  <1>2. s \in Seq(Nat) /\ Increasing(s) /\ j \in Nat /\ Elements(s) = {y \in Denoted(t) : y < j}
    BY DEF Progress
  <1>3. {y \in Denoted(t) : y < j} = Denoted(t)
    BY <1>1, <1>2
  <1>4. QED
    BY <1>2, <1>3, SortedIncreasing DEF Exact

\* A list that is accepted increases, and is its own meaning.
LEMMA ListExact ==
  ASSUME NEW t \in ArrayText, ListMatches(t), ListOK(t)
  PROVE  Exact(t, Sorted(t.nums))
  <1>1. t.kind = "list" /\ t.nums \in Seq(Nat)
    BY DEF ListMatches, ArrayText
  <1>2. Increasing(t.nums)
    BY <1>1, StepwiseIncreasing DEF ListOK
  <1>3. Sorted(t.nums) = t.nums
    BY <1>1, <1>2, SortedIncreasing
  <1>4. QED
    BY <1>1, <1>2, <1>3 DEF Exact, Elements, Denoted

\* An increasing sequence has as many elements as it is long.
LEMMA IncreasingCount ==
  ASSUME NEW s \in Seq(Nat), Increasing(s)
  PROVE  IsFiniteSet(Elements(s)) /\ Cardinality(Elements(s)) = Len(s)
  <1> DEFINE m == Len(s)
             E == Elements(s)
             f == [k \in 1..m |-> s[k]]
  <1>1. m \in Nat /\ \A k \in 1..m : s[k] \in Nat
    OBVIOUS
  <1>2. \A k, l \in 1..m : k < l => s[k] < s[l]
    BY DEF Increasing
  <1>3. E = {s[k] : k \in 1..m}
    BY DEF Elements
  <1> HIDE DEF m, E
  <1>4. \A k, l \in 1..m : s[k] = s[l] => k = l
    BY <1>1, <1>2
  <1>5. f \in [1..m -> E]
    BY <1>3
  <1>6. f \in Bijection(1..m, E)
    <2>1. \A k, l \in 1..m : f[k] = f[l] => k = l
      BY <1>4
    <2>2. \A e \in E : \E k \in 1..m : f[k] = e
      BY <1>3
    <2>3. QED
      BY <1>5, <2>1, <2>2, Fun_IsBij
  <1>7. IsFiniteSet(1..m) /\ Cardinality(1..m) = m
    <2>1. 1 \in Int /\ m \in Int
      BY <1>1
    <2>2. IsFiniteSet(1..m) /\ Cardinality(1..m) = IF 1 > m THEN 0 ELSE m - 1 + 1
      BY <2>1, FS_Interval, Zenon
    <2>3. QED
      BY <1>1, <2>2
  <1>8. ExistsBijection(1..m, E)
    BY <1>6 DEF ExistsBijection
  <1>9. QED
    BY <1>7, <1>8, FS_Bijection DEF m, E

\* When the memory is used up before the end the array is larger than it.
LEMMA ProgressKilled ==
  ASSUME NEW t, GoodRange(t), NEW j, NEW s, Progress(t, j, s), j <= t.to, Len(s) = Memory
  PROVE  Cardinality(Denoted(t)) > Memory
  <1>1. /\ t.from \in Nat /\ t.to \in Nat
        /\ Denoted(t) = {y \in t.from..t.to : (y - t.from) % Step(t) = 0}
    BY RangeNumbers
  <1>2. /\ s \in Seq(Nat) /\ Increasing(s) /\ j \in Nat /\ j >= t.from /\ (j - t.from) % Step(t) = 0
        /\ Elements(s) = {y \in Denoted(t) : y < j}
    BY DEF Progress
  <1>3. IsFiniteSet(Elements(s)) /\ Cardinality(Elements(s)) = Memory
    BY <1>2, IncreasingCount
  <1>4. j \notin Elements(s) /\ j \in Denoted(t)
    BY <1>1, <1>2
  <1>5. Cardinality(Elements(s) \cup {j}) = Memory + 1
    BY <1>3, <1>4, FS_AddElement
  <1>6. IsFiniteSet(Denoted(t))
    <2>1. IsFiniteSet(t.from..t.to)
      <3>1. t.from \in Int /\ t.to \in Int
        BY <1>1
      <3>2. QED
        BY <3>1, FS_Interval, Zenon
    <2>2. Denoted(t) \in SUBSET (t.from..t.to)
      BY <1>1
    <2>3. QED
      BY <2>1, <2>2, FS_Subset
  <1>7. Elements(s) \cup {j} \in SUBSET Denoted(t)
    BY <1>2, <1>4
  <1>8. Cardinality(Elements(s) \cup {j}) <= Cardinality(Denoted(t))
    BY <1>6, <1>7, FS_Subset
  <1>9. Cardinality(Denoted(t)) \in Nat /\ Memory \in Nat
    BY <1>6, FS_CardinalityType, MemoryAssumption
  <1>10. QED
    BY <1>5, <1>8, <1>9

\* What is known of the array, from the text to the last index.
ArrayInv ==
    /\ IsInput(in) /\ text \in ArrayText
    /\ at = "idle" => indexes = <<>>
    /\ pc \in {"parse", "envs", "flags"} => at = "idle"
    /\ pc = "array" => at \in {"idle", "loop"}
    /\ pc \in {"scan", "label", "built"} => at = "done" \/ (at = "idle" /\ b["array"] = "")
    /\ pc = "killed" => at = "killed"
    /\ at = "loop" => GoodRange(text) /\ (NoWrap(text) => Progress(text, i, indexes))
    /\ at = "done" /\ NoWrap(text) => Exact(text, indexes)
    /\ at = "killed" => ~NoWrap(text) \/ Cardinality(Denoted(text)) > Memory

\* The meaning of the text of an array.
LEMMA ArrayMeaning ==
  ASSUME IsInput(in), NEW v
  PROVE  ArrayOf(v) \in ArrayText
  <1>1. [kind |-> "other"] \in ArrayText
    BY DEF ArrayText
  <1>2. QED
    BY <1>1 DEF IsInput, ArrayOf

\* The invariant holds initially.
LEMMA ArrayInit == Init => ArrayInv
  <1> SUFFICES ASSUME Init PROVE ArrayInv
    OBVIOUS
  <1>1. IsInput(in)
    BY InputsAssumption DEF Init
  <1>2. text \in ArrayText
    BY DEF Init, ArrayText
  <1>3. QED
    BY <1>1, <1>2 DEF Init, ArrayInv

\* A step that leaves the array alone keeps the invariant.
LEMMA ArrayUnchanged ==
  ASSUME ArrayInv, in' = in, UNCHANGED arrayVars,
         \/ pc \in {"parse", "envs", "flags"} /\ pc' \in {"parse", "envs", "flags", "failed"}
         \/ pc \in {"scan", "label"} /\ pc' \in {"scan", "label", "built", "failed"} /\ b' = b
  PROVE  ArrayInv'
  <1>1. text' = text /\ at' = at /\ i' = i /\ indexes' = indexes
    BY DEF arrayVars
  <1>2. QED
    BY <1>1 DEF ArrayInv

\* Every step keeps the invariant.
LEMMA ArrayNext == ArrayInv /\ [Next]_vars => ArrayInv'
  <1> SUFFICES ASSUME ArrayInv, [Next]_vars PROVE ArrayInv'
    OBVIOUS
  <1>1. CASE ReadScript
    BY <1>1, ArrayUnchanged DEF ReadScript
  <1>2. CASE getSbatchEnvs
    BY <1>2, ArrayUnchanged DEF getSbatchEnvs
  <1>3. CASE replaceScriptFlags
    <2>1. /\ pc = "flags" /\ pc' \in {"failed", "array"} /\ at' = at /\ indexes' = indexes /\ in' = in
          /\ text' = text \/ text' = ArrayOf(b'["array"])
      BY <1>3 DEF replaceScriptFlags
    <2>2. text' \in ArrayText
      BY <2>1, ArrayMeaning DEF ArrayInv
    <2>3. at = "idle"
      BY <2>1 DEF ArrayInv
    <2>4. QED
      BY <2>1, <2>2, <2>3 DEF ArrayInv
  <1>4. CASE ParseArray
    <2>1. pc = "array" /\ in' = in /\ b' = b /\ at \in {"idle", "loop"} /\ text' = text
      BY <1>4 DEF ParseArray, ArrayInv, arrayVars, ParseArrayIndexes, RangeStep
    <2>2. pc' = IF at' = "refused" THEN "failed" ELSE IF at' = "killed" THEN "killed"
                ELSE IF at' = "loop" THEN "array" ELSE "scan"
      BY <1>4, <2>1 DEF ParseArray
    <2>3. CASE b["array"] = ""
      <3>1. at' = at /\ i' = i /\ indexes' = indexes
        BY <1>4, <2>3 DEF ParseArray, arrayVars
      <3>2. QED
        BY <2>1, <2>2, <2>3, <3>1 DEF ArrayInv
    <2>4. CASE b["array"] # "" /\ at = "idle" /\ ParseArrayIndexes
      <3>1. CASE /\ ListMatches(text) /\ ListOK(text)
                 /\ at' = "done" /\ indexes' = Sorted(text.nums)
        <4>1. Exact(text, indexes')
          BY <3>1, ListExact DEF ArrayInv
        <4>2. QED
          BY <2>1, <2>2, <3>1, <4>1 DEF ArrayInv
      <3>2. CASE /\ RangeMatches(text) /\ RangeOK(text)
                 /\ at' = "loop" /\ i' = text.from /\ indexes' = indexes
        <4>1. GoodRange(text)
          BY <3>2 DEF GoodRange, ArrayInv
        <4>2. Progress(text, i', indexes')
          BY <2>4, <3>2, <4>1, ProgressStart DEF ArrayInv
        <4>3. QED
          BY <2>1, <2>2, <3>2, <4>1, <4>2 DEF ArrayInv
      <3>3. CASE at' = "refused"
        BY <2>1, <2>2, <3>3 DEF ArrayInv
      <3>4. QED
        BY <2>4, <3>1, <3>2, <3>3 DEF ParseArrayIndexes
    <2>5. CASE b["array"] # "" /\ RangeStep
      <3>1. at = "loop" /\ GoodRange(text) /\ (NoWrap(text) => Progress(text, i, indexes))
        BY <2>5 DEF RangeStep, ArrayInv
      <3>2. CASE /\ i <= text.to /\ Len(indexes) < Memory
                 /\ indexes' = Append(indexes, i) /\ i' = Wrap(i + Step(text)) /\ at' = at
        <4>1. NoWrap(text) => Progress(text, i', indexes')
          BY <3>1, <3>2, ProgressTurn
        <4>2. QED
          BY <2>1, <2>2, <3>1, <3>2, <4>1 DEF ArrayInv
      <3>3. CASE i <= text.to /\ Len(indexes) = Memory /\ at' = "killed"
        <4>1. NoWrap(text) => Cardinality(Denoted(text)) > Memory
          BY <3>1, <3>3, ProgressKilled
        <4>2. QED
          BY <2>1, <2>2, <3>3, <4>1 DEF ArrayInv
      <3>4. CASE i > text.to /\ at' = "done" /\ indexes' = Sorted(indexes)
        <4>1. NoWrap(text) => Exact(text, indexes')
          BY <3>1, <3>4, ProgressEnd
        <4>2. QED
          BY <2>1, <2>2, <3>4, <4>1 DEF ArrayInv
      <3>5. QED
        BY <2>5, <3>2, <3>3, <3>4 DEF RangeStep
    <2>6. QED
      BY <1>4, <2>3, <2>4, <2>5 DEF ParseArray
  <1>5. CASE ScanLine
    BY <1>5, ArrayUnchanged DEF ScanLine
  <1>6. CASE ScanEnd
    BY <1>6, ArrayUnchanged DEF ScanEnd
  <1>7. CASE BuildLabel
    BY <1>7, ArrayUnchanged DEF BuildLabel
  <1>8. CASE UNCHANGED vars
    BY <1>8 DEF vars, ArrayInv
  <1>9. QED
    BY <1>1, <1>2, <1>3, <1>4, <1>5, <1>6, <1>7, <1>8 DEF Next, Done

\* Each index an array denotes is the task id of exactly one pod, unless the
\* loop variable leaves int32, and only then or for an array beyond the memory
\* is the process killed (ParseArrayIndexes, completion, the init script), for
\* every list, every range and every width of the integers.
THEOREM ArrayExact == Spec => []ArrayAsWritten
  <1>1. ArrayInv => ArrayAsWritten
    <2> SUFFICES ASSUME ArrayInv PROVE ArrayAsWritten
      OBVIOUS
    <2>1. ASSUME pc = "built", b["array"] # "", NoWrap(text)
          PROVE  /\ Completions = Cardinality(Denoted(text))
                 /\ {TaskId(k) : k \in 0..(Completions - 1)} = Denoted(text)
      <3>1. Exact(text, indexes)
        BY <2>1 DEF ArrayInv
      <3>2. /\ indexes \in Seq(Nat) /\ Increasing(indexes) /\ Elements(indexes) = Denoted(text)
            /\ Len(indexes) \in Nat
        BY <3>1 DEF Exact
      <3>3. Len(indexes) = Cardinality(Denoted(text))
        BY <3>2, IncreasingCount
      <3>4. {indexes[k + 1] : k \in 0..(Len(indexes) - 1)} = {indexes[k] : k \in 1..Len(indexes)}
        <4>1. \A k \in 0..(Len(indexes) - 1) : k + 1 \in 1..Len(indexes)
          BY <3>2
        <4>2. \A k \in 1..Len(indexes) : k - 1 \in 0..(Len(indexes) - 1) /\ (k - 1) + 1 = k
          BY <3>2
        <4>3. QED
          BY <4>1, <4>2
      <3>5. QED
        BY <3>2, <3>3, <3>4 DEF Completions, TaskId, Elements
    <2>2. pc = "killed" => ~NoWrap(text) \/ Cardinality(Denoted(text)) > Memory
      BY DEF ArrayInv
    <2>3. QED
      BY <2>1, <2>2 DEF ArrayAsWritten
  <1>2. QED
    BY <1>1, ArrayInit, ArrayNext, PTL DEF Spec

-----------------------------------------------------------------------------
(***************************************************************************)
(* The time limit.                                                         *)
(***************************************************************************)

LabelInv ==
    /\ IsInput(in)
    /\ pc = "built" => ~TimeRefused(TimeOf(b["time"])) /\ label = TimeLabel(TimeOf(b["time"]))

\* The meaning of the text of a time limit.
LEMMA TimeMeaning ==
  ASSUME IsInput(in), NEW v
  PROVE  TimeOf(v) \in TimeText
  <1>1. [kind |-> "other"] \in TimeText /\ [kind |-> "unset"] \in TimeText
    BY DEF TimeText
  <1>2. QED
    BY <1>1 DEF IsInput, TimeOf

\* Every step keeps the invariant: only BuildLabel builds.
LEMMA LabelNext == LabelInv /\ [Next]_vars => LabelInv'
  <1> SUFFICES ASSUME LabelInv, [Next]_vars PROVE LabelInv'
    OBVIOUS
  <1>1. CASE BuildLabel
    BY <1>1 DEF BuildLabel, LabelInv, TimeOf
  <1>2. CASE UNCHANGED vars
    BY <1>2 DEF vars, LabelInv, TimeOf
  <1>3. CASE ReadScript
    BY <1>3 DEF ReadScript, LabelInv
  <1>4. CASE getSbatchEnvs
    BY <1>4 DEF getSbatchEnvs, LabelInv
  <1>5. CASE replaceScriptFlags
    BY <1>5 DEF replaceScriptFlags, LabelInv
  <1>6. CASE ParseArray
    BY <1>6 DEF ParseArray, LabelInv
  <1>7. CASE ScanLine
    BY <1>7 DEF ScanLine, LabelInv
  <1>8. CASE ScanEnd
    BY <1>8 DEF ScanEnd, LabelInv
  <1>9. QED
    BY <1>1, <1>2, <1>3, <1>4, <1>5, <1>6, <1>7, <1>8 DEF Next, Done

\* A limit that an int32 can hold becomes the label, to the second, in every
\* format, and a limit of zero becomes none (TimeLimitToSeconds,
\* withKueueLabels), for every width of the integers.
THEOREM TimeLimitExact == Spec => []TimeAsWritten
  <1>1. Init => LabelInv
    BY InputsAssumption DEF Init, LabelInv
  <1>2. LabelInv => TimeAsWritten
    <2> DEFINE t == TimeOf(b["time"])
    <2> SUFFICES ASSUME LabelInv, pc = "built", t.kind = "fields", Meant(t) <= MaxInt
                 PROVE  label = Meant(t)
      BY DEF TimeAsWritten
    <2>1. t \in TimeText /\ ~TimeRefused(t) /\ label = TimeLabel(t)
      BY TimeMeaning DEF LabelInv
    <2> HIDE DEF t
    <2>2. isValidTimeSpec(t)
      BY <2>1 DEF TimeRefused
    <2>3. Seconds(t) = Meant(t) /\ Meant(t) \in Nat
      BY <2>1, <2>2, SecondsExact
    <2>4. QED
      BY <2>1, <2>3 DEF TimeLabel
  <1>3. QED
    BY <1>1, <1>2, LabelNext, PTL DEF Spec

-----------------------------------------------------------------------------
(***************************************************************************)
(* Commands of Slurm in the script.                                        *)
(***************************************************************************)

\* findCommand finds none of the commands in the line.
Clean(x) == \A c \in notSupportedCommands : findCommand(x, c) = 0

CleanInv == \E S : out \in Seq(S) /\ \A x \in S : Clean(x)

\* Where the text of a command occurs first.
LEMMA FirstOccurrence ==
  ASSUME NEW x, NEW c, NEW k \in 1..Len(x), x[k] = c
  PROVE  /\ FirstText(x, c) \in 1..Len(x) /\ FirstText(x, c) <= k
         /\ x[FirstText(x, c)] = c \/ <<x[FirstText(x, c)], c>> \in Embedded \cup Mentioned
  <1> DEFINE W == {j \in 1..Len(x) : x[j] = c \/ <<x[j], c>> \in Embedded \cup Mentioned}
  <1>1. W \in SUBSET Nat /\ k \in W
    OBVIOUS
  <1>2. FirstText(x, c) = CHOOSE j \in W : \A l \in W : j <= l
    BY <1>1 DEF FirstText
  <1>3. \E j \in W : \A l \in W : j <= l
    BY <1>1, Smallest
  <1>4. FirstText(x, c) \in W /\ \A l \in W : FirstText(x, c) <= l
    BY <1>2, <1>3
  <1>5. QED
    BY <1>1, <1>4

\* A command that findCommand does not see in a line which has it as a word
\* is behind a word that contains it.
LEMMA CleanLine ==
  ASSUME NEW x, NEW k \in 1..Len(x), x[k] \in Commands, findCommand(x, x[k]) = 0
  PROVE  \E j \in 1..(k - 1) : <<x[j], x[k]>> \in Embedded
  <1> DEFINE c == x[k]
             f == FirstText(x, c)
  <1>1. f \in 1..Len(x) /\ f <= k
    BY FirstOccurrence
  <1>2. <<x[f], c>> \in Embedded
    BY <1>1 DEF findCommand
  <1>3. f # k
    BY <1>2, WordAssumption
  <1>4. f \in 1..(k - 1)
    BY <1>1, <1>3
  <1>5. QED
    BY <1>2, <1>4

\* An empty line is clean.
LEMMA EmptyClean == Clean(<<>>)
  BY DEF Clean, findCommand, FirstText

\* A line that is written keeps the invariant if it is clean.
LEMMA CleanAppend ==
  ASSUME CleanInv, NEW x, Clean(x), out' = Append(out, x)
  PROVE  CleanInv'
  <1>1. PICK S : out \in Seq(S) /\ \A y \in S : Clean(y)
    BY DEF CleanInv
  <1>2. out \in Seq(S \cup {x})
    BY <1>1, SeqMonotonic
  <1>3. out' \in Seq(S \cup {x})
    BY <1>2
  <1>4. \A y \in S \cup {x} : Clean(y)
    BY <1>1
  <1>5. QED
    BY <1>3, <1>4 DEF CleanInv

\* Every step keeps the invariant.
LEMMA CleanNext == CleanInv /\ [Next]_vars => CleanInv'
  <1> SUFFICES ASSUME CleanInv, [Next]_vars PROVE CleanInv'
    OBVIOUS
  <1>1. CASE out' = out
    BY <1>1 DEF CleanInv
  <1>2. CASE ScanLine
    <2>1. CASE out' = Append(out, <<>>)
      BY <2>1, EmptyClean, CleanAppend
    <2>2. CASE out' = Append(out, Replaced(Joined)) /\ ~Unsupported(Joined)
      <3>1. Clean(Replaced(Joined))
        BY <2>2 DEF Unsupported, Clean
      <3>2. QED
        BY <2>2, <3>1, CleanAppend
    <2>3. QED
      BY <1>1, <1>2, <2>1, <2>2 DEF ScanLine
  <1>3. CASE ReadScript \/ getSbatchEnvs \/ replaceScriptFlags \/ ParseArray
    BY <1>1, <1>3 DEF ReadScript, getSbatchEnvs, replaceScriptFlags, ParseArray, lineVars
  <1>4. CASE ScanEnd \/ BuildLabel \/ UNCHANGED vars
    BY <1>1, <1>4 DEF ScanEnd, BuildLabel, vars, lineVars
  <1>5. QED
    BY <1>2, <1>3, <1>4 DEF Next, Done

-----------------------------------------------------------------------------
(***************************************************************************)
(* The directives of the script.                                           *)
(***************************************************************************)

Follows(g, m, S, start, step) ==
    g \in [0..m -> S] /\ g[0] = start /\ \A k \in 1..m : g[k] = step[<<g[k - 1], k>>]

\* A function defined by recursion over 0..m exists.
LEMMA Recursion ==
  ASSUME NEW m \in Nat, NEW S, NEW start \in S, NEW step \in [S \X (1..m) -> S]
  PROVE  \E g : Follows(g, m, S, start, step)
  <1> DEFINE Defined(g, l) == g[0] = start /\ \A k \in 1..l : g[k] = step[<<g[k - 1], k>>]
             T == {l \in Nat : l <= m => \E g \in [0..l -> S] : Defined(g, l)}
  <1>1. 0 \in T
    <2>1. [k \in 0..0 |-> start] \in [0..0 -> S]
      OBVIOUS
    <2>2. Defined([k \in 0..0 |-> start], 0)
      OBVIOUS
    <2> HIDE DEF Defined
    <2>3. QED
      BY <2>1, <2>2
  <1>2. ASSUME NEW l \in T PROVE l + 1 \in T
    <2>1. SUFFICES ASSUME l + 1 <= m PROVE \E g \in [0..(l + 1) -> S] : Defined(g, l + 1)
      OBVIOUS
    <2>2. l \in Nat /\ l <= m
      BY <2>1
    <2>3. PICK g \in [0..l -> S] : Defined(g, l)
      BY <2>2
    <2> DEFINE h == [k \in 0..(l + 1) |-> IF k = l + 1 THEN step[<<g[l], l + 1>>] ELSE g[k]]
    <2>4. l + 1 \in 1..m /\ l \in 0..l /\ \A k \in 0..(l + 1) : k # l + 1 => k \in 0..l
      BY <2>1, <2>2
    <2>5. step[<<g[l], l + 1>>] \in S
      BY <2>3, <2>4
    <2>6. h \in [0..(l + 1) -> S]
      BY <2>3, <2>4, <2>5
    <2>7. /\ h[l + 1] = step[<<g[l], l + 1>>]
          /\ \A k \in 0..l : h[k] = g[k]
      BY <2>2
    <2>8. \A k \in 1..(l + 1) : h[k] = step[<<h[k - 1], k>>]
      <3>1. SUFFICES ASSUME NEW k \in 1..(l + 1) PROVE h[k] = step[<<h[k - 1], k>>]
        OBVIOUS
      <3> HIDE DEF h
      <3>2. k - 1 \in 0..l
        BY <2>2
      <3>3. CASE k = l + 1
        <4>1. k - 1 = l
          BY <2>2, <3>3
        <4>2. QED
          BY <2>7, <3>2, <3>3, <4>1
      <3>4. CASE k # l + 1
        <4>1. k \in 1..l /\ k \in 0..l
          BY <2>2, <3>4
        <4>2. QED
          BY <2>3, <2>7, <3>2, <4>1
      <3>5. QED
        BY <3>3, <3>4
    <2>9. h[0] = start
      <3>1. 0 \in 0..l
        BY <2>2
      <3> HIDE DEF h
      <3>2. QED
        BY <2>3, <2>7, <3>1
    <2> HIDE DEF h
    <2>10. Defined(h, l + 1)
      BY <2>8, <2>9
    <2> HIDE DEF Defined
    <2>11. QED
      BY <2>6, <2>10
  <1>3. T = Nat
    <2>1. T \in SUBSET Nat
      OBVIOUS
    <2> HIDE DEF T
    <2>2. QED
      BY <1>1, <1>2, <2>1, Induction
  <1>4. m \in T /\ m <= m
    <2> HIDE DEF T
    <2>1. QED
      BY <1>3
  <1>5. \E g \in [0..m -> S] : Defined(g, m)
    <2> HIDE DEF Defined
    <2>1. QED
      BY <1>4
  <1>6. QED
    BY <1>5 DEF Follows

Text == STRING \cup {""}

ReadState == [stop : BOOLEAN, err : BOOLEAN, vals : [Fields -> Text]]

\* What SlurmFlags has read after line k.
Reads(g, script, ignoreUnknown) ==
    /\ g \in [0..Len(script) -> ReadState]
    /\ g[0] = [stop |-> FALSE, err |-> FALSE, vals |-> [f \in Fields |-> ""]]
    /\ \A k \in 1..Len(script) :
           g[k] = IF g[k - 1].stop THEN g[k - 1] ELSE ReadLine(g[k - 1], script[k], ignoreUnknown)

\* The loop of SlurmFlags is a recursive function that exists.
LEMMA SlurmFlagsReads ==
  ASSUME NEW script \in Seq(ScriptLine), NEW ign \in BOOLEAN,
         \A r \in ReadState : \A k \in 1..Len(script) : ReadLine(r, script[k], ign) \in ReadState
  PROVE  \E g : Reads(g, script, ign) /\ SlurmFlags(script, ign) = g[Len(script)]
  <1> DEFINE m == Len(script)
             start == [stop |-> FALSE, err |-> FALSE, vals |-> [f \in Fields |-> ""]]
             next(r, k) == IF r.stop THEN r ELSE ReadLine(r, script[k], ign)
             step == [p \in ReadState \X (1..m) |-> next(p[1], p[2])]
             Rec(g) == [k \in 0..m |-> IF k = 0 THEN start ELSE next(g[k - 1], k)]
             after == CHOOSE g : g = Rec(g)
  <1>1. m \in Nat
    OBVIOUS
  <1>a. start \in ReadState
    <2>1. [f \in Fields |-> ""] \in [Fields -> Text]
      BY DEF Text
    <2>2. QED
      BY <2>1 DEF ReadState
  <1>2. \A r \in ReadState, k \in 1..m : next(r, k) \in ReadState
    OBVIOUS
  <1>3. SlurmFlags(script, ign) = after[m]
    BY DEF SlurmFlags
  <1>4. step \in [ReadState \X (1..m) -> ReadState]
    BY <1>2
  <1>b. PICK g : Follows(g, m, ReadState, start, step)
    <2> HIDE DEF m, start, step
    <2>1. QED
      BY <1>1, <1>a, <1>4, Recursion
  <1>5. g \in [0..m -> ReadState] /\ g[0] = start /\ \A k \in 1..m : g[k] = step[<<g[k - 1], k>>]
    BY <1>b DEF Follows
  <1>6. \A k \in 1..m : g[k] = next(g[k - 1], k)
    <2>1. SUFFICES ASSUME NEW k \in 1..m PROVE g[k] = next(g[k - 1], k)
      OBVIOUS
    <2>2. k - 1 \in 0..m
      BY <1>1
    <2>3. <<g[k - 1], k>> \in ReadState \X (1..m)
      BY <1>5, <2>2
    <2>4. step[<<g[k - 1], k>>] = next(g[k - 1], k)
      BY <2>3
    <2>5. QED
      BY <1>5, <2>4
  <1>7. Reads(g, script, ign)
    BY <1>5, <1>6 DEF Reads
  <1>8. g = Rec(g)
    <2> HIDE DEF next, start
    <2>1. \A k \in 0..m : k = 0 \/ k \in 1..m
      BY <1>1
    <2>2. \A k \in 0..m : g[k] = IF k = 0 THEN start ELSE next(g[k - 1], k)
      BY <1>5, <1>6, <2>1
    <2>3. g = [k \in 0..m |-> g[k]]
      BY <1>5
    <2>4. QED
      BY <2>2, <2>3
  <1>9. after = Rec(after)
    <2> HIDE DEF Rec
    <2>1. QED
      BY <1>8
  <1>10. after[0] = start /\ \A k \in 1..m : after[k] = next(after[k - 1], k)
    <2> HIDE DEF next, start, after
    <2>1. 0 \in 0..m /\ \A k \in 1..m : k \in 0..m /\ k # 0
      BY <1>1
    <2>2. QED
      BY <1>9, <2>1
  <1> DEFINE T == {k \in Nat : k <= m => after[k] = g[k]}
  <1> HIDE DEF next, start, after, Rec, m
  <1>11. 0 \in T
    BY <1>5, <1>10
  <1>12. ASSUME NEW k \in T PROVE k + 1 \in T
    <2>1. SUFFICES ASSUME k + 1 <= m PROVE after[k + 1] = g[k + 1]
      OBVIOUS
    <2>2. k + 1 \in 1..m /\ (k + 1) - 1 = k /\ k <= m
      BY <1>1, <2>1
    <2>3. QED
      BY <1>6, <1>10, <2>2
  <1>13. T = Nat
    <2>1. T \in SUBSET Nat
      OBVIOUS
    <2> HIDE DEF T
    <2>2. QED
      BY <1>11, <1>12, <2>1, Induction
  <1>14. after[m] = g[m]
    BY <1>1, <1>13
  <1>15. QED
    BY <1>3, <1>7, <1>14 DEF m

Option == [key : STRING, val : STRING, form : {"long", "short", "spaced"}]

\* extractKeyValue yields one of the options, or nothing.
LEMMA ExtractOne ==
  ASSUME NEW l \in ScriptLine
  PROVE  extractKeyValue(l) = <<>> \/ \E o \in Option : extractKeyValue(l) = <<o>>
  <1> DEFINE of(form) == {k \in 1..Len(l.opts) : l.opts[k].form = form}
             first(S) == l.opts[CHOOSE k \in S : \A j \in S : k <= j]
  <1>1. l.opts \in Seq(Option)
    BY DEF ScriptLine, Option
  <1>2. ASSUME NEW form, of(form) # {} PROVE first(of(form)) \in Option
    <2>1. of(form) \in SUBSET Nat
      BY <1>1
    <2>2. \E k \in of(form) : \A j \in of(form) : k <= j
      BY <1>2, <2>1, Smallest
    <2>3. (CHOOSE k \in of(form) : \A j \in of(form) : k <= j) \in of(form)
      BY <2>2
    <2>4. \A k \in of(form) : k \in 1..Len(l.opts)
      OBVIOUS
    <2> DEFINE c == CHOOSE k \in of(form) : \A j \in of(form) : k <= j
    <2>5. c \in 1..Len(l.opts)
      BY <2>3, <2>4
    <2> HIDE DEF c
    <2>6. l.opts[c] \in Option
      BY <1>1, <2>5
    <2>7. QED
      BY <2>6 DEF c
  <1>3. extractKeyValue(l) = IF of("long") # {} THEN <<first(of("long"))>>
                             ELSE IF of("short") # {} THEN <<first(of("short"))>> ELSE <<>>
    BY DEF extractKeyValue
  <1> HIDE DEF of, first
  <1>4. QED
    BY <1>2, <1>3

\* It yields the only option of a line, in the two forms it reads.
LEMMA ExtractPlain ==
  ASSUME NEW l \in ScriptLine, Len(l.opts) = 1, l.opts[1].form # "spaced"
  PROVE  extractKeyValue(l) = <<l.opts[1]>>
  <1> DEFINE of(form) == {k \in 1..Len(l.opts) : l.opts[k].form = form}
             first(S) == l.opts[CHOOSE k \in S : \A j \in S : k <= j]
  <1>1. l.opts \in Seq(Option)
    BY DEF ScriptLine, Option
  <1>2. l.opts[1] \in Option
    BY <1>1
  <1>3. l.opts[1].form \in {"long", "short"}
    BY <1>2 DEF Option
  <1>4. \A form : of(form) = IF l.opts[1].form = form THEN {1} ELSE {}
    OBVIOUS
  <1>5. first({1}) = l.opts[1]
    OBVIOUS
  <1>6. extractKeyValue(l) = IF of("long") # {} THEN <<first(of("long"))>>
                             ELSE IF of("short") # {} THEN <<first(of("short"))>> ELSE <<>>
    BY DEF extractKeyValue
  <1> HIDE DEF of, first
  <1>7. QED
    BY <1>3, <1>4, <1>5, <1>6

Known(kv) == {f \in Fields : kv[1].key \in FlagNames[f]}

Updated(r, kv) == [f \in Fields |-> IF f \in Known(kv) THEN kv[1].val ELSE r.vals[f]]

\* What becomes of r in one round of SlurmFlags' loop, by the kind of the line.
Round(res, r, kind, kv, ign) ==
    /\ kind \in {"blank", "comment"} => res = r
    /\ kind = "command" => res = [r EXCEPT !.stop = TRUE]
    /\ kind = "directive" /\ kv = <<>> => res = r
    /\ kind = "directive" /\ kv # <<>> /\ Known(kv) = {} => res = [r EXCEPT !.stop = ~ign, !.err = ~ign]
    /\ kind = "directive" /\ kv # <<>> /\ Known(kv) # {} =>
           res = [r EXCEPT !.stop = TRUE, !.err = TRUE] \/ res = [r EXCEPT !.vals = Updated(r, kv)]

\* ReadLine is such a round.
LEMMA ReadLineRound ==
  ASSUME NEW r, NEW l, NEW ign
  PROVE  Round(ReadLine(r, l, ign), r, l.kind, extractKeyValue(l), ign)
  BY DEF ReadLine, Round, Known, Updated

\* A round keeps the type of what is read.
LEMMA ReadLineType ==
  ASSUME NEW r \in ReadState, NEW l \in ScriptLine, NEW ign \in BOOLEAN
  PROVE  ReadLine(r, l, ign) \in ReadState
  <1>1. PICK kv : kv = extractKeyValue(l)
    OBVIOUS
  <1>2. PICK res : res = ReadLine(r, l, ign)
    OBVIOUS
  <1>3. Round(res, r, l.kind, kv, ign)
    BY <1>1, <1>2, ReadLineRound
  <1>4. l.kind \in {"blank", "comment", "directive", "command"}
    BY DEF ScriptLine
  <1>5. kv # <<>> => kv[1].val \in STRING
    BY <1>1, ExtractOne DEF Option
  <1>6. kv # <<>> => Updated(r, kv) \in [Fields -> Text]
    BY <1>5 DEF ReadState, Text, Updated
  <1>7. /\ [r EXCEPT !.stop = TRUE] \in ReadState /\ [r EXCEPT !.stop = TRUE, !.err = TRUE] \in ReadState
        /\ [r EXCEPT !.stop = ~ign, !.err = ~ign] \in ReadState
    BY DEF ReadState
  <1>8. Updated(r, kv) \in [Fields -> Text] => [r EXCEPT !.vals = Updated(r, kv)] \in ReadState
    BY DEF ReadState
  <1>9. QED
    BY <1>2, <1>3, <1>4, <1>6, <1>7, <1>8 DEF Round

NoCommand(sc, k) == \A j \in 1..k : sc[j].kind # "command"

\* The lines up to k, before the first command, that set field f.
Setting(sc, f, k) ==
    {j \in 1..k : NoCommand(sc, j) /\ sc[j].kind = "directive" /\ sc[j].opts[1].key \in FlagNames[f]}

Latest(sc, D) == IF D = {} THEN "" ELSE sc[CHOOSE x \in D : \A j \in D : j <= x].opts[1].val

Plain(sc) ==
    \A k \in 1..Len(sc) : NoCommand(sc, k) /\ sc[k].kind = "directive" =>
        Len(sc[k].opts) = 1 /\ sc[k].opts[1].form # "spaced"

\* What SlurmFlags knows after k lines: there was an error, or the last value
\* of each field.
Reading(r, sc, k) ==
    \/ r.err = TRUE /\ r.stop = TRUE
    \/ /\ r.err = FALSE /\ (r.stop = TRUE <=> ~NoCommand(sc, k))
       /\ \A f \in Fields : r.vals[f] = Latest(sc, Setting(sc, f, k))

\* One line more.
LEMMA SettingNext ==
  ASSUME NEW sc, NEW f, NEW k \in Nat
  PROVE  /\ NoCommand(sc, k + 1) <=> NoCommand(sc, k) /\ sc[k + 1].kind # "command"
         /\ Setting(sc, f, k) \subseteq 1..k
         /\ (~NoCommand(sc, k + 1) \/ sc[k + 1].kind # "directive" \/ sc[k + 1].opts[1].key \notin FlagNames[f])
               => Setting(sc, f, k + 1) = Setting(sc, f, k)
         /\ (NoCommand(sc, k + 1) /\ sc[k + 1].kind = "directive" /\ sc[k + 1].opts[1].key \in FlagNames[f])
               => Setting(sc, f, k + 1) = Setting(sc, f, k) \cup {k + 1}
  <1>1. \A j : j \in 1..(k + 1) <=> j \in 1..k \/ j = k + 1
    OBVIOUS
  <1>2. NoCommand(sc, k + 1) <=> NoCommand(sc, k) /\ sc[k + 1].kind # "command"
    BY <1>1 DEF NoCommand
  <1>3. QED
    BY <1>1, <1>2 DEF Setting

\* The latest line counts.
LEMMA LatestNew ==
  ASSUME NEW sc, NEW k \in Nat, NEW D, D \subseteq 1..k
  PROVE  Latest(sc, D \cup {k + 1}) = sc[k + 1].opts[1].val
  <1> DEFINE E == D \cup {k + 1}
             x == CHOOSE y \in E : \A j \in E : j <= y
  <1>1. k + 1 \in E /\ \A j \in E : j \in Nat /\ j <= k + 1
    OBVIOUS
  <1> HIDE DEF E
  <1>2. x \in E /\ \A j \in E : j <= x
    BY <1>1
  <1>3. x = k + 1
    <2> HIDE DEF x
    <2>1. QED
      BY <1>1, <1>2
  <1>4. QED
    BY <1>1, <1>3 DEF Latest, E

\* One round of the loop keeps it.
LEMMA ReadingNext ==
  ASSUME NEW sc \in Seq(ScriptLine), Plain(sc), NEW ign \in BOOLEAN,
         NEW k \in Nat, k + 1 <= Len(sc), NEW r \in ReadState, Reading(r, sc, k)
  PROVE  Reading(IF r.stop THEN r ELSE ReadLine(r, sc[k + 1], ign), sc, k + 1)
  <1>1. PICK l \in ScriptLine : l = sc[k + 1]
    BY ElementOfSeq
  <1>2. \A f : Setting(sc, f, k) \subseteq 1..k
    BY SettingNext
  <1>3. NoCommand(sc, k + 1) <=> NoCommand(sc, k) /\ l.kind # "command"
    BY <1>1, SettingNext
  <1>4. \A f : (~NoCommand(sc, k + 1) \/ l.kind # "directive" \/ l.opts[1].key \notin FlagNames[f])
                  => Setting(sc, f, k + 1) = Setting(sc, f, k)
    BY <1>1, SettingNext
  <1>5. \A f : (NoCommand(sc, k + 1) /\ l.kind = "directive" /\ l.opts[1].key \in FlagNames[f])
                  => Setting(sc, f, k + 1) = Setting(sc, f, k) \cup {k + 1}
    BY <1>1, SettingNext
  <1>6. r.stop \in BOOLEAN /\ r.err \in BOOLEAN /\ DOMAIN r.vals = Fields
    BY DEF ReadState
  <1>7. CASE r.stop = TRUE
    <2>1. CASE r.err = TRUE
      BY <1>7, <2>1 DEF Reading
    <2>2. CASE r.err = FALSE
      <3>1. ~NoCommand(sc, k) /\ ~NoCommand(sc, k + 1)
        BY <1>3, <1>7, <2>2 DEF Reading
      <3>2. QED
        BY <1>4, <1>7, <2>2, <3>1 DEF Reading
    <2>3. QED
      BY <1>6, <2>1, <2>2
  <1>8. CASE r.stop = FALSE
    <2>1. /\ r.err = FALSE /\ NoCommand(sc, k)
          /\ \A f \in Fields : r.vals[f] = Latest(sc, Setting(sc, f, k))
      BY <1>8 DEF Reading
    <2>2. PICK kv : kv = extractKeyValue(l)
      OBVIOUS
    <2>3. PICK res : res = ReadLine(r, sc[k + 1], ign)
      OBVIOUS
    <2>4. Round(res, r, l.kind, kv, ign)
      BY <1>1, <2>2, <2>3, ReadLineRound
    <2>5. l.kind \in {"blank", "comment", "directive", "command"}
      BY DEF ScriptLine
    <2>6. CASE l.kind \in {"blank", "comment"}
      <3>1. res = r /\ NoCommand(sc, k + 1)
        BY <1>3, <2>1, <2>4, <2>6 DEF Round
      <3>2. QED
        BY <1>4, <1>8, <2>1, <2>3, <2>6, <3>1 DEF Reading
    <2>7. CASE l.kind = "command"
      <3>1. res = [r EXCEPT !.stop = TRUE] /\ ~NoCommand(sc, k + 1)
        BY <1>3, <2>4, <2>7 DEF Round
      <3>2. res.stop = TRUE /\ res.err = FALSE /\ res.vals = r.vals
        BY <2>1, <3>1 DEF ReadState
      <3>3. QED
        BY <1>4, <1>8, <2>1, <2>3, <3>1, <3>2 DEF Reading
    <2>8. CASE l.kind = "directive"
      <3>1. NoCommand(sc, k + 1) /\ k + 1 \in 1..Len(sc)
        BY <1>3, <2>1, <2>8
      <3>2. Len(l.opts) = 1 /\ l.opts[1].form # "spaced"
        BY <1>1, <2>8, <3>1 DEF Plain
      <3>3. kv = <<l.opts[1]>>
        BY <2>2, <3>2, ExtractPlain
      <3>4. kv # <<>> /\ kv[1] = l.opts[1]
        BY <3>3
      <3>5. CASE Known(kv) = {}
        <4>1. res = [r EXCEPT !.stop = ~ign, !.err = ~ign]
          BY <2>4, <2>8, <3>4, <3>5 DEF Round
        <4>2. res.stop = ~ign /\ res.err = ~ign /\ res.vals = r.vals
          BY <4>1 DEF ReadState
        <4>3. \A f \in Fields : Setting(sc, f, k + 1) = Setting(sc, f, k)
          BY <1>4, <3>4, <3>5 DEF Known
        <4>4. CASE ign = TRUE
          <5>1. res.stop = FALSE /\ res.err = FALSE
            BY <4>2, <4>4
          <5>2. QED
            BY <1>8, <2>1, <2>3, <3>1, <4>2, <4>3, <5>1 DEF Reading
        <4>5. CASE ign = FALSE
          <5>1. res.stop = TRUE /\ res.err = TRUE
            BY <4>2, <4>5
          <5>2. QED
            BY <1>8, <2>3, <5>1 DEF Reading
        <4>6. QED
          BY <4>4, <4>5
      <3>6. CASE res = [r EXCEPT !.stop = TRUE, !.err = TRUE]
        <4>1. res.stop = TRUE /\ res.err = TRUE
          BY <3>6 DEF ReadState
        <4>2. QED
          BY <1>8, <2>3, <4>1 DEF Reading
      <3>7. CASE res = [r EXCEPT !.vals = Updated(r, kv)]
        <4>1. res.stop = FALSE /\ res.err = FALSE /\ res.vals = Updated(r, kv)
          BY <1>8, <2>1, <3>7 DEF ReadState
        <4>2. ASSUME NEW f \in Fields PROVE res.vals[f] = Latest(sc, Setting(sc, f, k + 1))
          <5>1. res.vals[f] = IF f \in Known(kv) THEN kv[1].val ELSE r.vals[f]
            BY <4>1 DEF Updated
          <5>2. CASE f \in Known(kv)
            <6>1. Setting(sc, f, k + 1) = Setting(sc, f, k) \cup {k + 1}
              BY <1>5, <2>8, <3>1, <3>4, <5>2 DEF Known
            <6>2. Latest(sc, Setting(sc, f, k) \cup {k + 1}) = sc[k + 1].opts[1].val
              BY <1>2, LatestNew
            <6>3. QED
              BY <1>1, <3>4, <5>1, <5>2, <6>1, <6>2
          <5>3. CASE f \notin Known(kv)
            BY <1>4, <2>1, <3>4, <5>1, <5>3 DEF Known
          <5>4. QED
            BY <5>2, <5>3
        <4>3. QED
          BY <1>8, <2>3, <3>1, <4>1, <4>2 DEF Reading
      <3>8. QED
        BY <2>4, <2>8, <3>4, <3>5, <3>6, <3>7 DEF Round
    <2>9. QED
      BY <2>5, <2>6, <2>7, <2>8
  <1>9. QED
    BY <1>6, <1>7, <1>8

\* What SlurmFlags returns without an error: the last value of each field.
LEMMA SlurmFlagsLatest ==
  ASSUME NEW sc \in Seq(ScriptLine), Plain(sc), NEW ign \in BOOLEAN,
         SlurmFlags(sc, ign).err = FALSE
  PROVE  \A f \in Fields : SlurmFlags(sc, ign).vals[f] = Latest(sc, Setting(sc, f, Len(sc)))
  <1>1. \A r \in ReadState : \A k \in 1..Len(sc) : ReadLine(r, sc[k], ign) \in ReadState
    BY ReadLineType, ElementOfSeq
  <1>2. PICK g : Reads(g, sc, ign) /\ SlurmFlags(sc, ign) = g[Len(sc)]
    BY <1>1, SlurmFlagsReads
  <1>3. PICK m \in Nat : m = Len(sc)
    OBVIOUS
  <1>4. /\ g \in [0..m -> ReadState]
        /\ g[0] = [stop |-> FALSE, err |-> FALSE, vals |-> [f \in Fields |-> ""]]
        /\ \A k \in 1..m : g[k] = IF g[k - 1].stop THEN g[k - 1] ELSE ReadLine(g[k - 1], sc[k], ign)
    BY <1>2, <1>3 DEF Reads
  <1> DEFINE T == {k \in Nat : k <= m => Reading(g[k], sc, k)}
  <1>5. 0 \in T
    <2>1. g[0].err = FALSE /\ g[0].stop = FALSE /\ \A f \in Fields : g[0].vals[f] = ""
      <3>1. PICK none : none = [f \in Fields |-> ""]
        OBVIOUS
      <3>2. g[0] = [stop |-> FALSE, err |-> FALSE, vals |-> none]
        BY <1>4, <3>1
      <3>3. g[0].err = FALSE /\ g[0].stop = FALSE /\ g[0].vals = none
        BY ONLY <3>2
      <3>4. \A f \in Fields : none[f] = ""
        BY ONLY <3>1
      <3>5. QED
        BY <3>3, <3>4
    <2>2. NoCommand(sc, 0) /\ \A f \in Fields : Setting(sc, f, 0) = {}
      BY DEF NoCommand, Setting
    <2>3. Reading(g[0], sc, 0)
      BY <2>1, <2>2 DEF Reading, Latest
    <2>4. QED
      BY <2>3
  <1>6. ASSUME NEW k \in T PROVE k + 1 \in T
    <2>1. SUFFICES ASSUME k + 1 <= m PROVE Reading(g[k + 1], sc, k + 1)
      OBVIOUS
    <2>2. k + 1 \in 1..m /\ (k + 1) - 1 = k /\ k \in 0..m /\ k \in Nat /\ k <= m
      BY <2>1
    <2>3. g[k + 1] = IF g[k].stop THEN g[k] ELSE ReadLine(g[k], sc[k + 1], ign)
      BY <1>4, <2>2
    <2>4. g[k] \in ReadState /\ Reading(g[k], sc, k)
      BY <1>4, <2>2
    <2>5. k + 1 <= Len(sc)
      BY <1>3, <2>1
    <2> HIDE DEF T
    <2>6. Reading(IF g[k].stop THEN g[k] ELSE ReadLine(g[k], sc[k + 1], ign), sc, k + 1)
      BY <2>2, <2>4, <2>5, ReadingNext
    <2>7. QED
      BY <2>3, <2>6
  <1>7. T = Nat
    <2>1. T \in SUBSET Nat
      OBVIOUS
    <2> HIDE DEF T
    <2>2. QED
      BY <1>5, <1>6, <2>1, Induction
  <1>8. Reading(g[m], sc, m)
    BY <1>7
  <1>9. QED
    BY <1>2, <1>3, <1>8 DEF Reading

\* So it is a record of the loop, with an error that is true or false.
LEMMA SlurmFlagsType ==
  ASSUME NEW sc \in Seq(ScriptLine), NEW ign \in BOOLEAN
  PROVE  SlurmFlags(sc, ign).err \in BOOLEAN
  <1>1. \A r \in ReadState : \A k \in 1..Len(sc) : ReadLine(r, sc[k], ign) \in ReadState
    BY ReadLineType, ElementOfSeq
  <1>2. PICK g : Reads(g, sc, ign) /\ SlurmFlags(sc, ign) = g[Len(sc)]
    BY <1>1, SlurmFlagsReads
  <1>3. PICK m \in Nat : m = Len(sc)
    OBVIOUS
  <1>4. g \in [0..m -> ReadState]
    BY <1>2, <1>3, Zenon DEF Reads
  <1>5. m \in 0..m
    OBVIOUS
  <1>6. g[m] \in ReadState
    BY ONLY <1>4, <1>5
  <1>7. QED
    BY <1>2, <1>3, <1>6 DEF ReadState

-----------------------------------------------------------------------------
(***************************************************************************)
(* Flags, variables and directives.                                        *)
(***************************************************************************)

\* The fields of the builder after getSbatchEnvs.
WithEnv(x) ==
    [f \in Fields |-> IF f \in DOMAIN EnvOf /\ x.flags[f] = "" /\ EnvOf[f] \in DOMAIN x.env
                      THEN x.env[EnvOf[f]] ELSE x.flags[f]]

\* And after replaceScriptFlags.
WithScript(x) ==
    [f \in Fields |-> IF WithEnv(x)[f] = "" THEN SlurmFlags(x.script, x.ignoreUnknown).vals[f]
                      ELSE WithEnv(x)[f]]

MergeInv ==
    /\ IsInput(in)
    /\ pc \in {"parse", "envs"} => b = in.flags
    /\ pc = "flags" => b = WithEnv(in)
    /\ pc \in {"array", "scan", "label", "built"} =>
           ~SlurmFlags(in.script, in.ignoreUnknown).err /\ b = WithScript(in)

\* Every step keeps the invariant.
LEMMA MergeNext == MergeInv /\ [Next]_vars => MergeInv'
  <1> SUFFICES ASSUME MergeInv, [Next]_vars PROVE MergeInv'
    OBVIOUS
  <1>1. CASE ReadScript
    BY <1>1 DEF ReadScript, MergeInv
  <1>2. CASE getSbatchEnvs
    <2>1. pc = "envs" /\ in' = in /\ pc' \in {"flags", "failed"} /\ b = in.flags
      BY <1>2 DEF getSbatchEnvs, MergeInv
    <2>2. ASSUME pc' = "flags" PROVE b' = WithEnv(in)
      <3>1. b' = [f \in Fields |-> IF f \in FromEnv THEN in.env[EnvOf[f]] ELSE b[f]]
        BY <1>2, <2>2 DEF getSbatchEnvs
      <3>2. \A f : f \in FromEnv <=> f \in DOMAIN EnvOf /\ in.flags[f] = "" /\ EnvOf[f] \in DOMAIN in.env
        BY <2>1 DEF FromEnv
      <3>3. QED
        BY <2>1, <3>1, <3>2 DEF WithEnv
    <2>3. QED
      BY <2>1, <2>2 DEF MergeInv
  <1>3. CASE replaceScriptFlags
    <2>1. pc = "flags" /\ in' = in /\ pc' \in {"array", "failed"} /\ b = WithEnv(in)
      BY <1>3 DEF replaceScriptFlags, MergeInv
    <2>2. ASSUME pc' = "array" PROVE ~SlurmFlags(in.script, in.ignoreUnknown).err /\ b' = WithScript(in)
      BY <1>3, <2>1, <2>2 DEF replaceScriptFlags, WithScript
    <2>3. QED
      BY <2>1, <2>2 DEF MergeInv
  <1>4. CASE ParseArray
    BY <1>4 DEF ParseArray, MergeInv
  <1>5. CASE ScanLine
    BY <1>5 DEF ScanLine, MergeInv
  <1>6. CASE ScanEnd
    BY <1>6 DEF ScanEnd, MergeInv
  <1>7. CASE BuildLabel
    BY <1>7 DEF BuildLabel, MergeInv
  <1>8. CASE UNCHANGED vars
    BY <1>8 DEF vars, MergeInv
  <1>9. QED
    BY <1>1, <1>2, <1>3, <1>4, <1>5, <1>6, <1>7, <1>8 DEF Next, Done

\* The code and its table agree on all fields but two.
LEMMA TableAgrees ==
  ASSUME NEW f \in Fields \ {"memTask", "memCpu"}
  PROVE  /\ f \in DOMAIN EnvOf <=> f \in DOMAIN Documented
         /\ f \in DOMAIN Documented => EnvOf[f] = Documented[f]
  BY DEF EnvOf, Documented

\* Flags override the environment and the environment the script, field by
\* field, and the last of several directives counts (parse, SlurmFlags), for
\* every script and every combination of flags and variables.
THEOREM SourcesRanked == Spec => []Precedence
  <1>1. Init => MergeInv
    BY InputsAssumption DEF Init, MergeInv
  <1>2. MergeInv => Precedence
    <2> SUFFICES ASSUME MergeInv, pc = "built", PlainDirectives,
                        NEW f \in Fields \ {"memTask", "memCpu"}
                 PROVE  b[f] = Promised(f)
      BY DEF Precedence
    <2>1. in.script \in Seq(ScriptLine) /\ in.ignoreUnknown \in BOOLEAN
      BY DEF MergeInv, IsInput
    <2>2. PICK read : read = SlurmFlags(in.script, in.ignoreUnknown)
      OBVIOUS
    <2>3. ~read.err /\ b = WithScript(in)
      BY <2>2 DEF MergeInv
    <2>4. SlurmFlags(in.script, in.ignoreUnknown).err = FALSE
      BY <2>1, <2>2, <2>3, SlurmFlagsType
    <2>5. \A k : k \in Header <=> k \in 1..Len(in.script) /\ NoCommand(in.script, k)
      BY DEF Header, NoCommand
    <2>6. Plain(in.script)
      BY <2>5 DEF PlainDirectives, Plain
    <2>7. DirectivesFor(f) = Setting(in.script, f, Len(in.script))
      BY <2>5 DEF DirectivesFor, Setting
    <2>8. read.vals[f] = Latest(in.script, DirectivesFor(f))
      BY <2>1, <2>2, <2>4, <2>6, <2>7, SlurmFlagsLatest
    <2>9. b[f] = IF WithEnv(in)[f] = "" THEN read.vals[f] ELSE WithEnv(in)[f]
      BY <2>2, <2>3 DEF WithScript
    <2>10. WithEnv(in)[f] = IF f \in DOMAIN Documented /\ in.flags[f] = "" /\ Documented[f] \in DOMAIN in.env
                            THEN in.env[Documented[f]] ELSE in.flags[f]
      BY TableAgrees DEF WithEnv
    <2>11. Promised(f) = IF in.flags[f] # "" THEN in.flags[f]
                         ELSE IF f \in DOMAIN Documented /\ Documented[f] \in DOMAIN in.env
                                 /\ in.env[Documented[f]] # ""
                              THEN in.env[Documented[f]] ELSE Latest(in.script, DirectivesFor(f))
      BY DEF Promised, Latest
    <2>12. QED
      BY <2>8, <2>9, <2>10, <2>11
  <1>3. QED
    BY <1>1, <1>2, MergeNext, PTL DEF Spec

-----------------------------------------------------------------------------
(***************************************************************************)
(* The words behind srun.                                                  *)
(***************************************************************************)

\* Induction from m down to 1.
LEMMA DownInduction ==
  ASSUME NEW m \in Nat, NEW T,
         \A k \in 1..m : (\A j \in (k + 1)..m : j \in T) => k \in T
  PROVE  1..m \subseteq T
  <1> DEFINE C == {d \in Nat : m - d \in 1..m /\ m - d \notin T}
  <1>1. SUFFICES ASSUME NEW x \in 1..m, x \notin T PROVE FALSE
    OBVIOUS
  <1>2. m - x \in C
    <2>1. m - x \in Nat /\ m - (m - x) = x
      OBVIOUS
    <2>2. QED
      BY <1>1, <2>1
  <1>3. C \in SUBSET Nat /\ C # {}
    BY <1>2
  <1>4. PICK d \in C : \A y \in C : d <= y
    <2> HIDE DEF C
    <2>1. QED
      BY <1>3, Smallest
  <1>5. d \in Nat /\ m - d \in 1..m /\ m - d \notin T
    BY <1>4
  <1>6. PICK j \in ((m - d) + 1)..m : j \notin T
    BY <1>5
  <1>7. m - j \in Nat /\ m - (m - j) = j /\ j \in 1..m /\ m - j < d
    BY <1>5, <1>6
  <1>8. m - j \in C
    BY <1>6, <1>7
  <1>9. QED
    BY <1>4, <1>5, <1>7, <1>8

Descends(g, m, S, d, e, step) ==
    /\ g \in [1..(m + 2) -> S] /\ g[m + 1] = d /\ g[m + 2] = e
    /\ \A k \in 1..m : g[k] = step[<<<<g[k + 1], g[k + 2]>>, k>>]

\* A function defined by recursion from the end of a line, each value from the
\* two behind it, exists.
LEMMA DownRecursion ==
  ASSUME NEW m \in Nat, NEW S, NEW d \in S, NEW e \in S, NEW step \in [(S \X S) \X (1..m) -> S]
  PROVE  \E g : Descends(g, m, S, d, e, step)
  <1> DEFINE up == [q \in (S \X S) \X (1..m) |-> <<step[<<q[1], (m + 1) - q[2]>>], q[1][1]>>]
  <1>1. \A q \in (S \X S) \X (1..m) : up[q] \in S \X S
    <2>1. SUFFICES ASSUME NEW u \in S \X S, NEW k \in 1..m PROVE up[<<u, k>>] \in S \X S
      OBVIOUS
    <2>2. (m + 1) - k \in 1..m
      OBVIOUS
    <2>3. step[<<u, (m + 1) - k>>] \in S /\ u[1] \in S
      BY <2>2
    <2>4. up[<<u, k>>] = <<step[<<u, (m + 1) - k>>], u[1]>>
      OBVIOUS
    <2>5. QED
      BY <2>3, <2>4
  <1>2. up \in [(S \X S) \X (1..m) -> S \X S] /\ <<d, e>> \in S \X S
    BY <1>1
  <1>3. PICK h : Follows(h, m, S \X S, <<d, e>>, up)
    <2> HIDE DEF up
    <2>1. QED
      BY <1>2, Recursion
  <1>4. h \in [0..m -> S \X S] /\ h[0] = <<d, e>>
    BY <1>3 DEF Follows
  <1>5. ASSUME NEW k \in 1..m
        PROVE  h[k][1] = step[<<h[k - 1], (m + 1) - k>>] /\ h[k][2] = h[k - 1][1]
    <2>1. h[k - 1] \in S \X S /\ h[k] = up[<<h[k - 1], k>>]
      <3> HIDE DEF up
      <3>1. k - 1 \in 0..m
        OBVIOUS
      <3>2. \A j \in 1..m : h[j] = up[<<h[j - 1], j>>]
        BY <1>3 DEF Follows
      <3>3. QED
        BY <1>4, <3>1, <3>2
    <2>2. PICK u \in S \X S : u = h[k - 1]
      BY <2>1
    <2>3. up[<<u, k>>] = <<step[<<u, (m + 1) - k>>], u[1]>>
      OBVIOUS
    <2>4. QED
      BY <2>1, <2>2, <2>3
  <1> HIDE DEF up
  <1> DEFINE g == [k \in 1..(m + 2) |-> IF k = m + 2 THEN e ELSE h[(m + 1) - k][1]]
  <1>6. \A k \in 0..m : h[k][1] \in S /\ h[k] = <<h[k][1], h[k][2]>>
    BY <1>4
  <1>7. \A k \in 1..(m + 2) : k # m + 2 => (m + 1) - k \in 0..m
    OBVIOUS
  <1>8. g \in [1..(m + 2) -> S]
    BY <1>6, <1>7
  <1>9. g[m + 1] = d /\ g[m + 2] = e
    <2>1. m + 1 \in 1..(m + 2) /\ m + 2 \in 1..(m + 2) /\ m + 1 # m + 2 /\ (m + 1) - (m + 1) = 0
      OBVIOUS
    <2>2. g[m + 1] = h[0][1] /\ g[m + 2] = e
      BY <2>1
    <2>3. QED
      BY <1>4, <2>2
  <1>10. ASSUME NEW k \in 1..m PROVE g[k] = step[<<<<g[k + 1], g[k + 2]>>, k>>]
    <2>1. PICK l \in 1..m : l = (m + 1) - k
      OBVIOUS
    <2>2. k \in 1..(m + 2) /\ k # m + 2 /\ k + 1 \in 1..(m + 2) /\ k + 1 # m + 2 /\ k + 2 \in 1..(m + 2)
      OBVIOUS
    <2>3. (m + 1) - k = l /\ (m + 1) - (k + 1) = l - 1 /\ (m + 1) - l = k /\ l - 1 \in 0..m
      BY <2>1
    <2>4. g[k] = h[l][1] /\ g[k + 1] = h[l - 1][1]
      BY <2>2, <2>3
    <2>5. g[k + 2] = h[l - 1][2]
      <3>1. CASE k = m
        <4>1. l - 1 = 0 /\ k + 2 = m + 2
          BY <2>1, <3>1
        <4>2. g[k + 2] = e
          BY <2>2, <4>1
        <4>3. QED
          BY <1>4, <4>1, <4>2
      <3>2. CASE k # m
        <4>1. k + 2 # m + 2 /\ (m + 1) - (k + 2) = (l - 1) - 1 /\ l - 1 \in 1..m
          BY <2>1, <3>2
        <4>2. g[k + 2] = h[(l - 1) - 1][1]
          BY <2>2, <4>1
        <4>3. QED
          BY <1>5, <4>1, <4>2
      <3>3. QED
        BY <3>1, <3>2
    <2> HIDE DEF g
    <2>6. h[l][1] = step[<<h[l - 1], k>>]
      BY <1>5, <2>3
    <2>7. h[l - 1] = <<g[k + 1], g[k + 2]>>
      BY <1>6, <2>3, <2>4, <2>5
    <2>8. QED
      BY <2>4, <2>6, <2>7
  <1>11. QED
    <2> HIDE DEF g
    <2>1. Descends(g, m, S, d, e, step)
      BY <1>8, <1>9, <1>10 DEF Descends
    <2>2. QED
      BY <2>1

\* The recursions of srunArgs and of Program at word k.
ArgsAt(a, words, k) ==
    IF k > Len(words) THEN <<>>
    ELSE IF words[k] = "--" THEN SubSeq(words, k + 1, Len(words))
    ELSE IF words[k] \notin Options THEN <<words[k]>> \o a[k + 1]
    ELSE IF words[k] \in Inline \/ k = Len(words) THEN a[k + 1]
    ELSE IF words[k + 1] \in Options \cup {"--"} THEN a[k + 1] ELSE a[k + 2]

FromAt(f, words, k) ==
    IF k > Len(words) \/ words[k] \notin Options \cup {"--"} THEN k
    ELSE IF words[k] = "--" THEN k + 1
    ELSE IF words[k] \in Takes THEN f[k + 2] ELSE f[k + 1]

\* srunArgs is what its recursion says.
LEMMA SrunArgsDefined ==
  ASSUME NEW words \in Seq(STRING)
  PROVE  \E a : /\ srunArgs(words) = a[1]
                /\ \A k \in 1..(Len(words) + 1) : a[k] = ArgsAt(a, words, k)
  <1> DEFINE m == Len(words)
             S == Seq(STRING)
             at1(u, k) == IF words[k] = "--" THEN SubSeq(words, k + 1, m)
                          ELSE IF words[k] \notin Options THEN <<words[k]>> \o u[1]
                          ELSE IF words[k] \in Inline \/ k = m THEN u[1]
                          ELSE IF words[k + 1] \in Options \cup {"--"} THEN u[1] ELSE u[2]
             step == [q \in (S \X S) \X (1..m) |-> at1(q[1], q[2])]
             Rec(a) == [k \in 1..(m + 1) |-> ArgsAt(a, words, k)]
             args == CHOOSE a : a = Rec(a)
  <1>1. m \in Nat /\ <<>> \in S
    OBVIOUS
  <1>2. srunArgs(words) = args[1]
    BY DEF srunArgs, ArgsAt
  <1>3. \A u \in S \X S : \A k \in 1..m : at1(u, k) \in S
    <2>1. SUFFICES ASSUME NEW u \in S \X S, NEW k \in 1..m PROVE at1(u, k) \in S
      OBVIOUS
    <2>2. words[k] \in STRING /\ u[1] \in S /\ u[2] \in S
      BY ElementOfSeq
    <2>3. SubSeq(words, k + 1, m) \in S
      <3>1. \A j \in (k + 1)..m : j \in 1..m /\ words[j] \in STRING
        BY ElementOfSeq
      <3>2. QED
        BY <3>1, SubSeqProperties
    <2>4. <<words[k]>> \o u[1] \in S
      <3>1. <<words[k]>> \in S
        BY <2>2
      <3>2. QED
        BY <2>2, <3>1, ConcatProperties
    <2>5. QED
      BY <2>2, <2>3, <2>4
  <1>4. step \in [(S \X S) \X (1..m) -> S]
    <2> HIDE DEF at1, m, S
    <2>1. QED
      BY <1>3
  <1>5. PICK g : Descends(g, m, S, <<>>, <<>>, step)
    <2> HIDE DEF step, m, S
    <2>1. QED
      BY <1>1, <1>4, DownRecursion
  <1>6. g \in [1..(m + 2) -> S] /\ g[m + 1] = <<>>
    <2> HIDE DEF step, m, S
    <2>1. QED
      BY <1>5 DEF Descends
  <1>7. ASSUME NEW k \in 1..m PROVE g[k] = ArgsAt(g, words, k)
    <2>1. g[k] = step[<<<<g[k + 1], g[k + 2]>>, k>>]
      <3> HIDE DEF step, m, S
      <3>1. QED
        BY <1>5 DEF Descends
    <2>2. PICK u \in S \X S : u = <<g[k + 1], g[k + 2]>>
      <3> HIDE DEF S
      <3>1. k + 1 \in 1..(m + 2) /\ k + 2 \in 1..(m + 2)
        OBVIOUS
      <3> HIDE DEF m
      <3>2. QED
        BY <1>6, <3>1
    <2>3. step[<<u, k>>] = at1(u, k)
      <3> HIDE DEF S, m, at1
      <3>1. QED
        OBVIOUS
    <2>4. g[k] = at1(u, k) /\ u[1] = g[k + 1] /\ u[2] = g[k + 2]
      <3> HIDE DEF step, m, S, at1
      <3>1. QED
        BY <2>1, <2>2, <2>3
    <2>5. ~(k > m)
      OBVIOUS
    <2> HIDE DEF step, S
    <2>6. QED
      BY <2>4, <2>5 DEF ArgsAt
  <1> DEFINE a == [k \in 1..(m + 1) |-> g[k]]
  <1>8. a = Rec(a)
    <2>1. ASSUME NEW k \in 1..(m + 1) PROVE g[k] = ArgsAt(a, words, k)
      <3>1. CASE k = m + 1
        BY <1>6, <3>1 DEF ArgsAt
      <3>2. CASE k # m + 1
        <4>1. k \in 1..m /\ k + 1 \in 1..(m + 1) /\ (k # m => k + 2 \in 1..(m + 1))
          BY <3>2
        <4>2. a[k + 1] = g[k + 1] /\ (k # m => a[k + 2] = g[k + 2])
          BY <4>1
        <4>3. g[k] = ArgsAt(g, words, k)
          BY <1>7, <4>1
        <4> HIDE DEF a
        <4>4. QED
          BY <4>1, <4>2, <4>3 DEF ArgsAt
      <3>3. QED
        BY <3>1, <3>2
    <2>2. QED
      BY <2>1
  <1>9. args = Rec(args)
    <2> HIDE DEF Rec, a
    <2>1. QED
      BY <1>8
  <1>10. \A k \in 1..(m + 1) : args[k] = ArgsAt(args, words, k)
    <2> HIDE DEF args
    <2>1. QED
      BY <1>9
  <1> HIDE DEF args
  <1>11. QED
    BY <1>2, <1>10

\* And so is Program.
LEMMA ProgramDefined ==
  ASSUME NEW words \in Seq(STRING)
  PROVE  \E f : /\ Program(words) = f[1]
                /\ \A k \in 1..(Len(words) + 2) : f[k] = FromAt(f, words, k)
  <1> DEFINE m == Len(words)
             at1(u, k) == IF words[k] \notin Options \cup {"--"} THEN k
                          ELSE IF words[k] = "--" THEN k + 1
                          ELSE IF words[k] \in Takes THEN u[2] ELSE u[1]
             step == [q \in (Nat \X Nat) \X (1..m) |-> at1(q[1], q[2])]
             Rec(f) == [k \in 1..(m + 2) |-> FromAt(f, words, k)]
             from == CHOOSE f : f = Rec(f)
  <1>1. m \in Nat /\ m + 1 \in Nat /\ m + 2 \in Nat
    OBVIOUS
  <1>2. Program(words) = from[1]
    BY DEF Program, FromAt
  <1>3. \A u \in Nat \X Nat : \A k \in 1..m : at1(u, k) \in Nat
    OBVIOUS
  <1>4. step \in [(Nat \X Nat) \X (1..m) -> Nat]
    <2> HIDE DEF at1, m
    <2>1. QED
      BY <1>3
  <1>5. PICK g : Descends(g, m, Nat, m + 1, m + 2, step)
    <2> HIDE DEF step, m
    <2>1. QED
      BY <1>1, <1>4, DownRecursion
  <1>6. g \in [1..(m + 2) -> Nat] /\ g[m + 1] = m + 1 /\ g[m + 2] = m + 2
    <2> HIDE DEF step, m
    <2>1. QED
      BY <1>5 DEF Descends
  <1>7. ASSUME NEW k \in 1..m PROVE g[k] = FromAt(g, words, k)
    <2>1. g[k] = step[<<<<g[k + 1], g[k + 2]>>, k>>]
      <3> HIDE DEF step, m
      <3>1. QED
        BY <1>5 DEF Descends
    <2>2. PICK u \in Nat \X Nat : u = <<g[k + 1], g[k + 2]>>
      <3>1. k + 1 \in 1..(m + 2) /\ k + 2 \in 1..(m + 2)
        OBVIOUS
      <3> HIDE DEF m
      <3>2. QED
        BY <1>6, <3>1
    <2>3. step[<<u, k>>] = at1(u, k)
      <3> HIDE DEF m, at1
      <3>1. QED
        OBVIOUS
    <2>4. g[k] = at1(u, k) /\ u[1] = g[k + 1] /\ u[2] = g[k + 2]
      <3> HIDE DEF step, m, at1
      <3>1. QED
        BY <2>1, <2>2, <2>3
    <2>5. ~(k > m)
      OBVIOUS
    <2> HIDE DEF step
    <2>6. QED
      BY <2>4, <2>5 DEF FromAt
  <1>8. g = Rec(g)
    <2>1. ASSUME NEW k \in 1..(m + 2) PROVE g[k] = FromAt(g, words, k)
      <3>1. CASE k > m
        <4>1. k = m + 1 \/ k = m + 2
          BY <1>1, <3>1
        <4>2. QED
          BY <1>6, <3>1, <4>1 DEF FromAt
      <3>2. CASE ~(k > m)
        <4>1. k \in 1..m
          BY <3>2
        <4>2. QED
          BY <1>7, <4>1
      <3>3. QED
        BY <3>1, <3>2
    <2>2. QED
      BY <1>6, <2>1
  <1>9. from = Rec(from)
    <2> HIDE DEF Rec
    <2>1. QED
      BY <1>8
  <1>10. \A k \in 1..(m + 2) : from[k] = FromAt(from, words, k)
    <2> HIDE DEF from
    <2>1. QED
      BY <1>9
  <1> HIDE DEF from
  <1>11. QED
    BY <1>2, <1>10

\* srunArgs leaves words of the line and no others.
LEMMA SrunArgsWords ==
  ASSUME NEW words \in Seq(STRING)
  PROVE  srunArgs(words) \in Seq({words[j] : j \in 1..Len(words)})
  <1>1. PICK m \in Nat : m = Len(words)
    OBVIOUS
  <1>2. PICK a : /\ srunArgs(words) = a[1]
                 /\ \A k \in 1..(m + 1) : a[k] = ArgsAt(a, words, k)
    BY <1>1, SrunArgsDefined
  <1> DEFINE W == {words[j] : j \in 1..m}
             U == {k \in 1..(m + 1) : a[k] \in Seq(W)}
  <1>3. ASSUME NEW k \in 1..(m + 1), \A j \in (k + 1)..(m + 1) : j \in U PROVE k \in U
    <2>1. CASE k = m + 1
      <3> HIDE DEF W
      <3>1. a[k] = ArgsAt(a, words, k) /\ k > m
        BY <1>2, <2>1
      <3>2. a[k] = <<>>
        BY <1>1, <3>1 DEF ArgsAt
      <3>3. <<>> \in Seq(W)
        OBVIOUS
      <3>4. QED
        BY <3>2, <3>3
    <2>2. CASE k # m + 1
      <3>1. k \in 1..m /\ ~(k > m) /\ k + 1 \in (k + 1)..(m + 1) /\ (k # m => k + 2 \in (k + 1)..(m + 1))
        BY <2>2
      <3>2. a[k + 1] \in Seq(W) /\ (k # m => a[k + 2] \in Seq(W))
        BY <1>3, <3>1
      <3>3. words[k] \in W
        BY <3>1
      <3>4. SubSeq(words, k + 1, m) \in Seq(W)
        <4>1. \A j \in (k + 1)..m : j \in 1..m /\ words[j] \in W
          BY <3>1
        <4>2. QED
          BY <1>1, <3>1, <4>1, SubSeqProperties
      <3>5. <<words[k]>> \o a[k + 1] \in Seq(W)
        <4> HIDE DEF W
        <4>1. <<words[k]>> \in Seq(W)
          BY <3>3
        <4>2. QED
          BY <3>2, <4>1, ConcatProperties
      <3>6. a[k] \in Seq(W)
        <4> HIDE DEF W
        <4>1. a[k] = IF words[k] = "--" THEN SubSeq(words, k + 1, m)
                     ELSE IF words[k] \notin Options THEN <<words[k]>> \o a[k + 1]
                     ELSE IF words[k] \in Inline \/ k = m THEN a[k + 1]
                     ELSE IF words[k + 1] \in Options \cup {"--"} THEN a[k + 1] ELSE a[k + 2]
          BY <1>1, <1>2, <3>1 DEF ArgsAt
        <4>2. QED
          BY <3>2, <3>4, <3>5, <4>1
      <3>7. QED
        BY <3>6
    <2>3. QED
      BY <2>1, <2>2
  <1>4. 1..(m + 1) \subseteq U
    <2> HIDE DEF U
    <2>1. m + 1 \in Nat
      OBVIOUS
    <2>2. QED
      BY <1>3, <2>1, DownInduction
  <1>5. 1 \in U
    BY <1>4
  <1>6. QED
    BY <1>1, <1>2, <1>5

\* Behind an srun whose options srun's flag set reads as Slurm does, srunArgs
\* leaves the program and its arguments.
LEMMA SrunReadable ==
  ASSUME NEW words \in Seq(STRING), Readable(words)
  PROVE  srunArgs(words) = SubSeq(words, Program(words), Len(words))
  <1>1. PICK m \in Nat : m = Len(words)
    OBVIOUS
  <1>2. PICK a : /\ srunArgs(words) = a[1]
                 /\ \A k \in 1..(m + 1) : a[k] = ArgsAt(a, words, k)
    BY <1>1, SrunArgsDefined
  <1>3. PICK f : /\ Program(words) = f[1]
                 /\ \A k \in 1..(m + 2) : f[k] = FromAt(f, words, k)
    BY <1>1, ProgramDefined
  <1> DEFINE dash == Options \cup {"--"}
  <1>4. /\ "--" \notin Options /\ Inline \subseteq Options
        /\ \A w : w \in Takes => w \in Options /\ w \notin Inline
    BY WordAssumption, TakesAssumption
  <1>5. ASSUME NEW k \in 1..m
        PROVE  /\ words[k] \notin dash => f[k] = k /\ a[k] = <<words[k]>> \o a[k + 1]
               /\ words[k] = "--" => f[k] = k + 1 /\ a[k] = SubSeq(words, k + 1, m)
               /\ words[k] \in Takes => f[k] = f[k + 2]
               /\ words[k] \in Options \ Takes => f[k] = f[k + 1]
               /\ words[k] \in Inline => a[k] = a[k + 1]
               /\ words[k] \in Takes /\ k # m /\ words[k + 1] \notin dash => a[k] = a[k + 2]
    <2>1. k \in 1..(m + 1) /\ k \in 1..(m + 2) /\ ~(k > m)
      OBVIOUS
    <2>2. f[k] = FromAt(f, words, k) /\ a[k] = ArgsAt(a, words, k)
      BY <1>2, <1>3, <2>1
    <2>3. f[k] = IF words[k] \notin dash THEN k ELSE IF words[k] = "--" THEN k + 1
                 ELSE IF words[k] \in Takes THEN f[k + 2] ELSE f[k + 1]
      BY <1>1, <2>1, <2>2 DEF FromAt
    <2>4. a[k] = IF words[k] = "--" THEN SubSeq(words, k + 1, m)
                 ELSE IF words[k] \notin Options THEN <<words[k]>> \o a[k + 1]
                 ELSE IF words[k] \in Inline \/ k = m THEN a[k + 1]
                 ELSE IF words[k + 1] \in dash THEN a[k + 1] ELSE a[k + 2]
      BY <1>1, <2>1, <2>2 DEF ArgsAt
    <2>5. QED
      BY <1>4, <2>3, <2>4
  <1>6. f[m + 1] = m + 1 /\ f[m + 2] = m + 2 /\ a[m + 1] = <<>>
    <2>1. m + 1 \in 1..(m + 1) /\ m + 1 \in 1..(m + 2) /\ m + 2 \in 1..(m + 2) /\ m + 1 > m /\ m + 2 > m
      OBVIOUS
    <2>2. f[m + 1] = FromAt(f, words, m + 1) /\ f[m + 2] = FromAt(f, words, m + 2)
          /\ a[m + 1] = ArgsAt(a, words, m + 1)
      BY <1>2, <1>3, <2>1
    <2>3. QED
      BY <1>1, <2>1, <2>2 DEF FromAt, ArgsAt
  <1> DEFINE F == {k \in 1..(m + 2) : f[k] \in Nat /\ f[k] >= k}
  <1>7. ASSUME NEW k \in 1..(m + 2), \A j \in (k + 1)..(m + 2) : j \in F PROVE k \in F
    <2>1. CASE k > m
      <3>1. k = m + 1 \/ k = m + 2
        BY <2>1
      <3>2. QED
        BY <1>6, <3>1
    <2>2. CASE ~(k > m)
      <3>1. k \in 1..m /\ k + 1 \in (k + 1)..(m + 2) /\ k + 2 \in (k + 1)..(m + 2)
        BY <2>2
      <3>2. f[k] \in {k, k + 1, f[k + 1], f[k + 2]}
        BY <1>5, <3>1
      <3>3. k + 1 \in F /\ k + 2 \in F
        BY <1>7, <3>1
      <3>4. f[k + 1] \in Nat /\ f[k + 1] >= k + 1 /\ f[k + 2] \in Nat /\ f[k + 2] >= k + 2
        BY <3>3
      <3>5. QED
        BY <3>2, <3>4
    <2>3. QED
      BY <2>1, <2>2
  <1>8. \A k \in 1..(m + 2) : f[k] \in Nat /\ f[k] >= k
    <2>1. 1..(m + 2) \subseteq F
      <3> HIDE DEF F
      <3>1. m + 2 \in Nat
        OBVIOUS
      <3>2. QED
        BY <1>7, <3>1, DownInduction
    <2>2. QED
      BY <2>1
  <1>9. PICK p \in Nat : p = Program(words) /\ p >= 1
    <2>1. 1 \in 1..(m + 2)
      OBVIOUS
    <2>2. QED
      BY <1>3, <1>8, <2>1
  <1>10. /\ p <= m
         /\ \A k \in 1..(p - 1) : words[k] \in Options =>
                words[k] \in Inline \/ (words[k] \in Takes /\ words[k + 1] \notin dash)
         /\ \/ p > 1 /\ words[p - 1] = "--"
            \/ \A k \in p..m : words[k] \notin dash
    BY <1>1, <1>9 DEF Readable
  <1> DEFINE Rest(k) == SubSeq(words, k, m)
             Open == \A k \in p..m : words[k] \notin dash
  <1>11. ASSUME NEW k \in 1..m PROVE Rest(k) = <<words[k]>> \o Rest(k + 1)
    <2>1. k \in 1..Len(words) /\ m \in k..Len(words)
      BY <1>1
    <2>2. QED
      BY <2>1, SubSeqRecursiveFirst
  <1>12. Rest(m + 1) = <<>>
    BY SubSeqEmpty
  <1> HIDE DEF Rest, dash
  <1> DEFINE T == {k \in 1..(m + 1) : p <= k => a[k] = Rest(k)}
  <1>13. ASSUME Open, NEW k \in 1..(m + 1), \A j \in (k + 1)..(m + 1) : j \in T PROVE k \in T
    <2>1. CASE k = m + 1
      BY <1>6, <1>12, <2>1
    <2>2. CASE k # m + 1 /\ p <= k
      <3>1. k \in 1..m /\ k \in p..m /\ k + 1 \in (k + 1)..(m + 1) /\ p <= k + 1
        BY <2>2
      <3>2. words[k] \notin dash /\ k + 1 \in T
        BY <1>13, <3>1
      <3>3. a[k] = <<words[k]>> \o a[k + 1] /\ a[k + 1] = Rest(k + 1)
        BY <1>5, <3>1, <3>2
      <3>4. QED
        BY <1>11, <3>1, <3>3
    <2>3. QED
      BY <2>1, <2>2
  <1>14. Open => a[p] = Rest(p)
    <2>1. SUFFICES ASSUME Open PROVE a[p] = Rest(p)
      OBVIOUS
    <2>2. 1..(m + 1) \subseteq T
      <3> HIDE DEF T, Open
      <3>1. m + 1 \in Nat
        OBVIOUS
      <3>2. QED
        BY <1>13, <2>1, <3>1, DownInduction
    <2>3. p \in 1..(m + 1)
      BY <1>9, <1>10
    <2>4. QED
      BY <2>2, <2>3
  <1> DEFINE U == {k \in 1..m : f[k] = p /\ (k < p \/ Open) => a[k] = Rest(p)}
  <1>15. (p > 1 /\ words[p - 1] = "--") \/ Open
    BY <1>10
  <1> HIDE DEF Open
  <1>16. ASSUME NEW k \in 1..m, \A j \in (k + 1)..m : j \in U PROVE k \in U
    <2>1. SUFFICES ASSUME f[k] = p, k < p \/ Open PROVE a[k] = Rest(p)
      OBVIOUS
    <2>2. k \in 1..(m + 2) /\ k + 1 \in 1..(m + 2) /\ k + 2 \in 1..(m + 2) /\ k <= p
      BY <1>8, <2>1
    <2>3. CASE words[k] \notin dash
      <3>1. k = p
        BY <1>5, <2>1, <2>3
      <3>2. Open
        BY <2>1, <3>1
      <3>3. QED
        BY <1>14, <3>1, <3>2
    <2>4. CASE words[k] = "--"
      <3>1. p = k + 1 /\ a[k] = SubSeq(words, k + 1, m)
        BY <1>5, <2>1, <2>4
      <3>2. QED
        BY <3>1 DEF Rest
    <2>5. CASE words[k] \in Options \ Takes
      <3>1. f[k + 1] = p /\ k + 1 <= p
        BY <1>5, <1>8, <2>1, <2>2, <2>5
      <3>2. k \in 1..(p - 1) /\ k + 1 \in (k + 1)..m
        BY <1>10, <3>1
      <3>3. words[k] \in Inline
        BY <1>10, <2>5, <3>2
      <3>4. k + 1 < p \/ Open
        <4>1. CASE k + 1 = p
          <5>1. p - 1 = k
            BY <4>1
          <5>2. words[p - 1] # "--"
            BY <1>4, <2>5, <5>1
          <5>3. QED
            BY <1>15, <5>2
        <4>2. QED
          BY <3>1, <4>1
      <3>5. a[k + 1] = Rest(p)
        BY <1>16, <3>1, <3>2, <3>4
      <3>6. QED
        BY <1>5, <3>3, <3>5
    <2>6. CASE words[k] \in Takes
      <3>1. f[k + 2] = p /\ k + 2 <= p
        BY <1>5, <1>8, <2>1, <2>2, <2>6
      <3>2. k \in 1..(p - 1) /\ k + 2 \in (k + 1)..m /\ k # m
        BY <1>10, <3>1
      <3>3. words[k + 1] \notin dash
        BY <1>4, <1>10, <2>6, <3>2
      <3>4. k + 2 < p \/ Open
        <4>1. CASE k + 2 = p
          <5>1. p - 1 = k + 1
            BY <4>1
          <5>2. words[p - 1] # "--"
            BY <3>3, <5>1 DEF dash
          <5>3. QED
            BY <1>15, <5>2
        <4>2. QED
          BY <3>1, <4>1
      <3>5. a[k + 2] = Rest(p)
        BY <1>16, <3>1, <3>2, <3>4
      <3>6. QED
        BY <1>5, <2>6, <3>2, <3>3, <3>5
    <2>7. QED
      BY <2>3, <2>4, <2>5, <2>6 DEF dash
  <1>17. 1..m \subseteq U
    <2> HIDE DEF U
    <2>1. QED
      BY <1>16, DownInduction
  <1>18. 1 \in 1..m /\ f[1] = p /\ (1 < p \/ Open)
    BY <1>3, <1>9, <1>10, <1>15
  <1>19. a[1] = Rest(p)
    BY <1>17, <1>18
  <1>20. QED
    BY <1>1, <1>2, <1>9, <1>19 DEF Rest

-----------------------------------------------------------------------------
(***************************************************************************)
(* The lines of the script.                                                *)
(***************************************************************************)

Ends(sc) == {k \in 1..Len(sc) : ~sc[k].cont}

\* How many lines have been written when line k has been read.
Rank(sc, k) == Cardinality(Ends(sc) \cap 1..k)

\* Line p is the last one that ends a logical line, 0 for none, up to line k.
LastEnd(sc, p, k) == (p = 0 \/ p \in Ends(sc)) /\ \A j \in (p + 1)..k : j \notin Ends(sc)

Gathers(g, sc, p, k) ==
    /\ g \in [p..k -> Seq(STRING)] /\ g[p] = <<>>
    /\ \A j \in (p + 1)..k : g[j] = g[j - 1] \o sc[j].words

\* The words of the lines behind p up to k.
Spells(sc, p, k, w) == \E g : Gathers(g, sc, p, k) /\ w = g[k]

\* The words of the logical line that ends with line e.
Whole(sc, e, w) == \E p \in 0..(e - 1) : LastEnd(sc, p, e - 1) /\ Spells(sc, p, e, w)

\* The logical line that ends with line e is in o, at its place.
Written(sc, o, e) ==
    /\ Rank(sc, e) \in 1..Len(o)
    /\ \E w \in Seq(STRING) : Whole(sc, e, w) /\ o[Rank(sc, e)] = Replaced(w)

\* The loop of SlurmValidateAndReplaceScript after k lines, with l kept and o
\* written.
Scanned(sc, k, l, o) ==
    /\ k \in 0..Len(sc) /\ l \in Seq(STRING) /\ \E S : o \in Seq(S)
    /\ Len(o) = Rank(sc, k)
    /\ \E p \in 0..k : LastEnd(sc, p, k) /\ Spells(sc, p, k, l)
    /\ \A e \in Ends(sc) : e <= k => Written(sc, o, e)

\* No line, no words.
LEMMA SpellsNone ==
  ASSUME NEW sc, NEW p \in Nat
  PROVE  Spells(sc, p, p, <<>>)
  <1> DEFINE g == [j \in p..p |-> <<>>]
  <1>1. p \in p..p /\ \A j \in (p + 1)..p : FALSE
    OBVIOUS
  <1>2. g \in [p..p -> Seq(STRING)] /\ g[p] = <<>>
    BY <1>1
  <1>3. Gathers(g, sc, p, p)
    <2> HIDE DEF g
    <2>1. QED
      BY <1>1, <1>2 DEF Gathers
  <1>4. QED
    BY <1>2, <1>3 DEF Spells

\* One line more.
LEMMA SpellsNext ==
  ASSUME NEW sc \in Seq(ScriptLine), NEW k \in Nat, k + 1 <= Len(sc), NEW p \in 0..k,
         NEW w, Spells(sc, p, k, w)
  PROVE  /\ w \in Seq(STRING) /\ w \o sc[k + 1].words \in Seq(STRING)
         /\ Spells(sc, p, k + 1, w \o sc[k + 1].words)
  <1>1. PICK g : Gathers(g, sc, p, k) /\ w = g[k]
    BY DEF Spells
  <1>2. /\ g \in [p..k -> Seq(STRING)] /\ g[p] = <<>>
        /\ \A j \in (p + 1)..k : g[j] = g[j - 1] \o sc[j].words
    BY <1>1 DEF Gathers
  <1>3. sc[k + 1].words \in Seq(STRING)
    <2>1. k + 1 \in 1..Len(sc)
      OBVIOUS
    <2>2. sc[k + 1] \in ScriptLine
      BY <2>1, ElementOfSeq
    <2>3. QED
      BY <2>2 DEF ScriptLine
  <1>4. w \in Seq(STRING)
    <2>1. k \in p..k
      OBVIOUS
    <2>2. QED
      BY <1>1, <1>2, <2>1
  <1>5. PICK x \in Seq(STRING) : x = w \o sc[k + 1].words
    BY <1>3, <1>4, ConcatProperties
  <1> DEFINE h == [j \in p..(k + 1) |-> IF j = k + 1 THEN x ELSE g[j]]
  <1>6. \A j \in p..(k + 1) : j # k + 1 => j \in p..k
    OBVIOUS
  <1>7. h \in [p..(k + 1) -> Seq(STRING)]
    BY <1>2, <1>6
  <1>8. h[p] = <<>> /\ h[k + 1] = x /\ \A j \in p..k : h[j] = g[j]
    <2>1. p \in p..(k + 1) /\ p # k + 1 /\ k + 1 \in p..(k + 1) /\ \A j \in p..k : j \in p..(k + 1) /\ j # k + 1
      OBVIOUS
    <2>2. QED
      BY <1>2, <2>1
  <1> HIDE DEF h
  <1>9. ASSUME NEW j \in (p + 1)..(k + 1) PROVE h[j] = h[j - 1] \o sc[j].words
    <2>1. j - 1 \in p..k /\ (j # k + 1 => j \in p..k /\ j \in (p + 1)..k) /\ (j = k + 1 => j - 1 = k)
      OBVIOUS
    <2>2. CASE j = k + 1
      BY <1>1, <1>5, <1>8, <2>1, <2>2
    <2>3. CASE j # k + 1
      <3>1. h[j] = g[j] /\ h[j - 1] = g[j - 1]
        BY <1>8, <2>1, <2>3
      <3>2. QED
        BY <1>2, <2>1, <2>3, <3>1
    <2>4. QED
      BY <2>2, <2>3
  <1>10. Gathers(h, sc, p, k + 1)
    BY <1>7, <1>8, <1>9 DEF Gathers
  <1>11. Spells(sc, p, k + 1, x)
    BY <1>8, <1>10 DEF Spells
  <1>12. QED
    BY <1>4, <1>5, <1>11

\* One line more is one line written more, if it ends a logical line.
LEMMA RankNext ==
  ASSUME NEW sc \in Seq(ScriptLine), NEW k \in Nat, k + 1 <= Len(sc)
  PROVE  /\ Rank(sc, k) \in Nat
         /\ k + 1 \in Ends(sc) => Rank(sc, k + 1) = Rank(sc, k) + 1
         /\ k + 1 \notin Ends(sc) => Rank(sc, k + 1) = Rank(sc, k)
  <1> DEFINE A == Ends(sc) \cap 1..k
  <1>1. IsFiniteSet(A)
    <2>1. 1 \in Int /\ k \in Int
      OBVIOUS
    <2>2. IsFiniteSet(1..k)
      BY <2>1, FS_Interval, Zenon
    <2>3. A \in SUBSET (1..k)
      OBVIOUS
    <2>4. QED
      BY <2>2, <2>3, FS_Subset
  <1>2. Cardinality(A) \in Nat
    BY <1>1, FS_CardinalityType
  <1>3. k + 1 \notin A /\ \A j : j \in 1..(k + 1) <=> j \in 1..k \/ j = k + 1
    OBVIOUS
  <1>4. CASE k + 1 \in Ends(sc)
    <2>1. Ends(sc) \cap 1..(k + 1) = A \cup {k + 1}
      BY <1>3, <1>4
    <2>2. Cardinality(A \cup {k + 1}) = Cardinality(A) + 1
      BY <1>1, <1>3, FS_AddElement
    <2>3. QED
      BY <1>2, <1>4, <2>1, <2>2 DEF Rank
  <1>5. CASE k + 1 \notin Ends(sc)
    <2>1. Ends(sc) \cap 1..(k + 1) = A
      BY <1>3, <1>5
    <2>2. QED
      BY <1>2, <1>5, <2>1 DEF Rank
  <1>6. QED
    BY <1>4, <1>5

\* The loop starts with nothing.
LEMMA ScannedStart ==
  ASSUME NEW sc \in Seq(ScriptLine)
  PROVE  Scanned(sc, 0, <<>>, <<>>)
  <1>1. Len(sc) \in Nat /\ 0 \in 0..Len(sc) /\ 0 \in 0..0 /\ \A j \in (0 + 1)..0 : FALSE
    OBVIOUS
  <1>2. Ends(sc) \cap 1..0 = {} /\ \A e \in Ends(sc) : ~(e <= 0)
    BY DEF Ends
  <1>3. Rank(sc, 0) = 0
    BY <1>2, FS_EmptySet DEF Rank
  <1>4. LastEnd(sc, 0, 0) /\ Spells(sc, 0, 0, <<>>)
    BY <1>1, SpellsNone DEF LastEnd
  <1>5. <<>> \in Seq(STRING) /\ Len(<<>>) = 0
    OBVIOUS
  <1>6. QED
    BY <1>1, <1>2, <1>3, <1>4, <1>5 DEF Scanned

\* A line that a backslash joins to the next one is kept.
LEMMA ScannedKeep ==
  ASSUME NEW sc \in Seq(ScriptLine), NEW k, NEW l, NEW o, Scanned(sc, k, l, o),
         k < Len(sc), sc[k + 1].cont
  PROVE  Scanned(sc, k + 1, l \o sc[k + 1].words, o)
  <1>1. k \in Nat /\ k + 1 \in 0..Len(sc) /\ k + 1 <= Len(sc) /\ k + 1 \notin Ends(sc)
    BY DEF Scanned, Ends
  <1>2. PICK p \in 0..k : LastEnd(sc, p, k) /\ Spells(sc, p, k, l)
    BY DEF Scanned
  <1>3. l \o sc[k + 1].words \in Seq(STRING) /\ Spells(sc, p, k + 1, l \o sc[k + 1].words)
    BY <1>1, <1>2, SpellsNext
  <1>4. p \in 0..(k + 1) /\ LastEnd(sc, p, k + 1)
    <2>1. \A j \in (p + 1)..(k + 1) : j = k + 1 \/ j \in (p + 1)..k
      BY <1>1
    <2>2. QED
      BY <1>1, <1>2, <2>1 DEF LastEnd
  <1>5. Len(o) = Rank(sc, k + 1)
    BY <1>1, RankNext DEF Scanned
  <1>6. \A e \in Ends(sc) : e <= k + 1 => e <= k
    BY <1>1 DEF Ends
  <1>7. QED
    BY <1>1, <1>3, <1>4, <1>5, <1>6 DEF Scanned

\* Any other line ends a logical line, which is written.
LEMMA ScannedWrite ==
  ASSUME NEW sc \in Seq(ScriptLine), NEW k, NEW l, NEW o, Scanned(sc, k, l, o),
         k < Len(sc), ~sc[k + 1].cont
  PROVE  Scanned(sc, k + 1, <<>>, Append(o, Replaced(l \o sc[k + 1].words)))
  <1>1. k \in Nat /\ k + 1 \in 0..Len(sc) /\ k + 1 <= Len(sc) /\ k + 1 \in Ends(sc)
    BY DEF Scanned, Ends
  <1>2. PICK p \in 0..k : LastEnd(sc, p, k) /\ Spells(sc, p, k, l)
    BY DEF Scanned
  <1>3. PICK w \in Seq(STRING) : w = l \o sc[k + 1].words /\ Spells(sc, p, k + 1, w)
    BY <1>1, <1>2, SpellsNext
  <1>4. PICK x : x = Replaced(w)
    OBVIOUS
  <1>5. PICK S : o \in Seq(S)
    BY DEF Scanned
  <1>6. PICK R : R = S \cup {x}
    OBVIOUS
  <1>a. o \in Seq(R) /\ x \in R
    BY <1>5, <1>6, SeqMonotonic
  <1>7. PICK u \in Seq(R) : u = Append(o, x)
    BY <1>a, AppendProperties
  <1>8. /\ Len(o) \in Nat /\ Len(u) = Len(o) + 1 /\ u[Len(o) + 1] = x
        /\ \A j \in 1..Len(o) : u[j] = o[j]
    BY <1>7, <1>a, AppendProperties
  <1>9. Len(u) = Rank(sc, k + 1)
    BY <1>1, <1>8, RankNext DEF Scanned
  <1>10. LastEnd(sc, k + 1, k + 1) /\ Spells(sc, k + 1, k + 1, <<>>) /\ k + 1 \in 0..(k + 1)
    <2>1. \A j \in ((k + 1) + 1)..(k + 1) : FALSE
      BY <1>1
    <2>2. QED
      BY <1>1, <2>1, SpellsNone DEF LastEnd
  <1>11. ASSUME NEW e \in Ends(sc), e <= k + 1 PROVE Written(sc, u, e)
    <2>1. CASE e = k + 1
      <3>1. Whole(sc, e, w)
        <4>1. e - 1 = k
          BY <1>1, <2>1
        <4>2. QED
          BY <1>2, <1>3, <2>1, <4>1 DEF Whole
      <3>2. Rank(sc, e) = Len(u) /\ Len(u) \in 1..Len(u) /\ u[Len(u)] = Replaced(w)
        BY <1>4, <1>8, <1>9, <2>1
      <3>3. QED
        BY <3>1, <3>2 DEF Written
    <2>2. CASE e # k + 1
      <3>1. e <= k
        BY <1>1, <2>2, <1>11 DEF Ends
      <3>2. Written(sc, o, e)
        BY <3>1 DEF Scanned
      <3>3. Rank(sc, e) \in 1..Len(u) /\ u[Rank(sc, e)] = o[Rank(sc, e)]
        BY <1>8, <3>2 DEF Written
      <3>4. QED
        BY <3>2, <3>3 DEF Written
    <2>3. QED
      BY <2>1, <2>2
  <1>12. <<>> \in Seq(STRING) /\ \E Q : u \in Seq(Q)
    OBVIOUS
  <1>13. Scanned(sc, k + 1, <<>>, u)
    BY <1>1, <1>9, <1>10, <1>11, <1>12 DEF Scanned
  <1>14. QED
    BY <1>3, <1>4, <1>7, <1>13

\* What findCommand finds is a word of the line.
LEMMA FoundInLine ==
  ASSUME NEW w \in Seq(STRING), NEW c, findCommand(w, c) # 0
  PROVE  findCommand(w, c) \in 1..Len(w)
  <1> DEFINE where == {k \in 1..Len(w) : w[k] = c \/ <<w[k], c>> \in Embedded \cup Mentioned}
             x == CHOOSE k \in where : \A j \in where : k <= j
  <1>1. where \in SUBSET Nat
    OBVIOUS
  <1>2. FirstText(w, c) = IF where = {} THEN 0 ELSE x
    BY DEF FirstText
  <1>3. where # {} => x \in where
    <2> HIDE DEF where
    <2>1. where # {} => \E k \in where : \A j \in where : k <= j
      BY <1>1, Smallest
    <2>2. QED
      BY <2>1
  <1> HIDE DEF x
  <1>4. QED
    BY <1>2, <1>3 DEF findCommand

\* Logical gathers the words of a logical line.
LEMMA LogicalIsWhole ==
  ASSUME in.script \in Seq(ScriptLine), NEW e \in LineEnds, NEW w, Whole(in.script, e, w)
  PROVE  Logical(e) = w
  <1> DEFINE first == 1 + Cardinality({k \in 1..e : \E j \in k..(e - 1) : j \in LineEnds})
             Rec(g) == [k \in (first - 1)..e |->
                           IF k < first THEN <<>> ELSE g[k - 1] \o in.script[k].words]
             gather == CHOOSE g : g = Rec(g)
  <1>1. Logical(e) = gather[e]
    BY DEF Logical
  <1>2. LineEnds = Ends(in.script) /\ e \in Nat /\ e >= 1
    BY DEF LineEnds, Ends
  <1>3. PICK p \in 0..(e - 1) : LastEnd(in.script, p, e - 1) /\ Spells(in.script, p, e, w)
    BY <1>2 DEF Whole
  <1>4. p \in Nat /\ p < e /\ p \in p..e /\ e \in p..e
    BY <1>2, <1>3
  <1>5. {k \in 1..e : \E j \in k..(e - 1) : j \in LineEnds} = 1..p
    <2>1. ASSUME NEW k \in 1..e, NEW j \in k..(e - 1), j \in LineEnds PROVE k \in 1..p
      <3>1. j \notin (p + 1)..(e - 1)
        BY <1>2, <1>3, <2>1 DEF LastEnd
      <3>2. QED
        BY <1>2, <1>4, <3>1
    <2>2. ASSUME NEW k \in 1..p PROVE k \in 1..e /\ \E j \in k..(e - 1) : j \in LineEnds
      <3>1. p \in LineEnds
        BY <1>2, <1>3, <1>4 DEF LastEnd
      <3>2. p \in k..(e - 1) /\ k \in 1..e
        BY <1>2, <1>4
      <3>3. QED
        BY <3>1, <3>2
    <2>3. QED
      BY <2>1, <2>2
  <1>6. Cardinality(1..p) = p
    <2>1. 1 \in Int /\ p \in Int /\ (1 > p => p = 0) /\ p - 1 + 1 = p
      BY <1>4
    <2>2. Cardinality(1..p) = IF 1 > p THEN 0 ELSE p - 1 + 1
      BY <2>1, FS_Interval, Zenon
    <2>3. QED
      BY <2>1, <2>2
  <1>7. first = 1 + p
    BY <1>5, <1>6
  <1> HIDE DEF first
  <1>8. PICK g : Gathers(g, in.script, p, e) /\ w = g[e]
    BY <1>3 DEF Spells
  <1>9. /\ g \in [p..e -> Seq(STRING)] /\ g[p] = <<>>
        /\ \A j \in (p + 1)..e : g[j] = g[j - 1] \o in.script[j].words
    BY <1>8 DEF Gathers
  <1>10. g = Rec(g)
    <2>1. first - 1 = p
      BY <1>4, <1>7
    <2>2. ASSUME NEW k \in p..e
          PROVE  g[k] = IF k < first THEN <<>> ELSE g[k - 1] \o in.script[k].words
      <3>1. CASE k = p
        <4>1. k < first
          BY <1>4, <1>7, <3>1
        <4>2. QED
          BY <1>9, <3>1, <4>1
      <3>2. CASE k # p
        <4>1. k \in (p + 1)..e /\ ~(k < first)
          BY <1>4, <1>7, <3>2
        <4>2. QED
          BY <1>9, <4>1
      <3>3. QED
        BY <3>1, <3>2
    <2>3. g = [k \in p..e |-> g[k]]
      BY <1>9
    <2>4. QED
      BY <2>1, <2>2, <2>3
  <1>11. gather = Rec(gather)
    <2> HIDE DEF Rec
    <2>1. QED
      BY <1>10
  <1> HIDE DEF gather
  <1>12. gather[p] = <<>> /\ \A k \in (p + 1)..e : gather[k] = gather[k - 1] \o in.script[k].words
    <2>1. first - 1 = p /\ p < first /\ \A k \in (p + 1)..e : k \in p..e /\ ~(k < first)
      BY <1>4, <1>7
    <2>2. gather = [k \in p..e |-> IF k < first THEN <<>> ELSE gather[k - 1] \o in.script[k].words]
      BY <1>11, <2>1
    <2>3. QED
      BY <1>4, <2>1, <2>2
  <1> HIDE DEF Rec
  <1> DEFINE T == {d \in Nat : p + d <= e => gather[p + d] = g[p + d]}
  <1>13. 0 \in T
    BY <1>4, <1>9, <1>12
  <1>14. ASSUME NEW d \in T PROVE d + 1 \in T
    <2>1. SUFFICES ASSUME p + (d + 1) <= e PROVE gather[p + (d + 1)] = g[p + (d + 1)]
      OBVIOUS
    <2>2. PICK j \in (p + 1)..e : j = p + (d + 1) /\ j - 1 = p + d /\ p + d <= e
      BY <1>2, <1>4, <2>1
    <2>3. gather[j - 1] = g[j - 1]
      BY <2>2
    <2>4. QED
      BY <1>9, <1>12, <2>2, <2>3
  <1>15. T = Nat
    <2>1. T \in SUBSET Nat
      OBVIOUS
    <2> HIDE DEF T
    <2>2. QED
      BY <1>13, <1>14, <2>1, Induction
  <1>16. PICK d \in Nat : p + d = e /\ p + d <= e
    <2>1. e - p \in Nat /\ p + (e - p) = e
      BY <1>2, <1>4
    <2>2. QED
      BY <1>2, <2>1
  <1>17. gather[p + d] = g[p + d]
    <2>1. d \in T
      BY <1>15
    <2>2. QED
      BY <1>16, <2>1
  <1>18. QED
    BY <1>1, <1>8, <1>16, <1>17

ScanInv ==
    /\ IsInput(in)
    /\ pc \in {"parse", "envs", "flags", "array"} => n = 0 /\ line = <<>> /\ out = <<>>
    /\ pc \in {"scan", "label", "built"} => Scanned(in.script, n, line, out)
    /\ pc \in {"label", "built"} => n = Len(in.script)

\* A line that a round of the loop reads keeps the invariant.
LEMMA ScanLineKeeps == ScanInv /\ ScanLine => ScanInv'
  <1> SUFFICES ASSUME ScanInv, ScanLine PROVE ScanInv'
    OBVIOUS
  <1>1. /\ pc = "scan" /\ n < Len(in.script) /\ n' = n + 1 /\ in' = in
        /\ in.script \in Seq(ScriptLine) /\ Scanned(in.script, n, line, out) /\ line \in Seq(STRING)
    BY DEF ScanLine, ScanInv, IsInput, Scanned
  <1>2. n + 1 \in 1..Len(in.script) /\ in.script[n + 1] \in ScriptLine
    <2>1. n + 1 \in 1..Len(in.script)
      BY <1>1 DEF Scanned
    <2>2. QED
      BY <1>1, <2>1, ElementOfSeq
  <1>3. in.script[n + 1].cont \in BOOLEAN /\ in.script[n + 1].words \in Seq(STRING)
    BY <1>2 DEF ScriptLine
  <1>4. CASE in.script[n + 1].cont /\ line' = Joined /\ pc' = pc /\ out' = out
    <2>1. Scanned(in.script, n + 1, line \o in.script[n + 1].words, out)
      BY <1>1, <1>4, ScannedKeep
    <2>2. QED
      BY <1>1, <1>4, <2>1 DEF ScanInv, Joined
  <1>5. CASE /\ ~in.script[n + 1].cont /\ Joined = <<>>
             /\ out' = Append(out, <<>>) /\ pc' = pc /\ line' = line
    <2>1. line = <<>>
      BY <1>1, <1>3, <1>5, ConcatEqualIffEmpty DEF Joined
    <2>2. Replaced(<<>>) = <<>>
      BY DEF Replaced, findCommand, FirstText
    <2>3. Scanned(in.script, n + 1, <<>>, Append(out, Replaced(line \o in.script[n + 1].words)))
      BY <1>1, <1>5, ScannedWrite
    <2>4. QED
      BY <1>1, <1>5, <2>1, <2>2, <2>3 DEF ScanInv, Joined
  <1>6. CASE pc' = "failed"
    BY <1>1, <1>6 DEF ScanInv
  <1>7. CASE /\ ~in.script[n + 1].cont
             /\ out' = Append(out, Replaced(Joined)) /\ line' = <<>> /\ pc' = pc
    <2>1. Scanned(in.script, n + 1, <<>>, Append(out, Replaced(line \o in.script[n + 1].words)))
      BY <1>1, <1>7, ScannedWrite
    <2>2. QED
      BY <1>1, <1>7, <2>1 DEF ScanInv, Joined
  <1>8. QED
    BY <1>4, <1>5, <1>6, <1>7 DEF ScanLine

\* Every step keeps the invariant.
LEMMA ScanNext == ScanInv /\ [Next]_vars => ScanInv'
  <1> SUFFICES ASSUME ScanInv, [Next]_vars PROVE ScanInv'
    OBVIOUS
  <1>1. CASE ReadScript
    BY <1>1 DEF ReadScript, ScanInv, lineVars
  <1>2. CASE getSbatchEnvs
    BY <1>2 DEF getSbatchEnvs, ScanInv, lineVars
  <1>3. CASE replaceScriptFlags
    BY <1>3 DEF replaceScriptFlags, ScanInv, lineVars
  <1>4. CASE ParseArray
    <2>1. /\ pc = "array" /\ pc' \in {"array", "failed", "killed", "scan"} /\ in' = in
          /\ n' = n /\ line' = line /\ out' = out
      BY <1>4 DEF ParseArray, lineVars
    <2>2. n = 0 /\ line = <<>> /\ out = <<>> /\ in.script \in Seq(ScriptLine)
      BY <2>1 DEF ScanInv, IsInput
    <2>3. Scanned(in.script, 0, <<>>, <<>>)
      BY <2>2, ScannedStart
    <2>4. QED
      BY <2>1, <2>2, <2>3 DEF ScanInv
  <1>5. CASE ScanLine
    BY <1>5, ScanLineKeeps
  <1>6. CASE ScanEnd
    BY <1>6 DEF ScanEnd, ScanInv, lineVars
  <1>7. CASE BuildLabel
    BY <1>7 DEF BuildLabel, ScanInv, lineVars
  <1>8. CASE UNCHANGED vars
    BY <1>8 DEF vars, ScanInv
  <1>9. QED
    BY <1>1, <1>2, <1>3, <1>4, <1>5, <1>6, <1>7, <1>8 DEF Next, Done

\* The script the pods run is the one that was written: line for line, joined
\* where a backslash joins, with each srun replaced by its program and the
\* program's arguments (SlurmValidateAndReplaceScript), for every script and
\* every vocabulary.
THEOREM ScriptKept == Spec => []ScriptAsWritten
  <1>1. Init => ScanInv
    BY InputsAssumption DEF Init, ScanInv
  <1>2. ScanInv => ScriptAsWritten
    <2> SUFFICES ASSUME ScanInv, pc = "built" PROVE ScriptAsWritten
      BY DEF ScriptAsWritten
    <2>1. in.script \in Seq(ScriptLine) /\ n = Len(in.script) /\ Scanned(in.script, n, line, out)
      BY DEF ScanInv, IsInput
    <2>2. LineEnds = Ends(in.script) /\ LineEnds \cap 1..n = LineEnds
      BY <2>1 DEF LineEnds, Ends
    <2>3. Len(out) = Cardinality(LineEnds)
      BY <2>1, <2>2 DEF Scanned, Rank
    <2>4. ASSUME NEW e \in LineEnds
          PROVE  LET words == Logical(e)
                     k     == findCommand(words, "srun")
                     rest  == SubSeq(words, k + 1, Len(words))
                     got   == out[Cardinality(LineEnds \cap 1..e)]
                 IN  IF k = 0 THEN got = words
                     ELSE Readable(rest) =>
                          got = SubSeq(words, 1, k - 1) \o SubSeq(rest, Program(rest), Len(rest))
      <3>1. Written(in.script, out, e)
        BY <2>1, <2>2 DEF Scanned, LineEnds
      <3>2. PICK w \in Seq(STRING) : Whole(in.script, e, w) /\ out[Rank(in.script, e)] = Replaced(w)
        BY <3>1 DEF Written
      <3>3. Logical(e) = w
        BY <2>1, <3>2, LogicalIsWhole
      <3>4. PICK got : got = out[Cardinality(LineEnds \cap 1..e)]
        OBVIOUS
      <3>5. got = Replaced(w)
        BY <2>2, <3>2, <3>4 DEF Rank
      <3>6. PICK k : k = findCommand(w, "srun")
        OBVIOUS
      <3>7. CASE k = 0
        BY <3>3, <3>4, <3>5, <3>6, <3>7 DEF Replaced
      <3>8. CASE k # 0
        <4>1. PICK rest : rest = SubSeq(w, k + 1, Len(w))
          OBVIOUS
        <4>2. rest \in Seq(STRING)
          <5>1. k \in 1..Len(w)
            BY <3>6, <3>8, FoundInLine
          <5>2. k + 1 \in Int /\ Len(w) \in Int /\ \A j \in (k + 1)..Len(w) : w[j] \in STRING
            BY <5>1, ElementOfSeq
          <5>3. QED
            BY <4>1, <5>2, SubSeqProperties
        <4>3. got = SubSeq(w, 1, k - 1) \o srunArgs(rest)
          BY <3>5, <3>6, <3>8, <4>1 DEF Replaced
        <4>4. Readable(rest) => srunArgs(rest) = SubSeq(rest, Program(rest), Len(rest))
          BY <4>2, SrunReadable
        <4>5. QED
          BY <3>3, <3>4, <3>6, <3>8, <4>1, <4>3, <4>4
      <3>9. QED
        BY <3>7, <3>8
    <2>5. QED
      BY <2>3, <2>4 DEF ScriptAsWritten
  <1>3. QED
    BY <1>1, <1>2, ScanNext, PTL DEF Spec

\* An srun that is left in a line is behind a word that contains its name, or
\* behind the one that was replaced.
LEMMA SrunLeft ==
  ASSUME NEW w \in Seq(STRING), NEW k \in 1..Len(Replaced(w)), Replaced(w)[k] = "srun"
  PROVE  \/ \E j \in 1..(k - 1) : <<Replaced(w)[j], "srun">> \in Embedded
         \/ /\ findCommand(w, "srun") # 0 /\ findCommand(w, "srun") <= k
            /\ \E j \in (findCommand(w, "srun") + 1)..Len(w) : w[j] = "srun"
  <1>1. PICK f : f = findCommand(w, "srun")
    OBVIOUS
  <1>2. CASE f = 0
    <2>1. Replaced(w) = w
      BY <1>1, <1>2 DEF Replaced
    <2>2. k \in 1..Len(w) /\ w[k] = "srun" /\ "srun" \in Commands
      BY <2>1 DEF Commands
    <2>3. \E j \in 1..(k - 1) : <<w[j], w[k]>> \in Embedded
      BY <1>1, <1>2, <2>2, CleanLine
    <2>4. QED
      BY <2>1, <2>2, <2>3
  <1>3. CASE f # 0
    <2>1. f \in 1..Len(w) /\ f = FirstText(w, "srun")
      BY <1>1, <1>3, FoundInLine DEF findCommand
    <2>2. PICK rest : rest = SubSeq(w, f + 1, Len(w))
      OBVIOUS
    <2>3. PICK front : front = SubSeq(w, 1, f - 1)
      OBVIOUS
    <2>4. /\ rest \in Seq(STRING) /\ Len(rest) = Len(w) - f
          /\ \A j \in 1..(Len(w) - f) : rest[j] = w[f + j]
      <3>1. f + 1 \in Int /\ Len(w) \in Nat /\ \A j \in (f + 1)..Len(w) : w[j] \in STRING
        BY <2>1, ElementOfSeq
      <3>2. /\ rest \in Seq(STRING)
            /\ Len(rest) = IF f + 1 <= Len(w) THEN Len(w) - (f + 1) + 1 ELSE 0
            /\ \A j \in 1..(Len(w) - (f + 1) + 1) : rest[j] = w[(f + 1) + j - 1]
        BY <2>2, <3>1, SubSeqProperties
      <3>3. Len(rest) = Len(w) - f /\ Len(w) - (f + 1) + 1 = Len(w) - f
        BY <2>1, <3>1, <3>2
      <3>4. ASSUME NEW j \in 1..(Len(w) - f) PROVE rest[j] = w[f + j]
        <4>1. j \in 1..(Len(w) - (f + 1) + 1) /\ (f + 1) + j - 1 = f + j
          <5>1. PICK l \in Nat : l = Len(w)
            BY <3>1
          <5>2. PICK g \in Nat : g = f
            BY <2>1
          <5>3. j \in 1..(l - g)
            BY <5>1, <5>2
          <5>4. j \in 1..(l - (g + 1) + 1) /\ (g + 1) + j - 1 = g + j
            BY ONLY <5>3, l \in Nat, g \in Nat
          <5>5. QED
            BY <5>1, <5>2, <5>4
        <4>2. rest[j] = w[(f + 1) + j - 1]
          BY <3>2, <4>1
        <4>3. QED
          BY <4>1, <4>2
      <3>5. QED
        BY <3>2, <3>3, <3>4
    <2>5. front \in Seq(STRING) /\ Len(front) = f - 1 /\ \A j \in 1..(f - 1) : front[j] = w[j]
      <3>1. 1 \in Int /\ f - 1 \in Int /\ \A j \in 1..(f - 1) : w[j] \in STRING
        BY <2>1, ElementOfSeq
      <3>2. /\ front \in Seq(STRING)
            /\ Len(front) = IF 1 <= f - 1 THEN (f - 1) - 1 + 1 ELSE 0
            /\ \A j \in 1..((f - 1) - 1 + 1) : front[j] = w[1 + j - 1]
        BY <2>3, <3>1, SubSeqProperties
      <3>3. QED
        BY <2>1, <3>1, <3>2
    <2>6. PICK args : args = srunArgs(rest) /\ args \in Seq({rest[j] : j \in 1..Len(rest)})
      BY <2>4, SrunArgsWords
    <2>7. Replaced(w) = front \o args
      BY <1>1, <1>3, <2>2, <2>3, <2>6 DEF Replaced
    <2>8. ~(k < f)
      <3>1. SUFFICES ASSUME k < f PROVE FALSE
        OBVIOUS
      <3>2. k \in 1..(f - 1) /\ k \in 1..Len(w)
        BY <2>1, <3>1
      <3>3. (front \o args)[k] = front[k]
        BY <2>5, <2>6, <3>2
      <3>4. w[k] = "srun"
        BY <2>5, <2>7, <3>2, <3>3
      <3>5. FirstText(w, "srun") <= k
        BY <3>2, <3>4, FirstOccurrence
      <3>6. QED
        BY <2>1, <3>1, <3>5
    <2>9. \E j \in 1..Len(rest) : rest[j] = "srun"
      <3>1. k - (f - 1) \in 1..Len(args) /\ (front \o args)[k] = args[k - (f - 1)]
        BY <2>1, <2>5, <2>6, <2>7, <2>8
      <3>2. args[k - (f - 1)] \in {rest[j] : j \in 1..Len(rest)}
        BY <2>6, <3>1, ElementOfSeq
      <3>3. QED
        BY <2>7, <3>1, <3>2
    <2>10. \E j \in (f + 1)..Len(w) : w[j] = "srun"
      <3>1. PICK j \in 1..Len(rest) : rest[j] = "srun"
        BY <2>9
      <3>2. f + j \in (f + 1)..Len(w) /\ w[f + j] = "srun"
        BY <2>1, <2>4, <3>1
      <3>3. QED
        BY <3>2
    <2>11. QED
      BY <1>1, <1>3, <2>1, <2>8, <2>10
  <1>4. QED
    BY <1>2, <1>3

\* A command of Slurm that the pods do not have is left in the script they run
\* only where findCommand does not see it, behind a word that contains its
\* name; an srun also behind the one of its line that is replaced
\* (SlurmValidateAndReplaceScript).  For every script and vocabulary.
THEOREM CommandsGone == Spec => []NoSlurmCommandLeft
  <1>1. Init => CleanInv /\ ScanInv
    <2>1. Init => out \in Seq({})
      BY DEF Init
    <2>2. Init => CleanInv
      BY <2>1 DEF CleanInv
    <2>3. QED
      BY <2>2, InputsAssumption DEF Init, ScanInv
  <1>2. CleanInv /\ ScanInv => NoSlurmCommandLeft
    <2> SUFFICES ASSUME CleanInv, ScanInv, pc = "built"
                 PROVE  NoSlurmCommandLeft
      BY DEF NoSlurmCommandLeft
    <2> DEFINE Behind(x, k) == \E j \in 1..(k - 1) : <<x[j], x[k]>> \in Embedded
               Second(x, k) == /\ findCommand(x, "srun") # 0 /\ findCommand(x, "srun") <= k
                               /\ \E j \in (findCommand(x, "srun") + 1)..Len(x) : x[j] = "srun"
               Good(x, y) == \A k \in 1..Len(y) : /\ y[k] \in notSupportedCommands => Behind(y, k)
                                                  /\ y[k] = "srun" => Behind(y, k) \/ Second(x, k)
    <2>1. ASSUME NEW e \in LineEnds PROVE Good(Logical(e), out[Cardinality(LineEnds \cap 1..e)])
      <3> DEFINE words == Logical(e)
                 got == out[Cardinality(LineEnds \cap 1..e)]
      <3>1. in.script \in Seq(ScriptLine) /\ n = Len(in.script) /\ Scanned(in.script, n, line, out)
        BY DEF ScanInv, IsInput
      <3>2. LineEnds = Ends(in.script)
        BY DEF LineEnds, Ends
      <3>3. Written(in.script, out, e)
        BY <3>1, <3>2 DEF Scanned, LineEnds
      <3>4. PICK w \in Seq(STRING) : Whole(in.script, e, w) /\ out[Rank(in.script, e)] = Replaced(w)
        BY <3>3 DEF Written
      <3>5. words = w /\ got = Replaced(w)
        BY <3>1, <3>2, <3>4, LogicalIsWhole DEF Rank
      <3>6. Clean(got)
        <4>1. PICK S : out \in Seq(S) /\ \A y \in S : Clean(y)
          BY DEF CleanInv
        <4>2. Rank(in.script, e) \in 1..Len(out) /\ got = out[Rank(in.script, e)]
          BY <3>2, <3>3 DEF Written, Rank
        <4>3. got \in S
          BY <4>1, <4>2, ElementOfSeq
        <4>4. QED
          BY <4>1, <4>3
      <3> SUFFICES ASSUME NEW k \in 1..Len(got)
                   PROVE  /\ got[k] \in notSupportedCommands => Behind(got, k)
                          /\ got[k] = "srun" => Behind(got, k) \/ Second(words, k)
        OBVIOUS
      <3>7. got[k] \in notSupportedCommands => \E j \in 1..(k - 1) : <<got[j], got[k]>> \in Embedded
        BY <3>6, CleanLine DEF Clean, notSupportedCommands
      <3>8. QED
        BY <3>5, <3>7, SrunLeft
    <2> QED
      BY <2>1 DEF NoSlurmCommandLeft
  <1>3. QED
    BY <1>1, <1>2, CleanNext, ScanNext, PTL DEF Spec
=============================================================================
