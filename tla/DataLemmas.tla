------------------------------ MODULE DataLemmas ------------------------------
(***************************************************************************)
(* Lemmas about numbers, sets and queues that the proofs of several        *)
(* components need.  What a library would prove by induction is proved     *)
(* here by a least counterexample.                                         *)
(***************************************************************************)
EXTENDS Totals, FiniteSets, TLAPS, FiniteSetTheorems, SequenceTheorems,
        WellFoundedInduction

\* A set of natural numbers that is not empty has a least element.
LEMMA LeastNat ==
  ASSUME NEW S, S \subseteq Nat, S # {}
  PROVE  \E x \in S : \A y \in S : x <= y
<1> DEFINE R == {ss \in Nat \X Nat : ss[1] < ss[2]}
<1>1. IsWellFoundedOn(R, Nat)
  BY NatLessThanWellFounded, Zenon DEF OpToRel
<1> HIDE DEF R
<1>2. PICK x \in S : \A y \in S : ~(<<y, x>> \in R)
  BY <1>1, WFMin, Zenon
<1>3. ASSUME NEW y \in S PROVE x <= y
  <2>1. x \in Nat /\ y \in Nat
    OBVIOUS
  <2>2. ~(<<y, x>> \in R)
    BY <1>2, Zenon
  <2>3. ~(y < x)
    BY ONLY <2>1, <2>2 DEF R
  <2>4. QED BY <2>1, <2>3
<1>4. QED BY <1>3

-----------------------------------------------------------------------------
(* Sums *)

\* h counts the numbers of v up as far as n.
Counts(h, v, n) ==
  h = [i \in 0..n |-> IF i = 0 THEN 0 ELSE h[i - 1] + v[i]]

\* What that means from one number to the next.
LEMMA CountSteps ==
  ASSUME NEW v, NEW m \in Nat, NEW h, Counts(h, v, m)
  PROVE  h[0] = 0 /\ \A i \in 1..m : h[i] = h[i - 1] + v[i]
<1>1. \A i \in 0..m : h[i] = IF i = 0 THEN 0 ELSE h[i - 1] + v[i]
  BY DEF Counts
<1>2. QED BY ONLY m \in Nat, <1>1

\* ... and back.
LEMMA StepsCount ==
  ASSUME NEW v, NEW m \in Nat, NEW h
  PROVE  h = [i \in 0..m |-> h[i]] /\ h[0] = 0 /\ (\A i \in 1..m : h[i] = h[i - 1] + v[i])
           => Counts(h, v, m)
<1>1. ASSUME h[0] = 0, \A i \in 1..m : h[i] = h[i - 1] + v[i]
      PROVE  \A i \in 0..m : h[i] = IF i = 0 THEN 0 ELSE h[i - 1] + v[i]
  BY <1>1
<1>2. ASSUME \A i \in 0..m : h[i] = IF i = 0 THEN 0 ELSE h[i - 1] + v[i]
      PROVE  [i \in 0..m |-> h[i]] = [i \in 0..m |-> IF i = 0 THEN 0 ELSE h[i - 1] + v[i]]
  BY <1>2
<1>3. QED BY <1>1, <1>2, Zenon DEF Counts

\* There is such a count, ...
LEMMA CountExists ==
  ASSUME NEW v, NEW m \in Nat
  PROVE  \E h : Counts(h, v, m)
<1> DEFINE Without == {n \in Nat : ~\E h : Counts(h, v, n)}
<1>1. SUFFICES ASSUME Without # {} PROVE FALSE
  OBVIOUS
<1>2. PICK n \in Without : \A k \in Without : n <= k
  BY <1>1, LeastNat
<1>3. n # 0
  <2>1. Counts([i \in 0..0 |-> 0], v, 0)
    BY DEF Counts
  <2>2. QED BY <1>2, <2>1
<1>4. n \in Nat /\ n - 1 \in Nat /\ n - 1 \notin Without
  BY <1>2, <1>3
<1>5. PICK h : Counts(h, v, n - 1)
  BY <1>4
<1>6. Counts([i \in 0..n |-> IF i = 0 THEN 0 ELSE h[i - 1] + v[i]], v, n)
  <2> DEFINE g == [i \in 0..n |-> IF i = 0 THEN 0 ELSE h[i - 1] + v[i]]
  <2>1. ASSUME NEW i \in 0..n, i # 0 PROVE g[i - 1] = h[i - 1]
    BY <1>4, <1>5, <2>1 DEF Counts
  <2>2. QED BY <2>1 DEF Counts
<1>7. QED BY <1>2, <1>6

\* ... and only one.
LEMMA CountUnique ==
  ASSUME NEW v, NEW m \in Nat, NEW g, NEW h, Counts(g, v, m), Counts(h, v, m)
  PROVE  g = h
<1> DEFINE Differ == {n \in 0..m : g[n] # h[n]}
<1>1. SUFFICES ASSUME Differ # {} PROVE FALSE
  <2>1. ASSUME Differ = {} PROVE g = h
    <3>1. \A i \in 0..m : g[i] = h[i]
      BY <2>1
    <3>2. QED BY <3>1 DEF Counts
  <2>2. QED BY <2>1
<1>2. PICK n \in Differ : \A k \in Differ : n <= k
  <2>1. Differ \subseteq Nat
    OBVIOUS
  <2> HIDE DEF Differ
  <2>2. QED BY <1>1, <2>1, LeastNat, Zenon
<1>3. n # 0
  <2>1. g[0] = 0 /\ h[0] = 0
    BY DEF Counts
  <2>2. QED BY <1>2, <2>1
<1>4. n - 1 \in 0..m /\ n - 1 \notin Differ
  BY <1>2, <1>3
<1>5. g[n] = g[n - 1] + v[n] /\ h[n] = h[n - 1] + v[n]
  BY <1>2, <1>3 DEF Counts
<1>6. QED BY <1>2, <1>4, <1>5

\* The total is where any count of a sequence ends.
LEMMA TotalIs ==
  ASSUME NEW v, Len(v) \in Nat, NEW h, Counts(h, v, Len(v))
  PROVE  Total(v) = h[Len(v)]
<1> DEFINE f == CHOOSE g : Counts(g, v, Len(v))
<1>1. Counts(f, v, Len(v))
  BY Zenon
<1>2. f = h
  BY <1>1, CountUnique
<1>3. Total(v) = f[Len(v)]
  BY DEF Total, Counts
<1>4. QED BY <1>2, <1>3

\* A count of integers stays in the integers, one of naturals in the naturals.
LEMMA CountType ==
  ASSUME NEW v, NEW m \in Nat, NEW h, Counts(h, v, m),
         NEW S \in {Int, Nat}, \A i \in 1..m : v[i] \in S
  PROVE  \A i \in 0..m : h[i] \in S
<1> DEFINE Bad == {n \in 0..m : h[n] \notin S}
<1>1. SUFFICES ASSUME Bad # {} PROVE FALSE
  OBVIOUS
<1>2. PICK n \in Bad : \A k \in Bad : n <= k
  <2>1. Bad \subseteq Nat
    OBVIOUS
  <2> HIDE DEF Bad
  <2>2. QED BY <1>1, <2>1, LeastNat, Zenon
<1>3. n # 0
  <2>1. h[0] = 0
    BY DEF Counts
  <2>2. QED BY <1>2, <2>1
<1>4. n - 1 \in 0..m /\ n - 1 \notin Bad
  BY <1>2, <1>3
<1>5. h[n] = h[n - 1] + v[n]
  BY <1>2, <1>3 DEF Counts
<1>6. QED BY <1>2, <1>3, <1>4, <1>5

\* The total of integers is one, that of naturals too, and that of nothing is zero.
LEMMA TotalType ==
  ASSUME NEW S \in {Int, Nat}, NEW v \in Seq(S)
  PROVE  Total(v) \in S /\ (v = <<>> => Total(v) = 0)
<1>1. PICK h : Counts(h, v, Len(v))
  BY CountExists
<1>2. Total(v) = h[Len(v)]
  BY <1>1, TotalIs
<1>3. \A i \in 0..Len(v) : h[i] \in S
  BY <1>1, CountType
<1>4. h[0] = 0
  BY <1>1 DEF Counts
<1>5. QED BY <1>2, <1>3, <1>4

\* One number more.
LEMMA TotalAppend ==
  ASSUME NEW v \in Seq(Int), NEW x \in Int
  PROVE  Total(Append(v, x)) = Total(v) + x
<1>0. Len(v) \in Nat
  OBVIOUS
<1>1. PICK h : Counts(h, v, Len(v))
  BY <1>0, CountExists
<1> DEFINE g == [i \in 0..(Len(v) + 1) |-> IF i <= Len(v) THEN h[i] ELSE h[Len(v)] + x]
<1>2. Counts(g, Append(v, x), Len(Append(v, x)))
  <2>1. Len(Append(v, x)) = Len(v) + 1
    OBVIOUS
  <2>2. g[0] = 0
    BY <1>0, <1>1, CountSteps
  <2>3. ASSUME NEW i \in 1..(Len(v) + 1) PROVE g[i] = g[i - 1] + Append(v, x)[i]
    <3>1. i <= Len(v) => h[i] = h[i - 1] + v[i] /\ Append(v, x)[i] = v[i]
      BY <1>0, <1>1, CountSteps
    <3>2. i = Len(v) + 1 => Append(v, x)[i] = x
      OBVIOUS
    <3>3. QED BY <1>0, <3>1, <3>2
  <2>4. g = [i \in 0..(Len(v) + 1) |-> g[i]]
    OBVIOUS
  <2> HIDE DEF g
  <2>5. QED BY <1>0, <2>1, <2>2, <2>3, <2>4, StepsCount
<1>3. Total(Append(v, x)) = g[Len(v) + 1]
  BY <1>2, TotalIs
<1>4. Total(v) = h[Len(v)]
  BY <1>1, TotalIs
<1>5. QED BY <1>3, <1>4

\* One sequence after another.
LEMMA TotalConcat ==
  ASSUME NEW v \in Seq(Int), NEW w \in Seq(Int)
  PROVE  Total(v \o w) = Total(v) + Total(w)
<1>0. Len(v) \in Nat /\ Len(w) \in Nat
  OBVIOUS
<1>1. PICK h : Counts(h, v, Len(v))
  BY <1>0, CountExists
<1>2. PICK k : Counts(k, w, Len(w))
  BY <1>0, CountExists
<1>3. /\ \A i \in 0..Len(v) : h[i] \in Int
      /\ \A i \in 0..Len(w) : k[i] \in Int
  BY <1>1, <1>2, CountType
<1> DEFINE m == Len(v)
           n == Len(w)
           g == [i \in 0..(m + n) |-> IF i <= m THEN h[i] ELSE h[m] + k[i - m]]
<1>4. Counts(g, v \o w, Len(v \o w))
  <2>1. Len(v \o w) = m + n /\ m \in Nat /\ n \in Nat
    OBVIOUS
  <2>2. ASSUME NEW i \in 1..(m + n) PROVE g[i] = g[i - 1] + (v \o w)[i]
    <3>1. CASE i <= m
      BY <2>1, <3>1, <1>1, CountSteps
    <3>2. CASE i = m + 1
      <4>1. k[0] = 0 /\ k[1] = k[0] + w[1] /\ (v \o w)[i] = w[1]
        BY <2>1, <3>2, <1>2, CountSteps
      <4>2. g[i] = h[m] + k[1] /\ g[i - 1] = h[m]
        BY <2>1, <3>2
      <4>3. 1 \in 0..n
        BY <2>1, <3>2
      <4>4. w[1] \in Int /\ h[m] \in Int
        BY <1>3, <2>1, <4>3
      <4>5. QED BY <4>1, <4>2, <4>4
    <3>3. CASE i > m + 1
      <4>1. k[i - m] = k[i - m - 1] + w[i - m] /\ (v \o w)[i] = w[i - m]
        BY <2>1, <3>3, <1>2, CountSteps
      <4>2. g[i] = h[m] + k[i - m] /\ g[i - 1] = h[m] + k[i - m - 1]
        BY <2>1, <3>3
      <4>3. i - m \in 1..n /\ w[i - m] \in Int /\ h[m] \in Int /\ k[i - m - 1] \in Int
        BY <1>3, <2>1, <3>3
      <4>4. QED BY <4>1, <4>2, <4>3
    <3>4. QED BY <2>1, <3>1, <3>2, <3>3
  <2>3. g[0] = 0
    BY <1>1, <2>1, CountSteps
  <2> HIDE DEF g
  <2>4. g = [i \in 0..(m + n) |-> g[i]]
    BY DEF g
  <2>5. m + n \in Nat
    BY <2>1
  <2> HIDE DEF m, n
  <2>6. Counts(g, v \o w, m + n)
    BY <2>2, <2>3, <2>4, <2>5, StepsCount
  <2>7. QED BY <2>1, <2>6
<1>5. Total(v \o w) = g[m + n]
  <2>1. Len(v \o w) = m + n /\ Len(v \o w) \in Nat
    OBVIOUS
  <2> HIDE DEF g
  <2>2. QED BY <1>4, <2>1, TotalIs
<1>6. g[m + n] = h[m] + k[n]
  <2>1. k[0] = 0 /\ m \in Nat /\ n \in Nat /\ h[m] \in Int
    BY <1>2, <1>3, CountSteps
  <2>2. QED BY <2>1
<1>7. Total(v) = h[m] /\ Total(w) = k[n]
  BY <1>1, <1>2, TotalIs
<1>8. QED BY <1>5, <1>6, <1>7

\* Nothing comes to nothing.
LEMMA TotalZeros ==
  ASSUME NEW v \in Seq(Int), \A i \in 1..Len(v) : v[i] = 0
  PROVE  Total(v) = 0
<1>1. PICK m \in Nat : m = Len(v)
  OBVIOUS
<1> DEFINE h == [i \in 0..m |-> 0]
<1>2. h[0] = 0 /\ \A i \in 1..m : h[i] = h[i - 1] + v[i]
  BY <1>1
<1>3. h = [i \in 0..m |-> h[i]] /\ h[m] = 0
  OBVIOUS
<1> HIDE DEF h
<1>4. Counts(h, v, m)
  BY <1>2, <1>3, StepsCount
<1>5. Len(v) \in Nat
  OBVIOUS
<1>6. Counts(h, v, Len(v)) /\ h[Len(v)] = 0
  BY <1>1, <1>3, <1>4
<1>7. QED BY <1>5, <1>6, TotalIs

\* One number of a sequence grows.
LEMMA TotalAdd ==
  ASSUME NEW v \in Seq(Int), NEW j \in 1..Len(v), NEW d \in Int
  PROVE  Total([v EXCEPT ![j] = @ + d]) = Total(v) + d
<1>0. Len(v) \in Nat
  OBVIOUS
<1>1. PICK h : Counts(h, v, Len(v))
  BY <1>0, CountExists
<1>2. \A i \in 0..Len(v) : h[i] \in Int
  BY <1>1, CountType
<1> DEFINE w == [v EXCEPT ![j] = @ + d]
           g == [i \in 0..Len(v) |-> IF i < j THEN h[i] ELSE h[i] + d]
<1>3. w \in Seq(Int) /\ Len(w) = Len(v)
  OBVIOUS
<1>4. Counts(g, w, Len(v))
  <2>1. ASSUME NEW i \in 1..Len(v) PROVE g[i] = g[i - 1] + w[i]
    <3>1. h[i] = h[i - 1] + v[i] /\ h[i] \in Int /\ h[i - 1] \in Int /\ v[i] \in Int
      BY <1>0, <1>1, <1>2, CountSteps
    <3>2. w[i] = IF i = j THEN v[i] + d ELSE v[i]
      OBVIOUS
    <3>3. /\ g[i] = IF i < j THEN h[i] ELSE h[i] + d
          /\ g[i - 1] = IF i - 1 < j THEN h[i - 1] ELSE h[i - 1] + d
      BY <1>0
    <3>4. i \in Int /\ j \in Int /\ d \in Int
      BY <1>0
    <3> HIDE DEF g, w
    <3>5. QED BY <3>1, <3>2, <3>3, <3>4
  <2>2. g[0] = 0
    BY <1>0, <1>1, CountSteps
  <2>3. g = [i \in 0..Len(v) |-> g[i]]
    OBVIOUS
  <2> HIDE DEF g, w
  <2>4. QED BY <1>0, <2>1, <2>2, <2>3, StepsCount
<1>5. Total(w) = g[Len(v)]
  BY <1>3, <1>4, TotalIs
<1>6. Total(v) = h[Len(v)]
  BY <1>1, TotalIs
<1>7. QED BY <1>5, <1>6

\* g is the sum of v on each part of S.
SumsOn(g, v, S) ==
  g = [T \in SUBSET S |-> IF T = {} THEN 0
                          ELSE LET x == CHOOSE x \in T : TRUE IN v[x] + g[T \ {x}]]

\* The sum over S is the value at S of the one such g.
LEMMA TotalOnIs ==
  ASSUME NEW v, NEW S, NEW g, SumsOn(g, v, S)
  PROVE  TotalOn(v, S) = (CHOOSE h : SumsOn(h, v, S))[S]
BY Zenon DEF TotalOn, SumsOn

\* The sum over no element.
LEMMA TotalOnNone ==
  ASSUME NEW v
  PROVE  TotalOn(v, {}) = 0
<1>1. PICK g : g = [T \in SUBSET {} |-> 0]
  OBVIOUS
<1>2. SumsOn(g, v, {})
  BY <1>1 DEF SumsOn
<1>3. PICK h : h = CHOOSE f : SumsOn(f, v, {})
  OBVIOUS
<1>4. SumsOn(h, v, {})
  BY <1>2, <1>3, Zenon
<1>5. h[{}] = 0
  BY <1>4 DEF SumsOn
<1>6. QED BY <1>2, <1>3, <1>5, TotalOnIs, Zenon

\* The sum over one element.
LEMMA TotalOnOne ==
  ASSUME NEW v, NEW x, v[x] \in Int
  PROVE  TotalOn(v, {x}) = v[x]
<1>1. PICK g : g = [T \in SUBSET {x} |-> IF T = {} THEN 0 ELSE v[x]]
  OBVIOUS
<1>2. \A T \in SUBSET {x} : T # {} => T = {x} /\ (CHOOSE y \in T : TRUE) = x /\ T \ {x} = {}
  <2>1. \A T \in SUBSET {x} : T # {} => T = {x} /\ T \ {x} = {}
    OBVIOUS
  <2>2. (CHOOSE y \in {x} : TRUE) = x
    OBVIOUS
  <2>3. QED BY <2>1, <2>2, Zenon
<1>3. {} \in SUBSET {x} /\ {x} \in SUBSET {x} /\ {x} # {}
  OBVIOUS
<1>4. ASSUME NEW h PROVE SumsOn(h, v, {x}) <=> h = [T \in SUBSET {x} |-> IF T = {} THEN 0 ELSE v[x] + h[{}]]
  <2>1. ASSUME NEW T \in SUBSET {x}
        PROVE  (IF T = {} THEN 0 ELSE LET y == CHOOSE y \in T : TRUE IN v[y] + h[T \ {y}])
                 = IF T = {} THEN 0 ELSE v[x] + h[{}]
    <3>1. CASE T = {}
      BY <3>1, Zenon
    <3>2. CASE T # {}
      <4>1. (CHOOSE y \in T : TRUE) = x /\ T \ {x} = {}
        BY <1>2, <3>2, Zenon
      <4>2. (LET y == CHOOSE y \in T : TRUE IN v[y] + h[T \ {y}]) = v[x] + h[{}]
        BY <4>1, Zenon
      <4>3. QED BY <3>2, <4>2, Zenon
    <3>3. QED BY <3>1, <3>2, Zenon
  <2>2. [T \in SUBSET {x} |-> IF T = {} THEN 0
                              ELSE LET y == CHOOSE y \in T : TRUE IN v[y] + h[T \ {y}]]
          = [T \in SUBSET {x} |-> IF T = {} THEN 0 ELSE v[x] + h[{}]]
    BY <2>1, Zenon
  <2>3. QED BY <2>2, Zenon DEF SumsOn
<1>5. SumsOn(g, v, {x})
  <2>1. g[{}] = 0
    BY <1>1, <1>3, Zenon
  <2>2. v[x] + g[{}] = v[x]
    BY <2>1
  <2>3. g = [T \in SUBSET {x} |-> IF T = {} THEN 0 ELSE v[x] + g[{}]]
    BY <1>1, <2>2, Zenon
  <2>4. QED BY <1>4, <2>3, Zenon
<1>6. PICK h : h = CHOOSE f : SumsOn(f, v, {x})
  OBVIOUS
<1>7. SumsOn(h, v, {x})
  BY <1>5, <1>6, Zenon
<1>8. h = [T \in SUBSET {x} |-> IF T = {} THEN 0 ELSE v[x] + h[{}]]
  BY <1>4, <1>7, Zenon
<1>9. h[{}] = 0 /\ h[{x}] = v[x] + h[{}]
  BY <1>3, <1>8, Zenon
<1>10. h[{x}] = v[x]
  BY <1>9
<1>11. QED BY TotalOnIs, <1>5, <1>6, <1>10, Zenon

-----------------------------------------------------------------------------
(* What a sequence of steps comes to.  h is what there is after each step. *)

\* What is true of no step, and of each next number of steps, is true of all.
LEMMA Grows ==
  ASSUME NEW S, 0 \in S, \A n \in Nat : n \in S => n + 1 \in S
  PROVE  Nat \subseteq S
<1> DEFINE Missing == {n \in Nat : n \notin S}
<1>1. SUFFICES ASSUME Missing # {} PROVE FALSE
  OBVIOUS
<1>2. PICK n \in Missing : \A k \in Missing : n <= k
  <2>1. Missing \subseteq Nat
    OBVIOUS
  <2> HIDE DEF Missing
  <2>2. QED BY <1>1, <2>1, LeastNat, Zenon
<1>3. n # 0 /\ n - 1 \in Nat /\ n - 1 \notin Missing
  BY <1>2
<1>4. QED BY <1>2, <1>3

\* h says something of every number of events up to n.
Reaches(h, n) == h = [i \in 0..n |-> h[i]]

\* Two histories that start alike and take like steps are one.
LEMMA OneHistory ==
  ASSUME NEW n \in Nat, NEW g, NEW h, Reaches(g, n), Reaches(h, n), g[0] = h[0],
         \A i \in 1..n : g[i - 1] = h[i - 1] => g[i] = h[i]
  PROVE  g = h
<1> DEFINE Same == {k \in Nat : k <= n => g[k] = h[k]}
<1>1. 0 \in Same
  OBVIOUS
<1>2. ASSUME NEW k \in Nat, k \in Same PROVE k + 1 \in Same
  <2>1. SUFFICES ASSUME k + 1 <= n PROVE g[k + 1] = h[k + 1]
    OBVIOUS
  <2>2. g[k] = h[k] /\ k + 1 \in 1..n /\ (k + 1) - 1 = k
    BY <1>2, <2>1
  <2>3. QED BY <2>2
<1>3. Nat \subseteq Same
  <2> HIDE DEF Same
  <2>1. QED BY <1>1, <1>2, Grows
<1>4. \A i \in 0..n : g[i] = h[i]
  BY <1>3
<1>5. [i \in 0..n |-> g[i]] = [i \in 0..n |-> h[i]]
  BY <1>4, Zenon
<1>6. QED BY <1>5, Zenon DEF Reaches

\* A history may be cut off, ...
LEMMA CutHistory ==
  ASSUME NEW n \in Nat, NEW h
  PROVE  \E g : Reaches(g, n) /\ \A i \in 0..n : g[i] = h[i]
<1>1. \E g : g = [i \in 0..n |-> h[i]]
  OBVIOUS
<1>2. PICK g : g = [i \in 0..n |-> h[i]]
  BY <1>1
<1>3. \A i \in 0..n : g[i] = h[i]
  BY <1>2
<1>4. [i \in 0..n |-> g[i]] = [i \in 0..n |-> h[i]]
  BY <1>3, Zenon
<1>5. QED BY <1>2, <1>3, <1>4, Zenon DEF Reaches

\* ... and go on.
Longer(g, h, n, x) ==
  Reaches(g, n + 1) /\ g[n + 1] = x /\ \A i \in 0..n : g[i] = h[i]

\* A history may be given one more outcome.
LEMMA LongerHistory ==
  ASSUME NEW n \in Nat, NEW h, NEW x
  PROVE  \E g : Longer(g, h, n, x)
<1>1. \E f : f = [i \in 0..(n + 1) |-> IF i = n + 1 THEN x ELSE h[i]]
  OBVIOUS
<1>2. PICK f : f = [i \in 0..(n + 1) |-> IF i = n + 1 THEN x ELSE h[i]]
  BY <1>1
<1>3. f[n + 1] = x /\ \A i \in 0..n : f[i] = h[i]
  BY <1>2
<1>4. n + 1 \in Nat
  OBVIOUS
<1>5. PICK g : Reaches(g, n + 1) /\ \A i \in 0..(n + 1) : g[i] = f[i]
  BY <1>4, CutHistory
<1>6. n + 1 \in 0..(n + 1) /\ \A i \in 0..n : i \in 0..(n + 1)
  OBVIOUS
<1>7. QED BY <1>3, <1>5, <1>6, Zenon DEF Longer

-----------------------------------------------------------------------------
(* What occurs in a sequence *)

Occurs(s, e) == \E i \in DOMAIN s : s[i] = e

\* One sequence after another.
LEMMA OccursConcat ==
  ASSUME NEW S, NEW s \in Seq(S), NEW t \in Seq(S), NEW e
  PROVE  Occurs(s \o t, e) <=> Occurs(s, e) \/ Occurs(t, e)
<1>1. PICK m \in Nat, n \in Nat : m = Len(s) /\ n = Len(t)
  OBVIOUS
<1>2. DOMAIN s = 1..m /\ DOMAIN t = 1..n /\ DOMAIN (s \o t) = 1..(m + n)
  BY <1>1
<1>3. /\ \A i \in 1..m : (s \o t)[i] = s[i] /\ i \in 1..(m + n)
      /\ \A i \in 1..n : (s \o t)[m + i] = t[i] /\ m + i \in 1..(m + n)
  BY <1>1
<1>4. \A i \in 1..(m + n) : i \in 1..m \/ (i - m \in 1..n /\ m + (i - m) = i)
  OBVIOUS
<1>5. ASSUME Occurs(s \o t, e) PROVE Occurs(s, e) \/ Occurs(t, e)
  <2>1. PICK i \in 1..(m + n) : (s \o t)[i] = e
    BY <1>2, <1>5, Zenon DEF Occurs
  <2>2. CASE i \in 1..m
    BY <1>2, <1>3, <2>1, <2>2, Zenon DEF Occurs
  <2>3. CASE i \notin 1..m
    <3>1. i - m \in 1..n /\ m + (i - m) = i
      BY <1>4, <2>1, <2>3, Zenon
    <3>2. (s \o t)[m + (i - m)] = t[i - m]
      BY <1>3, <3>1, Zenon
    <3>3. QED BY <1>2, <2>1, <3>1, <3>2, Zenon DEF Occurs
  <2>4. QED BY <2>2, <2>3
<1>6. (Occurs(s, e) => Occurs(s \o t, e)) /\ (Occurs(t, e) => Occurs(s \o t, e))
  BY <1>2, <1>3, Zenon DEF Occurs
<1>7. QED BY <1>5, <1>6, Zenon

\* A beginning.
LEMMA OccursPrefix ==
  ASSUME NEW S, NEW s \in Seq(S), NEW k \in 0..Len(s), NEW e
  PROVE  SubSeq(s, 1, k) \in Seq(S) /\ (Occurs(SubSeq(s, 1, k), e) => Occurs(s, e))
<1>1. SubSeq(s, 1, k) \in Seq(S)
  OBVIOUS
<1>2. DOMAIN SubSeq(s, 1, k) = 1..k /\ DOMAIN s = 1..Len(s)
  OBVIOUS
<1>3. \A i \in 1..k : SubSeq(s, 1, k)[i] = s[i] /\ i \in 1..Len(s)
  OBVIOUS
<1>4. QED BY <1>1, <1>2, <1>3, Zenon DEF Occurs

\* The sum of a sequence is its first number and the sum of the rest.
LEMMA TotalTail ==
  ASSUME NEW v \in Seq(Int), v # <<>>
  PROVE  Total(v) = Head(v) + Total(Tail(v)) /\ Total(Tail(v)) \in Int /\ Head(v) \in Int
<1>1. PICK I : I = Int
  OBVIOUS
<1>2. Head(v) \in I /\ Tail(v) \in Seq(I) /\ v = <<Head(v)>> \o Tail(v) /\ <<>> \in Seq(I)
  <2>1. v \in Seq(I)
    BY <1>1, Zenon
  <2>2. QED BY <2>1
<1>3. PICK x \in Int : x = Head(v)
  BY <1>1, <1>2, Zenon
<1>4. PICK t \in Seq(Int) : t = Tail(v)
  BY <1>1, <1>2, Zenon
<1>5. PICK none \in Seq(Int) : none = <<>>
  BY <1>1, <1>2, Zenon
<1>6. <<x>> = Append(none, x) /\ <<x>> \in Seq(Int)
  BY <1>5
<1>7. Total(none) = 0 /\ Total(Append(none, x)) = Total(none) + x
  BY <1>5, TotalType, TotalAppend
<1>8. Total(<<x>>) = 0 + x
  BY <1>6, <1>7, Zenon
<1>9. Total(<<x>> \o t) = Total(<<x>>) + Total(t)
  BY <1>6, TotalConcat
<1>10. Total(v) = Total(<<x>>) + Total(t)
  BY <1>2, <1>3, <1>4, <1>9, Zenon
<1>11. Total(t) \in Int
  BY TotalType
<1>12. Total(v) = x + Total(t)
  BY <1>8, <1>10, <1>11
<1>13. QED BY <1>3, <1>4, <1>11, <1>12, Zenon

\* One of finitely many numbers is the greatest.
LEMMA MaxOver ==
  ASSUME NEW W, IsFiniteSet(W), W # {}, NEW f \in [W -> Int]
  PROVE  \E w \in W : \A v \in W : f[v] <= f[w]
<1>1. PICK n \in Nat : n = Cardinality(W)
  BY FS_CardinalityType
<1>2. ExistsBijection(1..n, W) /\ n # 0
  BY <1>1, FS_CardinalityType, FS_EmptySet, Zenon
<1>3. PICK g \in [1..n -> W] : \A w \in W : \E i \in 1..n : g[i] = w
  <2>1. PICK g : g \in Bijection(1..n, W)
    BY <1>2, Zenon DEF ExistsBijection
  <2>2. g \in [1..n -> W] /\ \A w \in W : \E i \in 1..n : g[i] = w
    BY <2>1, Zenon DEF Bijection, Surjection
  <2>3. QED BY <2>2
<1>4. PICK x : x = [i \in 1..n |-> f[g[i]]]
  OBVIOUS
<1>5. x \in [1..n -> Int] /\ \A i \in 1..n : x[i] = f[g[i]]
  BY <1>3, <1>4
<1>6. PICK S : S = {k \in Nat : k + 1 <= n => \E i \in 1..(k + 1) : \A j \in 1..(k + 1) : x[j] <= x[i]}
  OBVIOUS
<1>7. 0 \in S
  BY <1>5, <1>6
<1>8. ASSUME NEW k \in Nat, k \in S PROVE k + 1 \in S
  <2>1. SUFFICES ASSUME (k + 1) + 1 <= n
                 PROVE  \E i \in 1..((k + 1) + 1) : \A j \in 1..((k + 1) + 1) : x[j] <= x[i]
    BY <1>6
  <2>2. PICK i \in 1..(k + 1) : \A j \in 1..(k + 1) : x[j] <= x[i]
    BY <1>6, <1>8, <2>1
  <2>3. PICK l \in 1..n : l = (k + 1) + 1
    BY <2>1
  <2>4. i \in 1..n /\ \A j \in 1..l : j \in 1..n /\ (j \in 1..(k + 1) \/ j = l)
    BY <2>1, <2>3
  <2>5. CASE x[l] <= x[i]
    <3>1. \A j \in 1..l : x[j] <= x[i]
      BY <2>2, <2>4, <2>5
    <3>2. i \in 1..l
      BY <2>3
    <3>3. QED BY <2>3, <3>1, <3>2, Zenon
  <2>6. CASE ~(x[l] <= x[i])
    <3>1. \A j \in 1..l : x[j] <= x[l]
      BY <1>5, <2>2, <2>4, <2>6
    <3>2. l \in 1..l
      BY <2>3
    <3>3. QED BY <2>3, <3>1, <3>2, Zenon
  <2>7. QED BY <2>5, <2>6
<1>9. n - 1 \in S
  <2>1. Nat \subseteq S
    BY <1>7, <1>8, Grows, Zenon
  <2>2. n - 1 \in Nat
    BY <1>2
  <2>3. QED BY <2>1, <2>2
<1>10. PICK i \in 1..n : \A j \in 1..n : x[j] <= x[i]
  BY <1>2, <1>6, <1>9
<1>11. g[i] \in W /\ \A v \in W : f[v] <= f[g[i]]
  BY <1>3, <1>5, <1>10
<1>12. QED BY <1>11

\* The places of y in s, and how often it is there.
PlacesOf(s, y) == {k \in DOMAIN s : s[k] = y}

\* t is s, of n elements, with x appended m times.
IsMore(t, s, n, m, x) ==
  /\ n \in Nat /\ m \in Nat /\ DOMAIN s = 1..n /\ DOMAIN t = 1..(n + m)
  /\ \A k \in 1..n : t[k] = s[k]
  /\ \A k \in 1..m : t[n + k] = x

\* ... which is the one more often there.
LEMMA TimesMore ==
  ASSUME NEW t, NEW s, NEW n, NEW m, NEW x, IsMore(t, s, n, m, x)
  PROVE  /\ Cardinality(PlacesOf(t, x)) = Cardinality(PlacesOf(s, x)) + m
         /\ \A y : y # x => Cardinality(PlacesOf(t, y)) = Cardinality(PlacesOf(s, y))
<1>0. /\ n \in Nat /\ m \in Nat /\ DOMAIN s = 1..n /\ DOMAIN t = 1..(n + m)
      /\ \A k \in 1..n : t[k] = s[k]
      /\ \A k \in 1..m : t[n + k] = x
  BY Zenon DEF IsMore
<1> USE <1>0
<1> SUFFICES ASSUME NEW y
             PROVE  IF x = y THEN Cardinality(PlacesOf(t, y)) = Cardinality(PlacesOf(s, y)) + m
                    ELSE Cardinality(PlacesOf(t, y)) = Cardinality(PlacesOf(s, y))
  OBVIOUS
<1>1. PICK S : S = PlacesOf(s, y)
  OBVIOUS
<1>2. S \subseteq 1..n /\ IsFiniteSet(S) /\ Cardinality(S) \in Nat
  <2>1. S \subseteq 1..n
    BY <1>1 DEF PlacesOf
  <2>2. IsFiniteSet(1..n)
    BY FS_Interval
  <2>3. IsFiniteSet(S)
    BY <2>1, <2>2, FS_Subset
  <2>4. QED BY <2>1, <2>3, FS_CardinalityType
<1>3. PICK M : M = (n + 1)..(n + m)
  OBVIOUS
<1>4. IsFiniteSet(M) /\ Cardinality(M) = m
  <2>1. IsFiniteSet(M) /\ Cardinality(M) = IF n + 1 > n + m THEN 0 ELSE (n + m) - (n + 1) + 1
    BY <1>3, FS_Interval
  <2>2. QED BY <2>1
<1>5. CASE x = y
  <2>1. PlacesOf(t, y) = S \cup M
    <3>1. ASSUME NEW k \in PlacesOf(t, y) PROVE k \in S \cup M
      <4>1. k \in 1..(n + m) /\ t[k] = y
        BY <3>1 DEF PlacesOf
      <4>2. CASE k <= n
        BY <1>1, <4>1, <4>2 DEF PlacesOf
      <4>3. CASE ~(k <= n)
        BY <1>3, <4>1, <4>3
      <4>4. QED BY <4>2, <4>3
    <3>2. ASSUME NEW k \in S PROVE k \in PlacesOf(t, y)
      BY <1>1, <3>2 DEF PlacesOf
    <3>3. ASSUME NEW k \in M PROVE k \in PlacesOf(t, y)
      <4>1. k - n \in 1..m /\ n + (k - n) = k /\ k \in 1..(n + m)
        BY <1>3
      <4>2. t[k] = x
        BY <4>1
      <4>3. QED BY <1>5, <4>1, <4>2 DEF PlacesOf
    <3>4. QED BY <3>1, <3>2, <3>3
  <2>2. S \cap M = {}
    BY <1>2, <1>3
  <2>3. Cardinality(S \cup M) = Cardinality(S) + Cardinality(M) - Cardinality(S \cap M)
    BY <1>2, <1>4, FS_Union
  <2>4. Cardinality(S \cap M) = 0
    BY <2>2, FS_EmptySet, Zenon
  <2>5. Cardinality(S \cup M) = Cardinality(S) + m
    <3>1. PICK a, b, c, d : /\ a = Cardinality(S \cup M) /\ b = Cardinality(S)
                            /\ c = Cardinality(M) /\ d = Cardinality(S \cap M)
      BY ONLY Zenon
    <3>2. a = b + c - d /\ c = m /\ d = 0 /\ b \in Nat
      BY <1>2, <1>4, <2>3, <2>4, <3>1, Zenon
    <3>3. a = b + m
      BY ONLY <3>2, <1>0
    <3>4. QED BY ONLY <3>1, <3>3, Zenon
  <2>6. QED BY ONLY <1>1, <1>2, <1>5, <2>1, <2>5
<1>6. CASE x # y
  <2>1. PlacesOf(t, y) = S
    <3>1. ASSUME NEW k \in PlacesOf(t, y) PROVE k \in S
      <4>1. k \in 1..(n + m) /\ t[k] = y
        BY <3>1 DEF PlacesOf
      <4>2. k <= n
        <5>1. SUFFICES ASSUME ~(k <= n) PROVE FALSE
          OBVIOUS
        <5>2. k - n \in 1..m /\ n + (k - n) = k
          BY <4>1, <5>1
        <5>3. t[k] = x
          BY <5>2
        <5>4. QED BY <1>6, <4>1, <5>3
      <4>3. QED BY <1>1, <4>1, <4>2 DEF PlacesOf
    <3>2. ASSUME NEW k \in S PROVE k \in PlacesOf(t, y)
      BY <1>1, <3>2 DEF PlacesOf
    <3>3. QED BY <3>1, <3>2
  <2>2. QED BY <1>1, <1>2, <1>6, <2>1
<1>7. QED BY <1>5, <1>6

-----------------------------------------------------------------------------
(* Products, quotients and bounds of a sum *)

\* A factor that is not negative keeps an order, and a product shows it.
LEMMA Products ==
  ASSUME NEW a \in Int, NEW b \in Int, NEW c \in Nat
  PROVE  (a <= b => c * a <= c * b) /\ (c * a < c * b => a < b)
<1>1. ASSUME NEW x \in Int, NEW y \in Int, x <= y PROVE c * x <= c * y
  <2>1. PICK d \in Nat : d = y - x
    BY <1>1
  <2>2. c * d \in Nat
    OBVIOUS
  <2>3. y = x + d
    BY <2>1
  <2>4. c * (x + d) = c * x + c * d
    OBVIOUS
  <2>5. c * x \in Int
    OBVIOUS
  <2>6. QED BY <2>2, <2>3, <2>4, <2>5
<1>2. a <= b => c * a <= c * b
  BY <1>1
<1>3. b <= a => c * b <= c * a
  BY <1>1
<1>4. c * a \in Int /\ c * b \in Int
  OBVIOUS
<1>5. QED BY <1>2, <1>3, <1>4

\* The quotient of a division.
LEMMA QuotientIs ==
  ASSUME NEW a \in Int, NEW b \in Nat \ {0}
  PROVE  a \div b \in Int /\ b * (a \div b) <= a /\ a < b * (a \div b) + b
OBVIOUS

\* A bound of every number is one of the sum.
LEMMA TotalScaled ==
  ASSUME NEW v \in Seq(Int), NEW u \in Seq(Int), Len(u) = Len(v),
         NEW c \in Int, NEW a \in Int, NEW e \in Int,
         \A i \in 1..Len(v) : c * v[i] <= a * u[i] + e
  PROVE  c * Total(v) <= a * Total(u) + e * Len(v)
<1>1. PICK n \in Nat : n = Len(v)
  OBVIOUS
<1>2. PICK h : Counts(h, v, n)
  BY <1>1, CountExists
<1>3. PICK k : Counts(k, u, n)
  BY <1>1, CountExists
<1>4. Total(v) = h[n] /\ Total(u) = k[n]
  <2>1. Len(v) \in Nat /\ Len(u) \in Nat /\ Counts(h, v, Len(v)) /\ Counts(k, u, Len(u))
    BY <1>1, <1>2, <1>3
  <2>2. Total(v) = h[Len(v)]
    BY <2>1, TotalIs
  <2>3. Total(u) = k[Len(u)]
    BY <2>1, TotalIs
  <2>4. QED BY <1>1, <2>2, <2>3
<1>5. \A i \in 0..n : h[i] \in Int /\ k[i] \in Int
  <2>1. \A i \in 1..n : v[i] \in Int /\ u[i] \in Int
    BY <1>1
  <2>2. \A i \in 0..n : h[i] \in Int
    BY <1>2, <2>1, CountType
  <2>3. \A i \in 0..n : k[i] \in Int
    BY <1>3, <2>1, CountType
  <2>4. QED BY <2>2, <2>3
<1>6. h[0] = 0 /\ \A i \in 1..n : h[i] = h[i - 1] + v[i]
  BY <1>2, CountSteps
<1>7. k[0] = 0 /\ \A i \in 1..n : k[i] = k[i - 1] + u[i]
  BY <1>3, CountSteps
<1> DEFINE Bounded == {m \in Nat : m <= n => c * h[m] <= a * k[m] + e * m}
<1>8. 0 \in Bounded
  BY <1>6, <1>7
<1>9. ASSUME NEW m \in Nat, m \in Bounded PROVE m + 1 \in Bounded
  <2>1. SUFFICES ASSUME m + 1 <= n PROVE c * h[m + 1] <= a * k[m + 1] + e * (m + 1)
    OBVIOUS
  <2>2. PICK x \in Int, y \in Int, s \in Int, t \in Int :
          x = v[m + 1] /\ y = u[m + 1] /\ s = h[m] /\ t = k[m]
    <3>1. m + 1 \in 1..n /\ m \in 0..n
      BY <2>1
    <3>2. v[m + 1] \in Int /\ u[m + 1] \in Int
      BY <1>1, <3>1
    <3>3. h[m] \in Int /\ k[m] \in Int
      BY <1>5, <3>1
    <3>4. QED BY ONLY <3>2, <3>3, Zenon
  <2>3. h[m + 1] = s + x /\ k[m + 1] = t + y
    <3>1. m + 1 \in 1..n /\ (m + 1) - 1 = m
      BY <2>1
    <3>2. QED BY <1>6, <1>7, <2>2, <3>1
  <2>4. c * x <= a * y + e /\ c * s <= a * t + e * m
    BY <1>1, <1>9, <2>1, <2>2
  <2>5. c * (s + x) = c * s + c * x /\ a * (t + y) = a * t + a * y /\ e * (m + 1) = e * m + e
    OBVIOUS
  <2>6. PICK cs \in Int, cx \in Int, at \in Int, ay \in Int, em \in Int :
          cs = c * s /\ cx = c * x /\ at = a * t /\ ay = a * y /\ em = e * m
    OBVIOUS
  <2>7. cs + cx <= at + ay + (em + e)
    BY <2>4, <2>6
  <2>8. c * (s + x) <= a * (t + y) + e * (m + 1)
    BY ONLY <2>5, <2>6, <2>7
  <2>9. QED BY ONLY <2>3, <2>8
<1>10. Nat \subseteq Bounded
  <2> HIDE DEF Bounded
  <2>1. QED BY <1>8, <1>9, Grows
<1>11. c * h[n] <= a * k[n] + e * n
  BY <1>10
<1>12. QED BY ONLY <1>1, <1>4, <1>11

\* The sum of one number n times.
LEMMA TotalSame ==
  ASSUME NEW n \in Nat, NEW x \in Int
  PROVE  Total([i \in 1..n |-> x]) = x * n
<1>1. PICK v : v = [i \in 1..n |-> x]
  OBVIOUS
<1>2. v \in Seq(Int) /\ Len(v) = n /\ \A i \in 1..Len(v) : v[i] = x
  BY <1>1
<1>3. Total(v) \in Int
  BY <1>2, TotalType
<1>4. 1 * Total(v) <= 0 * Total(v) + x * Len(v)
  <2>1. \A i \in 1..Len(v) : 1 * v[i] <= 0 * v[i] + x
    BY <1>2
  <2>2. 1 \in Int /\ 0 \in Int /\ Len(v) = Len(v)
    OBVIOUS
  <2>3. v \in Seq(Int)
    BY <1>2
  <2>4. QED BY <2>1, <2>2, <2>3, TotalScaled, Zenon
<1>5. (-1) * Total(v) <= 0 * Total(v) + (-x) * Len(v)
  <2>1. \A i \in 1..Len(v) : (-1) * v[i] <= 0 * v[i] + (-x)
    BY <1>2
  <2>2. -1 \in Int /\ -x \in Int /\ 0 \in Int
    OBVIOUS
  <2>3. QED BY <1>2, <2>1, <2>2, TotalScaled
<1>6. (-x) * Len(v) = -(x * n)
  BY <1>2
<1>7. PICK xn \in Int : xn = x * n
  OBVIOUS
<1>8. Total(v) = xn
  BY <1>2, <1>3, <1>4, <1>5, <1>6, <1>7
<1>9. QED BY <1>1, <1>7, <1>8

\* No number is more than the sum.
LEMMA TotalHas ==
  ASSUME NEW v \in Seq(Nat), NEW j \in 1..Len(v)
  PROVE  v[j] <= Total(v)
<1>1. PICK n \in Nat : n = Len(v)
  OBVIOUS
<1>2. PICK h : Counts(h, v, n)
  BY <1>1, CountExists
<1>3. Total(v) = h[n]
  BY <1>1, <1>2, TotalIs
<1>4. \A i \in 1..n : v[i] \in Nat
  BY <1>1
<1>5. \A i \in 0..n : h[i] \in Nat
  BY <1>2, <1>4, CountType
<1>6. h[0] = 0 /\ \A i \in 1..n : h[i] = h[i - 1] + v[i]
  BY <1>2, CountSteps
<1> DEFINE Above == {m \in Nat : m <= n /\ m >= j => h[m] >= v[j]}
<1>7. 0 \in Above
  OBVIOUS
<1>8. ASSUME NEW m \in Nat, m \in Above PROVE m + 1 \in Above
  <2>1. SUFFICES ASSUME m + 1 <= n, m + 1 >= j PROVE h[m + 1] >= v[j]
    OBVIOUS
  <2>2. m + 1 \in 1..n /\ (m + 1) - 1 = m /\ m \in 0..n
    BY <2>1
  <2>3. h[m + 1] = h[m] + v[m + 1] /\ h[m] \in Nat /\ v[m + 1] \in Nat
    BY <1>4, <1>5, <1>6, <2>2
  <2>4. v[j] \in Nat
    BY <1>1, <1>4
  <2>5. CASE m + 1 = j
    BY <2>3, <2>5
  <2>6. CASE m + 1 # j
    <3>1. h[m] >= v[j]
      BY <1>8, <2>1, <2>6
    <3>2. QED BY <2>3, <2>4, <3>1
  <2>7. QED BY <2>5, <2>6
<1>9. Nat \subseteq Above
  <2> HIDE DEF Above
  <2>1. QED BY <1>7, <1>8, Grows
<1>10. QED BY <1>1, <1>3, <1>9
===============================================================================
