--------------------------- MODULE SortingProofs ---------------------------
(***************************************************************************)
(* Why Sorted gives a sequence and the right one, and what the loops of    *)
(* Loops compute: a loop has a run (Iterated), what holds before the first *)
(* pass and is kept by each holds after the last (Upwards), and a slice    *)
(* without repetitions is a list of a set (Lists), which the loops filter, *)
(* join and add up.  An order is given to the lemmas as what is below each *)
(* element, since no prover instantiates an operator.                      *)
(***************************************************************************)
EXTENDS Sorting, Loops, FiniteSetTheorems, SequenceTheorems, TLAPS

\* Among the elements of a finite set in a total order, given as what is below
\* each, there is exactly one for each number of elements below it.
LEMMA Ranks ==
  ASSUME NEW S, IsFiniteSet(S), NEW below \in [S -> SUBSET S],
         \A x \in S : x \notin below[x],
         \A x, y \in S : x # y => x \in below[y] \/ y \in below[x],
         \A x, y \in S : x \in below[y] => below[x] \subseteq below[y]
  PROVE  /\ Cardinality(S) \in Nat
         /\ \A x \in S : Cardinality(below[x]) \in 0..(Cardinality(S) - 1)
         /\ \A x, y \in S : x \in below[y] <=> Cardinality(below[x]) < Cardinality(below[y])
         /\ \A k \in 1..Cardinality(S) : \E x \in S : Cardinality(below[x]) = k - 1
<1> DEFINE n == Cardinality(S)
           rank == [x \in S |-> Cardinality(below[x])]
<1>1. n \in Nat
  BY FS_CardinalityType
<1>2. ASSUME NEW x \in S PROVE IsFiniteSet(below[x]) /\ Cardinality(below[x]) \in 0..(n - 1)
  <2>1. IsFiniteSet(S \ {x}) /\ Cardinality(S \ {x}) = n - 1
    BY FS_RemoveElement
  <2>2. below[x] \in SUBSET (S \ {x})
    OBVIOUS
  <2>3. IsFiniteSet(below[x]) /\ Cardinality(below[x]) <= n - 1
    BY <2>1, <2>2, FS_Subset
  <2> QED
    BY <1>1, <2>3, FS_CardinalityType
<1>3. ASSUME NEW x \in S, NEW y \in S, x \in below[y]
      PROVE  Cardinality(below[x]) < Cardinality(below[y])
  <2>1. below[x] \in SUBSET below[y] /\ below[x] # below[y]
    BY <1>3
  <2>2. Cardinality(below[x]) <= Cardinality(below[y]) /\ Cardinality(below[x]) # Cardinality(below[y])
    BY <1>2, <2>1, FS_Subset
  <2> QED
    BY <1>2, <2>2
<1>4. \A x, y \in S : x \in below[y] <=> Cardinality(below[x]) < Cardinality(below[y])
  <2> SUFFICES ASSUME NEW x \in S, NEW y \in S,
                      Cardinality(below[x]) < Cardinality(below[y]), x \notin below[y]
               PROVE  FALSE
    BY <1>3
  <2>1. x # y
    BY <1>2
  <2> QED
    BY <1>2, <1>3, <2>1
<1>5. rank \in Injection(S, 0..(n - 1))
  <2>1. rank \in [S -> 0..(n - 1)]
    BY <1>2
  <2>2. ASSUME NEW x \in S, NEW y \in S, x # y PROVE rank[x] # rank[y]
    BY <1>2, <1>3, <2>2
  <2> QED
    BY <2>1, <2>2 DEF Injection, IsInjective
<1>6. IsFiniteSet(0..(n - 1)) /\ Cardinality(0..(n - 1)) = n
  BY <1>1, FS_Interval
<1>7. rank \in Surjection(S, 0..(n - 1))
  BY <1>5, <1>6, FS_Injection
<1>8. ASSUME NEW k \in 1..n PROVE \E x \in S : Cardinality(below[x]) = k - 1
  <2>1. k - 1 \in 0..(n - 1)
    BY <1>1
  <2> QED
    BY <1>7, <2>1 DEF Surjection
<1> QED
  BY <1>1, <1>2, <1>4, <1>8

\* A sequence of the elements in their order has each where Sorted puts it.
LEMMA Positions ==
  ASSUME NEW S, NEW n \in Nat, NEW s \in Bijection(1..n, S), NEW below \in [S -> SUBSET S],
         \A i, j \in 1..n : s[j] \in below[s[i]] <=> j < i
  PROVE  /\ IsFiniteSet(S) /\ Cardinality(S) = n
         /\ \A i \in 1..n : s[i] \in S
         /\ \A x \in S, i \in 1..n : Cardinality(below[x]) = i - 1 <=> x = s[i]
<1>1. IsFiniteSet(1..n) /\ Cardinality(1..n) = n
  BY FS_Interval
<1>2. IsFiniteSet(S) /\ Cardinality(S) = n
  BY <1>1, FS_Bijection DEF ExistsBijection
<1>3. /\ s \in [1..n -> S]
      /\ \A x \in S : \E i \in 1..n : x = s[i]
      /\ \A i, j \in 1..n : s[i] = s[j] => i = j
  BY DEF Bijection, Injection, Surjection, IsInjective
<1>4. ASSUME NEW i \in 1..n PROVE Cardinality(below[s[i]]) = i - 1
  <2> DEFINE f == [j \in 1..(i - 1) |-> s[j]]
  <2>1. \A j \in 1..(i - 1) : j \in 1..n /\ j < i
    OBVIOUS
  <2>2. f \in [1..(i - 1) -> below[s[i]]]
    BY <1>3, <2>1
  <2>3. \A x \in below[s[i]] : \E j \in 1..(i - 1) : f[j] = x
    BY <1>3
  <2>4. \A j, k \in 1..(i - 1) : f[j] = f[k] => j = k
    BY <1>3, <2>1
  <2>5. f \in Bijection(1..(i - 1), below[s[i]])
    BY <2>2, <2>3, <2>4 DEF Bijection, Injection, Surjection, IsInjective
  <2>6. IsFiniteSet(1..(i - 1)) /\ Cardinality(1..(i - 1)) = i - 1
    BY FS_Interval
  <2> QED
    BY <2>5, <2>6, FS_Bijection DEF ExistsBijection
<1>5. ASSUME NEW x \in S, NEW i \in 1..n PROVE Cardinality(below[x]) = i - 1 <=> x = s[i]
  <2>1. PICK j \in 1..n : x = s[j]
    BY <1>3
  <2>2. Cardinality(below[x]) = j - 1
    BY <1>4, <2>1
  <2> QED
    BY <1>3, <1>4, <2>1, <2>2
<1> QED
  BY <1>2, <1>3, <1>5

-----------------------------------------------------------------------------
(* Loops *)

\* A set of numbers has a least one.
LEMMA LeastNumber ==
  ASSUME NEW S \in SUBSET Nat, S # {}
  PROVE  \E m \in S : \A k \in S : m <= k
<1>1. PICK R : R = OpToRel(<, Nat)
  OBVIOUS
<1>2. \A a, b \in Nat : a < b => <<a, b>> \in R
  BY <1>1, Zenon DEF OpToRel
<1>3. IsWellFoundedOn(R, Nat)
  BY <1>1, NatLessThanWellFounded, Zenon
<1>4. PICK m \in S : \A k \in S : ~ (<<k, m>> \in R)
  BY <1>3, WFMin
<1>5. \A k \in S : m <= k
  <2> SUFFICES ASSUME NEW k \in S, k < m PROVE FALSE
    OBVIOUS
  <2>1. <<k, m>> \in R
    BY <1>2, Zenon
  <2> QED
    BY <1>4, <2>1, Zenon
<1> QED
  BY <1>5

\* What holds of 0 and of each number after one it holds of, holds up to n.
LEMMA Upwards ==
  ASSUME NEW n \in Nat, NEW Q, 0 \in Q, \A k \in 1..n : k - 1 \in Q => k \in Q
  PROVE  \A k \in 0..n : k \in Q
<1> DEFINE bad == {k \in 0..n : k \notin Q}
<1> SUFFICES ASSUME bad # {} PROVE FALSE
  OBVIOUS
<1>1. PICK m \in bad : \A y \in bad : m <= y
  <2>1. bad \in SUBSET Nat
    OBVIOUS
  <2> HIDE DEF bad
  <2> QED
    BY <2>1, LeastNumber
<1>2. m \in 1..n
  BY <1>1
<1>3. m - 1 \in bad
  BY <1>1, <1>2
<1> QED
  BY <1>1, <1>2, <1>3

\* The bodies of a loop that goes through 1 to n, and what a run of it computes.
Bodies(V, n) == [1..n -> [V -> V]]
LoopRuns(V, n, first, body) ==
    {f \in [0..n -> V] : f[0] = first /\ \A k \in 1..n : f[k] = body[k][f[k - 1]]}

\* A loop has a run.
LEMMA Iterated ==
  ASSUME NEW V, NEW n \in Nat, NEW first \in V, NEW step \in Bodies(V, n)
  PROVE  LoopRuns(V, n, first, step) # {}
<1> USE DEF Bodies
<1> DEFINE Runs(f, k) == f[0] = first /\ \A j \in 1..k : f[j] = step[j][f[j - 1]]
           Q == {k \in 0..n : \E f \in [0..k -> V] : Runs(f, k)}
<1>1. 0 \in Q
  <2>1. [j \in 0..0 |-> first] \in [0..0 -> V] /\ Runs([j \in 0..0 |-> first], 0)
    OBVIOUS
  <2>2. \E f \in [0..0 -> V] : Runs(f, 0)
    BY <2>1
  <2> HIDE DEF Runs
  <2> QED
    BY <2>2
<1>2. ASSUME NEW k \in 1..n, k - 1 \in Q PROVE k \in Q
  <2>1. PICK f \in [0..(k - 1) -> V] : Runs(f, k - 1)
    BY <1>2
  <2> DEFINE g == [j \in 0..k |-> IF j = k THEN step[k][f[k - 1]] ELSE f[j]]
  <2>2. g \in [0..k -> V]
    BY <2>1
  <2>3. g[0] = first
    BY <2>1
  <2>4. ASSUME NEW j \in 1..k PROVE g[j] = step[j][g[j - 1]]
    <3>1. j - 1 \in 0..(k - 1) /\ j - 1 # k /\ g[j - 1] = f[j - 1]
      OBVIOUS
    <3>2. CASE j = k
      BY <3>1, <3>2
    <3>3. CASE j # k
      <4>1. j \in 1..(k - 1) /\ g[j] = f[j]
        BY <3>3
      <4> QED
        BY <2>1, <3>1, <4>1
    <3> QED
      BY <3>2, <3>3
  <2> HIDE DEF g
  <2>5. \E h \in [0..k -> V] : Runs(h, k)
    BY <2>2, <2>3, <2>4
  <2> HIDE DEF Runs
  <2> QED
    BY <2>5
<1>3. n \in Q
  <2> HIDE DEF Q
  <2>1. n \in 0..n /\ \A k \in 1..n : k - 1 \in Q => k \in Q
    BY <1>2
  <2>2. \A k \in 0..n : k \in Q
    BY <1>1, <2>1, Upwards
  <2> QED
    BY <2>1, <2>2
<1> QED
  BY <1>3 DEF LoopRuns

-----------------------------------------------------------------------------
(* Lists *)

\* s has each element of S once.
Lists(s, S) ==
    /\ s \in Seq(S)
    /\ \A x \in S : \E i \in 1..Len(s) : s[i] = x
    /\ \A i, j \in 1..Len(s) : s[i] = s[j] => i = j

\* A list is as long as what it lists.
LEMMA ListCounted ==
  ASSUME NEW S, NEW s, Lists(s, S)
  PROVE  /\ Len(s) \in Nat /\ DOMAIN s = 1..Len(s) /\ IsFiniteSet(S) /\ Cardinality(S) = Len(s)
         /\ Range(s) = S /\ \A i \in 1..Len(s) : s[i] \in S
<1>1. /\ s \in [1..Len(s) -> S] /\ Len(s) \in Nat /\ DOMAIN s = 1..Len(s)
      /\ \A i \in 1..Len(s) : s[i] \in S
  BY DEF Lists
<1>2. s \in Bijection(1..Len(s), S)
  BY <1>1 DEF Lists, Bijection, Injection, Surjection, IsInjective
<1>3. IsFiniteSet(1..Len(s)) /\ Cardinality(1..Len(s)) = Len(s)
  BY <1>1, FS_Interval
<1>4. IsFiniteSet(S) /\ Cardinality(S) = Len(s)
  BY <1>2, <1>3, FS_Bijection DEF ExistsBijection
<1>5. Range(s) = S
  BY <1>1 DEF Lists, Range
<1> QED
  BY <1>1, <1>4, <1>5

\* One more element makes a longer list.
LEMMA ListAppended ==
  ASSUME NEW S, NEW s, Lists(s, S), NEW x, x \notin S
  PROVE  Lists(Append(s, x), S \cup {x})
<1>1. s \in Seq(S \cup {x}) /\ Len(s) \in Nat /\ \A i \in 1..Len(s) : s[i] \in S
  BY DEF Lists
<1>2. /\ Append(s, x) \in Seq(S \cup {x}) /\ Len(Append(s, x)) = Len(s) + 1
      /\ \A i \in 1..Len(s) : Append(s, x)[i] = s[i]
      /\ Append(s, x)[Len(s) + 1] = x
  BY <1>1, AppendProperties
<1>3. ASSUME NEW y \in S \cup {x} PROVE \E i \in 1..Len(Append(s, x)) : Append(s, x)[i] = y
  <2>1. CASE y = x
    BY <1>1, <1>2, <2>1
  <2>2. CASE y \in S
    <3>1. PICK i \in 1..Len(s) : s[i] = y
      BY <2>2 DEF Lists
    <3> QED
      BY <1>1, <1>2, <3>1
  <2> QED
    BY <2>1, <2>2
<1>4. ASSUME NEW i \in 1..Len(Append(s, x)), NEW j \in 1..Len(Append(s, x)),
             Append(s, x)[i] = Append(s, x)[j]
      PROVE  i = j
  <2>1. \A k \in 1..Len(s) : s[k] \in S /\ s[k] # x
    BY <1>1
  <2>2. \A k, l \in 1..Len(s) : s[k] = s[l] => k = l
    BY DEF Lists
  <2> QED
    BY <1>2, <1>4, <2>1, <2>2
<1> QED
  BY <1>2, <1>3, <1>4 DEF Lists

\* A list after another of other elements lists both.
LEMMA ListJoined ==
  ASSUME NEW S, NEW s, Lists(s, S), NEW T, NEW t, Lists(t, T), S \cap T = {}
  PROVE  Lists(s \o t, S \cup T)
<1> DEFINE m == Len(s)
           n == Len(t)
<1>1. /\ s \in Seq(S \cup T) /\ t \in Seq(S \cup T) /\ m \in Nat /\ n \in Nat
      /\ \A i \in 1..m : s[i] \in S
      /\ \A i \in 1..n : t[i] \in T
  BY DEF Lists
<1>2. /\ s \o t \in Seq(S \cup T) /\ Len(s \o t) = m + n
      /\ \A i \in 1..m : (s \o t)[i] = s[i]
      /\ \A i \in (m + 1)..(m + n) : (s \o t)[i] = t[i - m]
  <2>1. /\ s \o t \in Seq(S \cup T) /\ Len(s \o t) = Len(s) + Len(t)
        /\ \A i \in 1..(Len(s) + Len(t)) : (s \o t)[i] = IF i <= Len(s) THEN s[i] ELSE t[i - Len(s)]
    BY <1>1, ConcatProperties
  <2> QED
    BY <1>1, <2>1
<1>3. ASSUME NEW y \in S \cup T PROVE \E i \in 1..(m + n) : (s \o t)[i] = y
  <2>1. CASE y \in S
    <3>1. PICK i \in 1..m : s[i] = y
      BY <2>1 DEF Lists
    <3>2. i \in 1..(m + n) /\ (s \o t)[i] = y
      BY <1>1, <1>2, <3>1
    <3> QED
      BY <3>2
  <2>2. CASE y \in T
    <3>1. PICK i \in 1..n : t[i] = y
      BY <2>2 DEF Lists
    <3>2. m + i \in (m + 1)..(m + n) /\ m + i \in 1..(m + n) /\ (m + i) - m = i
      BY <1>1
    <3>3. (s \o t)[m + i] = y
      BY <1>2, <3>1, <3>2
    <3> QED
      BY <3>2, <3>3
  <2> QED
    BY <2>1, <2>2
<1> DEFINE u == s \o t
<1> HIDE DEF m, n, u
<1>4. /\ \A i \in 1..m : u[i] = s[i] /\ s[i] \in S
      /\ \A i \in (m + 1)..(m + n) : u[i] = t[i - m] /\ i - m \in 1..n /\ t[i - m] \in T
  BY <1>1, <1>2 DEF u
<1>5. /\ \A i, j \in 1..m : s[i] = s[j] => i = j
      /\ \A i, j \in 1..n : t[i] = t[j] => i = j
  BY DEF Lists, m, n
<1>6. ASSUME NEW i \in 1..(m + n), NEW j \in 1..(m + n), u[i] = u[j] PROVE i = j
  <2>1. (i \in 1..m \/ i \in (m + 1)..(m + n)) /\ (j \in 1..m \/ j \in (m + 1)..(m + n))
    BY <1>1
  <2>2. CASE i \in 1..m /\ j \in 1..m
    BY <1>4, <1>5, <1>6, <2>2
  <2>3. CASE i \in (m + 1)..(m + n) /\ j \in (m + 1)..(m + n)
    <3>1. i - m \in 1..n /\ j - m \in 1..n /\ t[i - m] = t[j - m]
      BY <1>4, <1>6, <2>3
    <3>2. i - m = j - m
      BY <1>5, <3>1
    <3> QED
      BY <1>1, <3>2
  <2>4. CASE (i \in 1..m /\ j \in (m + 1)..(m + n)) \/ (i \in (m + 1)..(m + n) /\ j \in 1..m)
    BY <1>4, <1>6, <2>4
  <2> QED
    BY <2>1, <2>2, <2>3, <2>4
<1> QED
  BY <1>2, <1>3, <1>6 DEF Lists, u

-----------------------------------------------------------------------------
(* The loops *)

\* The run of the loop that keeps the elements that are in a set.
RunOfKept(f, U, s, S) ==
    /\ f \in [0..Len(s) -> Seq(U)]
    /\ f[0] = <<>> /\ Kept(s, S) = f[Len(s)]
    /\ \A k \in 1..Len(s) : f[k] = IF s[k] \in S THEN Append(f[k - 1], s[k]) ELSE f[k - 1]

\* The loop has one.
LEMMA KeptRun ==
  ASSUME NEW U, NEW s \in Seq(U), NEW S
  PROVE  \E f : RunOfKept(f, U, s, S)
<1> SUFFICES \E f \in [0..Len(s) -> Seq(U)] :
                /\ f[0] = <<>> /\ Kept(s, S) = f[Len(s)]
                /\ \A k \in 1..Len(s) : f[k] = IF s[k] \in S THEN Append(f[k - 1], s[k]) ELSE f[k - 1]
  BY DEF RunOfKept
<1> DEFINE n == Len(s)
           Body(v, k) == IF s[k] \in S THEN Append(v, s[k]) ELSE v
           V == Seq(U)
           step == [k \in 1..n |-> [v \in V |-> Body(v, k)]]
           Loop(f) == f = [k \in 0..n |-> IF k = 0 THEN <<>> ELSE Body(f[k - 1], k)]
           kept == CHOOSE f : Loop(f)
<1>1. n \in Nat /\ \A k \in 1..n : s[k] \in U
  OBVIOUS
<1>2. Kept(s, S) = kept[n]
  BY DEF Kept
<1>3. \A v \in V, k \in 1..n : Body(v, k) \in V
  BY <1>1
<1>4. <<>> \in V
  OBVIOUS
<1> HIDE DEF n, Body, V
<1>5. \E f : Loop(f)
  <2>1. step \in Bodies(V, n)
    BY <1>3 DEF Bodies
  <2>2. PICK f \in [0..n -> V] : f[0] = <<>> /\ \A k \in 1..n : f[k] = step[k][f[k - 1]]
    <3> HIDE DEF step
    <3>1. LoopRuns(V, n, <<>>, step) # {}
      BY <1>1, <1>4, <2>1, Iterated
    <3> QED
      BY <3>1 DEF LoopRuns
  <2>3. ASSUME NEW k \in 0..n PROVE f[k] = IF k = 0 THEN <<>> ELSE Body(f[k - 1], k)
    <3>1. CASE k # 0
      <4>1. k \in 1..n /\ f[k - 1] \in V
        BY <1>1, <2>2, <3>1
      <4> QED
        BY <2>2, <3>1, <4>1
    <3> QED
      BY <2>2, <3>1
  <2>4. Loop(f)
    BY <2>2, <2>3
  <2> QED
    BY <2>4
<1>6. Loop(kept)
  <2> HIDE DEF Loop
  <2> QED
    BY <1>5
<1> HIDE DEF kept
<1>7. /\ DOMAIN kept = 0..n /\ kept[0] = <<>>
      /\ \A k \in 1..n : kept[k] = Body(kept[k - 1], k)
  BY <1>1, <1>6
<1>70. kept = [k \in 0..n |-> kept[k]]
  BY <1>6
<1> HIDE DEF Loop
<1> DEFINE Q == {k \in 0..n : kept[k] \in V}
<1>8. \A k \in 0..n : k \in Q
  <2>1. 0 \in Q
    BY <1>1, <1>4, <1>7
  <2>2. ASSUME NEW k \in 1..n, k - 1 \in Q PROVE k \in Q
    <3>1. Body(kept[k - 1], k) \in V
      BY <1>3, <2>2
    <3>2. kept[k] = Body(kept[k - 1], k) /\ k \in 0..n
      BY <1>1, <1>7
    <3> QED
      BY <3>1, <3>2
  <2> HIDE DEF Q
  <2> QED
    BY <1>1, <2>1, <2>2, Upwards
<1>9. kept \in [0..n -> V]
  BY <1>70, <1>8
<1> QED
  BY <1>2, <1>7, <1>9 DEF n, Body, V

\* The elements that a loop keeps, listed once each.
LEMMA KeptLists ==
  ASSUME NEW S, NEW s, Lists(s, S), NEW T
  PROVE  Lists(Kept(s, T), S \cap T)
<1> DEFINE n == Len(s)
           Seen(k) == {s[i] : i \in 1..k}
<1>1. s \in Seq(S) /\ n \in Nat /\ \A i, j \in 1..n : s[i] = s[j] => i = j
  BY DEF Lists
<1>2. Seen(n) = S
  BY ListCounted DEF Lists
<1>3. PICK f \in [0..n -> Seq(S)] :
         /\ f[0] = <<>> /\ Kept(s, T) = f[n]
         /\ \A k \in 1..n : f[k] = IF s[k] \in T THEN Append(f[k - 1], s[k]) ELSE f[k - 1]
  <2>1. s \in Seq(S)
    BY <1>1
  <2>2. \E f : RunOfKept(f, S, s, T)
    BY <2>1, KeptRun
  <2>3. PICK f : RunOfKept(f, S, s, T)
    BY <2>2
  <2> QED
    BY <2>3 DEF RunOfKept
<1> DEFINE Listed(k) == Lists(f[k], Seen(k) \cap T)
           Q == {k \in 0..n : Listed(k)}
<1>4. Listed(0)
  <2>1. Seen(0) = {}
    OBVIOUS
  <2>2. Lists(<<>>, {})
    BY DEF Lists
  <2> QED
    BY <1>3, <2>1, <2>2
<1>5. ASSUME NEW k \in 1..n, Listed(k - 1) PROVE Listed(k)
  <2>1. Lists(f[k - 1], Seen(k - 1) \cap T)
    BY <1>5
  <2>2. Seen(k) = Seen(k - 1) \cup {s[k]}
    BY <1>1
  <2>3. s[k] \notin Seen(k - 1)
    <3> SUFFICES ASSUME NEW i \in 1..(k - 1), s[k] = s[i] PROVE FALSE
      OBVIOUS
    <3>1. i \in 1..n /\ k \in 1..n /\ i # k
      BY <1>1
    <3> QED
      BY <1>1, <3>1
  <2>4. f[k] = IF s[k] \in T THEN Append(f[k - 1], s[k]) ELSE f[k - 1]
    BY <1>3
  <2> HIDE DEF Seen
  <2>5. CASE s[k] \in T
    <3>1. Lists(Append(f[k - 1], s[k]), (Seen(k - 1) \cap T) \cup {s[k]})
      BY <2>1, <2>3, ListAppended
    <3>2. (Seen(k - 1) \cap T) \cup {s[k]} = Seen(k) \cap T
      BY <2>2, <2>5
    <3> QED
      BY <2>4, <2>5, <3>1, <3>2
  <2>6. CASE s[k] \notin T
    <3>1. Seen(k - 1) \cap T = Seen(k) \cap T
      BY <2>2, <2>6
    <3> QED
      BY <2>1, <2>4, <2>6, <3>1
  <2> QED
    BY <2>5, <2>6
<1> HIDE DEF Listed
<1>6. n \in Q
  <2>1. 0 \in Q /\ \A k \in 1..n : k - 1 \in Q => k \in Q
    BY <1>1, <1>4, <1>5
  <2> HIDE DEF Q
  <2>2. \A k \in 0..n : k \in Q
    BY <1>1, <2>1, Upwards
  <2> QED
    BY <1>1, <2>2
<1> QED
  BY <1>2, <1>3, <1>6 DEF Listed

\* The run of the loop that appends lists to each other.
LEMMA JoinedRun ==
  ASSUME NEW U, NEW lists \in Seq(Seq(U))
  PROVE  \E f \in [0..Len(lists) -> Seq(U)] :
            /\ f[0] = <<>> /\ Joined(lists) = f[Len(lists)]
            /\ \A k \in 1..Len(lists) : f[k] = f[k - 1] \o lists[k]
<1> DEFINE n == Len(lists)
           Body(v, k) == v \o lists[k]
           V == Seq(U)
           step == [k \in 1..n |-> [v \in V |-> Body(v, k)]]
           Loop(f) == f = [k \in 0..n |-> IF k = 0 THEN <<>> ELSE Body(f[k - 1], k)]
           joined == CHOOSE f : Loop(f)
<1>1. n \in Nat /\ \A k \in 1..n : lists[k] \in Seq(U)
  OBVIOUS
<1>2. Joined(lists) = joined[n]
  BY DEF Joined
<1>3. \A v \in V, k \in 1..n : Body(v, k) \in V
  BY <1>1, ConcatProperties
<1>4. <<>> \in V
  OBVIOUS
<1> HIDE DEF n, Body, V
<1>5. \E f : Loop(f)
  <2>1. step \in Bodies(V, n)
    BY <1>3 DEF Bodies
  <2>2. PICK f \in [0..n -> V] : f[0] = <<>> /\ \A k \in 1..n : f[k] = step[k][f[k - 1]]
    <3> HIDE DEF step
    <3>1. LoopRuns(V, n, <<>>, step) # {}
      BY <1>1, <1>4, <2>1, Iterated
    <3> QED
      BY <3>1 DEF LoopRuns
  <2>3. ASSUME NEW k \in 0..n PROVE f[k] = IF k = 0 THEN <<>> ELSE Body(f[k - 1], k)
    <3>1. CASE k # 0
      <4>1. k \in 1..n /\ f[k - 1] \in V
        BY <1>1, <2>2, <3>1
      <4> QED
        BY <2>2, <3>1, <4>1
    <3> QED
      BY <2>2, <3>1
  <2>4. Loop(f)
    BY <2>2, <2>3
  <2> QED
    BY <2>4
<1>6. Loop(joined)
  <2> HIDE DEF Loop
  <2> QED
    BY <1>5
<1> HIDE DEF joined
<1>7. /\ DOMAIN joined = 0..n /\ joined[0] = <<>>
      /\ \A k \in 1..n : joined[k] = Body(joined[k - 1], k)
  <2>1. DOMAIN joined = 0..n /\ \A k \in 0..n : joined[k] = IF k = 0 THEN <<>> ELSE Body(joined[k - 1], k)
    BY <1>6
  <2> QED
    BY <1>1, <2>1
<1>70. joined = [k \in 0..n |-> joined[k]]
  BY <1>6
<1> HIDE DEF Loop
<1> DEFINE Q == {k \in 0..n : joined[k] \in V}
<1>8. \A k \in 0..n : k \in Q
  <2>1. 0 \in Q
    BY <1>1, <1>4, <1>7
  <2>2. ASSUME NEW k \in 1..n, k - 1 \in Q PROVE k \in Q
    <3>1. Body(joined[k - 1], k) \in V
      BY <1>3, <2>2
    <3>2. joined[k] = Body(joined[k - 1], k) /\ k \in 0..n
      BY <1>1, <1>7
    <3> QED
      BY <3>1, <3>2
  <2> HIDE DEF Q
  <2> QED
    BY <1>1, <2>1, <2>2, Upwards
<1>9. joined \in [0..n -> V]
  BY <1>70, <1>8
<1> QED
  BY <1>2, <1>7, <1>9 DEF n, Body, V

\* Lists of different elements, joined, list all of them.
LEMMA JoinedLists ==
  ASSUME NEW n \in Nat, NEW lists, lists = [k \in 1..n |-> lists[k]],
         NEW parts, \A k \in 1..n : Lists(lists[k], parts[k]),
         \A j, k \in 1..n : j # k => parts[j] \cap parts[k] = {}
  PROVE  Lists(Joined(lists), UNION {parts[k] : k \in 1..n})
<1> DEFINE Seen(k) == UNION {parts[j] : j \in 1..k}
           U == Seen(n)
<1>1. \A k \in 1..n : lists[k] \in Seq(U)
  <2>1. ASSUME NEW k \in 1..n PROVE lists[k] \in Seq(U)
    <3>1. lists[k] \in Seq(parts[k]) /\ parts[k] \subseteq U
      BY DEF Lists
    <3> HIDE DEF U
    <3> QED
      BY <3>1
  <2> QED
    BY <2>1
<1>2. lists \in Seq(Seq(U)) /\ Len(lists) = n
  <2> HIDE DEF U
  <2> QED
    BY <1>1
<1>3. PICK f \in [0..n -> Seq(U)] :
         f[0] = <<>> /\ Joined(lists) = f[n] /\ \A k \in 1..n : f[k] = f[k - 1] \o lists[k]
  <2> HIDE DEF U
  <2>1. \E f \in [0..Len(lists) -> Seq(U)] :
           /\ f[0] = <<>> /\ Joined(lists) = f[Len(lists)]
           /\ \A k \in 1..Len(lists) : f[k] = f[k - 1] \o lists[k]
    <3>1. lists \in Seq(Seq(U))
      BY <1>2
    <3> QED
      BY <3>1, JoinedRun, Zenon
  <2> QED
    BY <1>2, <2>1
<1> DEFINE Listed(k) == Lists(f[k], Seen(k))
           Q == {k \in 0..n : Listed(k)}
<1>4. Listed(0)
  <2>1. Seen(0) = {}
    OBVIOUS
  <2>2. Lists(<<>>, {})
    BY DEF Lists
  <2> QED
    BY <1>3, <2>1, <2>2
<1>5. ASSUME NEW k \in 1..n, Listed(k - 1) PROVE Listed(k)
  <2>1. Lists(f[k - 1], Seen(k - 1))
    BY <1>5
  <2>2. Seen(k) = Seen(k - 1) \cup parts[k]
    OBVIOUS
  <2>3. Seen(k - 1) \cap parts[k] = {}
    OBVIOUS
  <2>4. f[k] = f[k - 1] \o lists[k]
    BY <1>3
  <2>5. Lists(lists[k], parts[k])
    OBVIOUS
  <2> HIDE DEF Seen
  <2>6. Lists(f[k - 1] \o lists[k], Seen(k - 1) \cup parts[k])
    BY <2>1, <2>3, <2>5, ListJoined
  <2> QED
    BY <2>2, <2>4, <2>6
<1> HIDE DEF Listed
<1>6. n \in Q
  <2>1. 0 \in Q /\ \A k \in 1..n : k - 1 \in Q => k \in Q
    BY <1>4, <1>5
  <2> HIDE DEF Q
  <2>2. \A k \in 0..n : k \in Q
    BY <2>1, Upwards
  <2> QED
    BY <2>2
<1> QED
  BY <1>3, <1>6 DEF Listed

\* The run of the loop that adds up numbers.
LEMMA TotalRun ==
  ASSUME NEW s \in Seq(Int)
  PROVE  \E f \in [0..Len(s) -> Int] :
            f[0] = 0 /\ Total(s) = f[Len(s)] /\ \A k \in 1..Len(s) : f[k] = f[k - 1] + s[k]
<1> DEFINE n == Len(s)
           Body(v, k) == v + s[k]
           V == Int
           step == [k \in 1..n |-> [v \in V |-> Body(v, k)]]
           Loop(f) == f = [k \in 0..n |-> IF k = 0 THEN 0 ELSE Body(f[k - 1], k)]
           sum == CHOOSE f : Loop(f)
<1>1. n \in Nat /\ \A k \in 1..n : s[k] \in Int
  OBVIOUS
<1>2. Total(s) = sum[n]
  BY DEF Total
<1>3. 0 \in V /\ \A v \in V, k \in 1..n : Body(v, k) \in V
  BY <1>1
<1> HIDE DEF n, Body, V
<1>4. \E f : Loop(f)
  <2>1. step \in Bodies(V, n)
    BY <1>3 DEF Bodies
  <2>2. PICK f \in [0..n -> V] : f[0] = 0 /\ \A k \in 1..n : f[k] = step[k][f[k - 1]]
    <3> HIDE DEF step
    <3>1. LoopRuns(V, n, 0, step) # {}
      BY <1>1, <1>3, <2>1, Iterated
    <3> QED
      BY <3>1 DEF LoopRuns
  <2>3. ASSUME NEW k \in 0..n PROVE f[k] = IF k = 0 THEN 0 ELSE Body(f[k - 1], k)
    <3>1. CASE k # 0
      <4>1. k \in 1..n /\ f[k - 1] \in V
        BY <1>1, <2>2, <3>1
      <4> QED
        BY <2>2, <3>1, <4>1
    <3> QED
      BY <2>2, <3>1
  <2>4. Loop(f)
    BY <2>2, <2>3
  <2> QED
    BY <2>4
<1>5. Loop(sum)
  <2> HIDE DEF Loop
  <2> QED
    BY <1>4
<1> HIDE DEF sum
<1>6. sum[0] = 0 /\ \A k \in 1..n : sum[k] = Body(sum[k - 1], k)
  <2>1. \A k \in 0..n : sum[k] = IF k = 0 THEN 0 ELSE Body(sum[k - 1], k)
    BY <1>5
  <2> QED
    BY <1>1, <2>1
<1>7. sum = [k \in 0..n |-> sum[k]]
  BY <1>5
<1> HIDE DEF Loop
<1> DEFINE Q == {k \in 0..n : sum[k] \in V}
<1>8. \A k \in 0..n : k \in Q
  <2>1. 0 \in Q
    BY <1>1, <1>3, <1>6
  <2>2. ASSUME NEW k \in 1..n, k - 1 \in Q PROVE k \in Q
    <3>1. Body(sum[k - 1], k) \in V
      BY <1>3, <2>2
    <3>2. sum[k] = Body(sum[k - 1], k) /\ k \in 0..n
      BY <1>1, <1>6
    <3> QED
      BY <3>1, <3>2
  <2> HIDE DEF Q
  <2> QED
    BY <1>1, <2>1, <2>2, Upwards
<1>9. sum \in [0..n -> V]
  BY <1>7, <1>8
<1> QED
  BY <1>2, <1>6, <1>9 DEF n, Body, V

-----------------------------------------------------------------------------
(* Sums over sets *)

\* A sum over the subsets of R takes an element at a time, whichever it is.
SumRuns(R, g, f) ==
    /\ f \in [SUBSET R -> Int] /\ f[{}] = 0
    /\ \A A \in SUBSET R : A # {} => f[A] = LET x == CHOOSE x \in A : TRUE IN g[x] + f[A \ {x}]

\* There is a sum of a function on a finite set.
LEMMA SumExists ==
  ASSUME NEW R, IsFiniteSet(R), NEW g \in [R -> Int]
  PROVE  \E f : SumRuns(R, g, f)
<1> DEFINE n == Cardinality(R)
           V == [SUBSET R -> Int]
           First(A) == CHOOSE x \in A : TRUE
           Body(v, A) == IF A = {} THEN 0 ELSE g[First(A)] + v[A \ {First(A)}]
           zero == [A \in SUBSET R |-> 0]
           step == [k \in 1..(n + 1) |-> [v \in V |-> [A \in SUBSET R |-> Body(v, A)]]]
<1>1. n \in Nat
  BY FS_CardinalityType
<1>2. \A A \in SUBSET R : A # {} => First(A) \in A /\ First(A) \in R /\ A \ {First(A)} \in SUBSET R
  OBVIOUS
<1> HIDE DEF n, First
<1>3. \A v \in V, A \in SUBSET R : Body(v, A) \in Int
  BY <1>2
<1>4. zero \in V /\ step \in Bodies(V, n + 1)
  <2>1. zero \in V
    OBVIOUS
  <2>2. ASSUME NEW v \in V PROVE [A \in SUBSET R |-> Body(v, A)] \in V
    <3> HIDE DEF Body
    <3> QED
      BY <1>3
  <2> HIDE DEF V
  <2>3. step \in Bodies(V, n + 1)
    BY <2>2 DEF Bodies
  <2> QED
    BY <2>1, <2>3
<1>5. PICK f \in [0..(n + 1) -> V] : f[0] = zero /\ \A k \in 1..(n + 1) : f[k] = step[k][f[k - 1]]
  <2> HIDE DEF zero, step, V
  <2>1. LoopRuns(V, n + 1, zero, step) # {}
    BY <1>1, <1>4, Iterated
  <2> QED
    BY <2>1 DEF LoopRuns
<1>6. \A k \in 1..(n + 1) : f[k - 1] \in V /\ f[k] = [A \in SUBSET R |-> Body(f[k - 1], A)]
  <2> HIDE DEF V, Body
  <2>1. ASSUME NEW k \in 1..(n + 1) PROVE f[k - 1] \in V
    <3>1. k - 1 \in 0..(n + 1)
      BY <1>1
    <3> QED
      BY <1>5, <3>1
  <2> QED
    BY <1>5, <2>1
<1> HIDE DEF step, V
<1>7. /\ \A A \in SUBSET R : f[0][A] = 0
      /\ \A k \in 1..(n + 1), A \in SUBSET R : f[k][A] = Body(f[k - 1], A)
  <2>1. \A A \in SUBSET R : f[0][A] = 0
    BY <1>5
  <2> HIDE DEF Body
  <2> QED
    BY <1>6, <2>1
<1> DEFINE Settled(k) == \A A \in SUBSET R : Cardinality(A) < k => f[k][A] = f[k - 1][A]
           Q == {k \in 0..(n + 1) : k # 0 => Settled(k)}
<1>8. ASSUME NEW A \in SUBSET R, A # {}
      PROVE  /\ Cardinality(A) \in 1..n /\ Cardinality(A \ {First(A)}) = Cardinality(A) - 1
  <2>1. /\ IsFiniteSet(A) /\ Cardinality(A) <= n /\ Cardinality(A) \in Nat
        /\ Cardinality(A \ {First(A)}) = Cardinality(A) - 1
    BY <1>2, <1>8, FS_Subset, FS_RemoveElement, FS_CardinalityType DEF n
  <2>2. Cardinality(A) # 0
    BY <1>8, <2>1, FS_EmptySet
  <2> QED
    BY <1>1, <2>1, <2>2
<1>9. ASSUME NEW k \in 1..(n + 1), k - 1 \in Q PROVE Settled(k)
  <2> SUFFICES ASSUME NEW A \in SUBSET R, Cardinality(A) < k PROVE f[k][A] = f[k - 1][A]
    OBVIOUS
  <2>1. f[k][A] = Body(f[k - 1], A)
    BY <1>7
  <2>2. CASE A = {}
    <3>1. f[k][A] = 0
      BY <2>1, <2>2
    <3>2. k - 1 = 0 \/ k - 1 \in 1..(n + 1)
      BY <1>1
    <3>3. f[k - 1][A] = 0
      BY <1>7, <2>2, <3>2
    <3> QED
      BY <3>1, <3>3
  <2>3. CASE A # {}
    <3> DEFINE x == First(A)
    <3>1. x \in A /\ A \ {x} \in SUBSET R /\ Cardinality(A) \in 1..n
          /\ Cardinality(A \ {x}) = Cardinality(A) - 1
      BY <1>2, <1>8, <2>3
    <3> HIDE DEF x
    <3>2. k - 1 \in 1..(n + 1) /\ Cardinality(A \ {x}) < k - 1
      BY <1>1, <3>1
    <3>3. Settled(k - 1)
      BY <1>9, <3>2
    <3>4. f[k - 1][A \ {x}] = f[(k - 1) - 1][A \ {x}]
      BY <3>1, <3>2, <3>3
    <3>5. f[k - 1][A] = Body(f[(k - 1) - 1], A)
      BY <1>7, <3>2
    <3> QED
      BY <2>1, <2>3, <3>4, <3>5 DEF x
  <2> QED
    BY <2>2, <2>3
<1>10. Settled(n + 1)
  <2> HIDE DEF Settled
  <2>1. 0 \in Q /\ \A k \in 1..(n + 1) : k - 1 \in Q => k \in Q
    BY <1>1, <1>9
  <2> HIDE DEF Q
  <2>2. \A k \in 0..(n + 1) : k \in Q
    <3> DEFINE m == n + 1
    <3>1. m \in Nat
      BY <1>1
    <3> HIDE DEF m
    <3>2. 0 \in Q /\ \A k \in 1..m : k - 1 \in Q => k \in Q
      BY <2>1 DEF m
    <3>3. \A k \in 0..m : k \in Q
      BY <3>1, <3>2, Upwards
    <3> QED
      BY <3>3 DEF m
  <2> QED
    BY <1>1, <2>2 DEF Q
<1> DEFINE sum == f[n + 1]
<1>11. sum \in [SUBSET R -> Int]
  BY <1>1, <1>5 DEF V
<1>12. ASSUME NEW A \in SUBSET R, A # {} PROVE sum[A] = g[First(A)] + sum[A \ {First(A)}]
  <2>1. sum[A] = g[First(A)] + f[n][A \ {First(A)}]
    <3>1. n + 1 \in 1..(n + 1) /\ (n + 1) - 1 = n
      BY <1>1
    <3>2. f[n + 1][A] = Body(f[(n + 1) - 1], A)
      BY <1>7, <3>1
    <3> QED
      BY <1>12, <3>1, <3>2
  <2>2. A \ {First(A)} \in SUBSET R /\ Cardinality(A \ {First(A)}) < n + 1
    <3>1. A \ {First(A)} \in SUBSET R
      BY <1>2, <1>12
    <3>2. Cardinality(A) \in 1..n /\ Cardinality(A \ {First(A)}) = Cardinality(A) - 1
      BY <1>8, <1>12
    <3> QED
      BY <1>1, <3>1, <3>2
  <2>3. sum[A \ {First(A)}] = f[n][A \ {First(A)}]
    BY <1>1, <1>10, <2>2
  <2> QED
    BY <2>1, <2>3
<1>13. sum[{}] = 0
  <2>1. n + 1 \in 1..(n + 1) /\ {} \in SUBSET R
    BY <1>1
  <2>2. f[n + 1][{}] = Body(f[(n + 1) - 1], {})
    BY <1>7, <2>1
  <2> QED
    BY <2>2
<1>14. SumRuns(R, g, sum)
  <2> HIDE DEF sum
  <2> QED
    BY <1>11, <1>12, <1>13 DEF SumRuns, First
<1> QED
  BY <1>14

Additive(R, g, f) == \A A \in SUBSET R, x \in R : x \notin A => f[A \cup {x}] = g[x] + f[A]

\* Whichever element is left out, the rest makes up the sum with it.
LEMMA SumAdds ==
  ASSUME NEW R, IsFiniteSet(R), NEW g \in [R -> Int], NEW f, SumRuns(R, g, f)
  PROVE  Additive(R, g, f)
<1> DEFINE n == Cardinality(R)
           First(A) == CHOOSE x \in A : TRUE
           Adds(A) == \A x \in R : x \notin A => f[A \cup {x}] = g[x] + f[A]
           Q == {k \in 0..n : \A A \in SUBSET R : Cardinality(A) = k => Adds(A)}
<1>1. n \in Nat
  BY FS_CardinalityType
<1>2. \A A \in SUBSET R : IsFiniteSet(A) /\ Cardinality(A) \in 0..n /\ f[A] \in Int
  <2>1. ASSUME NEW A \in SUBSET R
        PROVE  IsFiniteSet(A) /\ Cardinality(A) \in 0..n
    <3>1. IsFiniteSet(A) /\ Cardinality(A) <= n /\ Cardinality(A) \in Nat
      BY FS_Subset, FS_CardinalityType
    <3> QED
      BY <1>1, <3>1
  <2> QED
    BY <2>1 DEF SumRuns
<1>3. f[{}] = 0 /\ \A A \in SUBSET R : A # {} =>
         First(A) \in A /\ f[A] = g[First(A)] + f[A \ {First(A)}]
  BY DEF SumRuns
<1> HIDE DEF n, First
<1>4. ASSUME NEW A \in SUBSET R, \A B \in SUBSET R : Cardinality(B) = Cardinality(A) - 1 => Adds(B)
      PROVE  Adds(A)
  <2> SUFFICES ASSUME NEW x \in R, x \notin A PROVE f[A \cup {x}] = g[x] + f[A]
    OBVIOUS
  <2> DEFINE B == A \cup {x}
             c == First(B)
  <2>1. B \in SUBSET R /\ c \in B /\ f[B] = g[c] + f[B \ {c}]
    BY <1>3
  <2>2. CASE c = x
    <3>1. B \ {c} = A
      BY <2>2
    <3> QED
      BY <2>1, <2>2, <3>1
  <2>3. CASE c # x
    <3> HIDE DEF c
    <3> DEFINE C == A \ {c}
    <3>1. c \in A /\ C \in SUBSET R /\ C \cup {c} = A /\ B \ {c} = C \cup {x} /\ x \notin C
      BY <2>1, <2>3
    <3>2. Cardinality(C) = Cardinality(A) - 1
      BY <1>2, <3>1, FS_RemoveElement
    <3>3. Adds(C)
      BY <1>4, <3>1, <3>2
    <3> HIDE DEF C, B
    <3>4. f[C \cup {x}] = g[x] + f[C] /\ f[C \cup {c}] = g[c] + f[C]
      <4>1. c \in R /\ c \notin C
        BY <3>1 DEF C
      <4> QED
        BY <3>1, <3>3, <4>1
    <3>5. f[B] = g[c] + (g[x] + f[C]) /\ f[A] = g[c] + f[C]
      BY <2>1, <3>1, <3>4
    <3>6. g[c] \in Int /\ g[x] \in Int /\ f[C] \in Int
      BY <1>2, <3>1
    <3>7. f[B] = g[x] + f[A]
      BY <3>5, <3>6
    <3> QED
      BY <3>7 DEF B
  <2> QED
    BY <2>2, <2>3
<1> HIDE DEF Adds
<1>5. 0 \in Q
  <2>1. ASSUME NEW A \in SUBSET R, Cardinality(A) = 0, NEW B \in SUBSET R,
               Cardinality(B) = Cardinality(A) - 1
        PROVE  FALSE
    BY <1>1, <1>2, <2>1
  <2> QED
    BY <1>1, <1>4, <2>1
<1>6. ASSUME NEW k \in 1..n, k - 1 \in Q PROVE k \in Q
  <2>1. \A A \in SUBSET R : Cardinality(A) = k - 1 => Adds(A)
    BY <1>6
  <2> QED
    BY <1>1, <1>4, <2>1
<1>7. \A k \in 0..n : k \in Q
  <2> HIDE DEF Q
  <2> QED
    BY <1>1, <1>5, <1>6, Upwards
<1> QED
  BY <1>2, <1>7 DEF Adds, Additive

\* The total of a list is the sum over what it lists.
LEMMA TotalIsSum ==
  ASSUME NEW R, NEW s, Lists(s, R), NEW g \in [R -> Int], NEW f, SumRuns(R, g, f)
  PROVE  Total([i \in DOMAIN s |-> g[s[i]]]) = f[R] /\ f[R] \in Int
<1> DEFINE n == Len(s)
           t == [i \in DOMAIN s |-> g[s[i]]]
           Seen(k) == {s[i] : i \in 1..k}
<1>1. n \in Nat /\ DOMAIN s = 1..n /\ \A i \in 1..n : s[i] \in R
  BY ListCounted
<1>2. IsFiniteSet(R) /\ Seen(n) = R
  <2>1. IsFiniteSet(R) /\ \A i \in 1..n : s[i] \in R
    BY ListCounted
  <2>2. \A x \in R : \E i \in 1..n : s[i] = x
    BY DEF Lists
  <2> QED
    BY <2>1, <2>2
<1>3. \A i, j \in 1..n : s[i] = s[j] => i = j
  BY DEF Lists
<1> HIDE DEF n
<1>4. t \in Seq(Int) /\ Len(t) = n /\ \A k \in 1..n : t[k] = g[s[k]]
  BY <1>1
<1> HIDE DEF t
<1>5. PICK h \in [0..n -> Int] : h[0] = 0 /\ Total(t) = h[n] /\ \A k \in 1..n : h[k] = h[k - 1] + t[k]
  BY <1>4, TotalRun
<1>6. \A A \in SUBSET R, x \in R : x \notin A => f[A \cup {x}] = g[x] + f[A]
  <2>1. IsFiniteSet(R)
    BY <1>2
  <2> QED
    BY <2>1, SumAdds DEF Additive
<1>7. f[{}] = 0 /\ \A A \in SUBSET R : f[A] \in Int
  BY DEF SumRuns
<1> DEFINE Q == {k \in 0..n : h[k] = f[Seen(k)]}
<1>8. 0 \in Q
  <2>1. Seen(0) = {}
    OBVIOUS
  <2>2. h[0] = f[Seen(0)]
    BY <1>5, <1>7, <2>1
  <2> QED
    BY <1>1, <2>2
<1>9. ASSUME NEW k \in 1..n, k - 1 \in Q PROVE k \in Q
  <2>1. Seen(k - 1) \in SUBSET R /\ Seen(k) = Seen(k - 1) \cup {s[k]} /\ s[k] \in R
    BY <1>1
  <2>2. s[k] \notin Seen(k - 1)
    <3> SUFFICES ASSUME NEW i \in 1..(k - 1), s[k] = s[i] PROVE FALSE
      OBVIOUS
    <3>1. i \in 1..n /\ k \in 1..n /\ i # k
      BY <1>1
    <3> QED
      BY <1>3, <3>1
  <2>3. h[k - 1] = f[Seen(k - 1)]
    BY <1>9
  <2> HIDE DEF Seen
  <2>4. f[Seen(k)] = g[s[k]] + f[Seen(k - 1)]
    BY <1>6, <2>1, <2>2
  <2>5. h[k] = h[k - 1] + g[s[k]]
    BY <1>4, <1>5
  <2>6. g[s[k]] \in Int /\ f[Seen(k - 1)] \in Int
    BY <1>7, <2>1
  <2> QED
    BY <2>3, <2>4, <2>5, <2>6
<1>10. n \in Q
  <2> HIDE DEF Q
  <2>1. \A k \in 0..n : k \in Q
    BY <1>1, <1>8, <1>9, Upwards
  <2> QED
    BY <1>1, <2>1
<1> QED
  BY <1>2, <1>5, <1>7, <1>10 DEF t

-----------------------------------------------------------------------------
(* The best of a sequence *)

\* The loop ends with an element that none is better than.
LEMMA BestIs ==
  ASSUME NEW S, NEW s \in Seq(S), s # <<>>, NEW worse \in [S -> SUBSET S], NEW none,
         \A x \in S : x \notin worse[x],
         \A x, y \in S : x \in worse[y] => worse[x] \subseteq worse[y]
  PROVE  \E b \in 1..Len(s) : /\ BestOf(s, worse, none) = s[b]
                              /\ \A i \in 1..Len(s) : s[b] \notin worse[s[i]]
<1> DEFINE n == Len(s)
           Body(v, k) == IF v = 0 THEN k ELSE IF s[v] \in worse[s[k]] THEN k ELSE v
           V == 0..n
           step == [k \in 1..n |-> [v \in V |-> Body(v, k)]]
           Loop(f) == f = [k \in 0..n |-> IF k = 0 THEN 0 ELSE Body(f[k - 1], k)]
           best == CHOOSE f : Loop(f)
<1>1. n \in Nat \ {0} /\ \A k \in 1..n : s[k] \in S
  OBVIOUS
<1>2. BestOf(s, worse, none) = s[best[n]]
  BY DEF BestOf
<1>3. 0 \in V /\ \A v \in V, k \in 1..n : Body(v, k) \in V
  BY <1>1
<1> HIDE DEF n, V
<1>4. \E f : Loop(f)
  <2>1. step \in Bodies(V, n)
    <3> HIDE DEF Body
    <3> QED
      BY <1>3 DEF Bodies
  <2>2. PICK f \in [0..n -> V] : f[0] = 0 /\ \A k \in 1..n : f[k] = step[k][f[k - 1]]
    <3> HIDE DEF step
    <3>1. LoopRuns(V, n, 0, step) # {}
      BY <1>1, <1>3, <2>1, Iterated
    <3> QED
      BY <3>1 DEF LoopRuns
  <2> HIDE DEF Body
  <2>3. ASSUME NEW k \in 0..n PROVE f[k] = IF k = 0 THEN 0 ELSE Body(f[k - 1], k)
    <3>1. CASE k # 0
      <4>1. k \in 1..n /\ f[k - 1] \in V
        BY <1>1, <2>2, <3>1
      <4> QED
        BY <2>2, <3>1, <4>1
    <3> QED
      BY <2>2, <3>1
  <2>4. Loop(f)
    BY <2>2, <2>3
  <2> QED
    BY <2>4
<1>5. Loop(best)
  <2> HIDE DEF Loop
  <2> QED
    BY <1>4
<1> HIDE DEF best
<1>6. best[0] = 0 /\ \A k \in 1..n : best[k] = Body(best[k - 1], k)
  <2> HIDE DEF Body
  <2>1. \A k \in 0..n : best[k] = IF k = 0 THEN 0 ELSE Body(best[k - 1], k)
    BY <1>5
  <2> QED
    BY <1>1, <2>1
<1> HIDE DEF Loop
<1> DEFINE Good(k) == best[k] \in 1..k /\ \A i \in 1..k : s[best[k]] \notin worse[s[i]]
           Q == {k \in 0..n : k # 0 => Good(k)}
<1>7. ASSUME NEW k \in 1..n, k - 1 \in Q PROVE Good(k)
  <2>1. CASE k = 1
    <3>1. best[1] = 1
      BY <1>1, <1>6, <2>1
    <3>2. s[1] \notin worse[s[1]]
      BY <1>1
    <3>3. \A i \in 1..k : i = 1
      BY <2>1
    <3> QED
      BY <2>1, <3>1, <3>2, <3>3
  <2>2. CASE k # 1
    <3> DEFINE b == best[k - 1]
    <3>1. Good(k - 1)
      BY <1>1, <1>7, <2>2
    <3>2. b \in 1..(k - 1) /\ \A i \in 1..(k - 1) : s[b] \notin worse[s[i]]
      BY <3>1
    <3>3. best[k] = Body(b, k) /\ b # 0
      BY <1>1, <1>6, <3>2
    <3> HIDE DEF b
    <3>4. /\ s[b] \in S /\ s[k] \in S /\ k \in 1..k /\ b \in 1..k
          /\ \A i \in 1..k : i \in 1..n /\ s[i] \in S /\ (i = k \/ i \in 1..(k - 1))
      BY <1>1, <3>2
    <3>5. CASE s[b] \in worse[s[k]]
      <4>1. best[k] = k
        BY <3>3, <3>5
      <4>2. ASSUME NEW i \in 1..(k - 1) PROVE s[k] \notin worse[s[i]]
        <5>1. s[i] \in S /\ s[b] \notin worse[s[i]]
          BY <1>1, <3>2
        <5> QED
          BY <3>4, <3>5, <5>1
      <4> QED
        BY <3>4, <4>1, <4>2
    <3>6. CASE s[b] \notin worse[s[k]]
      <4>1. best[k] = b
        BY <3>3, <3>6
      <4> QED
        BY <3>2, <3>4, <3>6, <4>1
    <3> QED
      BY <3>5, <3>6
  <2> QED
    BY <2>1, <2>2
<1>8. Good(n)
  <2> HIDE DEF Good
  <2>1. 0 \in Q /\ \A k \in 1..n : k - 1 \in Q => k \in Q
    BY <1>1, <1>7
  <2> HIDE DEF Q
  <2>2. \A k \in 0..n : k \in Q
    BY <1>1, <2>1, Upwards
  <2> QED
    BY <1>1, <2>2 DEF Q
<1> QED
  BY <1>2, <1>8 DEF n
============================================================================
