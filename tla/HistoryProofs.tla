--------------------------- MODULE HistoryProofs ---------------------------
(***************************************************************************)
(* Theorems about the history page, the link after a save, the spinner and *)
(* the answers of the two stores, for any dines, page size, filters and    *)
(* number of changes by others.                                            *)
(*                                                                         *)
(* A dine's place is the number of dines ahead of it.  Among dines with    *)
(* ids of their own there is one for each place (PlaceOf), and a page is   *)
(* the dines whose places it covers (PageIs), so the pages of a filter     *)
(* divide what matches it (PagesAre).  Logging, editing or deleting a dine *)
(* leaves the order of the others (Changed), so each count and each place  *)
(* moves by at most one (ChangedCounts, ChangedPlaces), and that is what   *)
(* the invariant keeps of a count (CountedFor) and of a link (Linked) until*)
(* they are used.                                                          *)
(*                                                                         *)
(* The loops of the spinner are followed as those of Loops are             *)
(* (SortingProofs).                                                        *)
(*                                                                         *)
(* The memory store answers as Postgres does (StoresMirror): a loop over   *)
(* the dines in the order they were logged, or over a map in any order,    *)
(* and a SELECT over the set of them are both brought to sets of rows.  A  *)
(* loop that collects goes once through each of them (Lists), one that     *)
(* counts or sums does so for the set of those it has seen, and one that   *)
(* keeps the better keeps one that nothing is better than (RangeBestIs).   *)
(* What is left is that both compare two rows alike, and that averages,    *)
(* compared by cross-multiplication, are ordered (AveragesOrdered).        *)
(***************************************************************************)
EXTENDS History, SortingProofs, SequenceTheorems, TLAPS

\* The bounds that say what a quotient is.
LEMMA Quotient ==
  ASSUME NEW a \in Nat, NEW s \in Nat \ {0}
  PROVE  a \div s \in Nat /\ (a \div s) * s <= a /\ a < (a \div s) * s + s
OBVIOUS

\* The greater of two.
LEMMA MaxOfTwo ==
  ASSUME NEW a \in Int, NEW b \in Int
  PROVE  Max({a, b}) = IF a >= b THEN a ELSE b
<1>1. \E x \in {a, b} : \A y \in {a, b} : x >= y
  OBVIOUS
<1>2. Max({a, b}) \in {a, b} /\ \A y \in {a, b} : Max({a, b}) >= y
  BY <1>1 DEF Max
<1> QED
  BY <1>2

\* The lesser of two.
LEMMA MinOfTwo ==
  ASSUME NEW a \in Int, NEW b \in Int
  PROVE  Min({a, b}) = IF a <= b THEN a ELSE b
<1>1. \E x \in {a, b} : \A y \in {a, b} : x <= y
  OBVIOUS
<1>2. Min({a, b}) \in {a, b} /\ \A y \in {a, b} : Min({a, b}) <= y
  BY <1>1 DEF Min
<1> QED
  BY <1>2

-----------------------------------------------------------------------------
(* The order of the dines *)

\* Dines as they are stored: a form, when it was logged, and an id.
Rows == {Dine(id, made, form) : id \in Ids, made \in Nat, form \in Forms}

\* What a stored dine is made of.
LEMMA RowIs ==
  ASSUME NEW d \in Rows
  PROVE  /\ d.id \in Ids /\ d.id \in Int /\ d.made \in Nat /\ d.at \in Int
         /\ \E form \in Forms : \A f \in DOMAIN form : d[f] = form[f]
<1>1. PICK id \in Ids, made \in Nat, form \in Forms : d = Dine(id, made, form)
  BY DEF Rows
<1>2. DOMAIN form = {"at", "where", "picker", "scores", "tags"} /\ form.at \in Int
  BY HistoryAssumption
<1>3. /\ d.id = id /\ d.made = made /\ d.at = form.at /\ d.where = form.where
      /\ d.picker = form.picker /\ d.scores = form.scores /\ d.tags = form.tags
  BY <1>1 DEF Dine
<1>4. \A f \in DOMAIN form : d[f] = form[f]
  BY <1>2, <1>3
<1>5. MaxDines \in Nat
  BY HistoryAssumption
<1> QED
  BY <1>2, <1>3, <1>4, <1>5 DEF Ids

\* The order of /dines, spelled out.
LEMMA NewestFirstIs ==
  ASSUME NEW d \in Rows, NEW e \in Rows
  PROVE  NewestFirst(d, e) <=>
           \/ d.at > e.at
           \/ d.at = e.at /\ d.made > e.made
           \/ d.at = e.at /\ d.made = e.made /\ d.id < e.id
<1> DEFINE a == <<-d.at, -d.made, d.id>>
           b == <<-e.at, -e.made, e.id>>
<1>1. /\ d.at \in Int /\ d.made \in Int /\ d.id \in Int
      /\ e.at \in Int /\ e.made \in Int /\ e.id \in Int
  BY RowIs
<1>2. /\ DOMAIN a = 1..3 /\ a[1] = -d.at /\ a[2] = -d.made /\ a[3] = d.id
      /\ b[1] = -e.at /\ b[2] = -e.made /\ b[3] = e.id
  OBVIOUS
<1>3. NewestFirst(d, e) <=> \E i \in DOMAIN a : a[i] < b[i] /\ \A j \in 1..(i - 1) : a[j] = b[j]
  BY DEF NewestFirst, Precedes
<1> HIDE DEF a, b
<1>4. NewestFirst(d, e) <=> \/ a[1] < b[1]
                            \/ a[1] = b[1] /\ a[2] < b[2]
                            \/ a[1] = b[1] /\ a[2] = b[2] /\ a[3] < b[3]
  <2>1. DOMAIN a = {1, 2, 3} /\ 1..(1 - 1) = {} /\ 1..(2 - 1) = {1} /\ 1..(3 - 1) = {1, 2}
    BY <1>2
  <2> QED
    BY <1>3, <2>1
<1> QED
  BY <1>1, <1>2, <1>4

\* Dines with ids of their own, in numbers that can be counted.
Keyed(S) == /\ S \subseteq Rows /\ IsFiniteSet(S)
            /\ \A d, e \in S : d.id = e.id => d = e

Ahead(S, d) == {e \in S : NewestFirst(e, d)}

\* Each dine has its place on the list, and every place its dine.
LEMMA PlaceOf ==
  ASSUME NEW S, Keyed(S)
  PROVE  /\ Cardinality(S) \in Nat
         /\ \A d \in S : Cardinality(Ahead(S, d)) \in 0..(Cardinality(S) - 1)
         /\ \A d, e \in S : NewestFirst(d, e) <=> Cardinality(Ahead(S, d)) < Cardinality(Ahead(S, e))
         /\ \A d, e \in S : Cardinality(Ahead(S, d)) = Cardinality(Ahead(S, e)) => d = e
         /\ \A k \in 1..Cardinality(S) : \E d \in S : Cardinality(Ahead(S, d)) = k - 1
<1> DEFINE below == [d \in S |-> Ahead(S, d)]
<1>1. below \in [S -> SUBSET S]
  BY DEF Ahead
<1>2. \A d, e \in S : d \in below[e] <=> NewestFirst(d, e)
  BY DEF Ahead
<1>3. \A d, e \in S : NewestFirst(d, e) <=>
           \/ d.at > e.at
           \/ d.at = e.at /\ d.made > e.made
           \/ d.at = e.at /\ d.made = e.made /\ d.id < e.id
  BY NewestFirstIs DEF Keyed
<1>4. \A d \in S : d.at \in Int /\ d.made \in Int /\ d.id \in Int
  BY RowIs DEF Keyed
<1> HIDE DEF below
<1>5. \A d \in S : d \notin below[d]
  BY <1>2, <1>3, <1>4
<1>6. \A d, e \in S : d # e => d \in below[e] \/ e \in below[d]
  BY <1>2, <1>3, <1>4 DEF Keyed
<1>7. ASSUME NEW d \in S, NEW e \in S, d \in below[e], NEW c \in below[d] PROVE c \in below[e]
  <2>1. c \in S
    BY <1>1
  <2> QED
    BY <1>2, <1>3, <1>4, <1>7, <2>1
<1>8. /\ Cardinality(S) \in Nat
      /\ \A d \in S : Cardinality(below[d]) \in 0..(Cardinality(S) - 1)
      /\ \A d, e \in S : d \in below[e] <=> Cardinality(below[d]) < Cardinality(below[e])
      /\ \A k \in 1..Cardinality(S) : \E d \in S : Cardinality(below[d]) = k - 1
  BY <1>1, <1>5, <1>6, <1>7, Ranks DEF Keyed
<1>9. \A d \in S : below[d] = Ahead(S, d)
  BY DEF below
<1>10. \A d, e \in S : Cardinality(below[d]) = Cardinality(below[e]) => d = e
  BY <1>6, <1>8
<1> QED
  BY <1>2, <1>8, <1>9, <1>10

\* A page holds the dines whose places it covers, in their order.
Covers(page, S, limit, offset) ==
    LET n == Cardinality(S)
    IN /\ page \in Seq(S)
       /\ Len(page) = IF offset >= n THEN 0 ELSE IF offset + limit <= n THEN limit ELSE n - offset
       /\ \A i \in 1..Len(page) : page[i] \in S /\ Cardinality(Ahead(S, page[i])) = offset + i - 1

\* VisitsPage is the page of what matches that its limit and offset say.
LEMMA PageIs ==
  ASSUME NEW S, Keyed(S), NEW filter, NEW limit \in Nat \ {0}, NEW offset \in Nat
  PROVE  LET M == {d \in S : VisitFilterSQL(d, filter)}
         IN Keyed(M) /\ Covers(VisitsPage(S, filter, limit, offset), M, limit, offset)
<1> DEFINE M == {d \in S : VisitFilterSQL(d, filter)}
           n == Cardinality(M)
           all == Sorted(M, NewestFirst)
           page == VisitsPage(S, filter, limit, offset)
<1>1. Keyed(M)
  <2>1. M \in SUBSET S
    OBVIOUS
  <2>2. IsFiniteSet(M)
    BY <2>1, FS_Subset DEF Keyed
  <2> QED
    BY <2>1, <2>2 DEF Keyed
<1>2. page = SubSeq(all, offset + 1, Min({offset + limit, Len(all)}))
  BY DEF VisitsPage
<1>3. all = [i \in 1..n |-> CHOOSE x \in M : Cardinality(Ahead(M, x)) = i - 1]
  BY DEF Sorted, Ahead
<1> HIDE DEF M, all, page
<1>4. /\ n \in Nat
      /\ \A k \in 1..n : \E d \in M : Cardinality(Ahead(M, d)) = k - 1
  BY <1>1, PlaceOf
<1>5. Len(all) = n /\ \A i \in 1..n : all[i] \in M /\ Cardinality(Ahead(M, all[i])) = i - 1
  BY <1>3, <1>4
<1> DEFINE last == IF offset + limit <= n THEN offset + limit ELSE n
<1>6. Min({offset + limit, Len(all)}) = last /\ last \in Nat /\ last <= n
  BY <1>4, <1>5, MinOfTwo
<1> HIDE DEF n, last
<1>7. page = SubSeq(all, offset + 1, last)
  BY <1>2, <1>6
<1>8. \A i \in (offset + 1)..last : all[i] \in M
  BY <1>4, <1>5, <1>6
<1>9. /\ page \in Seq(M)
      /\ Len(page) = IF offset + 1 <= last THEN last - (offset + 1) + 1 ELSE 0
      /\ \A i \in 1..(last - (offset + 1) + 1) : page[i] = all[offset + 1 + i - 1]
  <2> DEFINE from == offset + 1
  <2>1. from \in Nat \ {0} /\ last \in Nat /\ \A i \in from..last : all[i] \in M
    BY <1>6, <1>8
  <2>2. page = SubSeq(all, from, last)
    BY <1>7
  <2> HIDE DEF from
  <2>3. /\ page \in Seq(M)
        /\ Len(page) = IF from <= last THEN last - from + 1 ELSE 0
        /\ \A i \in 1..(last - from + 1) : page[i] = all[from + i - 1]
    BY <2>1, <2>2, SubSeqProperties
  <2> QED
    BY <2>3 DEF from
<1>10. Len(page) = IF offset >= n THEN 0 ELSE IF offset + limit <= n THEN limit ELSE n - offset
  BY <1>4, <1>6, <1>9 DEF last
<1>11. ASSUME NEW i \in 1..Len(page)
       PROVE  page[i] \in M /\ Cardinality(Ahead(M, page[i])) = offset + i - 1
  <2>1. i \in 1..(last - (offset + 1) + 1) /\ offset + i \in 1..n
    BY <1>4, <1>6, <1>9
  <2>2. page[i] = all[offset + i]
    BY <1>9, <2>1
  <2> QED
    BY <1>5, <2>1, <2>2
<1>12. Covers(page, M, limit, offset)
  BY <1>9, <1>10, <1>11 DEF Covers, n
<1> QED
  BY <1>1, <1>12 DEF M, page

\* A dine is on the page that covers its place.
LEMMA PageHolds ==
  ASSUME NEW S, Keyed(S), NEW limit \in Nat \ {0}, NEW offset \in Nat,
         NEW page, Covers(page, S, limit, offset),
         NEW d \in S, Cardinality(Ahead(S, d)) >= offset, Cardinality(Ahead(S, d)) < offset + limit
  PROVE  \E i \in 1..Len(page) : page[i] = d
<1> DEFINE place == Cardinality(Ahead(S, d))
           i == place - offset + 1
<1>1. place \in 0..(Cardinality(S) - 1) /\ Cardinality(S) \in Nat
  BY PlaceOf
<1>2. place >= offset /\ place < offset + limit
  OBVIOUS
<1> HIDE DEF place
<1>3. i \in 1..Len(page)
  BY <1>1, <1>2 DEF Covers
<1>4. page[i] \in S /\ Cardinality(Ahead(S, page[i])) = place
  BY <1>1, <1>3 DEF Covers
<1> QED
  BY <1>3, <1>4, PlaceOf DEF place

-----------------------------------------------------------------------------
(* What a change by others does to counts and places *)

IdsOf(S) == {d.id : d \in S}

\* Some of the dines have ids of their own as well.
LEMMA KeyedSubset ==
  ASSUME NEW S, Keyed(S), NEW T \in SUBSET S
  PROVE  Keyed(T) /\ Cardinality(T) <= Cardinality(S)
BY FS_Subset DEF Keyed

\* There are as many ids as dines.
LEMMA IdsCounted ==
  ASSUME NEW S, Keyed(S)
  PROVE  /\ IsFiniteSet(IdsOf(S)) /\ Cardinality(S) \in Nat
         /\ Cardinality(IdsOf(S)) = Cardinality(S)
<1> DEFINE f == [d \in S |-> d.id]
<1>1. f \in Surjection(S, IdsOf(S))
  BY DEF Surjection, IdsOf
<1>2. f \in Injection(S, IdsOf(S))
  BY <1>1 DEF Surjection, Injection, IsInjective, Keyed
<1> QED
  BY <1>1, <1>2, FS_Surjection, FS_CardinalityType DEF Keyed

\* Two sets of dines with the same ids but perhaps one.
LEMMA OffByOne ==
  ASSUME NEW S, NEW T, Keyed(S), Keyed(T), NEW c, IdsOf(S) \ {c} = IdsOf(T) \ {c}
  PROVE  /\ Cardinality(S) \in Nat /\ Cardinality(T) \in Nat
         /\ Cardinality(T) - 1 <= Cardinality(S) /\ Cardinality(S) <= Cardinality(T) + 1
<1>1. /\ Cardinality(IdsOf(S) \ {c}) \in {Cardinality(S), Cardinality(S) - 1}
      /\ Cardinality(IdsOf(T) \ {c}) \in {Cardinality(T), Cardinality(T) - 1}
  BY IdsCounted, FS_RemoveElement
<1> QED
  BY <1>1, IdsCounted

\* One dine but for when it was logged.
Alike(d, e) ==
    /\ d.id = e.id /\ d.at = e.at /\ d.where = e.where
    /\ d.picker = e.picker /\ d.scores = e.scores /\ d.tags = e.tags

\* T comes from S by a change of the dine with id c, if any.
Changed(S, T, c) ==
    /\ \A d \in S : d.id # c => \E e \in T : Alike(d, e)
    /\ \A e \in T : e.id # c => \E d \in S : Alike(e, d)
    /\ \A d1, d2 \in S, e1, e2 \in T :
          d1.id = e1.id /\ d1.id # c /\ d2.id = e2.id /\ d2.id # c =>
             (NewestFirst(d1, d2) <=> NewestFirst(e1, e2))

\* A filter does not look at when a dine was logged.
LEMMA AlikeMatch ==
  ASSUME NEW d, NEW e, Alike(d, e), NEW filter
  PROVE  VisitFilterSQL(d, filter) <=> VisitFilterSQL(e, filter)
BY DEF Alike, VisitFilterSQL

\* A change moves the number of dines that match a filter by at most one.
LEMMA ChangedCounts ==
  ASSUME NEW S, NEW T, Keyed(S), Keyed(T), NEW c, Changed(S, T, c), NEW filter
  PROVE  LET m == CountVisits(S, filter)
             n == CountVisits(T, filter)
         IN m \in Nat /\ n \in Nat /\ n - 1 <= m /\ m <= n + 1
<1> DEFINE M == {d \in S : VisitFilterSQL(d, filter)}
           N == {d \in T : VisitFilterSQL(d, filter)}
<1>1. Keyed(M) /\ Keyed(N)
  <2>1. M \in SUBSET S /\ N \in SUBSET T
    OBVIOUS
  <2> QED
    BY <2>1, KeyedSubset
<1>2. ASSUME NEW d \in M, d.id # c PROVE d.id \in IdsOf(N)
  <2>1. PICK e \in T : Alike(d, e)
    BY <1>2 DEF Changed
  <2>2. e \in N
    BY <2>1, AlikeMatch
  <2> QED
    BY <2>1, <2>2 DEF IdsOf, Alike
<1>3. ASSUME NEW e \in N, e.id # c PROVE e.id \in IdsOf(M)
  <2>1. PICK d \in S : Alike(e, d)
    BY <1>3 DEF Changed
  <2>2. d \in M
    BY <2>1, AlikeMatch
  <2> QED
    BY <2>1, <2>2 DEF IdsOf, Alike
<1>4. CountVisits(S, filter) = Cardinality(M) /\ CountVisits(T, filter) = Cardinality(N)
  BY DEF CountVisits
<1> HIDE DEF M, N
<1>5. IdsOf(M) \ {c} = IdsOf(N) \ {c}
  BY <1>2, <1>3 DEF IdsOf
<1> QED
  BY <1>1, <1>4, <1>5, OffByOne

\* A change of another dine moves a dine's place by at most one.
LEMMA ChangedPlaces ==
  ASSUME NEW S, NEW T, Keyed(S), Keyed(T), NEW c, Changed(S, T, c),
         NEW d \in S, NEW e \in T, d.id = e.id, d.id # c
  PROVE  LET m == Cardinality(Ahead(S, d))
             n == Cardinality(Ahead(T, e))
         IN m \in Nat /\ n \in Nat /\ n - 1 <= m /\ m <= n + 1
<1>1. Keyed(Ahead(S, d)) /\ Keyed(Ahead(T, e))
  <2>1. Ahead(S, d) \in SUBSET S /\ Ahead(T, e) \in SUBSET T
    BY DEF Ahead
  <2> QED
    BY <2>1, KeyedSubset
<1>2. ASSUME NEW x \in Ahead(S, d), x.id # c PROVE x.id \in IdsOf(Ahead(T, e))
  <2>1. x \in S /\ NewestFirst(x, d)
    BY DEF Ahead
  <2>2. PICK y \in T : Alike(x, y)
    BY <1>2, <2>1 DEF Changed
  <2>3. x.id = y.id
    BY <2>2 DEF Alike
  <2>4. NewestFirst(y, e)
    BY <1>2, <2>1, <2>3 DEF Changed
  <2> QED
    BY <2>3, <2>4 DEF IdsOf, Ahead
<1>3. ASSUME NEW y \in Ahead(T, e), y.id # c PROVE y.id \in IdsOf(Ahead(S, d))
  <2>1. y \in T /\ NewestFirst(y, e)
    BY DEF Ahead
  <2>2. PICK x \in S : Alike(y, x)
    BY <1>3, <2>1 DEF Changed
  <2>3. x.id = y.id
    BY <2>2 DEF Alike
  <2>4. NewestFirst(x, d)
    BY <1>3, <2>1, <2>3 DEF Changed
  <2> QED
    BY <2>3, <2>4 DEF IdsOf, Ahead
<1>4. IdsOf(Ahead(S, d)) \ {c} = IdsOf(Ahead(T, e)) \ {c}
  BY <1>2, <1>3 DEF IdsOf
<1> QED
  BY <1>1, <1>4, OffByOne

-----------------------------------------------------------------------------
(* The stored dines, and what logging, editing and deleting one does *)

\* Dines have ids of their own, and none was logged before the one ahead of it.
Stored(s) ==
    /\ s \in Seq(Rows)
    /\ \A i, j \in 1..Len(s) : s[i].id = s[j].id => i = j
    /\ \A i \in 1..Len(s) : s[i].made \in 1..i
    /\ \A i, j \in 1..Len(s) : i < j => s[i].made <= s[j].made

\* The stored dines can be counted, and are as many as their ids.
LEMMA StoredKeyed ==
  ASSUME NEW s, Stored(s)
  PROVE  /\ Keyed(Range(s)) /\ Cardinality(Range(s)) = Len(s)
         /\ Cardinality(IdsOf(Range(s))) = Len(s) /\ Len(s) \in 0..MaxDines
<1> DEFINE n == Len(s)
<1>1. n \in Nat /\ DOMAIN s = 1..n /\ Range(s) = {s[i] : i \in 1..n} /\ Range(s) \subseteq Rows
  BY DEF Stored, Range
<1>2. s \in Surjection(1..n, Range(s))
  <2>1. s \in [1..n -> Range(s)]
    BY <1>1 DEF Stored
  <2> QED
    BY <1>1, <2>1 DEF Surjection
<1>3. s \in Injection(1..n, Range(s))
  BY <1>1, <1>2 DEF Injection, IsInjective, Surjection, Stored
<1>4. IsFiniteSet(1..n) /\ Cardinality(1..n) = n
  <2> HIDE DEF n
  <2> QED
    BY <1>1, FS_Interval
<1>5. IsFiniteSet(Range(s)) /\ Cardinality(Range(s)) = n
  BY <1>2, <1>3, <1>4, FS_Surjection
<1>6. ASSUME NEW d \in Range(s), NEW e \in Range(s), d.id = e.id PROVE d = e
  BY <1>1, <1>6 DEF Stored
<1>7. Keyed(Range(s))
  BY <1>1, <1>5, <1>6 DEF Keyed
<1>8. Cardinality(IdsOf(Range(s))) = n
  BY <1>5, <1>7, IdsCounted
<1>9. IdsOf(Range(s)) \in SUBSET Ids
  BY <1>1, RowIs DEF IdsOf
<1>10. IsFiniteSet(Ids) /\ Cardinality(Ids) = MaxDines
  <2>1. MaxDines \in Nat
    BY HistoryAssumption
  <2> QED
    BY <2>1, FS_Interval DEF Ids
<1>11. n <= MaxDines
  BY <1>8, <1>9, <1>10, FS_Subset
<1>12. MaxDines \in Nat
  BY HistoryAssumption
<1>13. n \in 0..MaxDines
  <2> HIDE DEF n
  <2> QED
    BY <1>1, <1>11, <1>12
<1> QED
  BY <1>5, <1>7, <1>8, <1>13

\* A dine is made with its id and when it was logged.
LEMMA DineIs ==
  ASSUME NEW id \in Ids, NEW made \in Nat, NEW form \in Forms
  PROVE  /\ Dine(id, made, form) \in Rows
         /\ Dine(id, made, form).id = id /\ Dine(id, made, form).made = made
BY DEF Dine, Rows

\* What stays when the dine with id c changes, place by place.
LEMMA ChangedIs ==
  ASSUME NEW s, NEW t, Stored(s), Stored(t), NEW c, NEW f,
         \A i \in 1..Len(s) : s[i].id # c => f[i] \in 1..Len(t) /\ Alike(s[i], t[f[i]]),
         \A j \in 1..Len(t) : t[j].id # c => \E i \in 1..Len(s) : f[i] = j /\ s[i].id # c,
         \A i, j \in 1..Len(s) : s[i].id # c /\ s[j].id # c =>
             (s[i].made < s[j].made <=> t[f[i]].made < t[f[j]].made)
  PROVE  Changed(Range(s), Range(t), c)
<1>1. Range(s) = {s[i] : i \in 1..Len(s)} /\ Range(t) = {t[i] : i \in 1..Len(t)}
  BY DEF Range, Stored
<1>2. ASSUME NEW d \in Range(s), d.id # c
      PROVE  \E e \in Range(t) : Alike(d, e)
  BY <1>1, <1>2
<1>3. ASSUME NEW e \in Range(t), e.id # c
      PROVE  \E i \in 1..Len(s) : s[i].id # c /\ e = t[f[i]] /\ Alike(s[i], e)
  BY <1>1, <1>3
<1>4. ASSUME NEW d1 \in Range(s), NEW d2 \in Range(s), NEW e1 \in Range(t), NEW e2 \in Range(t),
             d1.id = e1.id, d1.id # c, d2.id = e2.id, d2.id # c
      PROVE  NewestFirst(d1, d2) <=> NewestFirst(e1, e2)
  <2>1. PICK i \in 1..Len(s) : s[i].id # c /\ e1 = t[f[i]] /\ Alike(s[i], e1)
    BY <1>3, <1>4
  <2>2. PICK j \in 1..Len(s) : s[j].id # c /\ e2 = t[f[j]] /\ Alike(s[j], e2)
    BY <1>3, <1>4
  <2>3. d1 = s[i] /\ d2 = s[j]
    <3>1. PICK k \in 1..Len(s), l \in 1..Len(s) : d1 = s[k] /\ d2 = s[l]
      BY <1>1
    <3>2. s[k].id = s[i].id /\ s[l].id = s[j].id
      BY <1>4, <2>1, <2>2, <3>1 DEF Alike
    <3> QED
      BY <3>1, <3>2 DEF Stored
  <2>4. /\ d1.made < d2.made <=> e1.made < e2.made
        /\ d2.made < d1.made <=> e2.made < e1.made
    BY <2>1, <2>2, <2>3
  <2>5. d1 \in Rows /\ d2 \in Rows /\ e1 \in Rows /\ e2 \in Rows
    BY <1>1 DEF Stored
  <2>6. /\ d1.made \in Nat /\ d2.made \in Nat /\ e1.made \in Nat /\ e2.made \in Nat
        /\ d1.at \in Int /\ d2.at \in Int
    BY <2>5, RowIs
  <2>7. d1.at = e1.at /\ d2.at = e2.at
    BY <2>1, <2>2, <2>3 DEF Alike
  <2> HIDE <2>1, <2>2, <2>3
  <2> QED
    BY <1>4, <2>4, <2>5, <2>6, <2>7, NewestFirstIs
<1>5. ASSUME NEW e \in Range(t), e.id # c PROVE \E d \in Range(s) : Alike(e, d)
  BY <1>1, <1>3, <1>5 DEF Alike
<1> QED
  BY <1>2, <1>4, <1>5 DEF Changed

\* A new dine is as old as the last one or newer, and has an id of its own.
LEMMA LoggedStored ==
  ASSUME Stored(visits), NEW id \in Ids \ IdsOf(D), NEW form \in Forms, NEW newer \in {0, 1}
  PROVE  /\ Stored(Logged(id, form, newer)) /\ id \in IdsOf(Range(Logged(id, form, newer)))
         /\ Changed(D, Range(Logged(id, form, newer)), id)
<1> DEFINE n == Len(visits)
           made == IF visits = <<>> THEN 1 ELSE visits[n].made + newer
           x == Dine(id, made, form)
           t == Append(visits, x)
<1>1. visits \in Seq(Rows) /\ n \in Nat /\ D = {visits[i] : i \in 1..n}
  BY DEF Stored, D, Range
<1>2. /\ made \in 1..(n + 1)
      /\ \A i \in 1..n : visits[i].made <= made
  <2>1. CASE n = 0
    BY <1>1, <2>1
  <2>2. CASE n # 0
    <3>1. visits # <<>> /\ n \in 1..n
      BY <1>1, <2>2
    <3>2. visits[n].made \in 1..n /\ \A i \in 1..n : visits[i].made <= visits[n].made
      BY <1>1, <3>1 DEF Stored
    <3>3. \A i \in 1..n : visits[i].made \in Nat
      BY <1>1 DEF Stored
    <3> QED
      BY <1>1, <3>1, <3>2, <3>3
  <2> QED
    BY <2>1, <2>2
<1> HIDE DEF made
<1>3. x \in Rows /\ x.id = id /\ x.made = made
  BY <1>1, <1>2, DineIs
<1>4. \A i \in 1..n : visits[i].id # id
  BY <1>1 DEF IdsOf
<1> HIDE DEF x, n
<1>5. /\ t \in Seq(Rows) /\ Len(t) = n + 1
      /\ \A i \in 1..n : t[i] = visits[i]
      /\ t[n + 1] = x
  BY <1>1, <1>3 DEF n
<1>6. /\ \A i, j \in 1..n : visits[i].id = visits[j].id => i = j
      /\ \A i \in 1..n : visits[i].made \in 1..i
      /\ \A i, j \in 1..n : i < j => visits[i].made <= visits[j].made
  BY DEF Stored, n
<1> HIDE DEF t
<1>7. ASSUME NEW i \in 1..Len(t), NEW j \in 1..Len(t), t[i].id = t[j].id PROVE i = j
  <2>1. i \in 1..n \/ i = n + 1
    BY <1>1, <1>5
  <2>2. j \in 1..n \/ j = n + 1
    BY <1>1, <1>5
  <2> QED
    BY <1>3, <1>4, <1>5, <1>6, <1>7, <2>1, <2>2
<1>8. ASSUME NEW i \in 1..Len(t) PROVE t[i].made \in 1..i
  <2>1. i \in 1..n \/ i = n + 1
    BY <1>1, <1>5
  <2> QED
    BY <1>2, <1>3, <1>5, <1>6, <2>1
<1>9. ASSUME NEW i \in 1..Len(t), NEW j \in 1..Len(t), i < j PROVE t[i].made <= t[j].made
  <2>1. i \in 1..n /\ (j \in 1..n \/ j = n + 1)
    BY <1>1, <1>5, <1>9
  <2> QED
    BY <1>2, <1>3, <1>5, <1>6, <1>9, <2>1
<1>10. Stored(t)
  BY <1>5, <1>7, <1>8, <1>9 DEF Stored
<1> DEFINE f == [i \in 1..n |-> i]
<1>11. ASSUME NEW i \in 1..n PROVE f[i] \in 1..Len(t) /\ Alike(visits[i], t[f[i]])
  <2>1. f[i] = i /\ i \in 1..Len(t)
    BY <1>1, <1>5
  <2> QED
    BY <1>5, <2>1 DEF Alike
<1>12. ASSUME NEW j \in 1..Len(t), t[j].id # id PROVE \E i \in 1..n : f[i] = j /\ visits[i].id # id
  <2>1. j \in 1..n
    BY <1>1, <1>3, <1>5, <1>12
  <2> QED
    BY <1>4, <2>1
<1>13. \A i, j \in 1..n : visits[i].made < visits[j].made <=> t[f[i]].made < t[f[j]].made
  BY <1>5
<1> HIDE DEF f
<1>14. Changed(Range(visits), Range(t), id)
  BY <1>10, <1>11, <1>12, <1>13, ChangedIs DEF n
<1>15. Logged(id, form, newer) = t
  BY DEF Logged, t, x, made, n
<1>16. id \in IdsOf(Range(t))
  BY <1>1, <1>3, <1>5 DEF IdsOf, Range
<1> QED
  BY <1>10, <1>14, <1>15, <1>16 DEF D

\* An edit keeps the id and when the dine was logged.
LEMMA EditedStored ==
  ASSUME Stored(visits), NEW i \in DOMAIN visits, NEW form \in Forms
  PROVE  /\ Stored(Edited(i, form)) /\ visits[i].id \in IdsOf(Range(Edited(i, form)))
         /\ Changed(D, Range(Edited(i, form)), visits[i].id)
<1> DEFINE n == Len(visits)
           x == Dine(visits[i].id, visits[i].made, form)
           t == Edited(i, form)
<1>1. visits \in Seq(Rows) /\ n \in Nat /\ i \in 1..n /\ \A j \in 1..n : visits[j] \in Rows
  BY DEF Stored
<1>2. x \in Rows /\ x.id = visits[i].id /\ x.made = visits[i].made
  BY <1>1, DineIs, RowIs
<1>3. t = [visits EXCEPT ![i] = x]
  BY DEF Edited
<1> HIDE DEF x, n, t
<1>4. /\ t \in Seq(Rows) /\ Len(t) = n /\ t[i] = x
      /\ \A j \in 1..n : j # i => t[j] = visits[j]
  BY <1>1, <1>2, <1>3 DEF n
<1>5. \A j \in 1..n : t[j].id = visits[j].id /\ t[j].made = visits[j].made
  BY <1>2, <1>4
<1>6. Stored(t)
  BY <1>4, <1>5 DEF Stored, n
<1> DEFINE f == [j \in 1..n |-> j]
           c == visits[i].id
<1>7. ASSUME NEW j \in 1..n, visits[j].id # c PROVE f[j] \in 1..Len(t) /\ Alike(visits[j], t[f[j]])
  <2>1. f[j] = j /\ j # i
    BY <1>7
  <2> QED
    BY <1>4, <2>1 DEF Alike
<1>8. ASSUME NEW j \in 1..Len(t), t[j].id # c PROVE \E k \in 1..n : f[k] = j /\ visits[k].id # c
  BY <1>4, <1>5, <1>8
<1>9. \A j, k \in 1..n : visits[j].made < visits[k].made <=> t[f[j]].made < t[f[k]].made
  BY <1>5
<1> HIDE DEF f, c
<1>10. Changed(Range(visits), Range(t), c)
  BY <1>6, <1>7, <1>8, <1>9, ChangedIs DEF n
<1>11. c \in IdsOf(Range(t))
  BY <1>1, <1>4, <1>5 DEF IdsOf, Range, c
<1> QED
  BY <1>6, <1>10, <1>11 DEF D, t, c

\* What is behind a removed element moves up.
LEMMA RemoveAtIs ==
  ASSUME NEW S, NEW s \in Seq(S), NEW i \in 1..Len(s)
  PROVE  /\ RemoveAt(s, i) \in Seq(S) /\ Len(RemoveAt(s, i)) = Len(s) - 1
         /\ \A j \in 1..(Len(s) - 1) : RemoveAt(s, i)[j] = s[IF j < i THEN j ELSE j + 1]
<1> DEFINE a == SubSeq(s, 1, i - 1)
           b == SubSeq(s, i + 1, Len(s))
           n == Len(s)
<1>1. n \in Nat /\ i \in 1..n /\ \A j \in 1..n : s[j] \in S
  OBVIOUS
<1> HIDE DEF n
<1>2. a \in Seq(S) /\ Len(a) = i - 1 /\ \A j \in 1..(i - 1) : a[j] = s[j]
  <2>1. \A j \in 1..(i - 1) : s[j] \in S
    BY <1>1
  <2>2. /\ SubSeq(s, 1, i - 1) \in Seq(S)
        /\ Len(SubSeq(s, 1, i - 1)) = IF 1 <= i - 1 THEN (i - 1) - 1 + 1 ELSE 0
        /\ \A j \in 1..((i - 1) - 1 + 1) : SubSeq(s, 1, i - 1)[j] = s[1 + j - 1]
    BY <1>1, <2>1, SubSeqProperties
  <2> QED
    BY <1>1, <2>2
<1>3. b \in Seq(S) /\ Len(b) = n - i /\ \A j \in 1..(n - i) : b[j] = s[i + j]
  <2>1. \A j \in (i + 1)..n : s[j] \in S
    BY <1>1
  <2>2. /\ SubSeq(s, i + 1, n) \in Seq(S)
        /\ Len(SubSeq(s, i + 1, n)) = IF i + 1 <= n THEN n - (i + 1) + 1 ELSE 0
        /\ \A j \in 1..(n - (i + 1) + 1) : SubSeq(s, i + 1, n)[j] = s[(i + 1) + j - 1]
    BY <1>1, <2>1, SubSeqProperties
  <2> QED
    BY <1>1, <2>2 DEF n
<1>4. RemoveAt(s, i) = a \o b
  BY DEF RemoveAt
<1> HIDE DEF a, b
<1>5. /\ a \o b \in Seq(S) /\ Len(a \o b) = n - 1
      /\ \A j \in 1..(n - 1) : (a \o b)[j] = IF j <= i - 1 THEN a[j] ELSE b[j - (i - 1)]
  <2>1. Len(a) + Len(b) = n - 1
    BY <1>1, <1>2, <1>3
  <2>2. /\ a \o b \in Seq(S) /\ Len(a \o b) = Len(a) + Len(b)
        /\ \A j \in 1..(Len(a) + Len(b)) : (a \o b)[j] = IF j <= Len(a) THEN a[j] ELSE b[j - Len(a)]
    BY <1>2, <1>3, ConcatProperties
  <2> QED
    BY <1>2, <2>1, <2>2
<1>6. ASSUME NEW j \in 1..(n - 1) PROVE (a \o b)[j] = s[IF j < i THEN j ELSE j + 1]
  <2>1. CASE j < i
    BY <1>1, <1>2, <1>5, <2>1
  <2>2. CASE ~(j < i)
    <3>1. j - (i - 1) \in 1..(n - i) /\ i + (j - (i - 1)) = j + 1
      BY <1>1, <2>2
    <3>2. b[j - (i - 1)] = s[j + 1]
      BY <1>3, <3>1
    <3> QED
      BY <1>1, <1>5, <2>2, <3>2
  <2> QED
    BY <2>1, <2>2
<1> QED
  BY <1>4, <1>5, <1>6 DEF n

\* Numbers in order, counted up to each, are ranks in the same order.
LEMMA Recounted ==
  ASSUME NEW n \in Nat, NEW f \in [1..n -> Nat], \A i, j \in 1..n : i < j => f[i] <= f[j],
         NEW rank, \A j \in 1..n : rank[j] = Cardinality({f[k] : k \in 1..j})
  PROVE  /\ \A j \in 1..n : rank[j] \in 1..j
         /\ \A i, j \in 1..n : f[i] < f[j] <=> rank[i] < rank[j]
         /\ \A i, j \in 1..n : i < j => rank[i] <= rank[j]
<1> DEFINE upto == [j \in 1..n |-> {f[k] : k \in 1..j}]
<1>1. \A j \in 1..n : upto[j] = {f[k] : k \in 1..j} /\ rank[j] = Cardinality(upto[j])
  OBVIOUS
<1> HIDE DEF upto
<1>2. ASSUME NEW j \in 1..n PROVE IsFiniteSet(upto[j]) /\ rank[j] \in 1..j
  <2> DEFINE g == [k \in 1..j |-> f[k]]
  <2>1. g \in Surjection(1..j, upto[j])
    <3>1. \A k \in 1..j : g[k] = f[k] /\ f[k] \in upto[j]
      BY <1>1
    <3>2. \A x \in upto[j] : \E k \in 1..j : g[k] = x
      BY <1>1, <3>1
    <3>3. g \in [1..j -> upto[j]]
      BY <3>1
    <3> QED
      BY <3>2, <3>3 DEF Surjection
  <2>2. IsFiniteSet(1..j) /\ Cardinality(1..j) = j
    BY FS_Interval
  <2>3. IsFiniteSet(upto[j]) /\ Cardinality(upto[j]) <= j
    BY <2>1, <2>2, FS_Surjection
  <2>4. upto[j] # {}
    <3>1. f[j] \in upto[j]
      BY <1>1
    <3> QED
      BY <3>1
  <2>5. Cardinality(upto[j]) \in Nat /\ Cardinality(upto[j]) # 0
    BY <2>3, <2>4, FS_CardinalityType, FS_EmptySet
  <2> QED
    BY <1>1, <2>3, <2>5
<1>3. ASSUME NEW i \in 1..n, NEW j \in 1..n, i < j
      PROVE  /\ f[i] <= f[j] /\ rank[i] <= rank[j]
             /\ f[i] = f[j] <=> rank[i] = rank[j]
  <2>1. upto[i] \in SUBSET upto[j]
    <3>1. ASSUME NEW x \in upto[i] PROVE x \in upto[j]
      <4>1. PICK k \in 1..i : x = f[k]
        BY <1>1
      <4>2. k \in 1..j
        BY <1>3
      <4> QED
        BY <1>1, <4>1, <4>2
    <3> QED
      BY <3>1
  <2>2. rank[i] <= rank[j] /\ (rank[i] = rank[j] => upto[i] = upto[j])
    BY <1>1, <1>2, <2>1, FS_Subset
  <2>3. ASSUME f[i] = f[j] PROVE upto[i] = upto[j]
    <3>1. ASSUME NEW k \in 1..j PROVE f[k] \in upto[i]
      <4>1. CASE k \in 1..i
        BY <1>1, <4>1
      <4>2. CASE k \notin 1..i
        <5>1. k \in 1..n /\ i < k /\ (k < j \/ k = j)
          BY <1>3, <4>2
        <5>2. f[i] <= f[k] /\ f[k] <= f[j]
          BY <5>1
        <5>3. f[k] = f[i] /\ i \in 1..i
          BY <2>3, <5>1, <5>2
        <5> QED
          BY <1>1, <5>3
      <4> QED
        BY <4>1, <4>2
    <3>2. ASSUME NEW x \in upto[j] PROVE x \in upto[i]
      <4>1. PICK k \in 1..j : x = f[k]
        BY <1>1
      <4> QED
        BY <3>1, <4>1
    <3> QED
      BY <2>1, <3>2
  <2>4. ASSUME f[i] # f[j] PROVE upto[i] # upto[j]
    <3>1. f[i] < f[j] /\ j \in 1..j
      BY <1>3, <2>4
    <3>2. f[j] \in upto[j]
      BY <1>1, <3>1
    <3>3. ASSUME NEW k \in 1..i PROVE f[k] # f[j]
      <4>1. k \in 1..n /\ (k < i \/ k = i)
        OBVIOUS
      <4>2. f[k] <= f[i]
        BY <4>1
      <4> QED
        BY <3>1, <4>1, <4>2
    <3>4. f[j] \notin upto[i]
      <4>1. ASSUME f[j] \in upto[i] PROVE FALSE
        <5>1. PICK k \in 1..i : f[j] = f[k]
          BY <1>1, <4>1
        <5> QED
          BY <3>3, <5>1
      <4> QED
        BY <4>1
    <3> QED
      BY <3>2, <3>4
  <2> QED
    BY <1>1, <1>3, <2>2, <2>3, <2>4
<1>4. ASSUME NEW i \in 1..n, NEW j \in 1..n PROVE f[i] < f[j] <=> rank[i] < rank[j]
  <2>1. rank[i] \in Nat /\ rank[j] \in Nat
    BY <1>2
  <2>2. i < j \/ i = j \/ j < i
    OBVIOUS
  <2> QED
    BY <1>3, <2>1, <2>2
<1> QED
  BY <1>2, <1>3, <1>4

\* A deletion keeps the order of the dines that are left.
LEMMA DeletedStored ==
  ASSUME Stored(visits), NEW i \in DOMAIN visits
  PROVE  Stored(Deleted(i)) /\ Changed(D, Range(Deleted(i)), visits[i].id)
<1> DEFINE n == Len(visits)
           rest == RemoveAt(visits, i)
           t == Deleted(i)
           old == [j \in 1..(n - 1) |-> IF j < i THEN j ELSE j + 1]
           made == [j \in 1..(n - 1) |-> rest[j].made]
           rank == [j \in 1..(n - 1) |-> Cardinality({made[k] : k \in 1..j})]
           c == visits[i].id
<1>1. /\ visits \in Seq(Rows) /\ n \in Nat /\ i \in 1..n
      /\ \A j, k \in 1..n : visits[j].id = visits[k].id => j = k
      /\ \A j, k \in 1..n : j < k => visits[j].made <= visits[k].made
  BY DEF Stored
<1>2. /\ rest \in Seq(Rows) /\ Len(rest) = n - 1
      /\ \A j \in 1..(n - 1) : rest[j] = visits[IF j < i THEN j ELSE j + 1]
  BY <1>1, RemoveAtIs
<1> HIDE DEF rest, n
<1>3. /\ \A j \in 1..(n - 1) : old[j] \in 1..n /\ old[j] # i /\ rest[j] = visits[old[j]]
      /\ \A j, k \in 1..(n - 1) : j < k => old[j] < old[k]
      /\ \A j \in 1..n : j # i => \E k \in 1..(n - 1) : old[k] = j
  <2>1. ASSUME NEW j \in 1..n, j # i PROVE \E k \in 1..(n - 1) : old[k] = j
    <3>1. CASE j < i
      BY <1>1, <3>1
    <3>2. CASE i < j
      <4>1. j - 1 \in 1..(n - 1) /\ ~(j - 1 < i)
        BY <1>1, <3>2
      <4>2. old[j - 1] = j
        BY <1>1, <4>1
      <4> QED
        BY <4>1, <4>2
    <3>3. j < i \/ i < j
      BY <1>1, <2>1
    <3> HIDE DEF old
    <3> QED
      BY <3>1, <3>2, <3>3
  <2> QED
    BY <1>1, <1>2, <2>1
<1> HIDE DEF old
<1>4. /\ t = [j \in 1..(n - 1) |-> [rest[j] EXCEPT !.made = Cardinality({rest[k].made : k \in 1..j})]]
      /\ t = [j \in 1..(n - 1) |-> t[j]]
  <2>1. t = [j \in DOMAIN rest |-> [rest[j] EXCEPT !.made = Cardinality({rest[k].made : k \in 1..j})]]
    BY DEF Deleted, rest
  <2>2. DOMAIN rest = 1..(n - 1)
    BY <1>2
  <2> HIDE DEF t
  <2>3. t = [j \in 1..(n - 1) |-> [rest[j] EXCEPT !.made = Cardinality({rest[k].made : k \in 1..j})]]
    BY <2>1, <2>2
  <2> QED
    BY <2>3
<1> HIDE DEF t
<1>5. ASSUME NEW j \in 1..(n - 1)
      PROVE  Cardinality({rest[k].made : k \in 1..j}) = rank[j]
  <2>1. 1..j \subseteq 1..(n - 1)
    BY <1>1
  <2>2. \A k \in 1..j : made[k] = rest[k].made
    BY <2>1
  <2>3. {rest[k].made : k \in 1..j} = {made[k] : k \in 1..j}
    BY <2>2
  <2> QED
    BY <2>3
<1>6. \A j \in 1..(n - 1) : t[j] = [rest[j] EXCEPT !.made = rank[j]]
  BY <1>4, <1>5
<1>7. /\ \A j \in 1..(n - 1) : rank[j] \in 1..j
      /\ \A j, k \in 1..(n - 1) : made[j] < made[k] <=> rank[j] < rank[k]
      /\ \A j, k \in 1..(n - 1) : j < k => rank[j] <= rank[k]
  <2>1. n - 1 \in Nat
    BY <1>1
  <2>2. made \in [1..(n - 1) -> Nat]
    BY <1>2, RowIs
  <2>3. ASSUME NEW j \in 1..(n - 1), NEW k \in 1..(n - 1), j < k PROVE made[j] <= made[k]
    <3>1. made[j] = visits[old[j]].made /\ made[k] = visits[old[k]].made
      BY <1>3
    <3>2. old[j] \in 1..n /\ old[k] \in 1..n /\ old[j] < old[k]
      BY <1>3, <2>3
    <3> HIDE DEF made
    <3> QED
      BY <1>1, <3>1, <3>2
  <2>4. \A j \in 1..(n - 1) : rank[j] = Cardinality({made[k] : k \in 1..j})
    OBVIOUS
  <2> HIDE DEF made, rank
  <2> DEFINE m == n - 1
  <2> HIDE DEF m
  <2>5. m \in Nat /\ made \in [1..m -> Nat] /\ \A j, k \in 1..m : j < k => made[j] <= made[k]
    BY <2>1, <2>2, <2>3 DEF m
  <2>6. \A j \in 1..m : rank[j] = Cardinality({made[k] : k \in 1..j})
    BY <2>4 DEF m
  <2> QED
    BY <2>5, <2>6, Recounted DEF m
<1>8. \A j \in 1..(n - 1) : made[j] = visits[old[j]].made
  BY <1>3
<1> HIDE DEF made, rank
<1>9. ASSUME NEW j \in 1..(n - 1)
      PROVE  t[j] \in Rows /\ t[j].made = rank[j] /\ Alike(rest[j], t[j])
  <2>1. PICK id \in Ids, k \in Nat, form \in Forms : rest[j] = Dine(id, k, form)
    BY <1>2 DEF Rows
  <2>2. t[j] = Dine(id, rank[j], form)
    BY <1>6, <2>1 DEF Dine
  <2>3. rank[j] \in Nat
    BY <1>7
  <2> QED
    BY <2>1, <2>2, <2>3, DineIs DEF Alike, Dine
<1>10. DOMAIN t = 1..(n - 1) /\ t \in Seq(Rows) /\ Len(t) = n - 1
  <2>1. t \in [1..(n - 1) -> Rows] /\ n - 1 \in Nat
    <3>1. n - 1 \in Nat /\ t = [j \in 1..(n - 1) |-> t[j]]
      BY <1>1, <1>4
    <3> QED
      BY <1>9, <3>1
  <2> QED
    BY <2>1
<1>11. \A j \in 1..(n - 1) : t[j].id = visits[old[j]].id
  BY <1>3, <1>9 DEF Alike
<1>12. ASSUME NEW j \in 1..(n - 1), NEW k \in 1..(n - 1), old[j] = old[k] PROVE j = k
  <2>1. j < k \/ j = k \/ k < j
    BY <1>1
  <2> QED
    BY <1>1, <1>3, <1>12, <2>1
<1>13. ASSUME NEW j \in 1..(n - 1), NEW k \in 1..(n - 1), t[j].id = t[k].id PROVE j = k
  <2>1. old[j] \in 1..n /\ old[k] \in 1..n /\ visits[old[j]].id = visits[old[k]].id
    BY <1>3, <1>11, <1>13
  <2>2. old[j] = old[k]
    BY <1>1, <2>1
  <2> QED
    BY <1>12, <2>2
<1>14. Stored(t)
  BY <1>7, <1>9, <1>10, <1>13 DEF Stored
<1>15. PICK f \in [1..n -> 0..(n - 1)] :
          \A j \in 1..n : j # i => f[j] \in 1..(n - 1) /\ old[f[j]] = j
  <2> DEFINE f == [j \in 1..n |-> IF j = i THEN 0 ELSE CHOOSE k \in 1..(n - 1) : old[k] = j]
  <2>1. ASSUME NEW j \in 1..n, j # i PROVE f[j] \in 1..(n - 1) /\ old[f[j]] = j
    <3>1. f[j] = CHOOSE k \in 1..(n - 1) : old[k] = j
      BY <2>1
    <3> QED
      BY <1>3, <2>1, <3>1
  <2>2. f \in [1..n -> 0..(n - 1)]
    <3>1. ASSUME NEW j \in 1..n PROVE f[j] \in 0..(n - 1)
      BY <1>1, <2>1
    <3> QED
      BY <3>1
  <2> QED
    BY <2>1, <2>2
<1>16. \A j \in 1..n : visits[j].id # c <=> j # i
  BY <1>1
<1> HIDE DEF c
<1>17. ASSUME NEW j \in 1..n, visits[j].id # c PROVE f[j] \in 1..Len(t) /\ Alike(visits[j], t[f[j]])
  BY <1>3, <1>9, <1>10, <1>15, <1>16, <1>17
<1>18. ASSUME NEW j \in 1..Len(t), t[j].id # c PROVE \E k \in 1..n : f[k] = j /\ visits[k].id # c
  <2>1. old[j] \in 1..n /\ old[j] # i
    BY <1>3, <1>10
  <2>2. f[old[j]] = j
    BY <1>10, <1>12, <1>15, <2>1
  <2> QED
    BY <1>16, <2>1, <2>2
<1>19. ASSUME NEW j \in 1..n, NEW k \in 1..n, visits[j].id # c, visits[k].id # c
       PROVE  visits[j].made < visits[k].made <=> t[f[j]].made < t[f[k]].made
  <2>1. f[j] \in 1..(n - 1) /\ f[k] \in 1..(n - 1) /\ old[f[j]] = j /\ old[f[k]] = k
    BY <1>15, <1>16, <1>19
  <2> QED
    BY <1>7, <1>8, <1>9, <2>1
<1>20. Changed(Range(visits), Range(t), c)
  BY <1>14, <1>17, <1>18, <1>19, ChangedIs DEF n
<1> QED
  BY <1>14, <1>20 DEF D, t, c

-----------------------------------------------------------------------------
(* Pages *)

\* Counting pages: every place has its page, and every page a place.
LEMMA PageNumbers ==
  ASSUME NEW n \in Nat, NEW s \in Nat \ {0}, s = DinesPageSize
  PROVE  /\ Pages(n) \in Nat \ {0}
         /\ \A p \in 0..(n - 1) : /\ p \div s + 1 \in 1..Pages(n)
                                  /\ (p \div s) * s <= p /\ p < (p \div s) * s + s
         /\ \A k \in 1..Pages(n) : n # 0 => (k - 1) * s < n
         /\ \A k, l \in Nat : k < l => k * s + s <= l * s
<1> DEFINE m == (n + s - 1) \div s
<1>1. m \in Nat /\ m * s <= n + s - 1 /\ n + s - 1 < m * s + s
  <2>1. n + s - 1 \in Nat
    OBVIOUS
  <2> QED
    BY <2>1, Quotient
<1>2. Pages(n) = IF 1 >= m THEN 1 ELSE m
  BY <1>1, MaxOfTwo DEF Pages
<1> HIDE DEF m
<1>3. ASSUME NEW k \in Nat, NEW l \in Nat, k < l PROVE k * s + s <= l * s
  <2>1. PICK i \in Nat : l = k + 1 + i
    <3>1. l - k - 1 \in Nat /\ l = k + 1 + (l - k - 1)
      BY <1>3
    <3> QED
      BY <3>1
  <2>2. l * s = k * s + s + i * s /\ i * s \in Nat
    BY <2>1
  <2> QED
    BY <2>2
<1>4. ASSUME NEW p \in 0..(n - 1)
      PROVE  p \div s + 1 \in 1..Pages(n) /\ (p \div s) * s <= p /\ p < (p \div s) * s + s
  <2> DEFINE q == p \div s
  <2>1. q \in Nat /\ q * s <= p /\ p < q * s + s
    BY Quotient
  <2> HIDE DEF q
  <2>2. q < m
    <3>1. CASE m < q
      BY <1>1, <1>3, <2>1, <3>1
    <3>2. CASE m = q
      BY <1>1, <2>1, <3>2
    <3> QED
      BY <1>1, <2>1, <3>1, <3>2
  <2> QED
    BY <1>1, <1>2, <2>1, <2>2 DEF q
<1>5. ASSUME NEW k \in 1..Pages(n), n # 0 PROVE (k - 1) * s < n
  <2>1. CASE k = 1
    BY <1>5, <2>1
  <2>2. CASE k # 1
    <3>1. k <= m /\ k - 1 \in Nat /\ k \in Nat
      BY <1>1, <1>2, <2>2
    <3>2. (k - 1) * s + s <= m * s
      <4>1. k - 1 < m
        BY <1>1, <3>1
      <4> QED
        BY <1>1, <1>3, <3>1, <4>1
    <3> QED
      BY <1>1, <3>1, <3>2
  <2> QED
    BY <2>1, <2>2
<1> QED
  BY <1>1, <1>2, <1>3, <1>4, <1>5

\* PageOf covers the places from its offset on.
LEMMA PageOfCovers ==
  ASSUME Keyed(D), NEW params, NEW k \in Nat \ {0}
  PROVE  LET M == {d \in D : VisitFilterSQL(d, ReadFilter(params).filter)}
         IN /\ Keyed(M) /\ (k - 1) * DinesPageSize \in Nat
            /\ Covers(PageOf(params, k), M, DinesPageSize, (k - 1) * DinesPageSize)
<1>1. DinesPageSize \in Nat \ {0} /\ k - 1 \in Nat
  BY HistoryAssumption
<1>2. (k - 1) * DinesPageSize \in Nat
  BY <1>1
<1> QED
  BY <1>1, <1>2, PageIs DEF PageOf

\* The pages of any filter, one after the other, are what matches it.
LEMMA PagesAre ==
  ASSUME Stored(visits)
  PROVE  PagesPartition
<1> SUFFICES ASSUME NEW params \in Params
    PROVE  LET matching == {d \in D : VisitFilterSQL(d, ReadFilter(params).filter)}
               pages == [k \in 1..Pages(Cardinality(matching)) |-> PageOf(params, k)]
           IN /\ UNION {Range(pages[k]) : k \in DOMAIN pages} = matching
              /\ matching # {} => \A k \in DOMAIN pages : pages[k] # <<>>
              /\ \A k, l \in DOMAIN pages : \A i \in DOMAIN pages[k], j \in DOMAIN pages[l] :
                    k < l \/ (k = l /\ i < j) => NewestFirst(pages[k][i], pages[l][j])
  BY DEF PagesPartition
<1> DEFINE M == {d \in D : VisitFilterSQL(d, ReadFilter(params).filter)}
           n == Cardinality(M)
           s == DinesPageSize
           page == [k \in 1..Pages(n) |-> PageOf(params, k)]
           place == [d \in M |-> Cardinality(Ahead(M, d))]
<1>1. Keyed(D) /\ s \in Nat \ {0}
  BY StoredKeyed, HistoryAssumption DEF D
<1>2. Keyed(M)
  BY <1>1, PageOfCovers
<1>3. \A k \in Nat \ {0} : (k - 1) * s \in Nat /\ Covers(PageOf(params, k), M, s, (k - 1) * s)
  BY <1>1, PageOfCovers
<1> HIDE DEF M
<1>4. /\ n \in Nat
      /\ \A d \in M : place[d] \in 0..(n - 1)
      /\ \A d, e \in M : NewestFirst(d, e) <=> place[d] < place[e]
  BY <1>2, PlaceOf
<1>5. n # 0 <=> M # {}
  BY <1>2, FS_EmptySet DEF Keyed
<1> HIDE DEF n, s
<1>6. /\ Pages(n) \in Nat \ {0}
      /\ \A p \in 0..(n - 1) : /\ p \div s + 1 \in 1..Pages(n)
                               /\ (p \div s) * s <= p /\ p < (p \div s) * s + s
      /\ \A k \in 1..Pages(n) : n # 0 => (k - 1) * s < n
      /\ \A k, l \in Nat : k < l => k * s + s <= l * s
  BY <1>1, <1>4, PageNumbers DEF s
<1>7. ASSUME NEW k \in DOMAIN page
      PROVE  /\ k \in Nat \ {0} /\ k \in 1..Pages(n)
             /\ (k - 1) * s \in Nat /\ DOMAIN page[k] = 1..Len(page[k])
             /\ Covers(page[k], M, s, (k - 1) * s)
             /\ \A i \in DOMAIN page[k] : /\ i \in 1..s /\ page[k][i] \in M
                                          /\ place[page[k][i]] = (k - 1) * s + i - 1
  <2>1. k \in 1..Pages(n) /\ k \in Nat \ {0} /\ page[k] = PageOf(params, k)
    BY <1>6
  <2> HIDE DEF page
  <2>2. (k - 1) * s \in Nat /\ Covers(page[k], M, s, (k - 1) * s)
    BY <1>3, <2>1
  <2>3. page[k] \in Seq(M) /\ Len(page[k]) \in 0..s
    <3> DEFINE o == (k - 1) * s
    <3> HIDE DEF o
    <3>1. o \in Nat /\ Covers(page[k], M, s, o)
      BY <2>2 DEF o
    <3> QED
      BY <1>1, <1>4, <3>1 DEF Covers, n
  <2>4. \A i \in 1..Len(page[k]) : 
         page[k][i] \in M /\ Cardinality(Ahead(M, page[k][i])) = (k - 1) * s + i - 1
    BY <2>2 DEF Covers
  <2>5. DOMAIN page[k] = 1..Len(page[k])
    BY <2>3
  <2> QED
    BY <1>1, <2>1, <2>2, <2>3, <2>4, <2>5
<1> HIDE DEF page
<1>8. DOMAIN page = 1..Pages(n)
  BY DEF page
<1>9. UNION {Range(page[k]) : k \in DOMAIN page} = M
  <2>1. ASSUME NEW k \in DOMAIN page, NEW x \in Range(page[k]) PROVE x \in M
    BY <1>7 DEF Range
  <2>2. ASSUME NEW d \in M PROVE \E k \in DOMAIN page : d \in Range(page[k])
    <3> DEFINE k == place[d] \div s + 1
               o == (place[d] \div s) * s
    <3>1. place[d] \in 0..(n - 1) /\ place[d] = Cardinality(Ahead(M, d))
      BY <1>4
    <3>2. k \in 1..Pages(n) /\ k \in DOMAIN page /\ o <= place[d] /\ place[d] < o + s
      BY <1>6, <1>8, <3>1
    <3>3. (k - 1) * s = o
      <4>1. place[d] \div s \in Nat
        BY <1>1, <3>1, Quotient
      <4>2. k - 1 = place[d] \div s
        BY <4>1
      <4> QED
        BY <4>2
    <3> HIDE DEF k, o
    <3>4. o \in Nat /\ Covers(page[k], M, s, o) /\ DOMAIN page[k] = 1..Len(page[k])
      BY <1>7, <3>2, <3>3
    <3>5. \E i \in 1..Len(page[k]) : page[k][i] = d
      BY <1>1, <1>2, <3>1, <3>2, <3>4, PageHolds
    <3> QED
      BY <3>2, <3>4, <3>5 DEF Range
  <2> QED
    BY <2>1, <2>2
<1>10. ASSUME n # 0, NEW k \in DOMAIN page PROVE page[k] # <<>>
  <2> DEFINE o == (k - 1) * s
  <2>1. o \in Nat /\ o < n /\ Covers(page[k], M, s, o)
    BY <1>6, <1>7, <1>10
  <2> HIDE DEF o
  <2>2. Len(page[k]) # 0
    BY <1>1, <1>4, <2>1 DEF Covers, n
  <2> QED
    BY <2>2
<1>11. ASSUME NEW k \in DOMAIN page, NEW l \in DOMAIN page,
              NEW i \in DOMAIN page[k], NEW j \in DOMAIN page[l], k < l \/ (k = l /\ i < j)
       PROVE  NewestFirst(page[k][i], page[l][j])
  <2> DEFINE a == (k - 1) * s
             b == (l - 1) * s
  <2>1. /\ a \in Nat /\ i \in 1..s /\ page[k][i] \in M /\ place[page[k][i]] = a + i - 1
        /\ b \in Nat /\ j \in 1..s /\ page[l][j] \in M /\ place[page[l][j]] = b + j - 1
    BY <1>7
  <2>2. k < l => a + s <= b
    <3>1. k - 1 \in Nat /\ l - 1 \in Nat /\ (k < l => k - 1 < l - 1)
      BY <1>7
    <3> QED
      BY <1>6, <3>1
  <2>3. k = l => a = b
    OBVIOUS
  <2> HIDE DEF a, b
  <2>4. place[page[k][i]] < place[page[l][j]]
    BY <1>1, <1>11, <2>1, <2>2, <2>3
  <2> QED
    BY <1>4, <2>1, <2>4
<1> QED
  BY <1>5, <1>9, <1>10, <1>11 DEF page, n, M

-----------------------------------------------------------------------------
(* The request and the link *)

\* The dine with this id is at most writes places off the page.
Near(S, id, page, writes) ==
    \E d \in S :
        /\ d.id = id
        /\ Cardinality(Ahead(S, d)) >= (page - 1) * DinesPageSize - writes
        /\ Cardinality(Ahead(S, d)) < (page - 1) * DinesPageSize + DinesPageSize + writes

\* A change of another dine takes a link's dine at most one place further off.
LEMMA NearChanged ==
  ASSUME NEW S, NEW T, Keyed(S), Keyed(T), NEW c, Changed(S, T, c),
         NEW id, id # c, NEW page \in Nat \ {0}, NEW writes \in Nat, Near(S, id, page, writes)
  PROVE  Near(T, id, page, writes + 1)
<1> DEFINE first == (page - 1) * DinesPageSize
<1>1. first \in Nat /\ DinesPageSize \in Nat
  BY HistoryAssumption
<1>2. PICK d \in S : /\ d.id = id
                     /\ Cardinality(Ahead(S, d)) >= first - writes
                     /\ Cardinality(Ahead(S, d)) < first + DinesPageSize + writes
  BY DEF Near
<1>3. PICK e \in T : d.id = e.id
  BY <1>2 DEF Changed, Alike
<1>4. /\ Cardinality(Ahead(S, d)) \in Nat /\ Cardinality(Ahead(T, e)) \in Nat
      /\ Cardinality(Ahead(T, e)) - 1 <= Cardinality(Ahead(S, d))
      /\ Cardinality(Ahead(S, d)) <= Cardinality(Ahead(T, e)) + 1
  BY <1>2, <1>3, ChangedPlaces
<1> HIDE DEF first
<1>5. /\ Cardinality(Ahead(T, e)) >= first - (writes + 1)
      /\ Cardinality(Ahead(T, e)) < first + DinesPageSize + (writes + 1)
  BY <1>1, <1>2, <1>4
<1> QED
  BY <1>2, <1>3, <1>5 DEF Near, first

\* A link made from a position names the page the position is on.
LEMMA PositionNear ==
  ASSUME Stored(visits), NEW id, NEW position, position = VisitPosition(D, id), position # None
  PROVE  PageAt(position) \in Nat \ {0} /\ Near(D, id, PageAt(position), 0)
<1> DEFINE s == DinesPageSize
           q == position \div s
           t == CHOOSE t \in D : t.id = id
<1>1. \E d \in D : d.id = id
  BY DEF VisitPosition
<1>2. t \in D /\ t.id = id
  BY <1>1
<1>3. position = Cardinality({v \in D : \/ v.at > t.at
                                        \/ v.at = t.at /\ v.made > t.made
                                        \/ v.at = t.at /\ v.made = t.made /\ v.id < t.id})
  BY <1>1 DEF VisitPosition
<1>4. Keyed(D)
  BY StoredKeyed DEF D
<1> HIDE DEF t
<1>5. Ahead(D, t) = {v \in D : \/ v.at > t.at
                               \/ v.at = t.at /\ v.made > t.made
                               \/ v.at = t.at /\ v.made = t.made /\ v.id < t.id}
  <2>1. \A v \in D : NewestFirst(v, t) <=> \/ v.at > t.at
                                           \/ v.at = t.at /\ v.made > t.made
                                           \/ v.at = t.at /\ v.made = t.made /\ v.id < t.id
    BY <1>2, <1>4, NewestFirstIs DEF Keyed
  <2> QED
    BY <2>1 DEF Ahead
<1>6. position = Cardinality(Ahead(D, t)) /\ position \in Nat
  <2>1. position = Cardinality(Ahead(D, t))
    BY <1>3, <1>5
  <2>2. Cardinality(Ahead(D, t)) \in 0..(Cardinality(D) - 1)
    BY <1>2, <1>4, PlaceOf
  <2> QED
    BY <2>1, <2>2
<1>7. s \in Nat \ {0}
  BY HistoryAssumption
<1>8. q \in Nat /\ q * s <= position /\ position < q * s + s
  BY <1>6, <1>7, Quotient
<1>9. PageAt(position) = q + 1
  BY DEF PageAt
<1> HIDE DEF q
<1>10. (PageAt(position) - 1) * s = q * s
  BY <1>8, <1>9
<1> DEFINE first == q * s
<1>11. first \in Nat /\ first <= position /\ position < first + s
  BY <1>7, <1>8
<1> HIDE DEF first
<1>12. position >= first - 0 /\ position < first + s + 0
  BY <1>6, <1>7, <1>11
<1> QED
  BY <1>2, <1>6, <1>8, <1>9, <1>10, <1>12 DEF Near, first

\* Text that is there is not NULL in any case.
LEMMA FoldIs ==
  /\ Fold(0) = 0
  /\ \A v \in Text : v \in Nat /\ v # 0 /\ Fold(v) \in Nat /\ Fold(v) # 0
  /\ Fold(EverybodyValue) # 0
BY HistoryAssumption DEF Fold

\* A restaurant's name, in byte order and in the collation.
LEMMA NamesAre ==
  \A r \in Restaurants : Name[r] \in Nat /\ Bytes[Name[r]] = Name[r] /\ Collated[Name[r]] \in Int
BY HistoryAssumption DEF Bytes

\* So are the ranks of the other texts.
LEMMA ColumnsAre ==
  /\ Category \in [Restaurants -> Text \cup {0}] /\ City \in [Restaurants -> Text \cup {0}]
  /\ Category \in [Restaurants -> Nat] /\ City \in [Restaurants -> Nat]
<1>1. {Category, City} \subseteq [Restaurants -> Text \cup {0}] /\ Text \subseteq Nat
  BY HistoryAssumption
<1>2. Category \in [Restaurants -> Text \cup {0}] /\ City \in [Restaurants -> Text \cup {0}]
  BY <1>1
<1>3. Text \cup {0} \subseteq Nat
  BY <1>1
<1> QED
  BY <1>2, <1>3

\* No filter: every dine matches.
LEMMA Unfiltered ==
  /\ ReadFilter(NoParams).matchable
  /\ \A d : VisitFilterSQL(d, ReadFilter(NoParams).filter)
  /\ CountVisits(D, ReadFilter(NoParams).filter) = Cardinality(D)
<1> DEFINE filter == ReadFilter(NoParams).filter
<1>1. Fold(0) = 0 /\ Fold(EverybodyValue) # 0
  BY FoldIs
<1>2. /\ NoParams.picker = 0 /\ NoParams.rater = 0 /\ NoParams.tag = 0
      /\ NoParams.cuisine = 0 /\ NoParams.city = 0 /\ NoParams.year = 0
  BY DEF NoParams
<1>3. /\ ReadFilter(NoParams).matchable
      /\ filter.cuisine = 0 /\ filter.everybody = FALSE /\ filter.picker = None
      /\ filter.rater = None /\ filter.tag = None /\ filter.city = 0 /\ filter.year = 0
  BY <1>1, <1>2 DEF ReadFilter
<1> HIDE DEF filter
<1>4. ASSUME NEW d PROVE VisitFilterSQL(d, filter)
  BY <1>3 DEF VisitFilterSQL
<1>5. {d \in D : VisitFilterSQL(d, filter)} = D
  BY <1>4
<1> QED
  BY <1>3, <1>4, <1>5 DEF CountVisits, filter

\* A dine on a page of the unfiltered list is found there.
LEMMA NearFound ==
  ASSUME Stored(visits), NEW id, NEW page \in Nat \ {0}, Near(D, id, page, 0)
  PROVE  /\ Cardinality(D) \in Nat \ {0} /\ page <= Pages(Cardinality(D))
         /\ \E d \in D : d.id = id /\ d \in Range(PageOf(NoParams, page))
<1> DEFINE s == DinesPageSize
           n == Cardinality(D)
           first == (page - 1) * s
           shown == PageOf(NoParams, page)
<1>1. Keyed(D) /\ n \in Nat /\ s \in Nat \ {0} /\ first \in Nat
  BY StoredKeyed, HistoryAssumption DEF D
<1>2. PICK d \in D : /\ d.id = id
                     /\ Cardinality(Ahead(D, d)) >= first - 0
                     /\ Cardinality(Ahead(D, d)) < first + s + 0
  BY DEF Near
<1> DEFINE p == Cardinality(Ahead(D, d))
<1>3. p \in 0..(n - 1)
  BY <1>1, PlaceOf
<1>4. p >= first /\ p < first + s
  BY <1>1, <1>2, <1>3
<1>5. Covers(shown, D, s, first)
  <2>1. {e \in D : VisitFilterSQL(e, ReadFilter(NoParams).filter)} = D
    BY Unfiltered
  <2> QED
    BY <1>1, <2>1, PageOfCovers
<1> HIDE DEF first, shown, p, n
<1>6. \E i \in 1..Len(shown) : shown[i] = d
  BY <1>1, <1>4, <1>5, PageHolds DEF p
<1>7. d \in Range(shown)
  BY <1>5, <1>6 DEF Covers, Range
<1>8. page <= Pages(n)
  <2> DEFINE q == p \div s
  <2>1. q + 1 \in 1..Pages(n) /\ q * s <= p /\ p < q * s + s
    BY <1>1, <1>3, PageNumbers
  <2>2. Pages(n) \in Nat /\ q \in Nat
    <3>1. p \in Nat
      BY <1>1, <1>3
    <3>2. q \in Nat
      BY <1>1, <3>1, Quotient
    <3>3. Pages(n) \in Nat
      BY <1>1, PageNumbers
    <3> QED
      BY <3>2, <3>3
  <2> HIDE DEF q
  <2>3. ~(q < page - 1)
    <3>1. ASSUME q < page - 1 PROVE FALSE
      <4>1. page - 1 \in Nat
        OBVIOUS
      <4>2. q * s + s <= (page - 1) * s
        BY <1>1, <2>2, <3>1, <4>1, PageNumbers
      <4>3. q * s \in Nat
        BY <1>1, <2>2
      <4> QED
        BY <1>1, <1>3, <1>4, <2>1, <4>2, <4>3 DEF first
    <3> QED
      BY <3>1
  <2> QED
    BY <2>1, <2>2, <2>3
<1> QED
  BY <1>1, <1>2, <1>3, <1>7, <1>8 DEF shown, n

\* A page is as long as a count leaves for it that is at most writes off.
LEMMA PageCounted ==
  ASSUME Keyed(D), NEW params, NEW page \in Nat \ {0}, NEW matched \in Nat, NEW writes \in Nat,
         CountVisits(D, ReadFilter(params).filter) - writes <= matched,
         matched <= CountVisits(D, ReadFilter(params).filter) + writes
  PROVE  LET left == Max({0, matched - (page - 1) * DinesPageSize})
             due == Min({left, DinesPageSize})
         IN /\ Len(PageOf(params, page)) \in (due - writes)..(due + writes)
            /\ Len(PageOf(params, page)) <= DinesPageSize
            /\ \A d \in Range(PageOf(params, page)) : VisitFilterSQL(d, ReadFilter(params).filter)
<1> DEFINE M == {d \in D : VisitFilterSQL(d, ReadFilter(params).filter)}
           n == Cardinality(M)
           s == DinesPageSize
           first == (page - 1) * s
           shown == PageOf(params, page)
           left == Max({0, matched - first})
           due == Min({left, s})
<1>1. s \in Nat \ {0} /\ first \in Nat /\ Keyed(M) /\ Covers(shown, M, s, first)
  <2>1. s \in Nat \ {0}
    BY HistoryAssumption
  <2>2. first \in Nat /\ Keyed(M) /\ Covers(shown, M, s, first)
    BY PageOfCovers
  <2> QED
    BY <2>1, <2>2
<1>2. CountVisits(D, ReadFilter(params).filter) = n
  BY DEF CountVisits
<1>3. n \in Nat
  BY <1>1, FS_CardinalityType DEF Keyed
<1> HIDE DEF M
<1>4. /\ DOMAIN shown = 1..Len(shown)
      /\ \A i \in 1..Len(shown) : shown[i] \in M
      /\ Len(shown) = IF first >= n THEN 0 ELSE IF first + s <= n THEN s ELSE n - first
  BY <1>1 DEF Covers
<1>5. \A d \in Range(shown) : VisitFilterSQL(d, ReadFilter(params).filter)
  BY <1>4 DEF Range, M
<1> HIDE DEF first, shown, n
<1>6. left = IF 0 >= matched - first THEN 0 ELSE matched - first
  BY <1>1, MaxOfTwo
<1> HIDE DEF left
<1>7. left \in Int
  BY <1>1, <1>6
<1>8. due = IF left <= s THEN left ELSE s
  BY <1>1, <1>7, MinOfTwo
<1> HIDE DEF due
<1>9. Len(shown) \in (due - writes)..(due + writes) /\ Len(shown) <= s
  BY <1>1, <1>2, <1>3, <1>4, <1>6, <1>8
<1> QED
  BY <1>5, <1>9 DEF due, left, shown, first

-----------------------------------------------------------------------------
(* The inductive invariant *)

\* Between requests nothing is pending; only an answer shows dines.
Requests ==
    /\ DOMAIN request = DOMAIN Idle
    /\ request.step \in {"idle", "position", "count", "match", "list", "shown", "notfound"}
    /\ request.page \in Nat \ {0} /\ request.matched \in 0..MaxDines
    /\ request.dine \in Ids \cup {None} /\ request.writes \in 0..MaxWrites
    /\ request.step # "shown" => request.shown = <<>>
    /\ Len(request.shown) <= DinesPageSize

\* What was counted for a page is off by at most one per change since.
CountedFor ==
    /\ request.step = "list" =>
          LET n == CountVisits(D, ReadFilter(request.params).filter)
          IN n - request.writes <= request.matched /\ request.matched <= n + request.writes
    /\ PageAsCounted

\* A link's page is near its dine from the moment it is made until it is
\* answered, and an answer that nobody came between shows it.
Linked ==
    request.dine # None /\ request.step \notin {"idle", "position"} =>
        /\ request.params = NoParams
        /\ Near(D, request.dine, request.page, request.writes)
        /\ request.step \in {"shown", "notfound"} /\ request.writes = 0 =>
              \E d \in D : d.id = request.dine /\ d \in Range(request.shown)

IInv == Stored(visits) /\ Requests /\ CountedFor /\ Linked

\* Nothing is asked at first, and no dine is stored.
LEMMA InitHolds ==
  ASSUME Init
  PROVE  IInv
<1>1. visits = <<>> /\ request = Idle
  BY DEF Init
<1>2. Stored(visits)
  BY <1>1 DEF Stored
<1>3. MaxDines \in Nat /\ MaxWrites \in Nat /\ DinesPageSize \in Nat
  BY HistoryAssumption
<1>4. Requests
  BY <1>1, <1>3 DEF Requests, Idle
<1>5. CountedFor
  BY <1>1 DEF CountedFor, PageAsCounted, Idle
<1>6. Linked
  BY <1>1 DEF Linked, Idle
<1> QED
  BY <1>2, <1>4, <1>5, <1>6 DEF IInv

\* A request for a page starts with nothing counted or linked.
LEMMA AskKeeps ==
  ASSUME IInv, NEW params, NEW page \in 1..2, Ask(params, page)
  PROVE  IInv'
<1>1. /\ request'.step = "count" /\ request'.params = params /\ request'.page = page
      /\ request'.matched = 0 /\ request'.dine = None /\ request'.writes = 0
      /\ request'.shown = <<>> /\ DOMAIN request' = DOMAIN Idle /\ visits' = visits
  BY DEF Ask, Idle
<1>2. MaxDines \in Nat /\ MaxWrites \in Nat /\ DinesPageSize \in Nat
  BY HistoryAssumption
<1>3. Stored(visits)'
  BY <1>1 DEF IInv
<1>4. Requests'
  BY <1>1, <1>2 DEF Requests, Idle
<1>5. CountedFor'
  BY <1>1 DEF CountedFor, PageAsCounted
<1>6. Linked'
  BY <1>1 DEF Linked
<1> QED
  BY <1>3, <1>4, <1>5, <1>6 DEF IInv

\* An answered request leaves nothing behind.
LEMMA AnsweredKeeps ==
  ASSUME IInv, Answered
  PROVE  IInv'
<1>1. request' = Idle /\ visits' = visits
  BY DEF Answered
<1>2. MaxDines \in Nat /\ MaxWrites \in Nat /\ DinesPageSize \in Nat
  BY HistoryAssumption
<1>3. Stored(visits)'
  BY <1>1 DEF IInv
<1>4. Requests'
  BY <1>1, <1>2 DEF Requests, Idle
<1>5. CountedFor'
  BY <1>1 DEF CountedFor, PageAsCounted, Idle
<1>6. Linked'
  BY <1>1 DEF Linked, Idle
<1> QED
  BY <1>3, <1>4, <1>5, <1>6 DEF IInv

\* A count of the matching dines lets the page be listed, or answers.
LEMMA MatchedKeeps ==
  ASSUME IInv, request.step \in {"count", "match"}, UNCHANGED visits, NEW matched, Matched(matched),
         \/ matched = CountVisits(D, ReadFilter(request.params).filter)
         \/ matched = 0 /\ ~ReadFilter(request.params).matchable
  PROVE  IInv'
<1> DEFINE n == CountVisits(D, ReadFilter(request.params).filter)
<1>1. /\ DOMAIN request = DOMAIN Idle /\ Stored(visits) /\ Keyed(D)
      /\ Cardinality(D) \in 0..MaxDines /\ request.page \in Nat \ {0}
      /\ MaxDines \in Nat /\ DinesPageSize \in Nat \ {0} /\ request.shown = <<>>
      /\ request.writes \in Nat
  <2>1. MaxDines \in Nat /\ DinesPageSize \in Nat \ {0}
    BY HistoryAssumption
  <2> QED
    BY <2>1, StoredKeyed DEF IInv, Requests, D
<1>2. n \in 0..MaxDines
  <2>1. n = Cardinality({d \in D : VisitFilterSQL(d, ReadFilter(request.params).filter)})
    BY DEF CountVisits
  <2>2. {d \in D : VisitFilterSQL(d, ReadFilter(request.params).filter)} \in SUBSET D
    OBVIOUS
  <2> QED
    BY <1>1, <2>1, <2>2, FS_Subset, FS_CardinalityType DEF Keyed
<1>3. matched \in 0..MaxDines
  BY <1>1, <1>2
<1>4. /\ request'.step = IF request.page > Pages(matched) THEN "notfound"
                         ELSE IF matched > 0 THEN "list" ELSE "shown"
      /\ request'.matched = matched /\ request'.params = request.params
      /\ request'.page = request.page /\ request'.dine = request.dine
      /\ request'.writes = request.writes /\ request'.shown = <<>>
      /\ DOMAIN request' = DOMAIN Idle
  BY <1>1 DEF Matched, Idle
<1>5. Stored(visits)' /\ D' = D
  BY <1>1 DEF D
<1>6. Requests'
  BY <1>1, <1>3, <1>4 DEF IInv, Requests
<1>7. CountedFor'
  <2>1. CASE request'.step = "list"
    <3>1. matched = n
      <4>1. matched # 0
        BY <1>3, <1>4, <2>1
      <4> QED
        BY <4>1
    <3>2. PageAsCounted'
      BY <2>1 DEF PageAsCounted
    <3> QED
      BY <1>1, <1>2, <1>4, <1>5, <3>1, <3>2 DEF CountedFor
  <2>2. CASE request'.step = "shown"
    <3> DEFINE first == (request.page - 1) * DinesPageSize
    <3>1. matched = 0 /\ first \in Nat
      BY <1>1, <1>3, <1>4, <2>2
    <3> HIDE DEF first
    <3>2. Max({0, matched - first}) = 0
      BY <3>1, MaxOfTwo
    <3>3. Min({0, DinesPageSize}) = 0
      BY <1>1, MinOfTwo
    <3>4. Max({0, request'.matched - (request'.page - 1) * DinesPageSize}) = 0
      BY <1>4, <3>2 DEF first
    <3>5. /\ Len(request'.shown) = 0 /\ Range(request'.shown) = {}
      BY <1>4 DEF Range
    <3>6. 0 \in (0 - request'.writes)..(0 + request'.writes)
      BY <1>1, <1>4
    <3>7. PageAsCounted'
      BY <3>3, <3>4, <3>5, <3>6 DEF PageAsCounted
    <3> QED
      BY <2>2, <3>7 DEF CountedFor
  <2>3. CASE request'.step \notin {"list", "shown"}
    BY <2>3 DEF CountedFor, PageAsCounted
  <2> QED
    BY <2>1, <2>2, <2>3
<1>8. Linked'
  <2> SUFFICES ASSUME request.dine # None
               PROVE  /\ request.params = NoParams
                      /\ Near(D, request.dine, request.page, request.writes)
                      /\ request.writes = 0 => request'.step = "list"
    BY <1>4, <1>5 DEF Linked
  <2>1. /\ request.params = NoParams
        /\ Near(D, request.dine, request.page, request.writes)
    BY DEF IInv, Linked
  <2>2. ASSUME request.writes = 0 PROVE request'.step = "list"
    <3>1. Cardinality(D) \in Nat \ {0} /\ request.page <= Pages(Cardinality(D))
      BY <1>1, <2>1, <2>2, NearFound
    <3>2. matched = Cardinality(D)
      BY <2>1, Unfiltered
    <3>3. Pages(matched) \in Nat
      BY <1>1, <3>1, <3>2, PageNumbers
    <3> QED
      BY <1>1, <1>4, <3>1, <3>2, <3>3
  <2> QED
    BY <2>1, <2>2
<1> QED
  BY <1>5, <1>6, <1>7, <1>8 DEF IInv

\* Without a filter all dines are counted, and with one that names nobody none.
LEMMA CountAllKeeps ==
  ASSUME IInv, CountAll
  PROVE  IInv'
<1>1. CASE ~ReadFilter(request.params).matchable
  BY <1>1, MatchedKeeps DEF CountAll
<1>2. CASE ReadFilter(request.params).matchable /\ request.params = NoParams
  BY <1>2, MatchedKeeps DEF CountAll
<1>3. CASE ReadFilter(request.params).matchable /\ request.params # NoParams
  <2>1. request' = [request EXCEPT !.step = "match"] /\ visits' = visits /\ request.step = "count"
    BY <1>3 DEF CountAll
  <2>2. DOMAIN request = DOMAIN Idle
    BY DEF IInv, Requests
  <2>3. /\ request'.step = "match"
        /\ request'.matched = request.matched /\ request'.params = request.params
        /\ request'.page = request.page /\ request'.dine = request.dine
        /\ request'.writes = request.writes /\ request'.shown = request.shown
        /\ DOMAIN request' = DOMAIN Idle
    BY <2>1, <2>2 DEF Idle
  <2>4. Stored(visits)' /\ D' = D
    BY <2>1 DEF IInv, D
  <2>5. Requests'
    BY <2>1, <2>3 DEF IInv, Requests
  <2>6. CountedFor'
    BY <2>3 DEF CountedFor, PageAsCounted
  <2>7. Linked'
    BY <2>1, <2>3, <2>4 DEF IInv, Linked
  <2> QED
    BY <2>4, <2>5, <2>6, <2>7 DEF IInv
<1> QED
  BY <1>1, <1>2, <1>3

\* With a filter what matches is counted.
LEMMA CountMatchedKeeps ==
  ASSUME IInv, CountMatched
  PROVE  IInv'
BY MatchedKeeps DEF CountMatched

\* The page is as long as its count leaves for it, and shows a link's dine.
LEMMA ListPageKeeps ==
  ASSUME IInv, ListPage
  PROVE  IInv'
<1>1. /\ request' = [request EXCEPT !.step = "shown", !.shown = PageOf(request.params, request.page)]
      /\ visits' = visits /\ request.step = "list"
  BY DEF ListPage
<1>2. DOMAIN request = DOMAIN Idle
  BY DEF IInv, Requests
<1>3. /\ request'.step = "shown"
      /\ request'.matched = request.matched /\ request'.params = request.params
      /\ request'.page = request.page /\ request'.dine = request.dine
      /\ request'.writes = request.writes
      /\ request'.shown = PageOf(request.params, request.page)
      /\ DOMAIN request' = DOMAIN Idle
  BY <1>1, <1>2 DEF Idle
<1>4. Stored(visits)' /\ D' = D
  BY <1>1 DEF IInv, D
<1>5. /\ Keyed(D) /\ request.page \in Nat \ {0} /\ request.matched \in Nat /\ request.writes \in Nat
  BY StoredKeyed, HistoryAssumption DEF IInv, Requests, D
<1>6. LET left == Max({0, request.matched - (request.page - 1) * DinesPageSize})
          due == Min({left, DinesPageSize})
          shown == PageOf(request.params, request.page)
      IN /\ Len(shown) \in (due - request.writes)..(due + request.writes)
         /\ Len(shown) <= DinesPageSize
         /\ \A d \in Range(shown) : VisitFilterSQL(d, ReadFilter(request.params).filter)
  <2>1. LET n == CountVisits(D, ReadFilter(request.params).filter)
        IN n - request.writes <= request.matched /\ request.matched <= n + request.writes
    BY <1>1 DEF IInv, CountedFor
  <2> QED
    BY <1>5, <2>1, PageCounted
<1>7. Requests'
  BY <1>3, <1>6 DEF IInv, Requests
<1>8. CountedFor'
  BY <1>3, <1>6 DEF CountedFor, PageAsCounted
<1>9. Linked'
  <2> SUFFICES ASSUME request.dine # None
               PROVE  /\ request.params = NoParams
                      /\ Near(D, request.dine, request.page, request.writes)
                      /\ request.writes = 0 =>
                            \E d \in D : /\ d.id = request.dine
                                         /\ d \in Range(PageOf(request.params, request.page))
    BY <1>3, <1>4 DEF Linked
  <2>1. /\ request.params = NoParams
        /\ Near(D, request.dine, request.page, request.writes)
    BY <1>1 DEF IInv, Linked
  <2>2. Stored(visits)
    BY DEF IInv
  <2> QED
    BY <1>5, <2>1, <2>2, NearFound
<1> QED
  BY <1>4, <1>7, <1>8, <1>9 DEF IInv

\* A link's page is the one its dine is on when the position is read.
LEMMA ReadPositionKeeps ==
  ASSUME IInv, ReadPosition
  PROVE  IInv'
<1>1. PICK position \in {VisitPosition(D, request.dine), None} :
         request' = [Idle EXCEPT
             !.step = "count",
             !.dine = IF position = None THEN None ELSE request.dine,
             !.page = IF position = None THEN 1 ELSE PageAt(position)]
  BY DEF ReadPosition
<1>2. visits' = visits
  BY DEF ReadPosition
<1>3. /\ request'.step = "count" /\ request'.params = NoParams
      /\ request'.page = IF position = None THEN 1 ELSE PageAt(position)
      /\ request'.matched = 0 /\ request'.writes = 0 /\ request'.shown = <<>>
      /\ request'.dine = IF position = None THEN None ELSE request.dine
      /\ DOMAIN request' = DOMAIN Idle
  BY <1>1 DEF Idle
<1>4. MaxDines \in Nat /\ MaxWrites \in Nat /\ DinesPageSize \in Nat
  BY HistoryAssumption
<1>5. Stored(visits) /\ Stored(visits)' /\ D' = D
  BY <1>2 DEF IInv, D
<1>6. position # None =>
         PageAt(position) \in Nat \ {0} /\ Near(D, request.dine, PageAt(position), 0)
  BY <1>5, PositionNear
<1>7. Requests'
  BY <1>3, <1>4, <1>6 DEF IInv, Requests
<1>8. CountedFor'
  BY <1>3 DEF CountedFor, PageAsCounted
<1>9. Linked'
  BY <1>3, <1>5, <1>6 DEF Linked
<1> QED
  BY <1>5, <1>7, <1>8, <1>9 DEF IInv

\* A save links the dine it saved.
LEMMA SaveKeeps ==
  ASSUME IInv, Save
  PROVE  IInv'
<1>1. PICK id \in Ids :
         Stored(visits)' /\ request' = [Idle EXCEPT !.step = "position", !.dine = id]
  <2>1. Stored(visits)
    BY DEF IInv
  <2>2. ASSUME NEW id \in Ids \ {d.id : d \in D}, NEW form \in Forms, NEW newer \in {0, 1},
               visits' = Logged(id, form, newer)
        PROVE  Stored(visits)'
    BY <2>1, <2>2, LoggedStored DEF IdsOf
  <2>3. ASSUME NEW i \in DOMAIN visits, NEW form \in Forms, visits' = Edited(i, form)
        PROVE  Stored(visits)' /\ visits[i].id \in Ids
    <3>1. Stored(visits)'
      BY <2>1, <2>3, EditedStored
    <3>2. visits[i] \in Rows
      BY <2>1 DEF Stored
    <3> QED
      BY <3>1, <3>2, RowIs
  <2> QED
    BY <2>2, <2>3 DEF Save
<1>2. /\ request'.step = "position" /\ request'.dine = id /\ request'.page = 1
      /\ request'.matched = 0 /\ request'.writes = 0 /\ request'.shown = <<>>
      /\ DOMAIN request' = DOMAIN Idle
  BY <1>1 DEF Idle
<1>3. MaxDines \in Nat /\ MaxWrites \in Nat /\ DinesPageSize \in Nat
  BY HistoryAssumption
<1>4. Requests'
  BY <1>2, <1>3 DEF Requests, Idle
<1>5. CountedFor'
  BY <1>2 DEF CountedFor, PageAsCounted
<1>6. Linked'
  BY <1>2 DEF Linked
<1> QED
  BY <1>1, <1>4, <1>5, <1>6 DEF IInv

\* A deletion comes between requests.
LEMMA DeleteKeeps ==
  ASSUME IInv, Delete
  PROVE  IInv'
<1>1. request' = request /\ request.step = "idle"
  BY DEF Delete
<1>2. Stored(visits)'
  BY DeletedStored DEF IInv, Delete
<1>3. Requests'
  BY <1>1 DEF IInv, Requests
<1>4. CountedFor'
  BY <1>1 DEF CountedFor, PageAsCounted
<1>5. Linked'
  BY <1>1 DEF Linked
<1> QED
  BY <1>2, <1>3, <1>4, <1>5 DEF IInv

\* Somebody else's change: of one dine, and not of the one a page is linked for.
LEMMA OthersWriteKeeps ==
  ASSUME IInv, OthersWrite
  PROVE  IInv'
<1>1. /\ Stored(visits) /\ DOMAIN request = DOMAIN Idle
      /\ request.dine \in Ids \cup {None} /\ request.writes \in 0..MaxWrites
      /\ MaxWrites \in Nat /\ request.page \in Nat \ {0}
      /\ request.matched \in Nat /\ request.shown = <<>>
      /\ request.step \in {"position", "count", "match", "list"} /\ request.writes < MaxWrites
  <2>1. MaxDines \in Nat /\ MaxWrites \in Nat
    BY HistoryAssumption
  <2>2. Stored(visits) /\ Requests
    BY DEF IInv
  <2>3. request.step \in {"position", "count", "match", "list"} /\ request.writes < MaxWrites
    BY DEF OthersWrite
  <2>4. request.matched \in Nat /\ request.shown = <<>>
    BY <2>1, <2>2, <2>3 DEF Requests
  <2> QED
    BY <2>1, <2>2, <2>3, <2>4 DEF Requests
<1>2. PICK c, dine :
         /\ Stored(visits)' /\ Changed(D, Range(visits'), c)
         /\ request' = [request EXCEPT !.writes = @ + 1, !.dine = dine]
         /\ dine \in {request.dine, None}
         /\ request.step # "position" /\ dine # None /\ Near(D, dine, request.page, request.writes)
               => dine # c
  <2>1. ASSUME NEW id \in Ids \ {d.id : d \in D}, NEW form \in Forms, NEW newer \in {0, 1},
               visits' = Logged(id, form, newer), request' = [request EXCEPT !.writes = @ + 1]
        PROVE  /\ Stored(visits)' /\ Changed(D, Range(visits'), id)
               /\ request' = [request EXCEPT !.writes = @ + 1, !.dine = request.dine]
               /\ Near(D, request.dine, request.page, request.writes) => request.dine # id
    <3>1. Stored(visits)' /\ Changed(D, Range(visits'), id)
      BY <1>1, <2>1, LoggedStored DEF IdsOf
    <3>2. request' = [request EXCEPT !.writes = @ + 1, !.dine = request.dine]
      BY <1>1, <2>1
    <3>3. Near(D, request.dine, request.page, request.writes) => request.dine # id
      BY DEF Near
    <3> QED
      BY <3>1, <3>2, <3>3
  <2>2. ASSUME NEW i \in DOMAIN visits, NEW form \in Forms, visits' \in {Edited(i, form), Deleted(i)}
        PROVE  Stored(visits)' /\ Changed(D, Range(visits'), visits[i].id)
    BY <1>1, <2>2, EditedStored, DeletedStored
  <2>3. ASSUME NEW i \in DOMAIN visits, NEW form \in Forms, visits' \in {Edited(i, form), Deleted(i)},
               request' = [request EXCEPT
                     !.writes = @ + 1,
                     !.dine = IF request.step # "position" /\ @ = visits[i].id THEN None ELSE @]
        PROVE  \E c, dine :
                 /\ Stored(visits)' /\ Changed(D, Range(visits'), c)
                 /\ request' = [request EXCEPT !.writes = @ + 1, !.dine = dine]
                 /\ dine \in {request.dine, None}
                 /\ request.step # "position" /\ dine # None => dine # c
    <3> DEFINE c == visits[i].id
               dine == IF request.step # "position" /\ request.dine = c THEN None ELSE request.dine
    <3>1. request' = [request EXCEPT !.writes = @ + 1, !.dine = dine]
      BY <2>3
    <3>2. dine \in {request.dine, None} /\ (request.step # "position" /\ dine # None => dine # c)
      OBVIOUS
    <3>3. Stored(visits)' /\ Changed(D, Range(visits'), c)
      BY <2>2, <2>3
    <3> HIDE DEF c, dine
    <3> QED
      BY <3>1, <3>2, <3>3
  <2>4. \/ \E id \in Ids \ {d.id : d \in D}, form \in Forms, newer \in {0, 1} :
              /\ visits' = Logged(id, form, newer)
              /\ request' = [request EXCEPT !.writes = @ + 1]
        \/ \E i \in DOMAIN visits, form \in Forms :
              /\ visits' \in {Edited(i, form), Deleted(i)}
              /\ request' = [request EXCEPT
                     !.writes = @ + 1,
                     !.dine = IF request.step # "position" /\ @ = visits[i].id THEN None ELSE @]
    BY DEF OthersWrite
  <2>5. CASE \E id \in Ids \ {d.id : d \in D}, form \in Forms, newer \in {0, 1} :
              /\ visits' = Logged(id, form, newer)
              /\ request' = [request EXCEPT !.writes = @ + 1]
    <3>1. PICK id \in Ids \ {d.id : d \in D}, form \in Forms, newer \in {0, 1} :
              /\ visits' = Logged(id, form, newer)
              /\ request' = [request EXCEPT !.writes = @ + 1]
      BY <2>5
    <3>2. /\ Stored(visits)' /\ Changed(D, Range(visits'), id)
          /\ request' = [request EXCEPT !.writes = @ + 1, !.dine = request.dine]
          /\ Near(D, request.dine, request.page, request.writes) => request.dine # id
      BY <2>1, <3>1
    <3> WITNESS id, request.dine
    <3> QED
      BY <3>2
  <2>6. CASE \E i \in DOMAIN visits, form \in Forms :
              /\ visits' \in {Edited(i, form), Deleted(i)}
              /\ request' = [request EXCEPT
                     !.writes = @ + 1,
                     !.dine = IF request.step # "position" /\ @ = visits[i].id THEN None ELSE @]
    BY <2>3, <2>6
  <2> QED
    BY <2>4, <2>5, <2>6
<1>3. /\ request'.step = request.step /\ request'.params = request.params
      /\ request'.page = request.page /\ request'.matched = request.matched
      /\ request'.writes = request.writes + 1 /\ request'.dine = dine
      /\ request'.shown = <<>> /\ DOMAIN request' = DOMAIN Idle
  BY <1>1, <1>2 DEF Idle
<1>4. D' = Range(visits')
  BY DEF D
<1>5. Keyed(D) /\ Keyed(Range(visits'))
  BY <1>1, <1>2, StoredKeyed DEF D
<1>6. Requests'
  BY <1>1, <1>2, <1>3 DEF IInv, Requests
<1>7. CountedFor'
  <2>1. PageAsCounted'
    BY <1>1, <1>3 DEF PageAsCounted
  <2>2. ASSUME request.step = "list"
        PROVE  LET n == CountVisits(Range(visits'), ReadFilter(request.params).filter)
               IN /\ n - (request.writes + 1) <= request.matched
                  /\ request.matched <= n + (request.writes + 1)
    <3> DEFINE m == CountVisits(D, ReadFilter(request.params).filter)
               n == CountVisits(Range(visits'), ReadFilter(request.params).filter)
    <3>1. m - request.writes <= request.matched /\ request.matched <= m + request.writes
      BY <2>2 DEF IInv, CountedFor
    <3>2. m \in Nat /\ n \in Nat /\ n - 1 <= m /\ m <= n + 1
      BY <1>2, <1>5, ChangedCounts
    <3> HIDE DEF m, n
    <3> QED
      BY <1>1, <3>1, <3>2 DEF n
  <2> QED
    BY <1>3, <1>4, <2>1, <2>2 DEF CountedFor
<1>8. Linked'
  <2> SUFFICES ASSUME dine # None, request.step # "position"
               PROVE  /\ request.params = NoParams
                      /\ Near(Range(visits'), dine, request.page, request.writes + 1)
    BY <1>1, <1>3, <1>4 DEF Linked
  <2>1. dine = request.dine
    BY <1>2
  <2>2. request.params = NoParams /\ Near(D, dine, request.page, request.writes)
    BY <1>1, <2>1 DEF IInv, Linked
  <2>3. dine # c
    BY <1>2, <2>2
  <2>4. request.writes \in Nat
    BY <1>1
  <2> QED
    BY <1>1, <1>2, <1>5, <2>2, <2>3, <2>4, NearChanged
<1> QED
  BY <1>2, <1>6, <1>7, <1>8 DEF IInv

\* Every step keeps the invariant.
LEMMA StepKeeps ==
  ASSUME IInv, [Next]_vars
  PROVE  IInv'
<1>1. CASE Next
  BY <1>1, AskKeeps, CountAllKeeps, CountMatchedKeeps, ListPageKeeps, AnsweredKeeps,
     SaveKeeps, ReadPositionKeeps, DeleteKeeps, OthersWriteKeeps DEF Next
<1>2. CASE UNCHANGED vars
  BY <1>2 DEF vars, IInv, Requests, CountedFor, Linked, PageAsCounted, D
<1> QED
  BY <1>1, <1>2

\* The invariant holds of every behaviour (visits.go, memory.go).
THEOREM HistoryInvariant == Spec => []IInv
<1>1. Init => IInv
  BY InitHolds
<1>2. IInv /\ [Next]_vars => IInv'
  BY StepKeeps
<1> QED
  BY <1>1, <1>2, PTL DEF Spec

-----------------------------------------------------------------------------
(* What the runs check *)

\* The variables hold values of their types, with as many ids as dines.
THEOREM HistoryTypeCorrect == Spec => []TypeOK
<1>1. ASSUME IInv PROVE TypeOK
  <2>1. Stored(visits) /\ Requests
    BY <1>1 DEF IInv
  <2>2. ASSUME NEW d \in D
        PROVE  /\ d.id \in Ids /\ d.made \in 1..Len(visits)
               /\ \E form \in Forms : \A f \in DOMAIN form : d[f] = form[f]
    <3>1. PICK i \in 1..Len(visits) : d = visits[i]
      BY <2>1 DEF D, Range, Stored
    <3>2. d \in Rows /\ d.made \in 1..i
      BY <2>1, <3>1 DEF Stored
    <3> QED
      BY <3>1, <3>2, RowIs
  <2>3. IsInjective(visits)
    BY <2>1 DEF IsInjective, Stored
  <2>4. Cardinality({d.id : d \in D}) = Len(visits)
    BY <2>1, StoredKeyed DEF IdsOf, D
  <2> QED
    BY <2>1, <2>2, <2>3, <2>4 DEF TypeOK, Requests
<1> QED
  BY <1>1, HistoryInvariant, PTL

\* A page holds what matches its filter, as much as its count leaves for it,
\* give or take one dine per change that came between (Dines).
THEOREM PageCorrect == Spec => []PageAsCounted
<1>1. IInv => PageAsCounted
  BY DEF IInv, CountedFor
<1> QED
  BY <1>1, HistoryInvariant, PTL

\* A saved dine's link finds it, or misses it by as many places as changes came
\* between its position and the page (dinesVisitURL, Dines).
THEOREM LinkCorrect == Spec => []LinkFindsDine
<1>1. ASSUME IInv PROVE LinkFindsDine
  <2> SUFFICES ASSUME request.step \in {"shown", "notfound"}, request.dine # None
      PROVE  LET dine == CHOOSE d \in D : d.id = request.dine
                 place == Cardinality({e \in D : NewestFirst(e, dine)})
                 first == (request.page - 1) * DinesPageSize
             IN /\ place >= first - request.writes
                /\ place < first + DinesPageSize + request.writes
                /\ request.writes = 0 => dine \in Range(request.shown)
    BY DEF LinkFindsDine
  <2> DEFINE dine == CHOOSE d \in D : d.id = request.dine
  <2>1. /\ Near(D, request.dine, request.page, request.writes)
        /\ request.writes = 0 => \E d \in D : d.id = request.dine /\ d \in Range(request.shown)
    BY <1>1 DEF IInv, Linked
  <2>2. Keyed(D)
    BY <1>1, StoredKeyed DEF IInv, D
  <2>3. PICK d \in D :
        /\ d.id = request.dine
        /\ Cardinality(Ahead(D, d)) >= (request.page - 1) * DinesPageSize - request.writes
        /\ Cardinality(Ahead(D, d))
              < (request.page - 1) * DinesPageSize + DinesPageSize + request.writes
    BY <2>1 DEF Near
  <2>4. \A e \in D : e.id = request.dine => e = d
    BY <2>2, <2>3 DEF Keyed
  <2>5. dine = d
    BY <2>3, <2>4
  <2>6. Ahead(D, d) = {e \in D : NewestFirst(e, d)}
    BY DEF Ahead
  <2>7. request.writes = 0 => d \in Range(request.shown)
    BY <2>1, <2>4
  <2> QED
    BY <2>3, <2>5, <2>6, <2>7
<1> QED
  BY <1>1, HistoryInvariant, PTL

\* The pages of any filter hold each matching dine once, newest first, and none
\* of them is empty unless nothing matches (VisitsPage, CountVisits).
THEOREM PagesCorrect == Spec => []PagesPartition
<1>1. IInv => PagesPartition
  BY PagesAre DEF IInv
<1> QED
  BY <1>1, HistoryInvariant, PTL

-----------------------------------------------------------------------------
(* The choices of the Filter dialog *)

\* The name itself is found before one that differs in case.
LEMMA NameFound ==
  ASSUME NEW n \in Nat, NEW names, IsInjective(names), Len(names) = n, DOMAIN names = 1..n,
         NEW i \in 1..n
  PROVE  MatchName(names, names[i]) = i
<1> DEFINE I == {j \in 1..Len(names) : names[j] = names[i]}
<1>1. I = {i}
  BY DEF IsInjective
<1>2. Min(I) = i /\ I # {} /\ i # 0
  <2>1. {i, i} = {i} /\ Min({i, i}) = i
    BY MinOfTwo
  <2> QED
    BY <1>1, <2>1
<1> QED
  BY <1>2 DEF MatchName, SelectInSeq

\* A set of numbers has a least one.
LEMMA LeastOf ==
  ASSUME NEW S \in SUBSET Nat, S # {}
  PROVE  Min(S) \in S /\ \A k \in S : Min(S) <= k
BY LeastNumber DEF Min

\* The values on offer are spellings that a visited restaurant has, one for each
\* that differs in more than case.
LEMMA ValuesOffered ==
  ASSUME NEW S, NEW column, \A d \in S : column[d.where] \in Text \cup {0}
  PROVE  LET values == VisitedRestaurantValues(S, column)
         IN /\ \A v \in values : v \in Text /\ \E d \in S : column[d.where] = v
            /\ \A d \in S : column[d.where] # 0 =>
                  \E v \in values : Fold(column[d.where]) = Fold(v)
<1> DEFINE all == {column[d.where] : d \in S} \ {0}
           least == [w \in all |-> Min({v \in all : Fold(v) = Fold(w)})]
           values == VisitedRestaurantValues(S, column)
<1>1. values = {least[w] : w \in all}
  BY DEF VisitedRestaurantValues
<1>2. all \subseteq Text
  OBVIOUS
<1>3. ASSUME NEW w \in all PROVE least[w] \in all /\ Fold(least[w]) = Fold(w)
  <2> DEFINE same == {v \in all : Fold(v) = Fold(w)}
  <2>1. same \in SUBSET Nat /\ w \in same
    BY <1>2, HistoryAssumption
  <2>2. least[w] = Min(same)
    OBVIOUS
  <2>3. Min(same) \in same
    <3> HIDE DEF same
    <3> QED
      BY <2>1, LeastOf
  <2> QED
    BY <2>2, <2>3
<1> HIDE DEF least, values
<1>4. ASSUME NEW v \in values PROVE v \in Text /\ \E d \in S : column[d.where] = v
  BY <1>1, <1>2, <1>3
<1>5. ASSUME NEW d \in S, column[d.where] # 0
      PROVE  \E v \in values : Fold(column[d.where]) = Fold(v)
  <2>1. column[d.where] \in all
    BY <1>5
  <2> HIDE DEF all
  <2> QED
    BY <1>1, <1>3, <2>1
<1> QED
  BY <1>4, <1>5 DEF values

\* What the filter is that a single choice makes.
LEMMA ChoiceIs ==
  ASSUME NEW params, params.rater = 0, params.picker = 0, params.tag = 0, NEW d
  PROVE  VisitFilterSQL(d, ReadFilter(params).filter) <=>
            /\ params.cuisine # 0 => Fold(Category[d.where]) = Fold(params.cuisine)
            /\ params.city # 0 => Fold(City[d.where]) = Fold(params.city)
            /\ params.year # 0 => /\ d.at >= params.year * YearLength
                                  /\ d.at < (params.year + 1) * YearLength
<1> DEFINE filter == ReadFilter(params).filter
<1>1. /\ filter.cuisine = params.cuisine /\ filter.everybody = FALSE /\ filter.picker = None
      /\ filter.rater = None /\ filter.tag = None /\ filter.city = params.city
      /\ filter.year = params.year
  BY FoldIs DEF ReadFilter
<1> HIDE DEF filter
<1>2. VisitFilterSQL(d, filter) <=>
            /\ params.cuisine # 0 => Fold(Category[d.where]) = Fold(params.cuisine)
            /\ params.city # 0 => Fold(City[d.where]) = Fold(params.city)
            /\ params.year # 0 => /\ d.at >= params.year * YearLength
                                  /\ d.at < (params.year + 1) * YearLength
  BY <1>1 DEF VisitFilterSQL
<1> QED
  BY <1>2 DEF filter

\* The dines that a tag's or a picker's name filters.
LEMMA NamedChoiceIs ==
  /\ \A t \in DOMAIN TagName : \A d :
        VisitFilterSQL(d, ReadFilter([NoParams EXCEPT !.tag = TagName[t]]).filter) <=> t \in d.tags
  /\ \A p \in People : \A d :
        VisitFilterSQL(d, ReadFilter([NoParams EXCEPT !.picker = PersonName[p]]).filter)
           <=> d.picker = p
  /\ \A d :
        VisitFilterSQL(d, ReadFilter([NoParams EXCEPT !.picker = EverybodyValue]).filter)
           <=> d.picker = Everybody
<1>1. ASSUME NEW t \in DOMAIN TagName, NEW d
      PROVE  VisitFilterSQL(d, ReadFilter([NoParams EXCEPT !.tag = TagName[t]]).filter)
                <=> t \in d.tags
  <2> DEFINE params == [NoParams EXCEPT !.tag = TagName[t]]
             filter == ReadFilter(params).filter
  <2>1. /\ params.tag = TagName[t] /\ params.picker = 0 /\ params.rater = 0
        /\ params.cuisine = 0 /\ params.city = 0 /\ params.year = 0
    BY DEF NoParams
  <2>2. TagName \in Seq(Text) /\ t \in 1..Len(TagName) /\ TagName[t] \in Text
    BY HistoryAssumption
  <2>3. MatchName(TagName, TagName[t]) = t
    <3>1. Len(TagName) \in Nat /\ DOMAIN TagName = 1..Len(TagName) /\ IsInjective(TagName)
      BY <2>2, HistoryAssumption
    <3> QED
      BY <2>2, <3>1, NameFound
  <2>4. TagName[t] # 0 /\ t # 0 /\ t # None
    BY <2>2, FoldIs, HistoryAssumption
  <2> HIDE DEF params
  <2>5. /\ filter.cuisine = 0 /\ filter.everybody = FALSE /\ filter.picker = None
        /\ filter.rater = None /\ filter.tag = t /\ filter.city = 0 /\ filter.year = 0
    BY <2>1, <2>3, <2>4, FoldIs DEF ReadFilter
  <2> HIDE DEF filter
  <2>6. VisitFilterSQL(d, filter) <=> t \in d.tags
    BY <2>4, <2>5 DEF VisitFilterSQL
  <2> QED
    BY <2>6 DEF filter, params
<1>2. ASSUME NEW p \in People, NEW d
      PROVE  VisitFilterSQL(d, ReadFilter([NoParams EXCEPT !.picker = PersonName[p]]).filter)
                <=> d.picker = p
  <2> DEFINE params == [NoParams EXCEPT !.picker = PersonName[p]]
             filter == ReadFilter(params).filter
             n == Cardinality(People)
  <2>1. /\ params.tag = 0 /\ params.picker = PersonName[p] /\ params.rater = 0
        /\ params.cuisine = 0 /\ params.city = 0 /\ params.year = 0
    BY DEF NoParams
  <2>2. n \in Nat /\ p \in 1..n /\ People = 1..n /\ PersonName[p] \in Text
    BY HistoryAssumption
  <2> HIDE DEF n
  <2>3. MatchName(PeopleNames, PersonName[p]) = p
    <3>1. /\ PeopleNames[p] = PersonName[p] /\ DOMAIN PeopleNames = 1..n /\ Len(PeopleNames) = n
          /\ IsInjective(PeopleNames)
      BY <2>2, HistoryAssumption DEF PeopleNames, IsInjective
    <3>2. MatchName(PeopleNames, PeopleNames[p]) = p
      BY <2>2, <3>1, NameFound
    <3> QED
      BY <3>1, <3>2
  <2>4. PersonName[p] # 0 /\ p # 0 /\ p # None /\ Fold(PersonName[p]) # Fold(EverybodyValue)
    <3>1. PersonName[p] # 0
      BY <2>2, HistoryAssumption
    <3>2. p # 0 /\ p # None
      BY <2>2, HistoryAssumption
    <3>3. Fold(PersonName[p]) # Fold(EverybodyValue)
      BY HistoryAssumption
    <3> QED
      BY <3>1, <3>2, <3>3
  <2> HIDE DEF params
  <2>5. /\ filter.cuisine = 0 /\ filter.everybody = FALSE /\ filter.picker = p
        /\ filter.rater = None /\ filter.tag = None /\ filter.city = 0 /\ filter.year = 0
    BY <2>1, <2>3, <2>4, FoldIs DEF ReadFilter
  <2> HIDE DEF filter
  <2>6. VisitFilterSQL(d, filter) <=> d.picker = p
    BY <2>4, <2>5 DEF VisitFilterSQL
  <2> QED
    BY <2>6 DEF filter, params
<1>3. ASSUME NEW d
      PROVE  VisitFilterSQL(d, ReadFilter([NoParams EXCEPT !.picker = EverybodyValue]).filter)
                <=> d.picker = Everybody
  <2> DEFINE params == [NoParams EXCEPT !.picker = EverybodyValue]
             filter == ReadFilter(params).filter
  <2>1. /\ params.tag = 0 /\ params.picker = EverybodyValue /\ params.rater = 0
        /\ params.cuisine = 0 /\ params.city = 0 /\ params.year = 0
    BY DEF NoParams
  <2> HIDE DEF params
  <2>2. /\ filter.cuisine = 0 /\ filter.everybody = TRUE
        /\ filter.rater = None /\ filter.tag = None /\ filter.city = 0 /\ filter.year = 0
    BY <2>1 DEF ReadFilter
  <2> HIDE DEF filter
  <2>3. VisitFilterSQL(d, filter) <=> d.picker = Everybody
    BY <2>2 DEF VisitFilterSQL
  <2> QED
    BY <2>3 DEF filter, params
<1> QED
  BY <1>1, <1>2, <1>3

\* What the dialog offers, together.
LEMMA ChoicesAre ==
  ASSUME Stored(visits)
  PROVE  ChoicesLeadBack
<1> DEFINE Shown(params) == {d \in D : VisitFilterSQL(d, ReadFilter(params).filter)}
           options == VisitFilterOptions(D)
           cuisine(v) == [NoParams EXCEPT !.cuisine = v]
           city(v) == [NoParams EXCEPT !.city = v]
           year(v) == [NoParams EXCEPT !.year = v]
<1>1. ASSUME NEW d \in D
      PROVE  /\ Category[d.where] \in Text \cup {0} /\ City[d.where] \in Text \cup {0}
             /\ d.at \in Int
  <2>1. PICK i \in 1..Len(visits) : d = visits[i] /\ d \in Rows
    BY DEF D, Range, Stored
  <2>2. PICK form \in Forms : \A f \in DOMAIN form : d[f] = form[f]
    BY <2>1, RowIs
  <2>3. d.where \in Restaurants
    BY <2>2, HistoryAssumption
  <2>4. d.at \in Int
    BY <2>1, RowIs
  <2> QED
    BY <2>3, <2>4, ColumnsAre
<1>2. /\ options.cuisines = VisitedRestaurantValues(D, Category)
      /\ options.cities = VisitedRestaurantValues(D, City)
      /\ options.years = {d.at \div YearLength : d \in D}
  BY DEF VisitFilterOptions
<1>3. ASSUME NEW v
      PROVE  /\ Shown(cuisine(v)) = {d \in D : v # 0 => Fold(Category[d.where]) = Fold(v)}
             /\ Shown(city(v)) = {d \in D : v # 0 => Fold(City[d.where]) = Fold(v)}
             /\ Shown(year(v)) = {d \in D : v # 0 => /\ d.at >= v * YearLength
                                                     /\ d.at < (v + 1) * YearLength}
  <2>1. /\ cuisine(v).cuisine = v /\ cuisine(v).city = 0 /\ cuisine(v).year = 0
        /\ cuisine(v).rater = 0 /\ cuisine(v).picker = 0 /\ cuisine(v).tag = 0
        /\ city(v).cuisine = 0 /\ city(v).city = v /\ city(v).year = 0
        /\ city(v).rater = 0 /\ city(v).picker = 0 /\ city(v).tag = 0
        /\ year(v).cuisine = 0 /\ year(v).city = 0 /\ year(v).year = v
        /\ year(v).rater = 0 /\ year(v).picker = 0 /\ year(v).tag = 0
    BY DEF NoParams
  <2> HIDE DEF cuisine, city, year
  <2>3. ASSUME NEW d
        PROVE  /\ VisitFilterSQL(d, ReadFilter(cuisine(v)).filter)
                     <=> (v # 0 => Fold(Category[d.where]) = Fold(v))
               /\ VisitFilterSQL(d, ReadFilter(city(v)).filter)
                     <=> (v # 0 => Fold(City[d.where]) = Fold(v))
               /\ VisitFilterSQL(d, ReadFilter(year(v)).filter)
                     <=> (v # 0 => d.at >= v * YearLength /\ d.at < (v + 1) * YearLength)
    BY <2>1, ChoiceIs
  <2> QED
    BY <2>3
<1> HIDE DEF cuisine, city, year
<1>4. ASSUME NEW column \in {Category, City}, NEW values, values = VisitedRestaurantValues(D, column)
      PROVE  /\ \A v \in values : {d \in D : v # 0 => Fold(column[d.where]) = Fold(v)} # {}
             /\ UNION {{d \in D : v # 0 => Fold(column[d.where]) = Fold(v)} : v \in values}
                  = {d \in D : column[d.where] # 0}
  <2>1. \A d \in D : column[d.where] \in Text \cup {0}
    BY <1>1
  <2>2. /\ \A v \in values : v \in Text /\ \E d \in D : column[d.where] = v
        /\ \A d \in D : column[d.where] # 0 => \E v \in values : Fold(column[d.where]) = Fold(v)
    BY <1>4, <2>1, ValuesOffered
  <2>3. ASSUME NEW v \in values PROVE \E d \in D : v # 0 => Fold(column[d.where]) = Fold(v)
    BY <2>2
  <2>4. ASSUME NEW v \in values, NEW d \in D, v # 0 => Fold(column[d.where]) = Fold(v)
        PROVE  column[d.where] # 0
    BY <2>2, <2>4, FoldIs
  <2> QED
    BY <2>2, <2>3, <2>4
<1>5. /\ \A v \in options.years :
            {d \in D : v # 0 => d.at >= v * YearLength /\ d.at < (v + 1) * YearLength} # {}
      /\ UNION {{d \in D : v # 0 => d.at >= v * YearLength /\ d.at < (v + 1) * YearLength} :
                   v \in options.years} = D
  <2>1. YearLength \in Nat \ {0}
    BY HistoryAssumption
  <2>2. ASSUME NEW d \in D
        PROVE  LET v == d.at \div YearLength IN d.at >= v * YearLength /\ d.at < (v + 1) * YearLength
    <3> DEFINE v == d.at \div YearLength
    <3>1. v \in Int /\ v * YearLength <= d.at /\ d.at < v * YearLength + YearLength
      BY <1>1, <2>1
    <3> HIDE DEF v
    <3>2. (v + 1) * YearLength = v * YearLength + YearLength
      BY <2>1, <3>1
    <3> QED
      BY <1>1, <3>1, <3>2 DEF v
  <2> DEFINE In(v) == {d \in D : v # 0 => d.at >= v * YearLength /\ d.at < (v + 1) * YearLength}
  <2>3. \A d \in D : d \in In(d.at \div YearLength)
    BY <2>2
  <2>4. \A v : In(v) \subseteq D
    OBVIOUS
  <2> HIDE DEF In
  <2>5. /\ \A v \in options.years : In(v) # {}
        /\ UNION {In(v) : v \in options.years} = D
    BY <1>2, <2>3, <2>4
  <2> QED
    BY <2>5 DEF In
<1>6. /\ \A v \in options.cuisines : Shown(cuisine(v)) # {}
      /\ UNION {Shown(cuisine(v)) : v \in options.cuisines} = {d \in D : Category[d.where] # 0}
      /\ \A v \in options.cities : Shown(city(v)) # {}
      /\ UNION {Shown(city(v)) : v \in options.cities} = {d \in D : City[d.where] # 0}
      /\ \A v \in options.years : Shown(year(v)) # {}
      /\ UNION {Shown(year(v)) : v \in options.years} = D
  <2>1. /\ Category \in {Category, City} /\ City \in {Category, City}
        /\ options.cuisines = VisitedRestaurantValues(D, Category)
        /\ options.cities = VisitedRestaurantValues(D, City)
    BY <1>2
  <2> DEFINE Ofs(column, v) == {d \in D : v # 0 => Fold(column[d.where]) = Fold(v)}
             In(v) == {d \in D : v # 0 => d.at >= v * YearLength /\ d.at < (v + 1) * YearLength}
  <2>2. ASSUME NEW v PROVE /\ Shown(cuisine(v)) = Ofs(Category, v) /\ Shown(city(v)) = Ofs(City, v)
                           /\ Shown(year(v)) = In(v)
    BY <1>3
  <2>3. /\ \A v \in options.cuisines : Ofs(Category, v) # {}
        /\ UNION {Ofs(Category, v) : v \in options.cuisines} = {d \in D : Category[d.where] # 0}
    BY <1>4, <2>1
  <2>4. /\ \A v \in options.cities : Ofs(City, v) # {}
        /\ UNION {Ofs(City, v) : v \in options.cities} = {d \in D : City[d.where] # 0}
    BY <1>4, <2>1
  <2>5. (\A v \in options.years : In(v) # {}) /\ UNION {In(v) : v \in options.years} = D
    BY <1>5
  <2> HIDE DEF Shown, options, Ofs, In
  <2>6. /\ {Shown(cuisine(v)) : v \in options.cuisines} = {Ofs(Category, v) : v \in options.cuisines}
        /\ {Shown(city(v)) : v \in options.cities} = {Ofs(City, v) : v \in options.cities}
        /\ {Shown(year(v)) : v \in options.years} = {In(v) : v \in options.years}
    BY <2>2
  <2> QED
    BY <2>2, <2>3, <2>4, <2>5, <2>6
<1>7. /\ \A t \in DOMAIN TagName :
            Shown([NoParams EXCEPT !.tag = TagName[t]]) = {d \in D : t \in d.tags}
      /\ \A p \in People :
            Shown([NoParams EXCEPT !.picker = PersonName[p]]) = {d \in D : d.picker = p}
      /\ Shown([NoParams EXCEPT !.picker = EverybodyValue]) = {d \in D : d.picker = Everybody}
  BY NamedChoiceIs
<1> HIDE DEF Shown, options
<1> QED
  BY <1>6, <1>7 DEF ChoicesLeadBack, Shown, options, cuisine, city, year

\* Every choice of the Filter dialog shows dines that have it, and no dine with
\* one is left out; a name on offer finds whom it names (VisitFilterOptions,
\* matchName, filter).
THEOREM ChoicesCorrect == Spec => []ChoicesLeadBack
<1>1. IInv => ChoicesLeadBack
  BY ChoicesAre DEF IInv
<1> QED
  BY <1>1, HistoryInvariant, PTL

-----------------------------------------------------------------------------
(* Whose turn it is *)

\* a picked less often than b, or as often and not later.
NoLater(counts, a, b) ==
    \/ counts[a].picks < counts[b].picks
    \/ /\ counts[a].picks = counts[b].picks
       /\ \/ counts[a].last = None
          \/ counts[b].last # None /\ counts[a].last <= counts[b].last

\* The loop of whoseTurn ends with somebody who goes before everybody.
LEMMA TurnIs ==
  ASSUME NEW counts, People # {},
         \A p \in People : counts[p].picks \in Nat /\ counts[p].last \in Int \cup {None}
  PROVE  /\ WhoseTurn(counts) \in People
         /\ \A p \in People : NoLater(counts, WhoseTurn(counts), p)
<1> DEFINE n == Cardinality(People)
           Body(v, p) ==
             IF \/ v = None
                \/ counts[p].picks < counts[v].picks
                \/ /\ counts[p].picks = counts[v].picks
                   /\ PickedEarlier(counts[p].last, counts[v].last)
             THEN p ELSE v
           V == 1..n \cup {None}
           step == [p \in 1..n |-> [v \in V |-> Body(v, p)]]
           Loop(f) == f = [p \in 0..n |-> IF p = 0 THEN None ELSE Body(f[p - 1], p)]
           best == CHOOSE f : Loop(f)
<1>1. People = 1..n /\ n \in Nat \ {0} /\ None \notin Int
  <2>1. People = 1..n /\ n \in Nat /\ None \notin Int
    BY HistoryAssumption
  <2> HIDE DEF n
  <2> QED
    BY <2>1
<1>2. WhoseTurn(counts) = best[n]
  BY DEF WhoseTurn
<1> HIDE DEF n
<1>3. \E f : Loop(f)
  <2>1. step \in Bodies(V, n) /\ None \in V /\ n \in Nat
    BY <1>1 DEF Bodies
  <2>2. PICK f \in [0..n -> V] : f[0] = None /\ \A p \in 1..n : f[p] = step[p][f[p - 1]]
    <3> HIDE DEF step, V
    <3>1. LoopRuns(V, n, None, step) # {}
      BY <2>1, Iterated
    <3> QED
      BY <3>1 DEF LoopRuns
  <2>3. ASSUME NEW p \in 0..n PROVE f[p] = IF p = 0 THEN None ELSE Body(f[p - 1], p)
    <3>1. CASE p = 0
      BY <2>2, <3>1
    <3>2. CASE p # 0
      <4>1. p \in 1..n /\ f[p - 1] \in V
        BY <1>1, <2>2, <3>2
      <4> QED
        BY <2>2, <3>2, <4>1
    <3> QED
      BY <3>1, <3>2
  <2> HIDE DEF Body
  <2>4. Loop(f)
    BY <2>2, <2>3
  <2> QED
    BY <2>4
<1>4. Loop(best)
  <2> HIDE DEF Loop
  <2> QED
    BY <1>3
<1>5. best[0] = None /\ \A p \in 1..n : best[p] = Body(best[p - 1], p)
  <2> HIDE DEF Body, best
  <2> QED
    BY <1>1, <1>4
<1> DEFINE Q == {k \in 0..n : k # 0 => /\ best[k] \in 1..k
                                       /\ \A p \in 1..k : NoLater(counts, best[k], p)}
<1> HIDE DEF best, Loop, step, V
<1>6. 0 \in Q
  BY <1>1
<1>7. ASSUME NEW k \in 1..n, k - 1 \in Q PROVE k \in Q
  <2>1. \A p \in 1..n : counts[p].picks \in Nat /\ counts[p].last \in Int \cup {None}
    BY <1>1
  <2>2. CASE k = 1
    <3>1. best[k] = 1
      BY <1>1, <1>5, <2>2
    <3>2. NoLater(counts, 1, 1)
      BY <1>1, <2>1 DEF NoLater
    <3> QED
      BY <2>2, <3>1, <3>2
  <2>3. CASE k # 1
    <3> DEFINE b == best[k - 1]
    <3>1. b \in 1..(k - 1) /\ \A p \in 1..(k - 1) : NoLater(counts, b, p)
      BY <1>1, <1>7, <2>3
    <3>2. best[k] = Body(b, k) /\ b # None
      BY <1>1, <1>5, <3>1
    <3> HIDE DEF b
    <3>3. b \in 1..n /\ k \in 1..n /\ \A p \in 1..(k - 1) : p \in 1..n
      BY <1>1, <3>1
    <3>4. CASE best[k] = k
      <4>1. \/ counts[k].picks < counts[b].picks
            \/ counts[k].picks = counts[b].picks /\ PickedEarlier(counts[k].last, counts[b].last)
        BY <3>1, <3>2, <3>4
      <4>2. ASSUME NEW p \in 1..(k - 1) PROVE NoLater(counts, k, p)
        <5>1. NoLater(counts, b, p) /\ p \in 1..n
          BY <3>1, <3>3
        <5> QED
          BY <1>1, <2>1, <3>3, <4>1, <5>1 DEF NoLater, PickedEarlier
      <4>3. NoLater(counts, k, k)
        BY <2>1 DEF NoLater
      <4> QED
        BY <3>4, <4>2, <4>3
    <3>5. CASE best[k] # k
      <4>1. /\ best[k] = b
            /\ ~(counts[k].picks < counts[b].picks)
            /\ ~(counts[k].picks = counts[b].picks /\ PickedEarlier(counts[k].last, counts[b].last))
        BY <3>2, <3>5
      <4>2. NoLater(counts, b, k)
        BY <1>1, <2>1, <3>3, <4>1 DEF NoLater, PickedEarlier
      <4> QED
        BY <3>1, <4>1, <4>2
    <3> QED
      BY <3>4, <3>5
  <2> QED
    BY <2>2, <2>3
<1>8. n \in Q
  <2> HIDE DEF Q
  <2>1. n \in 0..n /\ \A k \in 1..n : k - 1 \in Q => k \in Q
    BY <1>1, <1>7
  <2>2. \A k \in 0..n : k \in Q
    BY <1>1, <1>6, <2>1, Upwards
  <2> QED
    BY <2>1, <2>2
<1> QED
  BY <1>1, <1>2, <1>8

\* The times of finitely many dines are finitely many.
LEMMA TimesFinite ==
  ASSUME NEW S, IsFiniteSet(S), NEW k
  PROVE  IsFiniteSet({d.at + k : d \in S}) /\ IsFiniteSet({d.at : d \in S})
<1>1. [d \in S |-> d.at + k] \in Surjection(S, {d.at + k : d \in S})
  BY DEF Surjection
<1>2. [d \in S |-> d.at] \in Surjection(S, {d.at : d \in S})
  BY DEF Surjection
<1> QED
  BY <1>1, <1>2, FS_Surjection

\* A finite set of numbers has a greatest one.
LEMMA GreatestOf ==
  ASSUME NEW S \in SUBSET Int, IsFiniteSet(S), S # {}
  PROVE  Max(S) \in S /\ \A x \in S : x <= Max(S)
<1> DEFINE below == [x \in S |-> {y \in S : y < x}]
           n == Cardinality(S)
<1>1. /\ below \in [S -> SUBSET S]
      /\ \A x \in S : x \notin below[x]
      /\ \A x, y \in S : x # y => x \in below[y] \/ y \in below[x]
      /\ \A x, y \in S : x \in below[y] => below[x] \subseteq below[y]
  <2>1. \A x \in S : below[x] = {y \in S : y < x}
    OBVIOUS
  <2>2. below \in [S -> SUBSET S]
    OBVIOUS
  <2> HIDE DEF below
  <2>3. \A x, y \in S : x \in Int /\ y \in Int /\ (x \in below[y] <=> x < y)
    BY <2>1
  <2>4. ASSUME NEW x \in S, NEW y \in S, x \in below[y] PROVE below[x] \subseteq below[y]
    <3> SUFFICES ASSUME NEW z \in below[x] PROVE z \in below[y]
      OBVIOUS
    <3>1. z \in S
      BY <2>2
    <3> QED
      BY <2>3, <2>4, <3>1
  <2> QED
    BY <2>2, <2>3, <2>4
<1>2. \A x, y \in S : x \in below[y] <=> x < y
  OBVIOUS
<1> HIDE DEF below
<1>3. /\ n \in Nat
      /\ \A x \in S : Cardinality(below[x]) \in 0..(n - 1)
      /\ \A x, y \in S : x \in below[y] <=> Cardinality(below[x]) < Cardinality(below[y])
      /\ \A k \in 1..n : \E x \in S : Cardinality(below[x]) = k - 1
  BY <1>1, Ranks
<1>4. n # 0
  BY FS_EmptySet
<1>5. n \in 1..n
  BY <1>3, <1>4
<1>6. PICK x \in S : Cardinality(below[x]) = n - 1
  BY <1>3, <1>5
<1>7. \A y \in S : y <= x
  <2> SUFFICES ASSUME NEW y \in S, x < y PROVE FALSE
    OBVIOUS
  <2>1. Cardinality(below[x]) < Cardinality(below[y]) /\ Cardinality(below[y]) \in 0..(n - 1)
    BY <1>2, <1>3
  <2> QED
    BY <1>3, <1>6, <2>1
<1> QED
  BY <1>7 DEF Max

\* Nobody goes before the person whose turn it is, and whoever had picked as
\* seldom goes before a person who has just picked (PickCounts, whoseTurn).
THEOREM TurnCorrect == Spec => []TurnIsFair
<1>1. ASSUME Stored(visits) PROVE TurnIsFair
  <2> DEFINE counts == PickCounts(D, TurnSince)
             turn == WhoseTurn(counts)
             times == {TurnSince} \cup {d.at + 1 : d \in D}
             now == Max(times)
             taken == [counts EXCEPT ![turn] = [picks |-> counts[turn].picks + 1, last |-> now]]
  <2>1. IsFiniteSet(D) /\ \A d \in D : d.at \in Int
    BY <1>1, StoredKeyed, RowIs DEF D, Keyed
  <2>2. None \notin Int /\ TurnSince \in Int
    BY HistoryAssumption
  <2>3. times \in SUBSET Int /\ IsFiniteSet(times) /\ times # {}
    <3>1. IsFiniteSet({d.at + 1 : d \in D})
      BY <2>1, TimesFinite
    <3>2. IsFiniteSet({TurnSince} \cup {d.at + 1 : d \in D})
      BY <3>1, FS_Singleton, FS_Union
    <3> QED
      BY <2>1, <2>2, <3>2
  <2>4. now \in Int /\ \A d \in D : d.at < now
    <3>1. now \in times /\ \A x \in times : x <= now
      <4> HIDE DEF times
      <4> QED
        BY <2>3, GreatestOf
    <3>2. now \in Int /\ \A d \in D : d.at + 1 <= now
      <4> HIDE DEF now
      <4> QED
        BY <2>3, <3>1
    <3> HIDE DEF now
    <3> QED
      BY <2>1, <3>2
  <2>5. ASSUME NEW p \in People
        PROVE  /\ counts[p].picks \in Nat /\ counts[p].last \in Int \cup {None}
               /\ counts[p].last # None => counts[p].last < now
    <3> DEFINE picks == {d \in D : d.picker = p}
               recent == {d \in picks : d.at >= TurnSince}
    <3>1. counts[p] = [picks |-> Cardinality(recent),
                       last |-> IF picks = {} THEN None ELSE Latest(picks)]
      BY DEF PickCounts
    <3>2. IsFiniteSet(recent) /\ IsFiniteSet(picks)
      BY <2>1, FS_Subset
    <3>3. Cardinality(recent) \in Nat
      BY <3>2, FS_CardinalityType
    <3>4. CASE picks = {}
      <4>1. counts[p].last = None /\ counts[p].picks = Cardinality(recent)
        BY <3>1, <3>4
      <4> HIDE DEF counts, now, recent, picks
      <4> QED
        BY <3>3, <4>1
    <3>5. CASE picks # {}
      <4> DEFINE ats == {d.at : d \in picks}
      <4>1. counts[p].last = Max(ats) /\ counts[p].picks = Cardinality(recent)
        BY <3>1, <3>5 DEF Latest
      <4>2. IsFiniteSet(ats)
        <5> HIDE DEF picks
        <5> QED
          BY <3>2, TimesFinite
      <4>3. ats \in SUBSET Int /\ ats # {}
        BY <2>1, <3>5
      <4>4. Max(ats) \in ats
        <5> HIDE DEF ats
        <5> QED
          BY <4>2, <4>3, GreatestOf
      <4>5. PICK d \in D : Max(ats) = d.at
        BY <4>4
      <4> HIDE DEF counts, now, recent, picks, ats
      <4> QED
        BY <2>1, <2>4, <3>3, <4>1, <4>5
    <3> QED
      BY <3>4, <3>5
  <2>6. ASSUME NEW p \in People \ {turn}
        PROVE  /\ counts[turn].picks <= counts[p].picks
               /\ counts[p].picks = counts[turn].picks =>
                     \/ counts[turn].last = None
                     \/ counts[p].last # None /\ counts[turn].last <= counts[p].last
               /\ counts[p].picks <= counts[turn].picks + 1 => WhoseTurn(taken) # turn
    <3>1. turn \in People /\ NoLater(counts, turn, p)
      <4> HIDE DEF counts
      <4> QED
        BY <2>5, TurnIs
    <3>2. /\ counts[turn].picks \in Nat /\ counts[p].picks \in Nat
          /\ counts[p].last \in Int \cup {None} /\ counts[turn].last \in Int \cup {None}
          /\ counts[p].last # None => counts[p].last < now
      BY <2>5, <3>1
    <3>3. /\ taken[turn] = [picks |-> counts[turn].picks + 1, last |-> now]
          /\ \A q \in People : q # turn => taken[q] = counts[q]
      <4>1. DOMAIN counts = People
        BY DEF PickCounts
      <4> HIDE DEF counts, turn, now
      <4> QED
        BY <3>1, <4>1
    <3> HIDE DEF counts, turn, now, taken
    <3>4. ASSUME NEW q \in People
          PROVE  taken[q].picks \in Nat /\ taken[q].last \in Int \cup {None}
      BY <2>4, <2>5, <3>2, <3>3
    <3>5. ASSUME counts[p].picks <= counts[turn].picks + 1, WhoseTurn(taken) = turn PROVE FALSE
      <4>1. NoLater(taken, turn, p)
        BY <3>4, <3>5, TurnIs
      <4>2. /\ taken[turn].picks = counts[turn].picks + 1 /\ taken[turn].last = now
            /\ taken[p] = counts[p]
        BY <3>3
      <4> QED
        BY <2>2, <2>4, <3>2, <3>5, <4>1, <4>2 DEF NoLater
    <3> QED
      BY <3>1, <3>2, <3>5 DEF NoLater
  <2> QED
    BY <2>6 DEF TurnIsFair
<1>2. IInv => TurnIsFair
  BY <1>1 DEF IInv
<1> QED
  BY <1>2, HistoryInvariant, PTL

-----------------------------------------------------------------------------
(* The spinner *)

\* What a choice is, at one of the places P.
ChoicesAt(P) == [where : P, favorite : BOOLEAN]
PlacesOf(choices) == {choices[i].where : i \in 1..Len(choices)}
OncePerPlace(choices) ==
    \A i, j \in 1..Len(choices) : choices[i].where = choices[j].where => i = j

\* What the loop of spinChoices does with a favorite.
Merged(choices, r) ==
    IF \E i \in DOMAIN choices : choices[i].where = r
    THEN [i \in DOMAIN choices |->
            [choices[i] EXCEPT !.favorite = choices[i].favorite \/ choices[i].where = r]]
    ELSE Append(choices, [where |-> r, favorite |-> TRUE])

\* It adds the favorite's place, unless that is there.
LEMMA MergedIs ==
  ASSUME NEW P, NEW choices \in Seq(ChoicesAt(P)), NEW r \in P
  PROVE  /\ Merged(choices, r) \in Seq(ChoicesAt(P))
         /\ PlacesOf(Merged(choices, r)) = PlacesOf(choices) \cup {r}
         /\ OncePerPlace(choices) => OncePerPlace(Merged(choices, r))
<1> DEFINE n == Len(choices)
<1>1. n \in Nat /\ DOMAIN choices = 1..n /\ \A i \in 1..n : choices[i] \in ChoicesAt(P)
  OBVIOUS
<1>2. CASE \E i \in DOMAIN choices : choices[i].where = r
  <2> DEFINE m == [i \in 1..n |->
            [choices[i] EXCEPT !.favorite = choices[i].favorite \/ choices[i].where = r]]
  <2>1. Merged(choices, r) = m
    BY <1>1, <1>2 DEF Merged
  <2>2. ASSUME NEW i \in 1..n PROVE m[i] \in ChoicesAt(P) /\ m[i].where = choices[i].where
    <3> DEFINE b == choices[i].favorite \/ choices[i].where = r
    <3>1. choices[i] \in ChoicesAt(P) /\ b \in BOOLEAN
      BY <1>1
    <3>2. m[i] = [choices[i] EXCEPT !.favorite = b]
      OBVIOUS
    <3> HIDE DEF b, m, n
    <3> QED
      BY <3>1, <3>2 DEF ChoicesAt
  <2>3. m \in [1..n -> ChoicesAt(P)]
    BY <2>2
  <2>4. m \in Seq(ChoicesAt(P)) /\ Len(m) = n
    <3> HIDE DEF m, n
    <3> QED
      BY <1>1, <2>3
  <2> HIDE DEF m, n
  <2>5. PlacesOf(m) = PlacesOf(choices)
    BY <2>2, <2>4 DEF PlacesOf, n
  <2>6. r \in PlacesOf(choices)
    BY <1>1, <1>2 DEF PlacesOf, n
  <2>7. OncePerPlace(choices) => OncePerPlace(m)
    BY <2>2, <2>4 DEF OncePerPlace, n
  <2> QED
    BY <2>1, <2>4, <2>5, <2>6, <2>7
<1>3. CASE ~ \E i \in DOMAIN choices : choices[i].where = r
  <2> DEFINE c == [where |-> r, favorite |-> TRUE]
             m == Append(choices, c)
  <2>1. Merged(choices, r) = m
    BY <1>3 DEF Merged
  <2>2. c \in ChoicesAt(P) /\ c.where = r
    BY DEF ChoicesAt
  <2> HIDE DEF c
  <2>3. /\ m \in Seq(ChoicesAt(P)) /\ Len(m) = n + 1 /\ m[n + 1] = c
        /\ \A i \in 1..n : m[i] = choices[i]
    BY <2>2
  <2> HIDE DEF m, n
  <2>4. 1..Len(m) = 1..n \cup {n + 1}
    BY <1>1, <2>3
  <2>5. PlacesOf(m) = PlacesOf(choices) \cup {r}
    BY <2>2, <2>3, <2>4 DEF PlacesOf, n
  <2>6. \A i \in 1..n : choices[i].where # r
    BY <1>1, <1>3
  <2>7. ASSUME OncePerPlace(choices) PROVE OncePerPlace(m)
    BY <1>1, <2>2, <2>3, <2>4, <2>6, <2>7 DEF OncePerPlace, n
  <2> QED
    BY <2>1, <2>3, <2>5, <2>7
<1> QED
  BY <1>2, <1>3

\* The choices have each place of the list and of the favorites once.
LEMMA ChoicesMerged ==
  ASSUME NEW P, NEW items \in Seq(P), NEW favorites \in Seq(P), IsInjective(items)
  PROVE  /\ SpinChoices(items, favorites) \in Seq(ChoicesAt(P))
         /\ OncePerPlace(SpinChoices(items, favorites))
         /\ PlacesOf(SpinChoices(items, favorites)) = Range(items) \cup Range(favorites)
<1> DEFINE n == Len(favorites)
           V == Seq(ChoicesAt(P))
           listed == [i \in DOMAIN items |-> [where |-> items[i], favorite |-> FALSE]]
           body == [k \in 1..n |-> [v \in V |-> Merged(v, favorites[k])]]
           Loop(f) == f = [k \in 0..n |-> IF k = 0 THEN listed ELSE Merged(f[k - 1], favorites[k])]
           merged == CHOOSE f : Loop(f)
<1>0. ASSUME NEW v \in V, NEW r \in P
      PROVE  /\ Merged(v, r) \in V
             /\ PlacesOf(Merged(v, r)) = PlacesOf(v) \cup {r}
             /\ OncePerPlace(v) => OncePerPlace(Merged(v, r))
  BY MergedIs
<1>1. n \in Nat /\ \A k \in 1..n : favorites[k] \in P
  OBVIOUS
<1>2. SpinChoices(items, favorites) = merged[n]
  BY DEF SpinChoices, Merged
<1>3. /\ listed \in V /\ Len(listed) = Len(items)
      /\ \A i \in 1..Len(items) : listed[i].where = items[i]
  <2>1. Len(items) \in Nat /\ DOMAIN items = 1..Len(items) /\ \A i \in 1..Len(items) : items[i] \in P
    OBVIOUS
  <2>2. listed \in [1..Len(items) -> ChoicesAt(P)]
    BY <2>1 DEF ChoicesAt
  <2>3. \A i \in 1..Len(items) : listed[i].where = items[i]
    BY <2>1
  <2> HIDE DEF listed
  <2> QED
    BY <2>1, <2>2, <2>3
<1> HIDE DEF n, listed, V
<1>4. \E f : Loop(f)
  <2>1. body \in Bodies(V, n)
    BY <1>0, <1>1 DEF Bodies
  <2>2. PICK f \in [0..n -> V] : f[0] = listed /\ \A k \in 1..n : f[k] = body[k][f[k - 1]]
    <3> HIDE DEF body
    <3>1. LoopRuns(V, n, listed, body) # {}
      BY <1>1, <1>3, <2>1, Iterated
    <3> QED
      BY <3>1 DEF LoopRuns
  <2>3. ASSUME NEW k \in 0..n
        PROVE  f[k] = IF k = 0 THEN listed ELSE Merged(f[k - 1], favorites[k])
    <3>1. CASE k = 0
      BY <2>2, <3>1
    <3>2. CASE k # 0
      <4>1. k \in 1..n /\ f[k - 1] \in V
        BY <1>1, <2>2, <3>2
      <4> QED
        BY <2>2, <3>2, <4>1
    <3> QED
      BY <3>1, <3>2
  <2>4. Loop(f)
    BY <2>2, <2>3
  <2> QED
    BY <2>4
<1>5. Loop(merged)
  <2> HIDE DEF Loop
  <2> QED
    BY <1>4
<1>6. merged[0] = listed /\ \A k \in 1..n : merged[k] = Merged(merged[k - 1], favorites[k])
  <2> HIDE DEF merged
  <2> QED
    BY <1>1, <1>5
<1> DEFINE Q == {k \in 0..n : /\ merged[k] \in V /\ OncePerPlace(merged[k])
                              /\ PlacesOf(merged[k])
                                   = Range(items) \cup {favorites[j] : j \in 1..k}}
<1> HIDE DEF merged, Loop, body
<1>7. 0 \in Q
  <2>1. OncePerPlace(listed)
    BY <1>3 DEF OncePerPlace, IsInjective
  <2>2. PlacesOf(listed) = Range(items)
    BY <1>3 DEF PlacesOf, Range
  <2> QED
    BY <1>1, <1>3, <1>6, <2>1, <2>2
<1>8. ASSUME NEW k \in 1..n, k - 1 \in Q PROVE k \in Q
  <2>1. /\ merged[k - 1] \in V /\ OncePerPlace(merged[k - 1])
        /\ PlacesOf(merged[k - 1]) = Range(items) \cup {favorites[j] : j \in 1..(k - 1)}
    BY <1>8
  <2>2. /\ merged[k] \in V /\ OncePerPlace(merged[k])
        /\ PlacesOf(merged[k]) = PlacesOf(merged[k - 1]) \cup {favorites[k]}
    BY <1>0, <1>1, <1>6, <2>1
  <2>3. 1..k = 1..(k - 1) \cup {k} /\ k \in 0..n
    BY <1>1
  <2>4. {favorites[j] : j \in 1..k} = {favorites[j] : j \in 1..(k - 1)} \cup {favorites[k]}
    BY <2>3
  <2> QED
    BY <2>1, <2>2, <2>3, <2>4
<1>9. n \in Q
  <2> HIDE DEF Q
  <2>1. n \in 0..n /\ \A k \in 1..n : k - 1 \in Q => k \in Q
    BY <1>1, <1>8
  <2>2. \A k \in 0..n : k \in Q
    BY <1>1, <1>7, <2>1, Upwards
  <2> QED
    BY <2>1, <2>2
<1>10. Range(favorites) = {favorites[j] : j \in 1..n}
  BY DEF Range, n
<1> QED
  BY <1>2, <1>9, <1>10 DEF V

\* The favorites come as a sequence.
LEMMA FavoritesIs ==
  ASSUME Stored(visits)
  PROVE  LET favorites == RestedFavorites(D, SpinMinAverage, RestedBefore, Collated)
         IN favorites \in Seq(Range(favorites))
<1> DEFINE Rated(r) == {x \in AggregateRatings(D) : x[1].where = r}
           rested == {r \in Visited(D) :
                        /\ Rated(r) # {}
                        /\ ~Higher([sum |-> SpinMinAverage, count |-> 1], Average(Rated(r)))
                        /\ Latest(At(D, r)) < RestedBefore}
           n == Cardinality(rested)
           favorites == RestedFavorites(D, SpinMinAverage, RestedBefore, Collated)
<1>1. IsFiniteSet(D)
  BY StoredKeyed DEF D, Keyed
<1>2. IsFiniteSet(Visited(D))
  <2>1. [d \in D |-> d.where] \in Surjection(D, Visited(D))
    BY DEF Surjection, Visited
  <2> QED
    BY <1>1, <2>1, FS_Surjection
<1>3. n \in Nat
  <2>1. rested \in SUBSET Visited(D)
    OBVIOUS
  <2> HIDE DEF rested
  <2>2. IsFiniteSet(rested)
    BY <1>2, <2>1, FS_Subset
  <2> QED
    BY <2>2, FS_CardinalityType
<1>4. DOMAIN favorites = 1..n /\ favorites = [i \in 1..n |-> favorites[i]]
  <2> DEFINE at(i) == CHOOSE x \in rested :
                 Cardinality({y \in rested : Precedes(<<Collated[Name[y]], y>>,
                                                        <<Collated[Name[x]], x>>)}) = i - 1
             inOrder == [i \in 1..n |-> at(i)]
  <2>1. favorites = inOrder
    BY DEF RestedFavorites, Sorted
  <2>2. DOMAIN inOrder = 1..n /\ inOrder = [i \in 1..n |-> inOrder[i]]
    <3> HIDE DEF n, at
    <3> QED
      OBVIOUS
  <2> HIDE DEF inOrder, favorites, n
  <2> QED
    BY <2>1, <2>2
<1> HIDE DEF favorites, n
<1>5. favorites \in [1..n -> Range(favorites)]
  BY <1>4 DEF Range
<1> QED
  BY <1>3, <1>5 DEF favorites

\* Choices taken by their numbers are as many as their places.
LEMMA NumbersPlaces ==
  ASSUME NEW P, NEW choices \in Seq(ChoicesAt(P)), OncePerPlace(choices),
         NEW which \in SUBSET (1..Len(choices))
  PROVE  /\ IsFiniteSet(which) /\ Cardinality(which) \in Nat
         /\ Cardinality({choices[i].where : i \in which}) = Cardinality(which)
<1> DEFINE n == Len(choices)
           places == {choices[i].where : i \in which}
           where == [i \in which |-> choices[i].where]
<1>1. IsFiniteSet(1..n)
  <2>1. n \in Nat
    OBVIOUS
  <2> HIDE DEF n
  <2> QED
    BY <2>1, FS_Interval
<1>2. IsFiniteSet(which)
  BY <1>1, FS_Subset
<1>3. where \in Surjection(which, places)
  BY DEF Surjection
<1>4. where \in Injection(which, places)
  <2>1. \A i, j \in which : where[i] = where[j] => i = j
    BY DEF OncePerPlace
  <2> HIDE DEF where, places
  <2> QED
    BY <1>3, <2>1 DEF Surjection, Injection, IsInjective
<1>5. Cardinality(places) = Cardinality(which)
  <2> HIDE DEF where, places
  <2> QED
    BY <1>2, <1>3, <1>4, FS_Surjection
<1> QED
  BY <1>2, <1>5, FS_CardinalityType

\* A spin lands on a matching choice that is not the last spin's, with the same
\* odds for each place, and on the last spin's only if there is no other; what
\* was read of the list and of the favorites need not be of one moment
\* (spinChoices, spinPage, pickSpinChoice).
THEOREM SpinCorrect == Spec => []SpinMovesOn
<1>1. ASSUME Stored(visits) PROVE SpinMovesOn
  <2> DEFINE favorites == RestedFavorites(D, SpinMinAverage, RestedBefore, Collated)
             froms == {[kind |-> "cuisine", value |-> v] : v \in Range(Category)}
                         \cup {[kind |-> "city", value |-> v] : v \in Range(City)}
  <2>1. ASSUME NEW items \in WantToTryLists, NEW from \in froms,
               NEW last \in Restaurants \cup {None}
        PROVE  LET choices == SpinChoices(items, favorites)
                   matching == SpinPage(choices, from)
                   lands == PickSpinChoice(choices, matching, last)
                   Places(which) == {choices[i].where : i \in which}
               IN /\ Cardinality(Places(lands)) = Cardinality(lands)
                  /\ Places(matching) \subseteq Range(items) \cup Range(favorites)
                  /\ Places(lands) = IF Places(matching) \subseteq {last}
                                     THEN Places(matching) ELSE Places(matching) \ {last}
                  /\ from.value = 0 => Places(matching) = Range(items) \cup Range(favorites)
    <3> DEFINE choices == SpinChoices(items, favorites)
               matching == SpinPage(choices, from)
               lands == PickSpinChoice(choices, matching, last)
               P == Range(items) \cup Range(favorites)
               others == {i \in matching : choices[i].where # last}
    <3>1. items \in Seq(Restaurants) /\ IsInjective(items)
      BY HistoryAssumption
    <3>2. items \in Seq(P) /\ favorites \in Seq(P)
      <4>1. favorites \in Seq(Range(favorites))
        BY <1>1, FavoritesIs
      <4> HIDE DEF favorites
      <4> QED
        BY <3>1, <4>1 DEF Range
    <3>3. choices \in Seq(ChoicesAt(P)) /\ OncePerPlace(choices) /\ PlacesOf(choices) = P
      <4> HIDE DEF favorites
      <4> QED
        BY <3>1, <3>2, ChoicesMerged
    <3> HIDE DEF favorites, choices, P, froms
    <3>4. DOMAIN choices = 1..Len(choices)
      BY <3>3
    <3>5. matching \in SUBSET (1..Len(choices)) /\ (from.value = 0 => matching = 1..Len(choices))
      BY <3>4 DEF SpinPage
    <3>6. lands = IF Cardinality(matching) > 1 /\ others # {} THEN others ELSE matching
      BY DEF PickSpinChoice
    <3> HIDE DEF matching, lands
    <3>7. lands \in SUBSET (1..Len(choices))
      BY <3>5, <3>6
    <3>8. {choices[i].where : i \in lands}
            = IF {choices[i].where : i \in matching} \subseteq {last}
              THEN {choices[i].where : i \in matching}
              ELSE {choices[i].where : i \in matching} \ {last}
      <4>1. CASE others = {}
        <5>1. \A i \in matching : choices[i].where = last
          BY <4>1
        <5> QED
          BY <3>6, <4>1, <5>1
      <4>2. CASE others # {} /\ Cardinality(matching) > 1
        BY <3>6, <4>2
      <4>3. CASE others # {} /\ ~(Cardinality(matching) > 1)
        <5>1. PICK i \in matching : choices[i].where # last
          BY <4>3
        <5>2. IsFiniteSet(matching) /\ Cardinality(matching) \in Nat
          BY <3>3, <3>5, NumbersPlaces
        <5>3. IsFiniteSet(matching \ {i}) /\ Cardinality(matching \ {i}) = Cardinality(matching) - 1
          BY <5>1, <5>2, FS_RemoveElement
        <5>4. Cardinality(matching \ {i}) = 0
          BY <4>3, <5>2, <5>3, FS_CardinalityType
        <5>5. matching \ {i} = {}
          BY <5>3, <5>4, FS_EmptySet
        <5>6. matching = {i} /\ lands = matching
          BY <3>6, <4>3, <5>1, <5>5
        <5> QED
          BY <5>1, <5>6
      <4> QED
        BY <4>1, <4>2, <4>3
    <3>9. {choices[i].where : i \in matching} \subseteq P
      BY <3>3, <3>5 DEF PlacesOf
    <3>10. from.value = 0 => {choices[i].where : i \in matching} = P
      BY <3>3, <3>5 DEF PlacesOf
    <3>11. Cardinality({choices[i].where : i \in lands}) = Cardinality(lands)
      BY <3>3, <3>7, NumbersPlaces
    <3> QED
      BY <3>8, <3>9, <3>10, <3>11 DEF choices, matching, lands, P
  <2> QED
    BY <2>1 DEF SpinMovesOn
<1>2. IInv => SpinMovesOn
  BY <1>1 DEF IInv
<1> QED
  BY <1>2, HistoryInvariant, PTL

-----------------------------------------------------------------------------
(* The memory store beside Postgres *)

\* What the form of a stored dine says.
LEMMA RowFields ==
  ASSUME NEW d \in Rows
  PROVE  /\ d.at \in Nat /\ d.where \in Restaurants /\ d.picker \in People \cup {Everybody}
         /\ DOMAIN d.scores \subseteq People /\ DOMAIN d.scores # {}
         /\ d.scores \in [DOMAIN d.scores -> Int]
<1>1. PICK id \in Ids, made \in Nat, form \in Forms : d = Dine(id, made, form)
  BY DEF Rows
<1>2. d.at = form.at /\ d.where = form.where /\ d.picker = form.picker /\ d.scores = form.scores
  BY <1>1 DEF Dine
<1>3. /\ form.at \in Nat /\ form.where \in Restaurants /\ form.picker \in People \cup {Everybody}
      /\ DOMAIN form.scores \subseteq People /\ DOMAIN form.scores # {}
      /\ form.scores \in [DOMAIN form.scores -> Int]
  BY HistoryAssumption
<1> QED
  BY <1>2, <1>3

\* The slice of dines has each of them once.
LEMMA StoredListed ==
  ASSUME NEW s, Stored(s)
  PROVE  Lists(s, Range(s)) /\ Range(s) \subseteq Rows
<1>1. /\ s \in Seq(Rows) /\ Len(s) \in Nat /\ DOMAIN s = 1..Len(s)
      /\ \A i, j \in 1..Len(s) : s[i].id = s[j].id => i = j
  BY DEF Stored
<1>2. Range(s) = {s[i] : i \in 1..Len(s)} /\ Range(s) \subseteq Rows
  BY <1>1 DEF Range
<1>3. s \in Seq(Range(s))
  BY <1>1, <1>2
<1> QED
  BY <1>1, <1>2, <1>3 DEF Lists

\* A list of some of the dines is sorted as /dines orders them.
LEMMA SortedAlike ==
  ASSUME NEW s, Range(s) \subseteq Rows
  PROVE  SortVisitsNewestFirst(s) = Sorted(Range(s), NewestFirst)
<1> DEFINE S == Range(s)
           Less(d, e) == IF d.at = e.at THEN IF d.made = e.made THEN d.id < e.id ELSE d.made > e.made
                                        ELSE d.at > e.at
           n == Cardinality(S)
           At1(i) == CHOOSE x \in S : Cardinality({y \in S : Less(y, x)}) = i - 1
           At2(i) == CHOOSE x \in S : Cardinality({y \in S : NewestFirst(y, x)}) = i - 1
<1>1. \A d, e \in S : Less(d, e) <=> NewestFirst(d, e)
  BY RowIs, NewestFirstIs
<1>2. SortVisitsNewestFirst(s) = [i \in 1..n |-> At1(i)]
  BY DEF SortVisitsNewestFirst, Sorted
<1>3. Sorted(S, NewestFirst) = [i \in 1..n |-> At2(i)]
  BY DEF Sorted
<1> HIDE DEF S, n
<1>4. \A x \in S : {y \in S : Less(y, x)} = {y \in S : NewestFirst(y, x)}
  <2> HIDE DEF Less
  <2> QED
    BY <1>1
<1>5. \A i \in 1..n : At1(i) = At2(i)
  <2> DEFINE below1(x) == {y \in S : Less(y, x)}
             below2(x) == {y \in S : NewestFirst(y, x)}
  <2>1. \A x \in S : below1(x) = below2(x)
    BY <1>4
  <2> HIDE DEF below1, below2
  <2> SUFFICES ASSUME NEW i \in 1..n
               PROVE  (CHOOSE x \in S : Cardinality(below1(x)) = i - 1)
                        = (CHOOSE x \in S : Cardinality(below2(x)) = i - 1)
    BY DEF below1, below2
  <2> QED
    BY <2>1
<1> HIDE DEF At1, At2
<1> QED
  BY <1>2, <1>3, <1>5 DEF S

\* Dines in their order: each stands at its place.
LEMMA SortedPlaces ==
  ASSUME NEW M, Keyed(M)
  PROVE  LET all == Sorted(M, NewestFirst)
         IN /\ Lists(all, M) /\ Len(all) = Cardinality(M) /\ Cardinality(M) \in Nat
            /\ \A i \in 1..Len(all) : Cardinality(Ahead(M, all[i])) = i - 1
<1> DEFINE all == Sorted(M, NewestFirst)
           n == Cardinality(M)
<1>1. all = [i \in 1..n |-> CHOOSE x \in M : Cardinality(Ahead(M, x)) = i - 1]
  BY DEF Sorted, Ahead
<1> HIDE DEF all
<1>2. /\ n \in Nat
      /\ \A d \in M : Cardinality(Ahead(M, d)) \in 0..(n - 1)
      /\ \A d, e \in M : Cardinality(Ahead(M, d)) = Cardinality(Ahead(M, e)) => d = e
      /\ \A k \in 1..n : \E d \in M : Cardinality(Ahead(M, d)) = k - 1
  BY PlaceOf
<1> HIDE DEF n
<1>3. /\ Len(all) = n /\ all \in Seq(M)
      /\ \A i \in 1..n : all[i] \in M /\ Cardinality(Ahead(M, all[i])) = i - 1
  <2>1. \A i \in 1..n : all[i] \in M /\ Cardinality(Ahead(M, all[i])) = i - 1
    BY <1>1, <1>2
  <2> QED
    BY <1>1, <1>2, <2>1
<1>4. ASSUME NEW x \in M PROVE \E i \in 1..n : all[i] = x
  <2>1. Cardinality(Ahead(M, x)) + 1 \in 1..n
    BY <1>2
  <2>2. all[Cardinality(Ahead(M, x)) + 1] = x
    BY <1>2, <1>3, <2>1
  <2> QED
    BY <2>1, <2>2
<1>5. \A i, j \in 1..n : all[i] = all[j] => i = j
  BY <1>2, <1>3
<1> QED
  BY <1>2, <1>3, <1>4, <1>5 DEF Lists, all, n

\* A year's first and last time bound the times in it.
LEMMA YearOf ==
  ASSUME NEW at \in Nat, NEW length \in Nat \ {0}, NEW year \in Int
  PROVE  at >= year * length /\ at < (year + 1) * length <=> at \div length = year
<1> DEFINE q == at \div length
<1>1. q \in Nat /\ q * length <= at /\ at < q * length + length
  BY Quotient
<1> HIDE DEF q
<1>2. (year + 1) * length = year * length + length /\ (q + 1) * length = q * length + length
  BY <1>1
<1>3. CASE year < q
  <2>1. (year + 1) * length <= q * length
    BY <1>1, <1>3
  <2> QED
    BY <1>1, <1>3, <2>1 DEF q
<1>4. CASE year > q
  <2>1. (q + 1) * length <= year * length
    BY <1>1, <1>4
  <2> QED
    BY <1>1, <1>2, <1>4, <2>1 DEF q
<1>5. CASE year = q
  BY <1>1, <1>2, <1>5 DEF q
<1> QED
  BY <1>1, <1>3, <1>4, <1>5

\* Both stores let the same dines through a filter.
LEMMA FilterAlike ==
  ASSUME NEW d \in Rows, NEW filter, filter.year \in Int, filter.everybody \in BOOLEAN
  PROVE  VisitMatches(d, filter) <=> VisitFilterSQL(d, filter)
<1>1. d.at \in Nat /\ YearLength \in Nat \ {0}
  BY RowFields, HistoryAssumption
<1>2. filter.year \in {0, VisitYear(d)} <=>
         (filter.year # 0 => /\ d.at >= filter.year * YearLength
                             /\ d.at < (filter.year + 1) * YearLength)
  BY <1>1, YearOf DEF VisitYear
<1>3. \/ filter.everybody /\ d.picker = Everybody
      \/ ~filter.everybody /\ filter.picker \in {None, d.picker}
      <=> IF filter.everybody THEN d.picker = Everybody
          ELSE filter.picker # None => d.picker = filter.picker
  OBVIOUS
<1> QED
  BY <1>2, <1>3, Zenon DEF VisitMatches, VisitFilterSQL

\* A page cut from the list by its offset first and its limit then.
LEMMA PageCut ==
  ASSUME NEW S, NEW all \in Seq(S), NEW limit \in Nat \ {0}, NEW offset \in Nat
  PROVE  LET rest == SubSeq(all, Min({offset, Len(all)}) + 1, Len(all))
         IN (IF Len(rest) > limit THEN SubSeq(rest, 1, limit) ELSE rest)
              = SubSeq(all, offset + 1, Min({offset + limit, Len(all)}))
<1> DEFINE n == Len(all)
           first == IF offset <= n THEN offset ELSE n
           last == IF offset + limit <= n THEN offset + limit ELSE n
           rest == SubSeq(all, first + 1, n)
           page == SubSeq(all, offset + 1, last)
           cut == SubSeq(rest, 1, limit)
<1>1. n \in Nat /\ \A i \in 1..n : all[i] \in S
  OBVIOUS
<1> HIDE DEF n
<1>2. Min({offset, n}) = first /\ Min({offset + limit, n}) = last
  BY <1>1, MinOfTwo
<1>3. /\ first \in Nat /\ first <= n /\ last \in Nat /\ last <= n
      /\ first <= offset /\ (offset <= n => first = offset) /\ (offset > n => first = n)
      /\ last <= offset + limit /\ (offset + limit <= n => last = offset + limit)
      /\ (offset + limit > n => last = n)
  BY <1>1
<1> HIDE DEF first, last
<1>4. /\ rest \in Seq(S) /\ Len(rest) = n - first
      /\ \A i \in 1..(n - first) : rest[i] = all[first + i]
  <2>1. \A i \in (first + 1)..n : all[i] \in S
    BY <1>1, <1>3
  <2>2. /\ rest \in Seq(S) /\ Len(rest) = IF first + 1 <= n THEN n - (first + 1) + 1 ELSE 0
        /\ \A i \in 1..(n - (first + 1) + 1) : rest[i] = all[(first + 1) + i - 1]
    <3> DEFINE from == first + 1
    <3>1. from \in Int /\ n \in Int
      BY <1>1, <1>3
    <3> HIDE DEF from
    <3>2. \A i \in from..n : all[i] \in S
      BY <2>1 DEF from
    <3>3. /\ SubSeq(all, from, n) \in Seq(S)
          /\ Len(SubSeq(all, from, n)) = IF from <= n THEN n - from + 1 ELSE 0
          /\ \A i \in 1..(n - from + 1) : SubSeq(all, from, n)[i] = all[from + i - 1]
      BY <3>1, <3>2, SubSeqProperties
    <3> QED
      BY <3>3 DEF from
  <2> HIDE DEF rest
  <2>3. \A i \in 1..(n - first) : (first + 1) + i - 1 = first + i /\ i \in 1..(n - (first + 1) + 1)
    BY <1>1, <1>3
  <2> QED
    BY <1>1, <1>3, <2>2, <2>3
<1>5. /\ page \in Seq(S) /\ Len(page) = IF offset + 1 <= last THEN last - offset ELSE 0
      /\ \A i \in 1..(last - offset) : page[i] = all[offset + i]
  <2>1. \A i \in (offset + 1)..last : all[i] \in S
    BY <1>1, <1>3
  <2>2. /\ page \in Seq(S) /\ Len(page) = IF offset + 1 <= last THEN last - (offset + 1) + 1 ELSE 0
        /\ \A i \in 1..(last - (offset + 1) + 1) : page[i] = all[(offset + 1) + i - 1]
    <3> DEFINE from == offset + 1
    <3>1. from \in Int /\ last \in Int
      BY <1>3
    <3> HIDE DEF from
    <3>2. \A i \in from..last : all[i] \in S
      BY <2>1 DEF from
    <3>3. /\ SubSeq(all, from, last) \in Seq(S)
          /\ Len(SubSeq(all, from, last)) = IF from <= last THEN last - from + 1 ELSE 0
          /\ \A i \in 1..(last - from + 1) : SubSeq(all, from, last)[i] = all[from + i - 1]
      BY <3>1, <3>2, SubSeqProperties
    <3> QED
      BY <3>3 DEF from
  <2> HIDE DEF page
  <2>3. \A i \in 1..(last - offset) :
           (offset + 1) + i - 1 = offset + i /\ i \in 1..(last - (offset + 1) + 1)
    BY <1>1, <1>3
  <2> QED
    BY <1>1, <1>3, <2>2, <2>3
<1> HIDE DEF rest, page
<1>6. CASE Len(rest) > limit
  <2>1. \A i \in 1..limit : rest[i] \in S
    BY <1>1, <1>3, <1>4, <1>6
  <2>2. /\ cut \in Seq(S) /\ Len(cut) = limit
        /\ \A i \in 1..limit : cut[i] = rest[i]
    <3>1. /\ cut \in Seq(S) /\ Len(cut) = IF 1 <= limit THEN limit - 1 + 1 ELSE 0
          /\ \A i \in 1..(limit - 1 + 1) : cut[i] = rest[1 + i - 1]
      BY <2>1, SubSeqProperties
    <3> HIDE DEF cut
    <3>2. \A i \in 1..limit : i \in 1..(limit - 1 + 1) /\ 1 + i - 1 = i
      OBVIOUS
    <3> QED
      BY <3>1, <3>2
  <2> HIDE DEF cut
  <2>3. first = offset /\ last = offset + limit /\ offset + 1 <= last /\ limit < n - first
    BY <1>1, <1>3, <1>4, <1>6
  <2>4. /\ Len(page) = limit
        /\ \A i \in 1..limit : page[i] = all[offset + i] /\ rest[i] = all[offset + i]
    BY <1>1, <1>4, <1>5, <2>3
  <2>5. cut = page
    BY <1>5, <2>2, <2>4, SeqEqual
  <2> QED
    BY <1>2, <1>6, <2>5 DEF n, rest, page, cut
<1>7. CASE ~(Len(rest) > limit)
  <2>1. last = n /\ Len(page) = Len(rest)
    BY <1>1, <1>3, <1>4, <1>5, <1>7
  <2>2. ASSUME NEW i \in 1..Len(rest) PROVE rest[i] = page[i]
    <3>1. first = offset /\ i \in 1..(n - first) /\ i \in 1..(last - offset)
      BY <1>1, <1>3, <1>4, <2>1
    <3> QED
      BY <1>4, <1>5, <3>1
  <2>3. rest = page
    BY <1>4, <1>5, <2>1, <2>2, SeqEqual
  <2> QED
    BY <1>2, <1>7, <2>3 DEF n, rest, page
<1> QED
  BY <1>6, <1>7

\* Both stores count and page what matches a filter alike.
LEMMA PagesAlike ==
  ASSUME NEW s, Stored(s), NEW filter, filter.year \in Int, filter.everybody \in BOOLEAN,
         NEW limit \in Nat \ {0}, NEW offset \in Nat
  PROVE  /\ MemVisitsPage(s, filter, limit, offset) = VisitsPage(Range(s), filter, limit, offset)
         /\ Len(MatchingVisits(s, filter)) = CountVisits(Range(s), filter)
<1> DEFINE S == Range(s)
           M == {d \in S : VisitFilterSQL(d, filter)}
           matching == MatchingVisits(s, filter)
           all == Sorted(M, NewestFirst)
<1>1. S \subseteq Rows /\ Lists(s, S) /\ Keyed(S)
  BY StoredListed, StoredKeyed
<1>2. {d \in S : VisitMatches(d, filter)} = M
  <2>1. \A d \in S : VisitMatches(d, filter) <=> VisitFilterSQL(d, filter)
    BY <1>1, FilterAlike
  <2> HIDE DEF S
  <2> QED
    BY <2>1
<1>3. matching = Kept(s, M)
  BY <1>2 DEF MatchingVisits
<1>4. M \subseteq S /\ S \cap M = M
  OBVIOUS
<1>5. MemVisitsPage(s, filter, limit, offset) =
         LET rest == SubSeq(SortVisitsNewestFirst(matching),
                            Min({offset, Len(SortVisitsNewestFirst(matching))}) + 1,
                            Len(SortVisitsNewestFirst(matching)))
         IN IF Len(rest) > limit THEN SubSeq(rest, 1, limit) ELSE rest
  BY DEF MemVisitsPage
<1>6. /\ VisitsPage(S, filter, limit, offset)
            = SubSeq(all, offset + 1, Min({offset + limit, Len(all)}))
      /\ CountVisits(S, filter) = Cardinality(M)
  BY DEF VisitsPage, CountVisits
<1> HIDE DEF S, M, all, matching
<1>7. Lists(matching, M)
  BY <1>1, <1>3, <1>4, KeptLists
<1>8. Range(matching) = M /\ Len(matching) = Cardinality(M)
  BY <1>7, ListCounted
<1>9. M \subseteq Rows /\ Keyed(M)
  BY <1>1, <1>4, KeyedSubset
<1>10. SortVisitsNewestFirst(matching) = all
  BY <1>8, <1>9, SortedAlike DEF all
<1>11. all \in Seq(M)
  BY <1>9, SortedPlaces DEF all, Lists
<1>12. MemVisitsPage(s, filter, limit, offset) = VisitsPage(S, filter, limit, offset)
  BY <1>5, <1>6, <1>10, <1>11, PageCut
<1> QED
  BY <1>6, <1>8, <1>12 DEF S, matching

\* Both stores find a dine at the same position.
LEMMA PositionAlike ==
  ASSUME NEW s, Stored(s), NEW id
  PROVE  MemVisitPosition(s, id) = VisitPosition(Range(s), id)
<1> DEFINE S == Range(s)
           all == Sorted(S, NewestFirst)
           n == Len(all)
           I == {i \in 1..n : all[i].id = id}
<1>1. S \subseteq Rows /\ Keyed(S)
  BY StoredListed, StoredKeyed
<1>2. SortVisitsNewestFirst(s) = all
  BY <1>1, SortedAlike
<1>3. MemVisitPosition(s, id) = IF I = {} THEN None ELSE IF Min(I) = 0 THEN None ELSE Min(I) - 1
  BY <1>2 DEF MemVisitPosition, SelectInSeq
<1>4. /\ Lists(all, S) /\ n \in Nat
      /\ \A i \in 1..n : Cardinality(Ahead(S, all[i])) = i - 1
  BY <1>1, SortedPlaces
<1>5. \A i \in 1..n : all[i] \in S
  BY <1>4, ListCounted
<1> HIDE DEF all, n, S
<1>6. CASE \A t \in S : t.id # id
  <2>1. I = {}
    BY <1>5, <1>6
  <2>2. VisitPosition(S, id) = None
    BY <1>6 DEF VisitPosition
  <2> QED
    BY <1>3, <2>1, <2>2 DEF S
<1>7. CASE ~\A t \in S : t.id # id
  <2> DEFINE t == CHOOSE t \in S : t.id = id
  <2>1. t \in S /\ t.id = id
    BY <1>7
  <2>2. VisitPosition(S, id) =
          Cardinality({v \in S : \/ v.at > t.at
                                 \/ v.at = t.at /\ v.made > t.made
                                 \/ v.at = t.at /\ v.made = t.made /\ v.id < t.id})
    BY <1>7 DEF VisitPosition
  <2> HIDE DEF t
  <2>3. {v \in S : \/ v.at > t.at
                   \/ v.at = t.at /\ v.made > t.made
                   \/ v.at = t.at /\ v.made = t.made /\ v.id < t.id} = Ahead(S, t)
    BY <1>1, <2>1, NewestFirstIs DEF Ahead
  <2>4. PICK i \in 1..n : all[i] = t
    BY <1>4, <2>1 DEF Lists, n
  <2>5. I = {i}
    <3>1. ASSUME NEW j \in 1..n, all[j].id = id PROVE j = i
      <4>1. all[j] = t
        BY <1>1, <1>5, <2>1, <3>1 DEF Keyed
      <4> QED
        BY <1>4, <2>4, <4>1
    <3> QED
      BY <2>1, <2>4, <3>1
  <2>6. Min(I) = i
    <3>1. {i, i} = {i} /\ Min({i, i}) = i
      BY MinOfTwo
    <3> QED
      BY <2>5, <3>1
  <2>7. Cardinality(Ahead(S, t)) = i - 1 /\ i # 0
    BY <1>4, <2>4
  <2> QED
    BY <1>3, <2>2, <2>3, <2>5, <2>6, <2>7 DEF S
<1> QED
  BY <1>6, <1>7

\* The permutations of a finite set are the lists of it.
LEMMA SeqsAreLists ==
  ASSUME NEW S, IsFiniteSet(S), NEW s
  PROVE  s \in SetToSeqs(S) <=> Lists(s, S)
<1> DEFINE n == Cardinality(S)
<1>1. n \in Nat /\ IsFiniteSet(1..n) /\ Cardinality(1..n) = n
  BY FS_CardinalityType, FS_Interval
<1>2. s \in SetToSeqs(S) <=> s \in [1..n -> S] /\ \A i, j \in 1..n : i # j => s[i] # s[j]
  BY DEF SetToSeqs
<1> HIDE DEF n
<1>3. ASSUME s \in SetToSeqs(S) PROVE Lists(s, S)
  <2>1. s \in [1..n -> S] /\ \A i, j \in 1..n : s[i] = s[j] => i = j
    BY <1>2, <1>3
  <2>2. s \in Injection(1..n, S)
    BY <2>1 DEF Injection, IsInjective
  <2>3. s \in Surjection(1..n, S)
    BY <1>1, <2>2, FS_Injection DEF n
  <2>4. s \in Seq(S) /\ Len(s) = n
    BY <1>1, <2>1
  <2>5. \A x \in S : \E i \in 1..n : s[i] = x
    BY <2>3 DEF Surjection
  <2> QED
    BY <2>1, <2>4, <2>5 DEF Lists
<1>4. ASSUME Lists(s, S) PROVE s \in SetToSeqs(S)
  <2>1. Len(s) = n /\ s \in [1..n -> S] /\ \A i, j \in 1..n : s[i] = s[j] => i = j
    <3>1. Len(s) = n
      BY <1>4, ListCounted DEF n
    <3> QED
      BY <1>4, <3>1 DEF Lists
  <2> QED
    BY <1>2, <2>1
<1> QED
  BY <1>3, <1>4

\* The order of two keys.
LEMMA PairPrecedes ==
  ASSUME NEW a1, NEW a2, NEW b1, NEW b2
  PROVE  Precedes(<<a1, a2>>, <<b1, b2>>) <=> a1 < b1 \/ (a1 = b1 /\ a2 < b2)
<1> DEFINE a == <<a1, a2>>
           b == <<b1, b2>>
<1>1. DOMAIN a = 1..2 /\ a[1] = a1 /\ a[2] = a2 /\ b[1] = b1 /\ b[2] = b2
  OBVIOUS
<1> HIDE DEF a, b
<1>2. Precedes(a, b) <=> \E i \in {1, 2} : a[i] < b[i] /\ \A j \in 1..(i - 1) : a[j] = b[j]
  <2>1. DOMAIN a = {1, 2}
    BY <1>1
  <2> QED
    BY <2>1 DEF Precedes
<1>3. 1..(1 - 1) = {} /\ 1..(2 - 1) = {1}
  OBVIOUS
<1> QED
  BY <1>1, <1>2, <1>3 DEF a, b

\* ORDER BY visited_at DESC, created_at DESC.
LEMMA NewerIs ==
  ASSUME NEW d \in Rows, NEW e \in Rows
  PROVE  Precedes(<<-d.at, -d.made>>, <<-e.at, -e.made>>) <=>
           d.at > e.at \/ (d.at = e.at /\ d.made > e.made)
<1>1. d.at \in Int /\ d.made \in Int /\ e.at \in Int /\ e.made \in Int
  BY RowIs
<1>2. Precedes(<<-d.at, -d.made>>, <<-e.at, -e.made>>) <=>
        -d.at < -e.at \/ (-d.at = -e.at /\ -d.made < -e.made)
  BY <1>1, PairPrecedes
<1> QED
  BY <1>1, <1>2

\* The memory store's dines of a restaurant are in an order that Postgres may give.
LEMMA PlacesDinesAlike ==
  ASSUME NEW s, Stored(s), NEW r
  PROVE  MemRestaurantVisits(s, r) \in RestaurantVisits(Range(s), r)
<1> DEFINE S == Range(s)
           M == {d \in S : d.where = r}
           all == Sorted(M, NewestFirst)
<1>1. S \subseteq Rows /\ Lists(s, S) /\ Keyed(S)
  BY StoredListed, StoredKeyed
<1>2. MemRestaurantVisits(s, r) = SortVisitsNewestFirst(Kept(s, M))
  BY DEF MemRestaurantVisits
<1>3. \A t : t \in RestaurantVisits(S, r) <=>
         /\ t \in SetToSeqs(M)
         /\ \A i, j \in DOMAIN t :
               i < j => ~Precedes(<<-t[j].at, -t[j].made>>, <<-t[i].at, -t[i].made>>)
  BY DEF RestaurantVisits, OrderBy
<1>4. M \subseteq S /\ S \cap M = M
  OBVIOUS
<1> HIDE DEF S, M, all
<1>5. M \subseteq Rows /\ Keyed(M) /\ IsFiniteSet(M)
  BY <1>1, <1>4, KeyedSubset DEF Keyed
<1>6. Range(Kept(s, M)) = M
  BY <1>1, <1>4, KeptLists, ListCounted
<1>7. MemRestaurantVisits(s, r) = all
  BY <1>2, <1>5, <1>6, SortedAlike DEF all
<1>8. /\ Lists(all, M) /\ Len(all) \in Nat
      /\ \A i \in 1..Len(all) : Cardinality(Ahead(M, all[i])) = i - 1
  BY <1>5, SortedPlaces DEF all
<1>9. DOMAIN all = 1..Len(all) /\ \A i \in 1..Len(all) : all[i] \in M
  BY <1>8, ListCounted
<1>10. ASSUME NEW i \in 1..Len(all), NEW j \in 1..Len(all), i < j,
              Precedes(<<-all[j].at, -all[j].made>>, <<-all[i].at, -all[i].made>>)
       PROVE  FALSE
  <2>1. all[i] \in Rows /\ all[j] \in Rows
    BY <1>5, <1>9
  <2>2. NewestFirst(all[j], all[i])
    BY <1>10, <2>1, NewerIs, NewestFirstIs
  <2>3. Cardinality(Ahead(M, all[j])) < Cardinality(Ahead(M, all[i]))
    BY <1>5, <1>9, <2>2, PlaceOf
  <2> QED
    BY <1>8, <1>10, <2>3
<1>11. all \in SetToSeqs(M)
  BY <1>5, <1>8, SeqsAreLists
<1> QED
  BY <1>3, <1>7, <1>9, <1>10, <1>11 DEF S

-----------------------------------------------------------------------------
(* The choices of the Filter dialog *)

\* Of the values that differ only in case, the least.
Firsts(V) == {v \in V : \A w \in V : Fold(w) = Fold(v) => v <= w}

\* keep leaves the least spelling of each value that it has seen.
LEMMA KeepFirst ==
  ASSUME NEW V \in SUBSET (Nat \ {0}), NEW v \in Nat
  PROVE  KeepValue(Firsts(V), v) = Firsts((V \cup {v}) \ {0})
<1> DEFINE kept == Firsts(V)
           all == V \cup {v}
<1>1. \A x \in kept : x \in V /\ \A w \in V : Fold(w) = Fold(x) => x <= w
  BY DEF Firsts
<1>2. \A x \in V : x \in Nat \ {0}
  OBVIOUS
<1>3. \A x : x \in Firsts(all) <=> x \in all /\ \A w \in all : Fold(w) = Fold(x) => x <= w
  BY DEF Firsts
<1>4. \A x \in V : (\A w \in V : Fold(w) = Fold(x) => x <= w) => x \in kept
  BY DEF Firsts
<1> HIDE DEF kept
<1>5. CASE v = 0
  <2>1. all \ {0} = V
    BY <1>2, <1>5
  <2>2. KeepValue(kept, v) = kept
    BY <1>5 DEF KeepValue
  <2> QED
    BY <2>1, <2>2 DEF kept
<1>6. CASE v # 0 /\ \E w \in kept : Fold(w) = Fold(v) /\ w <= v
  <2>1. PICK w \in kept : Fold(w) = Fold(v) /\ w <= v
    BY <1>6
  <2>2. KeepValue(kept, v) = kept
    BY <1>6 DEF KeepValue
  <2>3. all \ {0} = all
    BY <1>2, <1>6
  <2>4. \A x \in kept : x \in Firsts(all)
    <3> SUFFICES ASSUME NEW x \in kept PROVE x \in Firsts(all)
      OBVIOUS
    <3>1. x \in V /\ x \in Nat /\ w \in V /\ w \in Nat
      BY <1>1, <1>2
    <3>2. \A u \in V : Fold(u) = Fold(x) => x <= u
      BY <1>1
    <3>3. Fold(v) = Fold(x) => x <= v
      BY <2>1, <3>1, <3>2
    <3> QED
      BY <1>3, <3>1, <3>2, <3>3
  <2>5. \A x \in Firsts(all) : x \in kept
    <3>1. ASSUME NEW x \in Firsts(all), x = v PROVE x = w
      <4>1. w \in V /\ w \in Nat /\ w \in all
        BY <1>1, <1>2
      <4>2. x <= w
        BY <1>3, <2>1, <3>1, <4>1
      <4> QED
        BY <2>1, <3>1, <4>1, <4>2
    <3>2. ASSUME NEW x \in Firsts(all), x \in V PROVE x \in kept
      BY <1>3, <1>4, <3>2
    <3> QED
      BY <1>3, <2>1, <3>1, <3>2
  <2> QED
    BY <2>2, <2>3, <2>4, <2>5 DEF kept
<1>7. CASE v # 0 /\ ~\E w \in kept : Fold(w) = Fold(v) /\ w <= v
  <2> DEFINE same == {w \in kept : Fold(w) = Fold(v)}
             later == (kept \ same) \cup {v}
  <2>1. KeepValue(kept, v) = later
    BY <1>7 DEF KeepValue
  <2>2. all \ {0} = all
    BY <1>2, <1>7
  <2>3. ASSUME NEW w \in V, Fold(w) = Fold(v) PROVE v <= w
    <3> DEFINE T == {u \in V : Fold(u) = Fold(v)}
    <3>1. T \in SUBSET Nat /\ T # {}
      BY <2>3
    <3>2. PICK m \in T : \A u \in T : m <= u
      <4> HIDE DEF T
      <4> QED
        BY <3>1, LeastNumber
    <3>3. m \in kept /\ Fold(m) = Fold(v) /\ m <= w /\ m \in Nat
      BY <1>2, <1>4, <2>3, <3>2
    <3>4. ~(m <= v)
      BY <1>7, <3>3
    <3> QED
      BY <3>3, <3>4
  <2>4. \A x \in later : x \in Firsts(all)
    <3>1. v \in Firsts(all)
      BY <1>3, <2>3
    <3>2. \A x \in kept \ same : x \in Firsts(all)
      BY <1>1, <1>3
    <3> QED
      BY <3>1, <3>2
  <2>5. \A x \in Firsts(all) : x \in later
    <3>1. ASSUME NEW x \in Firsts(all), x # v PROVE x \in kept \ same
      <4>1. x \in V /\ x \in kept /\ x \in Nat
        BY <1>2, <1>3, <1>4, <3>1
      <4>2. ASSUME Fold(x) = Fold(v) PROVE FALSE
        <5>1. x <= v
          BY <1>3, <4>2
        <5> QED
          BY <1>7, <4>1, <4>2, <5>1
      <4> QED
        BY <4>1, <4>2
    <3> QED
      BY <3>1
  <2> HIDE DEF later
  <2> QED
    BY <2>1, <2>2, <2>4, <2>5 DEF kept
<1> QED
  BY <1>5, <1>6, <1>7

\* What the query groups by case are the same least spellings.
LEMMA FirstsSelected ==
  ASSUME NEW S, NEW column, \A d \in S : column[d.where] \in Nat
  PROVE  VisitedRestaurantValues(S, column) = Firsts({column[d.where] : d \in S} \ {0})
<1> DEFINE V == {column[d.where] : d \in S} \ {0}
           Same(w) == {v \in V : Fold(v) = Fold(w)}
<1>1. VisitedRestaurantValues(S, column) = {Min(Same(w)) : w \in V}
  BY DEF VisitedRestaurantValues
<1>2. V \in SUBSET Nat
  OBVIOUS
<1>3. \A x : x \in Firsts(V) <=> x \in V /\ \A w \in V : Fold(w) = Fold(x) => x <= w
  BY DEF Firsts
<1> HIDE DEF V
<1>4. ASSUME NEW w \in V
      PROVE  Min(Same(w)) \in Same(w) /\ \A v \in Same(w) : Min(Same(w)) <= v
  <2>1. Same(w) \in SUBSET Nat /\ Same(w) # {}
    BY <1>2
  <2> HIDE DEF Same
  <2>2. \E m \in Same(w) : \A v \in Same(w) : m <= v
    BY <2>1, LeastNumber
  <2> QED
    BY <2>2 DEF Min
<1>5. ASSUME NEW w \in V PROVE Min(Same(w)) \in Firsts(V)
  BY <1>3, <1>4
<1>6. ASSUME NEW x \in Firsts(V) PROVE x \in V /\ Min(Same(x)) = x
  <2>1. x \in V /\ x \in Nat /\ x \in Same(x)
    BY <1>2, <1>3
  <2>2. Min(Same(x)) <= x /\ Min(Same(x)) \in Same(x) /\ Min(Same(x)) \in Nat
    BY <1>2, <1>4, <2>1
  <2>3. x <= Min(Same(x))
    BY <1>3, <2>2
  <2> QED
    BY <2>1, <2>2, <2>3
<1> HIDE DEF Same
<1> QED
  BY <1>1, <1>5, <1>6 DEF V

\* The least spellings of the column's values that the dines' restaurants have.
Spelled(s, column) ==
    LET values[k \in 0..Len(s)] ==
            IF k = 0 THEN {} ELSE KeepValue(values[k - 1], column[s[k].where])
    IN values[Len(s)]

\* What a run of keep over the dines computes.
LEMMA SpellingsRun ==
  ASSUME NEW s, Len(s) \in Nat, NEW column, \A k \in 1..Len(s) : column[s[k].where] \in Nat
  PROVE  \E f \in [0..Len(s) -> SUBSET Nat] :
            /\ f[0] = {} /\ Spelled(s, column) = f[Len(s)]
            /\ \A k \in 1..Len(s) : f[k] = KeepValue(f[k - 1], column[s[k].where])
<1> DEFINE n == Len(s)
           Body(v, k) == KeepValue(v, column[s[k].where])
           V == SUBSET Nat
           first == {}
           step == [k \in 1..n |-> [v \in V |-> Body(v, k)]]
           Loop(f) == f = [k \in 0..n |-> IF k = 0 THEN first ELSE Body(f[k - 1], k)]
           values == CHOOSE f : Loop(f)
<1>1. n \in Nat /\ \A k \in 1..n : column[s[k].where] \in Nat
  OBVIOUS
<1>2. Spelled(s, column) = values[n]
  BY DEF Spelled
<1>3. \A v \in V, k \in 1..n : Body(v, k) \in V
  BY <1>1 DEF KeepValue
<1>4. first \in V
  OBVIOUS
<1> HIDE DEF n, Body, V, first
<1>5. \E f : Loop(f)
  <2>1. step \in Bodies(V, n)
    BY <1>3 DEF Bodies
  <2>2. PICK f \in [0..n -> V] : f[0] = first /\ \A k \in 1..n : f[k] = step[k][f[k - 1]]
    <3> HIDE DEF step
    <3>1. LoopRuns(V, n, first, step) # {}
      BY <1>1, <1>4, <2>1, Iterated
    <3> QED
      BY <3>1 DEF LoopRuns
  <2>3. ASSUME NEW k \in 0..n PROVE f[k] = IF k = 0 THEN first ELSE Body(f[k - 1], k)
    <3>1. CASE k # 0
      <4>1. k \in 1..n /\ f[k - 1] \in V
        BY <1>1, <2>2, <3>1
      <4> QED
        BY <2>2, <3>1, <4>1
    <3> QED
      BY <2>2, <3>1
  <2>4. Loop(f)
    BY <2>2, <2>3
  <2> QED
    BY <2>4
<1>6. Loop(values)
  <2> HIDE DEF Loop
  <2> QED
    BY <1>5
<1> HIDE DEF values
<1>7. /\ DOMAIN values = 0..n /\ values[0] = first
      /\ \A k \in 1..n : values[k] = Body(values[k - 1], k)
  BY <1>1, <1>6
<1>8. values = [k \in 0..n |-> values[k]]
  BY <1>6
<1> HIDE DEF Loop
<1> DEFINE Q == {k \in 0..n : values[k] \in V}
<1>9. \A k \in 0..n : k \in Q
  <2>1. 0 \in Q
    BY <1>1, <1>4, <1>7
  <2>2. ASSUME NEW k \in 1..n, k - 1 \in Q PROVE k \in Q
    <3>1. Body(values[k - 1], k) \in V
      BY <1>3, <2>2
    <3>2. values[k] = Body(values[k - 1], k) /\ k \in 0..n
      BY <1>1, <1>7
    <3> QED
      BY <3>1, <3>2
  <2> HIDE DEF Q
  <2> QED
    BY <1>1, <2>1, <2>2, Upwards
<1>10. values \in [0..n -> V]
  BY <1>8, <1>9
<1>11. \E f \in [0..n -> V] :
          /\ f[0] = first /\ values[n] = f[n]
          /\ \A k \in 1..n : f[k] = Body(f[k - 1], k)
  BY <1>1, <1>7, <1>10
<1> QED
  BY <1>2, <1>11 DEF n, Body, V, first

\* The run leaves the least spelling of each value.
LEMMA SpellingsAre ==
  ASSUME NEW s, Len(s) \in Nat, DOMAIN s = 1..Len(s), NEW column,
         \A k \in 1..Len(s) : column[s[k].where] \in Nat
  PROVE  Spelled(s, column) = VisitedRestaurantValues(Range(s), column)
<1> DEFINE n == Len(s)
           spelled == Spelled(s, column)
           Seen(k) == {column[s[i].where] : i \in 1..k} \ {0}
<1>1. PICK f \in [0..n -> SUBSET Nat] :
         /\ f[0] = {} /\ spelled = f[n]
         /\ \A k \in 1..n : f[k] = KeepValue(f[k - 1], column[s[k].where])
  BY SpellingsRun
<1>2. n \in Nat /\ \A k \in 1..n : column[s[k].where] \in Nat
  OBVIOUS
<1> HIDE DEF n, spelled
<1> DEFINE Q == {k \in 0..n : f[k] = Firsts(Seen(k))}
<1>3. \A k \in 0..n : k \in Q
  <2>1. 0 \in Q
    <3>1. Firsts(Seen(0)) = {}
      BY DEF Firsts
    <3>2. f[0] = Firsts(Seen(0)) /\ 0 \in 0..n
      BY <1>1, <1>2, <3>1
    <3> HIDE DEF Seen
    <3> QED
      BY <3>2
  <2>2. ASSUME NEW k \in 1..n, k - 1 \in Q PROVE k \in Q
    <3>1. Seen(k) = (Seen(k - 1) \cup {column[s[k].where]}) \ {0}
      BY <1>2
    <3>2. Seen(k - 1) \in SUBSET (Nat \ {0}) /\ column[s[k].where] \in Nat
      <4>1. \A i \in 1..(k - 1) : i \in 1..n
        BY <1>2
      <4> QED
        BY <1>2, <4>1
    <3>3. f[k] = KeepValue(f[k - 1], column[s[k].where]) /\ f[k - 1] = Firsts(Seen(k - 1))
      BY <1>1, <2>2
    <3> HIDE DEF Seen
    <3>4. f[k] = Firsts(Seen(k))
      BY <3>1, <3>2, <3>3, KeepFirst
    <3>5. k \in 0..n
      BY <1>2
    <3> QED
      BY <3>4, <3>5
  <2> HIDE DEF Q
  <2> QED
    BY <1>2, <2>1, <2>2, Upwards
<1>4. spelled = Firsts(Seen(n))
  <2>1. n \in 0..n
    BY <1>2
  <2> QED
    BY <1>1, <1>3, <2>1
<1>5. Range(s) = {s[i] : i \in 1..n}
  BY DEF Range, n
<1>6. Seen(n) = {column[d.where] : d \in Range(s)} \ {0}
  BY <1>5
<1>7. \A d \in Range(s) : column[d.where] \in Nat
  BY <1>2, <1>5
<1> HIDE DEF Seen
<1>8. spelled = VisitedRestaurantValues(Range(s), column)
  BY <1>4, <1>6, <1>7, FirstsSelected
<1> QED
  BY <1>8 DEF n, spelled

\* Both stores offer the same choices to filter by.
LEMMA OptionsAlike ==
  ASSUME NEW s, Stored(s)
  PROVE  MemVisitFilterOptions(s) = VisitFilterOptions(Range(s))
<1> DEFINE n == Len(s)
<1>1. n \in Nat /\ DOMAIN s = 1..n /\ Range(s) = {s[i] : i \in 1..n} /\ Range(s) \subseteq Rows
  BY StoredListed DEF Stored, Range
<1>2. \A k \in 1..n : s[k].where \in Restaurants
  BY <1>1, RowFields
<1>3. Category \in [Restaurants -> Nat] /\ City \in [Restaurants -> Nat]
  BY ColumnsAre
<1>4. Spelled(s, Category) = VisitedRestaurantValues(Range(s), Category)
  BY <1>1, <1>2, <1>3, SpellingsAre
<1>5. Spelled(s, City) = VisitedRestaurantValues(Range(s), City)
  BY <1>1, <1>2, <1>3, SpellingsAre
<1>6. {VisitYear(s[i]) : i \in DOMAIN s} = {d.at \div YearLength : d \in Range(s)}
  BY <1>1 DEF VisitYear
<1>7. MemVisitFilterOptions(s) = [cuisines |-> Spelled(s, Category), cities |-> Spelled(s, City),
                                  years |-> {VisitYear(s[i]) : i \in DOMAIN s}]
  BY DEF MemVisitFilterOptions, Spelled
<1> QED
  BY <1>4, <1>5, <1>6, <1>7 DEF VisitFilterOptions

-----------------------------------------------------------------------------
(* Records by restaurant, and the map *)

\* A number that is in a set and above the others is its greatest.
LEMMA GreatestIs ==
  ASSUME NEW T \in SUBSET Int, NEW m \in T, \A x \in T : x <= m
  PROVE  Max(T) = m
<1>1. Max(T) \in T /\ \A x \in T : Max(T) >= x
  BY DEF Max
<1> DEFINE g == Max(T)
<1>2. g \in T /\ g >= m
  BY <1>1
<1>3. g \in Int /\ m \in Int /\ g <= m
  BY <1>2
<1> QED
  BY <1>2, <1>3

\* A restaurant's record before and after another dine.
Record == [where : Restaurants, visits : Nat, latest : Nat]
NoRecords == [r \in Restaurants |-> [where |-> r, visits |-> 0, latest |-> 0]]
Recorded(v, d) == [v EXCEPT ![d.where].visits = @ + 1,
                            ![d.where].latest = IF d.at > @ THEN d.at ELSE @]

\* A dine is entered in the record of its restaurant alone.
LEMMA RecordStep ==
  ASSUME NEW v \in [Restaurants -> Record], NEW d \in Rows
  PROVE  /\ Recorded(v, d) \in [Restaurants -> Record]
         /\ \A r \in Restaurants : Recorded(v, d)[r] =
               IF r = d.where
               THEN [where |-> v[r].where, visits |-> v[r].visits + 1,
                     latest |-> IF d.at > v[r].latest THEN d.at ELSE v[r].latest]
               ELSE v[r]
<1> DEFINE w == d.where
           one == [v EXCEPT ![w].visits = @ + 1]
           two == [one EXCEPT ![w].latest = IF d.at > @ THEN d.at ELSE @]
           new == [where |-> v[w].where, visits |-> v[w].visits + 1,
                   latest |-> IF d.at > v[w].latest THEN d.at ELSE v[w].latest]
<1>1. d.at \in Nat /\ w \in Restaurants
  BY RowFields
<1>2. Recorded(v, d) = two
  BY DEF Recorded
<1> HIDE DEF w
<1>3. v[w] \in Record
  BY <1>1
<1>4. new \in Record
  BY <1>1, <1>3 DEF Record
<1>5. /\ DOMAIN one = Restaurants
      /\ \A r \in Restaurants : r # w => one[r] = v[r]
      /\ one[w] = [where |-> v[w].where, visits |-> v[w].visits + 1, latest |-> v[w].latest]
  <2>1. one = [v EXCEPT ![w] = [v[w] EXCEPT !.visits = @ + 1]]
    OBVIOUS
  <2>2. [v[w] EXCEPT !.visits = @ + 1]
          = [where |-> v[w].where, visits |-> v[w].visits + 1, latest |-> v[w].latest]
    BY <1>3 DEF Record
  <2> HIDE DEF one
  <2> QED
    BY <1>1, <2>1, <2>2
<1>6. one = [r \in Restaurants |-> one[r]]
  OBVIOUS
<1> HIDE DEF one
<1>7. /\ two = [r \in Restaurants |-> two[r]]
      /\ \A r \in Restaurants : r # w => two[r] = v[r]
      /\ two[w] = new
  <2>1. two = [one EXCEPT ![w] = [one[w] EXCEPT !.latest = IF d.at > @ THEN d.at ELSE @]]
    OBVIOUS
  <2>2. [one[w] EXCEPT !.latest = IF d.at > @ THEN d.at ELSE @] = new
    BY <1>5
  <2> HIDE DEF two, new
  <2> QED
    BY <1>1, <1>5, <1>6, <2>1, <2>2
<1> HIDE DEF two, new
<1>8. \A r \in Restaurants : two[r] \in Record
  BY <1>4, <1>7
<1>9. two \in [Restaurants -> Record]
  BY <1>7, <1>8
<1> QED
  BY <1>2, <1>7, <1>9 DEF new, w

\* What a run of the loop over the dines computes.
LEMMA RecordsRun ==
  ASSUME NEW s \in Seq(Rows)
  PROVE  \E f \in [0..Len(s) -> [Restaurants -> Record]] :
            /\ f[0] = NoRecords /\ Records(s) = f[Len(s)]
            /\ \A k \in 1..Len(s) : f[k] = Recorded(f[k - 1], s[k])
<1> DEFINE n == Len(s)
           Body(v, k) == Recorded(v, s[k])
           V == [Restaurants -> Record]
           step == [k \in 1..n |-> [v \in V |-> Body(v, k)]]
           Loop(f) == f = [k \in 0..n |-> IF k = 0 THEN NoRecords ELSE Body(f[k - 1], k)]
           by == CHOOSE f : Loop(f)
<1>1. n \in Nat /\ \A k \in 1..n : s[k] \in Rows
  OBVIOUS
<1>2. Records(s) = by[n]
  BY DEF Records, Recorded, NoRecords
<1>3. \A v \in V, k \in 1..n : Body(v, k) \in V
  BY <1>1, RecordStep
<1>4. NoRecords \in V
  BY DEF NoRecords, Record
<1> HIDE DEF n, Body, V
<1>5. \E f : Loop(f)
  <2>1. step \in Bodies(V, n)
    BY <1>3 DEF Bodies
  <2>2. PICK f \in [0..n -> V] : f[0] = NoRecords /\ \A k \in 1..n : f[k] = step[k][f[k - 1]]
    <3> HIDE DEF step
    <3>1. LoopRuns(V, n, NoRecords, step) # {}
      BY <1>1, <1>4, <2>1, Iterated
    <3> QED
      BY <3>1 DEF LoopRuns
  <2>3. ASSUME NEW k \in 0..n PROVE f[k] = IF k = 0 THEN NoRecords ELSE Body(f[k - 1], k)
    <3>1. CASE k # 0
      <4>1. k \in 1..n /\ f[k - 1] \in V
        BY <1>1, <2>2, <3>1
      <4> QED
        BY <2>2, <3>1, <4>1
    <3> QED
      BY <2>2, <3>1
  <2>4. Loop(f)
    BY <2>2, <2>3
  <2> QED
    BY <2>4
<1>6. Loop(by)
  <2> HIDE DEF Loop
  <2> QED
    BY <1>5
<1> HIDE DEF by
<1>7. /\ DOMAIN by = 0..n /\ by[0] = NoRecords
      /\ \A k \in 1..n : by[k] = Body(by[k - 1], k)
  BY <1>1, <1>6
<1>8. by = [k \in 0..n |-> by[k]]
  BY <1>6
<1> HIDE DEF Loop
<1> DEFINE Q == {k \in 0..n : by[k] \in V}
<1>9. \A k \in 0..n : k \in Q
  <2>1. 0 \in Q
    BY <1>1, <1>4, <1>7
  <2>2. ASSUME NEW k \in 1..n, k - 1 \in Q PROVE k \in Q
    <3>1. Body(by[k - 1], k) \in V
      BY <1>3, <2>2
    <3>2. by[k] = Body(by[k - 1], k) /\ k \in 0..n
      BY <1>1, <1>7
    <3> QED
      BY <3>1, <3>2
  <2> HIDE DEF Q
  <2> QED
    BY <1>1, <2>1, <2>2, Upwards
<1>10. by \in [0..n -> V]
  BY <1>8, <1>9
<1> QED
  BY <1>2, <1>7, <1>10 DEF n, Body, V

\* A record says how many dines there were at a restaurant and when the last was.
LEMMA RecordsAre ==
  ASSUME NEW S \in SUBSET Rows, NEW s, Lists(s, S)
  PROVE  /\ DOMAIN Records(s) = Restaurants
         /\ \A r \in Restaurants :
               /\ IsFiniteSet(At(S, r))
               /\ Records(s)[r] = [where |-> r, visits |-> Cardinality(At(S, r)),
                                   latest |-> IF At(S, r) = {} THEN 0 ELSE Latest(At(S, r))]
               /\ Records(s)[r] \in Record
<1> DEFINE n == Len(s)
           Seen(k) == {s[i] : i \in 1..k}
<1>1. s \in Seq(Rows) /\ n \in Nat /\ \A i \in 1..n : s[i] \in Rows
  BY DEF Lists
<1>2. \A i, j \in 1..n : s[i] = s[j] => i = j
  BY DEF Lists
<1>3. PICK f \in [0..n -> [Restaurants -> Record]] :
         /\ f[0] = NoRecords /\ Records(s) = f[n]
         /\ \A k \in 1..n : f[k] = Recorded(f[k - 1], s[k])
  BY <1>1, RecordsRun
<1>4. Seen(n) = S
  BY ListCounted DEF Lists
<1> HIDE DEF n
<1> DEFINE Right(v, T, r) ==
              /\ v.where = r /\ IsFiniteSet(At(T, r)) /\ v.visits = Cardinality(At(T, r))
              /\ \A d \in At(T, r) : d.at <= v.latest
              /\ IF At(T, r) = {} THEN v.latest = 0 ELSE \E d \in At(T, r) : d.at = v.latest
           Q == {k \in 0..n : \A r \in Restaurants : Right(f[k][r], Seen(k), r)}
<1>5. 0 \in Q
  <2>1. ASSUME NEW r \in Restaurants PROVE Right(f[0][r], Seen(0), r)
    <3>1. Seen(0) = {} /\ At(Seen(0), r) = {}
      BY DEF At
    <3>2. f[0][r].where = r /\ f[0][r].visits = 0 /\ f[0][r].latest = 0
      BY <1>3 DEF NoRecords
    <3> HIDE DEF Seen
    <3> QED
      BY <3>1, <3>2, FS_EmptySet
  <2>2. 0 \in 0..n
    BY <1>1
  <2> HIDE DEF Right, Seen
  <2> QED
    BY <2>1, <2>2
<1>6. ASSUME NEW k \in 1..n, k - 1 \in Q PROVE k \in Q
  <2> DEFINE d == s[k]
             T == Seen(k - 1)
  <2>1. d \in Rows /\ d.at \in Nat /\ d.where \in Restaurants
    BY <1>1, RowFields
  <2>2. Seen(k) = T \cup {d} /\ d \notin T
    <3>1. Seen(k) = T \cup {d}
      BY <1>1
    <3>2. ASSUME NEW i \in 1..(k - 1), s[i] = d PROVE FALSE
      <4>1. i \in 1..n /\ i # k
        BY <1>1
      <4> QED
        BY <1>2, <3>2, <4>1
    <3> QED
      BY <3>1, <3>2
  <2>3. f[k] = Recorded(f[k - 1], d) /\ f[k - 1] \in [Restaurants -> Record]
    <3>1. k - 1 \in 0..n
      BY <1>1
    <3> QED
      BY <1>3, <3>1
  <2>4. \A r \in Restaurants : Right(f[k - 1][r], T, r)
    BY <1>6
  <2>5. \A e \in T : e.at \in Nat
    <3>1. \A i \in 1..(k - 1) : s[i] \in Rows
      BY <1>1
    <3> QED
      BY <3>1, RowFields
  <2> HIDE DEF T, d, Seen
  <2>6. ASSUME NEW r \in Restaurants PROVE Right(f[k][r], T \cup {d}, r)
    <3> DEFINE v == f[k - 1][r]
               w == f[k][r]
    <3>1. Right(v, T, r)
      BY <2>4
    <3>2. v \in Record
      BY <2>3
    <3>3. w = IF r = d.where
              THEN [where |-> v.where, visits |-> v.visits + 1,
                    latest |-> IF d.at > v.latest THEN d.at ELSE v.latest]
              ELSE v
      BY <2>1, <2>3, RecordStep
    <3> HIDE DEF v, w
    <3>4. CASE r # d.where
      <4>1. At(T \cup {d}, r) = At(T, r)
        BY <3>4 DEF At
      <4>2. Right(v, T \cup {d}, r)
        BY <3>1, <4>1
      <4> HIDE DEF Right
      <4> QED
        BY <3>3, <3>4, <4>2 DEF w
    <3>5. CASE r = d.where
      <4>1. At(T \cup {d}, r) = At(T, r) \cup {d} /\ d \notin At(T, r)
        BY <2>2, <3>5 DEF At
      <4>2. /\ w.where = v.where /\ w.visits = v.visits + 1
            /\ w.latest = IF d.at > v.latest THEN d.at ELSE v.latest
        BY <3>3, <3>5
      <4>3. IsFiniteSet(At(T \cup {d}, r)) /\ w.visits = Cardinality(At(T \cup {d}, r))
        <5>1. IsFiniteSet(At(T, r)) /\ v.visits = Cardinality(At(T, r))
          BY <3>1
        <5>2. /\ IsFiniteSet(At(T, r) \cup {d})
              /\ Cardinality(At(T, r) \cup {d}) = Cardinality(At(T, r)) + 1
          BY <4>1, <5>1, FS_AddElement
        <5> QED
          BY <4>1, <4>2, <5>1, <5>2
      <4>4. v.latest \in Nat /\ \A e \in At(T, r) : e.at \in Nat
        BY <2>5, <3>2 DEF Record, At
      <4>5. \A e \in At(T \cup {d}, r) : e.at <= w.latest
        BY <2>1, <3>1, <4>1, <4>2, <4>4
      <4>6. \E e \in At(T \cup {d}, r) : e.at = w.latest
        <5>1. CASE At(T, r) = {}
          <6>1. v.latest = 0
            BY <3>1, <5>1
          <6>2. d.at = w.latest
            BY <2>1, <4>2, <6>1
          <6> QED
            BY <4>1, <6>2
        <5>2. CASE At(T, r) # {}
          <6>1. PICK e \in At(T, r) : e.at = v.latest
            BY <3>1, <5>2
          <6>2. w.latest \in {d.at, e.at}
            BY <4>2, <6>1
          <6>3. d \in At(T \cup {d}, r) /\ e \in At(T \cup {d}, r)
            BY <4>1, <6>1
          <6> QED
            BY <6>2, <6>3
        <5> QED
          BY <5>1, <5>2
      <4>7. At(T \cup {d}, r) # {}
        BY <4>1
      <4>8. w.where = r
        BY <3>1, <4>2
      <4> QED
        BY <4>3, <4>5, <4>6, <4>7, <4>8 DEF w
    <3> QED
      BY <3>4, <3>5
  <2>7. k \in 0..n
    BY <1>1
  <2> HIDE DEF Right
  <2> QED
    BY <2>2, <2>6, <2>7
<1>7. n \in Q
  <2> HIDE DEF Q
  <2>1. \A k \in 0..n : k \in Q
    BY <1>1, <1>5, <1>6, Upwards
  <2> QED
    BY <1>1, <2>1
<1>8. f[n] \in [Restaurants -> Record]
  BY <1>1, <1>3
<1>9. ASSUME NEW r \in Restaurants
      PROVE  /\ IsFiniteSet(At(S, r))
             /\ f[n][r] = [where |-> r, visits |-> Cardinality(At(S, r)),
                           latest |-> IF At(S, r) = {} THEN 0 ELSE Latest(At(S, r))]
  <2> DEFINE v == f[n][r]
             A == At(S, r)
  <2>1. Right(v, S, r)
    BY <1>4, <1>7
  <2>2. v \in Record
    BY <1>8
  <2>3. \A d \in A : d.at \in Int
    BY RowIs DEF At
  <2> HIDE DEF v
  <2>4. v.latest = IF A = {} THEN 0 ELSE Latest(A)
    <3>1. CASE A = {}
      BY <2>1, <3>1
    <3>2. CASE A # {}
      <4> DEFINE times == {d.at : d \in A}
      <4>1. \E d \in A : d.at = v.latest
        BY <2>1, <3>2
      <4>2. v.latest \in times /\ \A x \in times : x <= v.latest
        BY <2>1, <4>1
      <4>3. times \in SUBSET Int
        BY <2>3
      <4> HIDE DEF times
      <4>4. Max(times) = v.latest
        BY <4>2, <4>3, GreatestIs
      <4> QED
        BY <3>2, <4>4 DEF Latest, times
    <3> QED
      BY <3>1, <3>2
  <2>5. IsFiniteSet(A) /\ v.where = r /\ v.visits = Cardinality(A)
    BY <2>1
  <2> HIDE DEF A
  <2>6. v = [where |-> r, visits |-> Cardinality(A), latest |-> IF A = {} THEN 0 ELSE Latest(A)]
    BY <2>2, <2>4, <2>5 DEF Record
  <2> QED
    BY <2>5, <2>6 DEF v, A
<1> QED
  BY <1>3, <1>8, <1>9 DEF n

\* The rows of the restaurants that have been gone to.
LEMMA RecordedRows ==
  ASSUME NEW S \in SUBSET Rows, NEW s, Lists(s, S)
  PROVE  /\ {a \in Range(Records(s)) : a.visits > 0}
              = {[where |-> r, visits |-> Cardinality(At(S, r)), latest |-> Latest(At(S, r))] :
                    r \in Visited(S)}
         /\ {a \in Range(Records(s)) : a.visits > 0} \subseteq Record
<1> DEFINE by == Records(s)
           seen == {a \in Range(by) : a.visits > 0}
           Row(r) == [where |-> r, visits |-> Cardinality(At(S, r)), latest |-> Latest(At(S, r))]
<1>1. \A r : r \in Visited(S) <=> r \in Restaurants /\ At(S, r) # {}
  BY RowFields DEF Visited, At
<1>2. /\ DOMAIN by = Restaurants
      /\ \A r \in Restaurants :
            /\ IsFiniteSet(At(S, r))
            /\ by[r] = [where |-> r, visits |-> Cardinality(At(S, r)),
                        latest |-> IF At(S, r) = {} THEN 0 ELSE Latest(At(S, r))]
            /\ by[r] \in Record
  BY RecordsAre
<1> HIDE DEF by
<1>3. \A r \in Restaurants : by[r].visits > 0 <=> At(S, r) # {}
  <2>1. \A r \in Restaurants : by[r].visits = Cardinality(At(S, r)) /\ IsFiniteSet(At(S, r))
    BY <1>2
  <2>2. \A A : IsFiniteSet(A) => (Cardinality(A) > 0 <=> A # {})
    BY FS_EmptySet, FS_CardinalityType
  <2> QED
    BY <2>1, <2>2
<1>4. Range(by) = {by[r] : r \in Restaurants}
  BY <1>2 DEF Range
<1>5. \A r \in Visited(S) : r \in Restaurants /\ by[r] = Row(r) /\ by[r].visits > 0
  BY <1>1, <1>2, <1>3
<1>6. \A r \in Restaurants : by[r].visits > 0 => r \in Visited(S)
  BY <1>1, <1>3
<1> HIDE DEF Row
<1>7. \A a \in seen : a \in Record /\ \E r \in Visited(S) : a = Row(r)
  BY <1>2, <1>4, <1>5, <1>6
<1>8. \A r \in Visited(S) : Row(r) \in seen
  BY <1>4, <1>5
<1>9. seen = {Row(r) : r \in Visited(S)} /\ seen \subseteq Record
  <2> HIDE DEF seen
  <2> QED
    BY <1>7, <1>8
<1> QED
  BY <1>9 DEF Row, by

\* The memory store lists the map's restaurants in an order that Postgres may give.
LEMMA MapAlike ==
  ASSUME NEW s, Stored(s)
  PROVE  MemMapPoints(s) \subseteq MapPoints(Range(s), Bytes)
<1> DEFINE S == Range(s)
           M == {d \in S : d.where \in Mapped}
           rows1 == {a \in Range(Records(Kept(s, M))) : a.visits > 0}
           Row(T, r) == [where |-> r, visits |-> Cardinality(At(T, r)), latest |-> Latest(At(T, r))]
           rows2 == {Row(S, r) : r \in Visited(S) \cap Mapped}
           Less1(a, b) == IF a.latest # b.latest THEN a.latest > b.latest
                          ELSE Name[a.where] < Name[b.where]
           Less2(a, b) == Precedes(<<-a.latest, Bytes[Name[a.where]]>>,
                                   <<-b.latest, Bytes[Name[b.where]]>>)
<1>1. S \subseteq Rows /\ Lists(s, S)
  BY StoredListed
<1>2. \A t : t \in MemMapPoints(s) <=>
         t \in SetToSeqs(rows1) /\ \A i, j \in DOMAIN t : i < j => ~Less1(t[j], t[i])
  BY DEF MemMapPoints, OrderBy
<1>3. \A t : t \in MapPoints(S, Bytes) <=>
         t \in SetToSeqs(rows2) /\ \A i, j \in DOMAIN t : i < j => ~Less2(t[j], t[i])
  BY DEF MapPoints, OrderBy
<1>4. M \subseteq S /\ S \cap M = M /\ M \in SUBSET Rows
  BY <1>1
<1>5. Lists(Kept(s, M), M)
  BY <1>1, <1>4, KeptLists
<1>6. Visited(M) = Visited(S) \cap Mapped /\ \A r \in Mapped : At(M, r) = At(S, r)
  BY DEF Visited, At
<1> HIDE DEF S, M
<1>7. rows1 = {Row(M, r) : r \in Visited(M)} /\ rows1 \subseteq Record
  BY <1>4, <1>5, RecordedRows
<1>8. rows1 = rows2
  <2>1. \A r \in Visited(M) : Row(M, r) = Row(S, r)
    BY <1>6
  <2> HIDE DEF rows1, Row
  <2> QED
    BY <1>6, <1>7, <2>1
<1>9. ASSUME NEW a \in Record, NEW b \in Record PROVE Less1(a, b) <=> Less2(a, b)
  <2>1. /\ a.latest \in Nat /\ b.latest \in Nat /\ Name[a.where] \in Nat /\ Name[b.where] \in Nat
    BY NamesAre DEF Record
  <2>2. Bytes[Name[a.where]] = Name[a.where] /\ Bytes[Name[b.where]] = Name[b.where]
    BY <2>1 DEF Bytes
  <2>3. Less2(a, b) <=> -a.latest < -b.latest
                         \/ (-a.latest = -b.latest /\ Name[a.where] < Name[b.where])
    BY <2>1, <2>2, PairPrecedes
  <2> QED
    BY <2>1, <2>3
<1> HIDE DEF rows1, rows2, Less1, Less2
<1>10. ASSUME NEW t, t \in MemMapPoints(s) PROVE t \in MapPoints(S, Bytes)
  <2>1. t \in SetToSeqs(rows1) /\ \A i, j \in DOMAIN t : i < j => ~Less1(t[j], t[i])
    BY <1>2, <1>10
  <2>2. \A i \in DOMAIN t : t[i] \in Record
    BY <1>7, <2>1 DEF SetToSeqs
  <2>3. \A i, j \in DOMAIN t : i < j => ~Less2(t[j], t[i])
    BY <1>9, <2>1, <2>2
  <2> QED
    BY <1>3, <1>8, <2>1, <2>3
<1> QED
  BY <1>10 DEF S

-----------------------------------------------------------------------------
(* Ratings and their averages *)

\* A list of what an injective function makes of the elements of a list.
LEMMA ListMapped ==
  ASSUME NEW S, NEW s, Lists(s, S), NEW f, \A x, y \in S : f[x] = f[y] => x = y
  PROVE  Lists([i \in DOMAIN s |-> f[s[i]]], {f[x] : x \in S})
<1> DEFINE n == Len(s)
           t == [i \in DOMAIN s |-> f[s[i]]]
           T == {f[x] : x \in S}
<1>1. n \in Nat /\ DOMAIN s = 1..n /\ \A i \in 1..n : s[i] \in S
  BY ListCounted
<1>2. /\ \A x \in S : \E i \in 1..n : s[i] = x
      /\ \A i, j \in 1..n : s[i] = s[j] => i = j
  BY DEF Lists
<1> HIDE DEF n
<1>3. t \in [1..n -> T] /\ \A i \in 1..n : t[i] = f[s[i]]
  BY <1>1
<1>4. t \in Seq(T) /\ Len(t) = n
  BY <1>1, <1>3
<1>5. \A y \in T : \E i \in 1..n : t[i] = y
  BY <1>2, <1>3
<1>6. \A i, j \in 1..n : t[i] = t[j] => i = j
  BY <1>1, <1>2, <1>3
<1> HIDE DEF t, T
<1> QED
  BY <1>4, <1>5, <1>6 DEF Lists, t, T

\* The ratings of some dines are gone through once each.
LEMMA RatingsListed ==
  ASSUME NEW S \in SUBSET Rows, NEW s, Lists(s, S)
  PROVE  Lists(RatingsOf(s), Ratings(S))
<1> DEFINE n == Len(s)
           people == [p \in People |-> p]
           Raters(d) == Kept(people, DOMAIN d.scores)
           Rated(d) == [i \in DOMAIN Raters(d) |-> <<d, Raters(d)[i]>>]
           lists == [k \in 1..n |-> Rated(s[k])]
           parts == [k \in 1..n |-> {s[k]} \X DOMAIN s[k].scores]
<1>1. n \in Nat /\ DOMAIN s = 1..n /\ Range(s) = S /\ \A k \in 1..n : s[k] \in S
  BY ListCounted
<1>2. \A j, k \in 1..n : s[j] = s[k] => j = k
  BY DEF Lists
<1>3. RatingsOf(s) = Joined(lists)
  BY <1>1 DEF RatingsOf
<1>4. Lists(people, People)
  <2>1. People = 1..Cardinality(People) /\ Cardinality(People) \in Nat
    BY HistoryAssumption
  <2> DEFINE m == Cardinality(People)
  <2>2. people \in [1..m -> People] /\ \A i \in 1..m : people[i] = i
    BY <2>1
  <2>3. people \in Seq(People) /\ Len(people) = m
    BY <2>1, <2>2
  <2> HIDE DEF people
  <2> QED
    BY <2>1, <2>2, <2>3 DEF Lists
<1>5. ASSUME NEW d \in S PROVE Lists(Rated(d), {d} \X DOMAIN d.scores)
  <2> DEFINE R == DOMAIN d.scores
             pair == [p \in R |-> <<d, p>>]
  <2>1. R \subseteq People /\ People \cap R = R
    BY RowFields
  <2>2. Lists(Raters(d), R)
    BY <1>4, <2>1, KeptLists
  <2>3. \A p, q \in R : pair[p] = pair[q] => p = q
    OBVIOUS
  <2>4. \A i \in DOMAIN Raters(d) : Raters(d)[i] \in R
    BY <2>2, ListCounted
  <2> HIDE DEF Raters, R
  <2>5. Rated(d) = [i \in DOMAIN Raters(d) |-> pair[Raters(d)[i]]]
    BY <2>4
  <2>6. {pair[p] : p \in R} = {d} \X R
    OBVIOUS
  <2> HIDE DEF Rated, pair
  <2>7. Lists(Rated(d), {pair[p] : p \in R})
    BY <2>2, <2>3, <2>5, ListMapped
  <2> QED
    BY <2>6, <2>7 DEF R
<1> HIDE DEF Rated, n
<1>6. \A k \in 1..n : Lists(lists[k], parts[k])
  BY <1>1, <1>5
<1>7. \A j, k \in 1..n : j # k => parts[j] \cap parts[k] = {}
  BY <1>2
<1>8. lists = [k \in 1..n |-> lists[k]]
  OBVIOUS
<1>9. UNION {parts[k] : k \in 1..n} = Ratings(S)
  <2> DEFINE Part(d) == {d} \X DOMAIN d.scores
  <2>1. \A d : d \in S <=> \E k \in 1..n : s[k] = d
    BY <1>1 DEF Lists, n
  <2>2. \A k \in 1..n : parts[k] = Part(s[k])
    OBVIOUS
  <2>3. Ratings(S) = UNION {Part(d) : d \in S}
    BY DEF Ratings
  <2> HIDE DEF parts, Part
  <2> QED
    BY <2>1, <2>2, <2>3
<1> HIDE DEF lists, parts
<1>10. Lists(Joined(lists), UNION {parts[k] : k \in 1..n})
  BY <1>1, <1>6, <1>7, <1>8, JoinedLists
<1> QED
  BY <1>3, <1>9, <1>10

\* The sum that the query adds up, as any other sum over the set.
LEMMA SumSelected ==
  ASSUME NEW R, IsFiniteSet(R), \A x \in R : x[1].scores[x[2]] \in Int
  PROVE  \E f : /\ SumRuns(R, [x \in R |-> x[1].scores[x[2]]], f)
                /\ Average(R).sum = f[R]
<1> DEFINE g == [x \in R |-> x[1].scores[x[2]]]
           First(A) == CHOOSE x \in A : TRUE
           Sums(f) == f = [A \in SUBSET R |->
                             IF A = {} THEN 0
                             ELSE First(A)[1].scores[First(A)[2]] + f[A \ {First(A)}]]
           sum == CHOOSE f : Sums(f)
<1>1. Average(R).sum = sum[R]
  BY DEF Average, MapThenSumSet, MapThenFoldSet
<1> HIDE DEF g
<1>2. g \in [R -> Int] /\ \A x \in R : g[x] = x[1].scores[x[2]]
  BY DEF g
<1>3. \A A \in SUBSET R : A # {} => First(A) \in A /\ First(A) \in R /\ A \ {First(A)} \in SUBSET R
  OBVIOUS
<1>4. PICK f : SumRuns(R, g, f)
  BY <1>2, SumExists
<1>5. f \in [SUBSET R -> Int] /\ f[{}] = 0
  BY <1>4 DEF SumRuns
<1>6. \A A \in SUBSET R : A # {} => f[A] = g[First(A)] + f[A \ {First(A)}]
  BY <1>4 DEF SumRuns
<1>7. Sums(f)
  <2>1. ASSUME NEW A \in SUBSET R
        PROVE  f[A] = IF A = {} THEN 0
                      ELSE First(A)[1].scores[First(A)[2]] + f[A \ {First(A)}]
    <3>1. CASE A = {}
      BY <1>5, <3>1
    <3>2. CASE A # {}
      <4>1. g[First(A)] = First(A)[1].scores[First(A)[2]]
        BY <1>2, <1>3, <3>2
      <4>2. f[A] = g[First(A)] + f[A \ {First(A)}]
        BY <1>6, <3>2
      <4> HIDE DEF First
      <4> QED
        BY <3>2, <4>1, <4>2
    <3> QED
      BY <3>1, <3>2
  <2> HIDE DEF First
  <2> QED
    BY <1>5, <2>1
<1>8. Sums(sum)
  <2> HIDE DEF Sums
  <2> QED
    BY <1>7
<1> HIDE DEF sum
<1>9. \A A \in SUBSET R : sum[A] = IF A = {} THEN 0
                                  ELSE First(A)[1].scores[First(A)[2]] + sum[A \ {First(A)}]
  BY <1>8
<1>10. DOMAIN sum = SUBSET R
  BY <1>8
<1>11. \A A \in SUBSET R : A # {} => sum[A] = g[First(A)] + sum[A \ {First(A)}]
  BY <1>2, <1>3, <1>9
<1>12. sum[{}] = 0
  <2>1. {} \in SUBSET R
    OBVIOUS
  <2> QED
    BY <1>9, <2>1
<1> HIDE DEF First, Sums
<1> DEFINE n == Cardinality(R)
           Same(A) == sum[A] = f[A]
           Q == {k \in 0..n : \A A \in SUBSET R : Cardinality(A) = k => Same(A)}
<1>13. n \in Nat /\ \A A \in SUBSET R : IsFiniteSet(A)
  BY FS_CardinalityType, FS_Subset
<1>14. 0 \in Q
  <2>1. ASSUME NEW A \in SUBSET R, Cardinality(A) = 0 PROVE Same(A)
    <3>1. A = {}
      BY <1>13, <2>1, FS_EmptySet
    <3>2. Same({})
      BY <1>5, <1>12
    <3> QED
      BY <3>1, <3>2
  <2> HIDE DEF Same
  <2> QED
    BY <1>13, <2>1
<1>15. ASSUME NEW k \in 1..n, k - 1 \in Q PROVE k \in Q
  <2>1. ASSUME NEW A \in SUBSET R, Cardinality(A) = k PROVE Same(A)
    <3> DEFINE x == First(A)
               B == A \ {x}
    <3>1. A # {}
      <4>1. k # 0 /\ Cardinality({}) = 0
        BY FS_EmptySet
      <4> QED
        BY <2>1, <4>1
    <3>2. x \in A /\ B \in SUBSET R
      BY <1>3, <3>1
    <3>3. Cardinality(B) = k - 1
      BY <1>13, <2>1, <3>2, FS_RemoveElement
    <3>4. Same(B)
      BY <1>15, <3>2, <3>3
    <3>5. sum[A] = g[x] + sum[B]
      BY <1>11, <3>1
    <3>6. f[A] = g[x] + f[B]
      BY <1>6, <3>1
    <3> HIDE DEF x, B
    <3> QED
      BY <3>4, <3>5, <3>6
  <2> HIDE DEF Same
  <2>2. k \in 0..n
    BY <1>13
  <2> QED
    BY <2>1, <2>2
<1>16. n \in Q
  <2> HIDE DEF Q, n
  <2>1. \A k \in 0..n : k \in Q
    BY <1>13, <1>14, <1>15, Upwards
  <2> QED
    BY <1>13, <2>1
<1>17. Same(R)
  <2>1. R \in SUBSET R /\ Cardinality(R) = n
    OBVIOUS
  <2> HIDE DEF Same, n
  <2> QED
    BY <1>16, <2>1
<1> QED
  BY <1>1, <1>4, <1>17 DEF g

\* The loop over a list of ratings and the query of the set find the same average.
LEMMA AverageIs ==
  ASSUME NEW R, NEW list, Lists(list, R), \A x \in R : x[1].scores[x[2]] \in Int
  PROVE  /\ AverageOf(list) = Average(R)
         /\ Average(R).sum \in Int /\ Average(R).count = Cardinality(R)
         /\ Cardinality(R) \in Nat /\ IsFiniteSet(R)
<1> DEFINE g == [x \in R |-> x[1].scores[x[2]]]
<1>1. IsFiniteSet(R) /\ Len(list) = Cardinality(R) /\ Len(list) \in Nat /\ DOMAIN list = 1..Len(list)
      /\ \A i \in 1..Len(list) : list[i] \in R
  BY ListCounted
<1>2. PICK f : SumRuns(R, g, f) /\ Average(R).sum = f[R]
  BY <1>1, SumSelected
<1>3. [i \in DOMAIN list |-> list[i][1].scores[list[i][2]]] = [i \in DOMAIN list |-> g[list[i]]]
  BY <1>1
<1>4. g \in [R -> Int]
  OBVIOUS
<1> HIDE DEF g
<1>5. Total([i \in DOMAIN list |-> g[list[i]]]) = f[R] /\ f[R] \in Int
  BY <1>2, <1>4, TotalIsSum
<1>6. AverageOf(list) = [sum |-> f[R], count |-> Len(list)]
  BY <1>3, <1>5 DEF AverageOf
<1>7. Average(R) = [sum |-> f[R], count |-> Cardinality(R)]
  <2>1. Average(R) = [sum |-> Average(R).sum, count |-> Cardinality(R)]
    BY DEF Average
  <2> QED
    BY <1>2, <2>1
<1> QED
  BY <1>1, <1>5, <1>6, <1>7

-----------------------------------------------------------------------------
(* The order of averages, and the best of some rows *)

\* Fractions with positive denominators, compared by cross-multiplication.
LEMMA CrossOrder ==
  ASSUME NEW a1 \in Int, NEW b1 \in Int, NEW c1 \in Int,
         NEW a2 \in Nat \ {0}, NEW b2 \in Nat \ {0}, NEW c2 \in Nat \ {0},
         a1 * b2 <= b1 * a2, b1 * c2 <= c1 * b2
  PROVE  /\ a1 * c2 <= c1 * a2
         /\ a1 * b2 < b1 * a2 \/ b1 * c2 < c1 * b2 => a1 * c2 < c1 * a2
<1> DEFINE ab == a1 * b2
           ba == b1 * a2
           bc == b1 * c2
           cb == c1 * b2
           ac == a1 * c2
           ca == c1 * a2
<1>1. ab \in Int /\ ba \in Int /\ bc \in Int /\ cb \in Int /\ ac \in Int /\ ca \in Int
  OBVIOUS
<1>2. ab * c2 = ac * b2 /\ ba * c2 = bc * a2 /\ cb * a2 = ca * b2
  OBVIOUS
<1>3. /\ ab <= ba => ab * c2 <= ba * c2
      /\ ab < ba => ab * c2 < ba * c2
  <2> HIDE DEF ab, ba
  <2> QED
    BY <1>1
<1>4. /\ bc <= cb => bc * a2 <= cb * a2
      /\ bc < cb => bc * a2 < cb * a2
  <2> HIDE DEF bc, cb
  <2> QED
    BY <1>1
<1>5. ab <= ba /\ bc <= cb
  OBVIOUS
<1>6. /\ ac > ca => ac * b2 > ca * b2
      /\ ac >= ca => ac * b2 >= ca * b2
  <2> HIDE DEF ac, ca
  <2> QED
    BY <1>1
<1>7. /\ ac * b2 \in Int /\ ca * b2 \in Int /\ ab * c2 \in Int /\ ba * c2 \in Int
      /\ bc * a2 \in Int /\ cb * a2 \in Int
  OBVIOUS
<1>8. ac * b2 <= ca * b2 /\ (ab < ba \/ bc < cb => ac * b2 < ca * b2)
  <2> HIDE DEF ab, ba, bc, cb, ac, ca
  <2> QED
    BY <1>2, <1>3, <1>4, <1>5, <1>7
<1>9. ac <= ca /\ (ab < ba \/ bc < cb => ac < ca)
  <2> HIDE DEF ab, ba, bc, cb, ac, ca
  <2> QED
    BY <1>1, <1>6, <1>7, <1>8
<1> QED
  BY <1>9

Averages == [sum : Int, count : Nat \ {0}]

\* Averages are in a linear order, of which some may be equal.
LEMMA AveragesOrdered ==
  ASSUME NEW a \in Averages, NEW b \in Averages
  PROVE  /\ ~Higher(a, a) /\ Equal(a, a)
         /\ Equal(a, b) <=> ~Higher(a, b) /\ ~Higher(b, a)
         /\ Higher(a, b) => ~Higher(b, a)
         /\ \A c \in Averages :
               /\ ~Higher(b, a) /\ ~Higher(c, b) => ~Higher(c, a)
               /\ ~Higher(b, a) /\ Higher(b, c) => Higher(a, c)
               /\ Higher(a, b) /\ ~Higher(c, b) => Higher(a, c)
<1>1. \A x \in Averages : x.sum \in Int /\ x.count \in Nat \ {0}
  BY DEF Averages
<1>2. \A x, y \in Averages : x.sum * y.count \in Int
  BY <1>1
<1>3. /\ ~Higher(a, a) /\ Equal(a, a)
      /\ Equal(a, b) <=> ~Higher(a, b) /\ ~Higher(b, a)
      /\ Higher(a, b) => ~Higher(b, a)
  BY <1>2 DEF Higher, Equal
<1>4. ASSUME NEW c \in Averages
      PROVE  /\ ~Higher(b, a) /\ ~Higher(c, b) => ~Higher(c, a)
             /\ ~Higher(b, a) /\ Higher(b, c) => Higher(a, c)
             /\ Higher(a, b) /\ ~Higher(c, b) => Higher(a, c)
  <2>1. /\ ~Higher(b, a) <=> b.sum * a.count <= a.sum * b.count
        /\ ~Higher(c, b) <=> c.sum * b.count <= b.sum * c.count
        /\ ~Higher(c, a) <=> c.sum * a.count <= a.sum * c.count
        /\ Higher(a, b) <=> b.sum * a.count < a.sum * b.count
        /\ Higher(b, c) <=> c.sum * b.count < b.sum * c.count
        /\ Higher(a, c) <=> c.sum * a.count < a.sum * c.count
    BY <1>2 DEF Higher
  <2>2. c.sum * b.count <= b.sum * c.count /\ b.sum * a.count <= a.sum * b.count =>
           /\ c.sum * a.count <= a.sum * c.count
           /\ c.sum * b.count < b.sum * c.count \/ b.sum * a.count < a.sum * b.count
                => c.sum * a.count < a.sum * c.count
    BY <1>1, CrossOrder
  <2>3. /\ Higher(a, b) => ~Higher(b, a)
        /\ Higher(b, c) => ~Higher(c, b)
    BY <1>2 DEF Higher
  <2> QED
    BY <2>1, <2>2, <2>3
<1> QED
  BY <1>3, <1>4

\* Of what a map holds, the loop over it keeps one that no other is better than.
LEMMA RangeBestIs ==
  ASSUME NEW values, IsFiniteSet(values), NEW worse \in [values -> SUBSET values],
         \A x \in values : x \notin worse[x],
         \A x, y \in values : x \in worse[y] => worse[x] \subseteq worse[y]
  PROVE  RangeBest(values, worse) \subseteq
            IF values = {} THEN {None} ELSE {a \in values : \A b \in values : a \notin worse[b]}
<1> SUFFICES ASSUME NEW s \in SetToSeqs(values)
             PROVE  BestOf(s, worse, None) \in
                       IF values = {} THEN {None}
                       ELSE {a \in values : \A b \in values : a \notin worse[b]}
  BY DEF RangeBest
<1>1. Lists(s, values)
  BY SeqsAreLists
<1>2. /\ s \in Seq(values) /\ \A x \in values : \E i \in 1..Len(s) : s[i] = x
  BY <1>1 DEF Lists
<1>3. \A i \in 1..Len(s) : s[i] \in values
  BY <1>1, ListCounted
<1>4. CASE values = {}
  <2>1. s = <<>>
    BY <1>2, <1>4
  <2>2. BestOf(s, worse, None) = None
    BY <2>1 DEF BestOf
  <2> QED
    BY <1>4, <2>2
<1>5. CASE values # {}
  <2>1. s # <<>>
    <3>1. PICK i \in 1..Len(s) : TRUE
      BY <1>2, <1>5
    <3> QED
      BY <3>1
  <2>2. PICK b \in 1..Len(s) : /\ BestOf(s, worse, None) = s[b]
                               /\ \A i \in 1..Len(s) : s[b] \notin worse[s[i]]
    <3>1. s \in Seq(values)
      BY <1>2
    <3>2. /\ worse \in [values -> SUBSET values]
          /\ \A x \in values : x \notin worse[x]
          /\ \A x, y \in values : x \in worse[y] => worse[x] \subseteq worse[y]
      OBVIOUS
    <3>3. \A none : \E b \in 1..Len(s) : /\ BestOf(s, worse, none) = s[b]
                                         /\ \A i \in 1..Len(s) : s[b] \notin worse[s[i]]
      BY <2>1, <3>1, <3>2, BestIs
    <3> QED
      BY <3>3
  <2>3. \A x \in values : s[b] \notin worse[x]
    BY <1>2, <2>2
  <2> QED
    BY <1>3, <1>5, <2>2, <2>3
<1> QED
  BY <1>4, <1>5

\* What a function makes of a finite set is finite.
LEMMA ImageFinite ==
  ASSUME NEW S, IsFiniteSet(S), NEW f
  PROVE  IsFiniteSet({f[x] : x \in S})
<1> DEFINE g == [x \in S |-> f[x]]
<1>1. g \in Surjection(S, {f[x] : x \in S})
  BY DEF Surjection
<1> QED
  BY <1>1, FS_Surjection

\* The rows of visit_participant_ratings: a dine and one of its raters.
LEMMA RatingIs ==
  ASSUME NEW S \in SUBSET Rows, NEW x \in Ratings(S)
  PROVE  /\ x = <<x[1], x[2]>> /\ x[1] \in S /\ x[2] \in DOMAIN x[1].scores /\ x[2] \in People
         /\ x[1].scores[x[2]] \in Int /\ x[1].where \in Restaurants
         /\ x[1].picker \in People \cup {Everybody}
<1>1. PICK d \in S : x \in {d} \X DOMAIN d.scores
  BY DEF Ratings
<1>2. x = <<x[1], x[2]>> /\ x[1] = d /\ x[2] \in DOMAIN d.scores
  BY <1>1
<1>3. /\ d \in S /\ d.where \in Restaurants /\ d.picker \in People \cup {Everybody}
      /\ DOMAIN d.scores \subseteq People /\ d.scores \in [DOMAIN d.scores -> Int]
  BY RowFields
<1>4. d.scores[x[2]] \in Int
  BY <1>2, <1>3
<1> QED
  BY <1>2, <1>3, <1>4

\* The ratings that count are gone through once each.
LEMMA AggregatesListed ==
  ASSUME NEW s, Stored(s)
  PROVE  /\ Lists(Counted(s), {d \in Range(s) : Cardinality(DOMAIN d.scores) >= MinAggregateRaters})
         /\ Lists(RatingsOf(Counted(s)), AggregateRatings(Range(s)))
         /\ AggregateRatings(Range(s)) \subseteq Ratings(Range(s))
<1> DEFINE S == Range(s)
           C == {d \in S : Cardinality(DOMAIN d.scores) >= MinAggregateRaters}
<1>1. S \subseteq Rows /\ Lists(s, S)
  BY StoredListed
<1>2. Counted(s) = Kept(s, C) /\ AggregateRatings(S) = Ratings(C)
  BY DEF Counted, AggregateRatings
<1>3. C \subseteq S /\ S \cap C = C
  OBVIOUS
<1> HIDE DEF S, C
<1>4. Lists(Counted(s), C) /\ C \in SUBSET Rows
  BY <1>1, <1>2, <1>3, KeptLists
<1>5. Lists(RatingsOf(Counted(s)), Ratings(C))
  BY <1>4, RatingsListed
<1>6. Ratings(C) \subseteq Ratings(S)
  BY <1>3 DEF Ratings
<1> QED
  BY <1>2, <1>4, <1>5, <1>6 DEF S, C

\* The loop over some of the ratings finds the average that the query of them does.
LEMMA PartAverage ==
  ASSUME NEW S \in SUBSET Rows, NEW R \in SUBSET Ratings(S), NEW list, Lists(list, R), NEW T
  PROVE  /\ Lists(Kept(list, T), R \cap T)
         /\ AverageOf(Kept(list, T)) = Average(R \cap T)
         /\ R \cap T # {} => Average(R \cap T) \in Averages
<1> DEFINE P == R \cap T
           a == Average(P)
<1>1. Lists(Kept(list, T), P)
  BY KeptLists
<1>2. \A x \in P : x[1].scores[x[2]] \in Int
  BY RatingIs
<1> HIDE DEF P
<1>3. /\ AverageOf(Kept(list, T)) = a /\ a.sum \in Int /\ a.count = Cardinality(P)
      /\ Cardinality(P) \in Nat /\ IsFiniteSet(P)
  BY <1>1, <1>2, AverageIs
<1>4. P # {} => a.count # 0
  BY <1>3, FS_EmptySet
<1>5. a = [sum |-> a.sum, count |-> a.count]
  BY DEF Average
<1> HIDE DEF a
<1>6. P # {} => a \in Averages
  BY <1>3, <1>4, <1>5 DEF Averages
<1> QED
  BY <1>1, <1>3, <1>6 DEF P, a

\* The pickers' averages are the same in both stores, though one keeps them by name.
LEMMA PickersAlike ==
  ASSUME NEW s, Stored(s)
  PROVE  /\ RatingByPicker(s) = PickerAverages(Range(s)) /\ IsFiniteSet(RatingByPicker(s))
         /\ \A v \in RatingByPicker(s) : v.name \in Nat /\ v.average \in Averages
<1> DEFINE S == Range(s)
           A == AggregateRatings(S)
           ratings == RatingsOf(Counted(s))
           picked == {x \in A : x[1].picker # Everybody}
           names == {PersonName[x[1].picker] : x \in picked}
           Of(name) == {x \in picked : PersonName[x[1].picker] = name}
           Picks(p) == {x \in A : x[1].picker = p}
           pickers == {p \in People : Picks(p) # {}}
           Row(name, R) == [name |-> name, average |-> Average(R)]
           row == [p \in pickers |-> Row(PersonName[p], Picks(p))]
<1>1. /\ S \in SUBSET Rows /\ A \in SUBSET Ratings(S) /\ Lists(ratings, A) /\ Range(ratings) = A
  BY StoredListed, AggregatesListed, ListCounted
<1>2. RatingByPicker(s) = {[name |-> n, average |-> AverageOf(Kept(ratings, Of(n)))] : n \in names}
  BY <1>1 DEF RatingByPicker
<1>3. PickerAverages(S) = {Row(PersonName[p], Picks(p)) : p \in pickers}
  BY DEF PickerAverages
<1>4. \A x \in A : x[1].picker \in People \cup {Everybody}
  BY <1>1, RatingIs
<1>5. /\ Everybody \notin People /\ PersonName \in [People -> Nat] /\ IsInjective(PersonName)
      /\ IsFiniteSet(People)
  <2>1. People = 1..Cardinality(People) /\ Cardinality(People) \in Nat
    BY HistoryAssumption
  <2>2. IsFiniteSet(People)
    BY <2>1, FS_Interval
  <2>3. Everybody \notin People /\ PersonName \in [People -> Nat] /\ IsInjective(PersonName)
    BY HistoryAssumption
  <2> QED
    BY <2>2, <2>3
<1> HIDE DEF S, A, ratings
<1>6. \A p, q \in People : PersonName[p] = PersonName[q] => p = q
  BY <1>5 DEF IsInjective
<1>7. \A p \in People : Of(PersonName[p]) = Picks(p) /\ A \cap Picks(p) = Picks(p)
  BY <1>4, <1>5, <1>6
<1>8. \A n : n \in names <=> \E p \in pickers : n = PersonName[p]
  BY <1>4, <1>5
<1>9. \A p \in pickers : /\ AverageOf(Kept(ratings, Picks(p))) = Average(Picks(p))
                         /\ Average(Picks(p)) \in Averages
  <2> SUFFICES ASSUME NEW p \in pickers
               PROVE  /\ AverageOf(Kept(ratings, Picks(p))) = Average(Picks(p))
                      /\ Average(Picks(p)) \in Averages
    OBVIOUS
  <2> DEFINE T == Picks(p)
  <2>1. A \cap T = T /\ T # {}
    BY <1>7
  <2> HIDE DEF T
  <2>2. AverageOf(Kept(ratings, T)) = Average(T) /\ Average(T) \in Averages
    BY <1>1, <2>1, PartAverage
  <2> QED
    BY <2>2 DEF T
<1>10. \A p \in pickers : p \in People /\ PersonName[p] \in Nat
  BY <1>5
<1> HIDE DEF names, Of, Picks, pickers
<1>11. RatingByPicker(s) = {Row(PersonName[p], Picks(p)) : p \in pickers}
  <2> DEFINE Kept1(n) == [name |-> n, average |-> AverageOf(Kept(ratings, Of(n)))]
  <2>1. \A p \in pickers : Kept1(PersonName[p]) = Row(PersonName[p], Picks(p))
    BY <1>7, <1>9, <1>10
  <2>2. RatingByPicker(s) = {Kept1(n) : n \in names}
    BY <1>2
  <2> HIDE DEF Row, Kept1
  <2> QED
    BY <1>8, <2>1, <2>2
<1>12. IsFiniteSet(RatingByPicker(s))
  <2>1. IsFiniteSet(pickers)
    BY <1>5, FS_Subset DEF pickers
  <2>2. IsFiniteSet({row[p] : p \in pickers})
    <3> HIDE DEF row
    <3> QED
      BY <2>1, ImageFinite
  <2>3. RatingByPicker(s) = {row[p] : p \in pickers}
    BY <1>11
  <2> QED
    BY <2>2, <2>3
<1> QED
  BY <1>3, <1>9, <1>10, <1>11, <1>12 DEF S

\* Whichever way the map is ranged over, the picker with the highest average is one
\* that the query may put first, and so is the one with the lowest.
LEMMA BestPickerAlike ==
  ASSUME NEW s, Stored(s)
  PROVE  /\ TopAverage(s) \subseteq BestPicker(Range(s), Bytes)
         /\ BottomAverage(s) \subseteq WorstPicker(Range(s), Bytes)
<1> DEFINE values == RatingByPicker(s)
           Above(a, b) == \/ Higher(a.average, b.average)
                          \/ Equal(a.average, b.average) /\ a.name < b.name
           Below(a, b) == \/ Higher(b.average, a.average)
                          \/ Equal(a.average, b.average) /\ a.name < b.name
           above == [v \in values |-> {w \in values : Above(v, w)}]
           below == [v \in values |-> {w \in values : Below(v, w)}]
           First(worse) == IF values = {} THEN {None}
                           ELSE {a \in values : \A b \in values : a \notin worse[b]}
<1>1. /\ values = PickerAverages(Range(s)) /\ IsFiniteSet(values)
      /\ \A v \in values : v.name \in Nat /\ v.average \in Averages
  BY PickersAlike
<1>2. TopAverage(s) = RangeBest(values, above) /\ BottomAverage(s) = RangeBest(values, below)
  BY DEF TopAverage, BottomAverage
<1>3. /\ BestPicker(Range(s), Bytes) = IF values = {} THEN {None}
                                       ELSE {a \in values : \A b \in values : ~Above(b, a)}
      /\ WorstPicker(Range(s), Bytes) = IF values = {} THEN {None}
                                        ELSE {a \in values : \A b \in values : ~Below(b, a)}
  <2> DEFINE Above1(a, b) ==
                 \/ Higher(a.average, b.average)
                 \/ Equal(a.average, b.average) /\ Bytes[a.name] < Bytes[b.name]
             Below1(a, b) ==
                 \/ Higher(b.average, a.average)
                 \/ Equal(a.average, b.average) /\ Bytes[a.name] < Bytes[b.name]
  <2>1. \A v \in values : Bytes[v.name] = v.name
    BY <1>1 DEF Bytes
  <2>2. /\ BestPicker(Range(s), Bytes) = IF values = {} THEN {None}
                                         ELSE {a \in values : \A b \in values : ~Above1(b, a)}
        /\ WorstPicker(Range(s), Bytes) = IF values = {} THEN {None}
                                          ELSE {a \in values : \A b \in values : ~Below1(b, a)}
    BY <1>1 DEF BestPicker, WorstPicker, LimitOne
  <2>3. \A a, b \in values : (Above1(a, b) <=> Above(a, b)) /\ (Below1(a, b) <=> Below(a, b))
    BY <2>1
  <2> HIDE DEF values, Above, Below, Above1, Below1
  <2> QED
    BY <2>2, <2>3
<1> HIDE DEF values
<1>4. /\ \A a \in values : ~Above(a, a) /\ ~Below(a, a)
      /\ \A a, b, c \in values : /\ Above(a, b) /\ Above(b, c) => Above(a, c)
                                 /\ Below(a, b) /\ Below(b, c) => Below(a, c)
  <2>1. \A a \in values : ~Above(a, a) /\ ~Below(a, a)
    BY <1>1, AveragesOrdered
  <2>2. ASSUME NEW a \in values, NEW b \in values, NEW c \in values
        PROVE  /\ Above(a, b) /\ Above(b, c) => Above(a, c)
               /\ Below(a, b) /\ Below(b, c) => Below(a, c)
    <3> DEFINE x == a.average
               y == b.average
               z == c.average
    <3>1. /\ x \in Averages /\ y \in Averages /\ z \in Averages
          /\ a.name \in Nat /\ b.name \in Nat /\ c.name \in Nat
      BY <1>1
    <3> HIDE DEF x, y, z
    <3>2. /\ Equal(x, y) <=> ~Higher(x, y) /\ ~Higher(y, x)
          /\ Equal(y, z) <=> ~Higher(y, z) /\ ~Higher(z, y)
          /\ Equal(x, z) <=> ~Higher(x, z) /\ ~Higher(z, x)
          /\ Higher(x, y) => ~Higher(y, x)
          /\ Higher(y, z) => ~Higher(z, y)
      BY <3>1, AveragesOrdered
    <3>3. /\ ~Higher(y, x) /\ ~Higher(z, y) => ~Higher(z, x)
          /\ ~Higher(y, x) /\ Higher(y, z) => Higher(x, z)
          /\ Higher(x, y) /\ ~Higher(z, y) => Higher(x, z)
      BY <3>1, AveragesOrdered
    <3>4. /\ ~Higher(y, z) /\ ~Higher(x, y) => ~Higher(x, z)
          /\ ~Higher(y, z) /\ Higher(y, x) => Higher(z, x)
          /\ Higher(z, y) /\ ~Higher(x, y) => Higher(z, x)
      BY <3>1, AveragesOrdered
    <3> QED
      BY <3>1, <3>2, <3>3, <3>4 DEF x, y, z
  <2> QED
    BY <2>1, <2>2
<1> HIDE DEF Above, Below
<1>5. /\ above \in [values -> SUBSET values] /\ \A a, b \in values : a \in above[b] <=> Above(b, a)
      /\ below \in [values -> SUBSET values] /\ \A a, b \in values : a \in below[b] <=> Below(b, a)
  OBVIOUS
<1> HIDE DEF above, below
<1>6. /\ \A x \in values : x \notin above[x]
      /\ \A x, y \in values : x \in above[y] => above[x] \subseteq above[y]
  BY <1>4, <1>5
<1>7. /\ \A x \in values : x \notin below[x]
      /\ \A x, y \in values : x \in below[y] => below[x] \subseteq below[y]
  BY <1>4, <1>5
<1>8. RangeBest(values, above) \subseteq First(above)
  BY <1>1, <1>5, <1>6, RangeBestIs
<1>9. RangeBest(values, below) \subseteq First(below)
  BY <1>1, <1>5, <1>7, RangeBestIs
<1> QED
  BY <1>2, <1>3, <1>5, <1>8, <1>9

-----------------------------------------------------------------------------
(* The ranking of restaurants *)

\* The ratings of a restaurant that count, and its row in the ranking.
RatedAt(S, r) == {x \in AggregateRatings(S) : x[1].where = r}
RatedRow(S, r) == [where |-> r, average |-> Average(RatedAt(S, r)),
                   visits |-> Cardinality({x[1] : x \in RatedAt(S, r)})]
RatedPlaces(S) == {r \in Restaurants : RatedAt(S, r) # {}}

\* The loop over the dines that count finds the same row for each restaurant.
LEMMA RestaurantsRated ==
  ASSUME NEW s, Stored(s)
  PROVE  /\ RatingsByRestaurant(s) = {RatedRow(Range(s), r) : r \in RatedPlaces(Range(s))}
         /\ IsFiniteSet(RatingsByRestaurant(s))
         /\ \A r : /\ Cardinality(RatedAt(Range(s), r)) \in Nat
                   /\ Average(RatedAt(Range(s), r)).count = Cardinality(RatedAt(Range(s), r))
                   /\ RatedAt(Range(s), r) # {} => /\ Cardinality(RatedAt(Range(s), r)) > 0
                                                   /\ Average(RatedAt(Range(s), r)) \in Averages
<1> DEFINE S == Range(s)
           C == {d \in S : Cardinality(DOMAIN d.scores) >= MinAggregateRaters}
           counted == Counted(s)
           places == {d.where : d \in C}
           CAt(r) == {d \in C : d.where = r}
           Of(r) == Kept(counted, CAt(r))
           Made(r) == [where |-> r, average |-> AverageOf(RatingsOf(Of(r))), visits |-> Len(Of(r))]
<1>1. S \in SUBSET Rows /\ Lists(counted, C) /\ Range(counted) = C
  BY StoredListed, AggregatesListed, ListCounted
<1>2. AggregateRatings(S) = Ratings(C)
  BY DEF AggregateRatings
<1>3. RatingsByRestaurant(s) = {Made(r) : r \in places}
  BY <1>1 DEF RatingsByRestaurant
<1>4. C \in SUBSET Rows
  BY <1>1
<1> HIDE DEF S, C, counted
<1>5. ASSUME NEW r PROVE C \cap CAt(r) = CAt(r) /\ CAt(r) \in SUBSET Rows
  BY <1>4
<1>6. ASSUME NEW r PROVE Ratings(CAt(r)) = RatedAt(S, r)
  <2>1. \A x : x \in Ratings(CAt(r)) <=> \E d \in C : d.where = r /\ x \in {d} \X DOMAIN d.scores
    BY DEF Ratings
  <2>2. \A x : x \in Ratings(C) <=> \E d \in C : x \in {d} \X DOMAIN d.scores
    BY DEF Ratings
  <2>3. \A x, d : x \in {d} \X DOMAIN d.scores => x[1] = d
    OBVIOUS
  <2>4. \A x : x \in RatedAt(S, r) <=> x \in Ratings(C) /\ x[1].where = r
    BY <1>2 DEF RatedAt
  <2>5. \A x : x \in Ratings(CAt(r)) <=> x \in RatedAt(S, r)
    BY <2>1, <2>2, <2>3, <2>4
  <2> QED
    BY <2>5
<1>7. ASSUME NEW r PROVE {x[1] : x \in RatedAt(S, r)} = CAt(r)
  <2>1. \A d \in CAt(r) : \E x \in RatedAt(S, r) : x[1] = d
    <3> SUFFICES ASSUME NEW d \in CAt(r) PROVE \E x \in RatedAt(S, r) : x[1] = d
      OBVIOUS
    <3>1. PICK p : p \in DOMAIN d.scores
      <4>1. DOMAIN d.scores # {}
        BY <1>4, RowFields
      <4> QED
        BY <4>1
    <3>2. <<d, p>> \in {d} \X DOMAIN d.scores /\ <<d, p>>[1] = d
      BY <3>1
    <3>3. <<d, p>> \in Ratings(CAt(r))
      BY <3>2 DEF Ratings
    <3> QED
      BY <1>6, <3>2, <3>3
  <2>2. \A x \in RatedAt(S, r) : x[1] \in CAt(r)
    <3> SUFFICES ASSUME NEW x \in Ratings(CAt(r)) PROVE x[1] \in CAt(r)
      BY <1>6
    <3>1. CAt(r) \in SUBSET Rows
      BY <1>5
    <3> HIDE DEF CAt
    <3> QED
      BY <3>1, RatingIs
  <2> QED
    BY <2>1, <2>2
<1>8. ASSUME NEW r
      PROVE  /\ AverageOf(RatingsOf(Of(r))) = Average(RatedAt(S, r))
             /\ Average(RatedAt(S, r)).sum \in Int
             /\ Average(RatedAt(S, r)).count = Cardinality(RatedAt(S, r))
             /\ Cardinality(RatedAt(S, r)) \in Nat /\ IsFiniteSet(RatedAt(S, r))
             /\ Len(Of(r)) = Cardinality(CAt(r))
  <2>1. Lists(Of(r), CAt(r)) /\ CAt(r) \in SUBSET Rows
    <3> DEFINE T == CAt(r)
    <3>1. C \cap T = T /\ T \in SUBSET Rows
      BY <1>5
    <3> HIDE DEF T
    <3>2. Lists(Kept(counted, T), T)
      BY <1>1, <3>1, KeptLists
    <3> QED
      BY <3>1, <3>2 DEF T
  <2> HIDE DEF CAt, Of
  <2>2. Lists(RatingsOf(Of(r)), RatedAt(S, r))
    BY <1>6, <2>1, RatingsListed
  <2>3. \A x \in RatedAt(S, r) : x[1].scores[x[2]] \in Int
    BY <1>6, <2>1, RatingIs
  <2> QED
    BY <2>1, <2>2, <2>3, AverageIs, ListCounted
<1>9. ASSUME NEW r, RatedAt(S, r) # {}
      PROVE  Cardinality(RatedAt(S, r)) > 0 /\ Average(RatedAt(S, r)) \in Averages
  <2> DEFINE R == RatedAt(S, r)
             a == Average(R)
  <2>1. a.sum \in Int /\ a.count = Cardinality(R) /\ Cardinality(R) \in Nat /\ IsFiniteSet(R)
    BY <1>8
  <2>2. Cardinality(R) # 0
    BY <1>9, <2>1, FS_EmptySet
  <2>3. a = [sum |-> a.sum, count |-> a.count]
    BY DEF Average
  <2> HIDE DEF R, a
  <2>4. a \in Averages
    BY <2>1, <2>2, <2>3 DEF Averages
  <2> QED
    BY <2>1, <2>2, <2>4 DEF a, R
<1>10. places = RatedPlaces(S)
  <2>1. \A r : r \in places <=> CAt(r) # {}
    OBVIOUS
  <2>2. \A r : CAt(r) # {} => r \in Restaurants
    BY <1>4, RowFields
  <2> HIDE DEF places, CAt
  <2>3. \A r : CAt(r) # {} <=> RatedAt(S, r) # {}
    BY <1>7
  <2> QED
    BY <2>1, <2>2, <2>3 DEF RatedPlaces
<1>11. \A r : Made(r) = RatedRow(S, r)
  BY <1>7, <1>8 DEF RatedRow
<1>12. IsFiniteSet(places)
  <2> DEFINE where == [d \in C |-> d.where]
  <2>1. IsFiniteSet(C)
    BY <1>1, ListCounted
  <2>2. IsFiniteSet({where[d] : d \in C})
    <3> HIDE DEF where
    <3> QED
      BY <2>1, ImageFinite
  <2> QED
    BY <2>2
<1> HIDE DEF Made
<1>13. IsFiniteSet({Made(r) : r \in places})
  <2> DEFINE made == [r \in places |-> Made(r)]
  <2>1. IsFiniteSet({made[r] : r \in places})
    <3> HIDE DEF made, places
    <3> QED
      BY <1>12, ImageFinite
  <2> QED
    BY <2>1
<1>14. {Made(r) : r \in places} = {RatedRow(S, r) : r \in RatedPlaces(S)}
  <2> HIDE DEF places
  <2> QED
    BY <1>10, <1>11
<1> QED
  BY <1>3, <1>8, <1>9, <1>13, <1>14 DEF S

\* Both stores rank the restaurants with enough ratings.
LEMMA RestaurantsAlike ==
  ASSUME NEW s, Stored(s)
  PROVE  /\ RatedRestaurants(Range(s), 1) = RatingsByRestaurant(s)
         /\ \A least \in Nat \ {0} :
               RatedRestaurants(Range(s), least)
                 = {a \in RatingsByRestaurant(s) : a.average.count >= least}
         /\ \A a \in RatingsByRestaurant(s) : a.where \in Restaurants /\ a.average \in Averages
<1> DEFINE S == Range(s)
           values == RatingsByRestaurant(s)
<1>1. /\ values = {RatedRow(S, r) : r \in RatedPlaces(S)}
      /\ \A r : /\ Cardinality(RatedAt(S, r)) \in Nat
                /\ Average(RatedAt(S, r)).count = Cardinality(RatedAt(S, r))
                /\ RatedAt(S, r) # {} => /\ Cardinality(RatedAt(S, r)) > 0
                                         /\ Average(RatedAt(S, r)) \in Averages
  BY RestaurantsRated
<1>2. \A least : RatedRestaurants(S, least) =
         {RatedRow(S, r) : r \in {r \in Restaurants : Cardinality(RatedAt(S, r)) >= least}}
  BY DEF RatedRestaurants, RatedRow, RatedAt
<1>3. \A r : RatedAt(S, r) = {} => Cardinality(RatedAt(S, r)) = 0
  BY FS_EmptySet
<1>4. \A r : RatedRow(S, r).where = r /\ RatedRow(S, r).average = Average(RatedAt(S, r))
  BY DEF RatedRow
<1> HIDE DEF S, values
<1>5. ASSUME NEW least \in Nat \ {0}
      PROVE  RatedRestaurants(S, least) = {a \in values : a.average.count >= least}
  <2> DEFINE enough == {r \in Restaurants : Cardinality(RatedAt(S, r)) >= least}
  <2>1. \A r : r \in enough <=>
           r \in RatedPlaces(S) /\ RatedRow(S, r).average.count >= least
    BY <1>1, <1>3, <1>4 DEF RatedPlaces
  <2>2. RatedRestaurants(S, least) = {RatedRow(S, r) : r \in enough}
    BY <1>2
  <2> HIDE DEF enough
  <2> QED
    BY <1>1, <2>1, <2>2
<1>6. ASSUME NEW a \in values
      PROVE  a.where \in Restaurants /\ a.average \in Averages /\ a.average.count >= 1
  <2>1. PICK r \in RatedPlaces(S) : a = RatedRow(S, r)
    BY <1>1
  <2>2. r \in Restaurants /\ RatedAt(S, r) # {}
    BY DEF RatedPlaces
  <2>3. a.where = r /\ a.average = Average(RatedAt(S, r))
    BY <1>4, <2>1
  <2>4. a.average.count >= 1
    BY <1>1, <2>2, <2>3
  <2> QED
    BY <1>1, <2>2, <2>3, <2>4
<1>7. {a \in values : a.average.count >= 1} = values
  BY <1>6
<1>8. RatedRestaurants(S, 1) = values
  BY <1>5, <1>7
<1> QED
  BY <1>5, <1>6, <1>8 DEF S, values

\* Both stores rank one restaurant above another alike.
LEMMA RanksAlike ==
  ASSUME NEW a, NEW b, a.where \in Restaurants, a.average \in Averages,
         b.where \in Restaurants, b.average \in Averages
  PROVE  RanksAbove(a, b, Bytes) <=>
            IF ~Equal(a.average, b.average) THEN Higher(a.average, b.average)
            ELSE IF a.average.count # b.average.count THEN a.average.count > b.average.count
            ELSE Name[a.where] < Name[b.where]
<1> DEFINE m == a.average.count
           n == b.average.count
           x == Name[a.where]
           y == Name[b.where]
<1>1. /\ m \in Nat /\ n \in Nat /\ x \in Int /\ y \in Int
      /\ Bytes[Name[a.where]] = x /\ Bytes[Name[b.where]] = y
  BY NamesAre DEF Averages
<1>2. Equal(a.average, b.average) => ~Higher(a.average, b.average)
  BY AveragesOrdered
<1>3. RanksAbove(a, b, Bytes) <=>
         \/ Higher(a.average, b.average)
         \/ Equal(a.average, b.average) /\ Precedes(<<-m, x>>, <<-n, y>>)
  BY <1>1 DEF RanksAbove
<1> HIDE DEF m, n, x, y
<1>4. Precedes(<<-m, x>>, <<-n, y>>) <=> -m < -n \/ (-m = -n /\ x < y)
  BY <1>1, PairPrecedes
<1>5. Precedes(<<-m, x>>, <<-n, y>>) <=> IF m # n THEN m > n ELSE x < y
  BY <1>1, <1>4
<1>6. RanksAbove(a, b, Bytes) <=>
         IF ~Equal(a.average, b.average) THEN Higher(a.average, b.average)
         ELSE IF m # n THEN m > n ELSE x < y
  BY <1>2, <1>3, <1>5
<1> QED
  BY <1>6 DEF m, n, x, y

\* The first of a ranking, in each order that Postgres may give it.
FirstOf(rows) == {[i \in 1..Min({TopLimit, Len(t)}) |-> Selected(t[i])] :
                     t \in {t \in SetToSeqs(rows) :
                               \A i, j \in DOMAIN t : i < j => ~RanksAbove(t[j], t[i], Bytes)}}

\* The memory store's ranking of some restaurants is any that Postgres may give.
LEMMA RankingAlike ==
  ASSUME NEW values, \A a \in values : a.where \in Restaurants /\ a.average \in Averages, NEW least
  PROVE  TopRestaurantStats(values, least) = FirstOf({a \in values : a.average.count >= least})
<1> DEFINE rows == {a \in values : a.average.count >= least}
           Above(a, b) == IF ~Equal(a.average, b.average) THEN Higher(a.average, b.average)
                          ELSE IF a.average.count # b.average.count
                               THEN a.average.count > b.average.count
                          ELSE Name[a.where] < Name[b.where]
           first(t) == [i \in 1..Min({TopLimit, Len(t)}) |-> Selected(t[i])]
           Ordered1 == {t \in SetToSeqs(rows) : \A i, j \in DOMAIN t : i < j => ~Above(t[j], t[i])}
           Ordered2 == {t \in SetToSeqs(rows) :
                           \A i, j \in DOMAIN t : i < j => ~RanksAbove(t[j], t[i], Bytes)}
<1>1. TopRestaurantStats(values, least) = {first(t) : t \in Ordered1}
  BY DEF TopRestaurantStats, OrderBy
<1>2. FirstOf(rows) = {first(t) : t \in Ordered2}
  BY DEF FirstOf
<1>3. \A a, b \in values : RanksAbove(a, b, Bytes) <=> Above(a, b)
  BY RanksAlike
<1>4. \A t \in SetToSeqs(rows) : \A i \in DOMAIN t : t[i] \in values
  BY DEF SetToSeqs
<1> HIDE DEF rows, Above
<1>5. Ordered1 = Ordered2
  BY <1>3, <1>4
<1> HIDE DEF first, Ordered1, Ordered2
<1> QED
  BY <1>1, <1>2, <1>5 DEF rows

\* The Trophy Case may list the same restaurants, in the same order.
LEMMA TopAlike ==
  ASSUME NEW s, Stored(s)
  PROVE  TopRestaurantStats(RatingsByRestaurant(s), 2) = TopRestaurants(Range(s), Bytes)
<1> DEFINE values == RatingsByRestaurant(s)
           rows == {a \in values : a.average.count >= 2}
<1>1. \A a \in values : a.where \in Restaurants /\ a.average \in Averages
  BY RestaurantsAlike
<1>2. RatedRestaurants(Range(s), 2) = rows
  <2>1. 2 \in Nat \ {0}
    OBVIOUS
  <2> QED
    BY <2>1, RestaurantsAlike
<1>3. TopRestaurants(Range(s), Bytes) = FirstOf(RatedRestaurants(Range(s), 2))
  BY DEF TopRestaurants, OrderBy, FirstOf
<1> HIDE DEF values
<1>4. TopRestaurantStats(values, 2) = FirstOf(rows)
  BY <1>1, RankingAlike
<1> HIDE DEF rows
<1> QED
  BY <1>2, <1>3, <1>4 DEF values

\* The rows that a query may put first.
FirstRows(rows, rank) == LimitOne(rows, LAMBDA a, b : RanksAbove(a, b, rank))

\* The first of a ranking is a first row of its group, if it has one.
LEMMA FirstIsBest ==
  ASSUME NEW rows, rows # {}, IsFiniteSet(rows),
         \A a \in rows : a.where \in Restaurants /\ a.average \in Averages,
         NEW top \in FirstOf(rows)
  PROVE  top # <<>> /\ top[1] \in {Selected(a) : a \in FirstRows(rows, Bytes)}
<1>1. PICK t \in SetToSeqs(rows) :
         /\ \A i, j \in DOMAIN t : i < j => ~RanksAbove(t[j], t[i], Bytes)
         /\ top = [i \in 1..Min({TopLimit, Len(t)}) |-> Selected(t[i])]
  BY DEF FirstOf
<1> DEFINE n == Len(t)
<1>2. Lists(t, rows)
  BY <1>1, SeqsAreLists
<1>3. n \in Nat /\ DOMAIN t = 1..n /\ \A i \in 1..n : t[i] \in rows
  BY <1>2, ListCounted
<1>4. \A a \in rows : \E i \in 1..n : t[i] = a
  BY <1>2 DEF Lists
<1> HIDE DEF n
<1>5. n >= 1 /\ 1 \in 1..n
  <2>1. PICK i \in 1..n : TRUE
    BY <1>4
  <2> QED
    BY <1>3, <2>1
<1>6. Min({TopLimit, n}) \in Nat \ {0}
  <2>1. TopLimit \in Nat \ {0}
    BY HistoryAssumption
  <2> QED
    BY <1>3, <1>5, <2>1, MinOfTwo
<1>7. top # <<>> /\ top[1] = Selected(t[1])
  <2> DEFINE m == Min({TopLimit, n})
  <2>1. top = [i \in 1..m |-> Selected(t[i])]
    BY <1>1 DEF n
  <2>2. m \in Nat \ {0}
    BY <1>6
  <2> HIDE DEF m
  <2>3. 1 \in 1..m /\ DOMAIN top = 1..m
    BY <2>1, <2>2
  <2>4. top[1] = Selected(t[1])
    BY <2>1, <2>3
  <2>5. top # <<>>
    <3>1. 1 \notin DOMAIN <<>>
      OBVIOUS
    <3> QED
      BY <2>3, <3>1
  <2> QED
    BY <2>4, <2>5
<1>8. ASSUME NEW b \in rows PROVE ~RanksAbove(b, t[1], Bytes)
  <2>1. PICK j \in 1..n : t[j] = b
    BY <1>4
  <2>2. CASE j = 1
    <3>1. b.where \in Restaurants /\ b.average \in Averages
      OBVIOUS
    <3>2. /\ Equal(b.average, b.average) /\ ~(Name[b.where] < Name[b.where])
      <4>1. Name \in [Restaurants -> Nat]
        BY HistoryAssumption
      <4>2. Name[b.where] \in Nat
        BY <3>1, <4>1
      <4>3. Equal(b.average, b.average)
        BY <3>1, AveragesOrdered
      <4> QED
        BY <4>2, <4>3
    <3>3. ~RanksAbove(b, b, Bytes)
      BY <3>1, <3>2, RanksAlike
    <3> QED
      BY <2>1, <2>2, <3>3
  <2>3. CASE j # 1
    BY <1>1, <1>3, <1>5, <2>1, <2>3
  <2> QED
    BY <2>2, <2>3
<1>9. t[1] \in FirstRows(rows, Bytes)
  <2>1. FirstRows(rows, Bytes) = {a \in rows : \A b \in rows : ~RanksAbove(b, a, Bytes)}
    BY DEF FirstRows, LimitOne
  <2> QED
    BY <1>3, <1>5, <1>8, <2>1
<1> QED
  BY <1>7, <1>9

\* The rated restaurants of a cuisine, and the cuisines there are.
CuisineRows(S, k) ==
    {a \in RatedRestaurants(S, 1) : Category[a.where] # 0 /\ Fold(Category[a.where]) = k}
CuisinesOf(S) ==
    {Fold(Category[a.where]) : a \in {a \in RatedRestaurants(S, 1) : Category[a.where] # 0}}

\* Postgres names a first row of each cuisine, and spells the cuisine as that row does.
LEMMA WinnersAsked ==
  ASSUME NEW S, NEW rank
  PROVE  CuisineWinners(S, rank) =
            [k \in CuisinesOf(S) |->
                {Winner(Category[a.where], Selected(a)) : a \in FirstRows(CuisineRows(S, k), rank)}]
<1> DEFINE rows == {a \in RatedRestaurants(S, 1) : Category[a.where] # 0}
           Of(k) == {a \in rows : Fold(Category[a.where]) = k}
<1>1. CuisineWinners(S, rank) =
         [k \in CuisinesOf(S) |->
             {Winner(Category[a.where], Selected(a)) : a \in FirstRows(Of(k), rank)}]
  BY DEF CuisineWinners, CuisinesOf, FirstRows
<1>2. \A k : Of(k) = CuisineRows(S, k)
  BY DEF CuisineRows
<1> HIDE DEF Of
<1> QED
  BY <1>1, <1>2

\* The memory store names a first row of each cuisine too, and spells the cuisine
\* as a namesake of that row does.
LEMMA CuisinesAlike ==
  ASSUME NEW s, Stored(s)
  PROVE  /\ DOMAIN MemCuisineWinners(s) = CuisinesOf(Range(s))
         /\ \A k \in CuisinesOf(Range(s)) : \A w \in MemCuisineWinners(s)[k] :
               \E a \in FirstRows(CuisineRows(Range(s), k), Bytes), c \in CuisineRows(Range(s), k) :
                  Name[c.where] = Name[a.where] /\ w = Winner(Category[c.where], Selected(a))
<1> DEFINE all == RatingsByRestaurant(s)
           values == {a \in all : Category[a.where] # 0}
           Of(k) == {a \in values : Fold(Category[a.where]) = k}
           Top(k) == TopRestaurantStats(Of(k), 1)
           cuisines == {Fold(Category[a.where]) : a \in values}
           ranked == {k \in cuisines : <<>> \notin Top(k)}
           Spellings(k, name) == {Category[b.where] : b \in {b \in Of(k) : Name[b.where] = name}}
<1>1. /\ RatedRestaurants(Range(s), 1) = all /\ IsFiniteSet(all)
      /\ \A a \in all : a.where \in Restaurants /\ a.average \in Averages
  BY RestaurantsRated, RestaurantsAlike
<1>2. MemCuisineWinners(s) =
         [k \in ranked |->
             UNION {{Winner(cuisine, top[1]) : cuisine \in Spellings(k, top[1].name)} :
                        top \in Top(k)}]
  BY DEF MemCuisineWinners
<1>3. CuisinesOf(Range(s)) = cuisines /\ \A k : CuisineRows(Range(s), k) = Of(k)
  BY <1>1 DEF CuisinesOf, CuisineRows
<1> HIDE DEF all
<1>4. \A k \in cuisines : Of(k) # {}
  OBVIOUS
<1>5. ASSUME NEW k PROVE IsFiniteSet(Of(k)) /\ Of(k) \subseteq all
  <2>1. Of(k) \in SUBSET all
    OBVIOUS
  <2> HIDE DEF Of
  <2> QED
    BY <1>1, <2>1, FS_Subset
<1> HIDE DEF Of, cuisines
<1>6. ASSUME NEW k PROVE Top(k) = FirstOf(Of(k))
  <2>1. \A a \in Of(k) : a.where \in Restaurants /\ a.average \in Averages
    BY <1>1, <1>5
  <2>2. {a \in Of(k) : a.average.count >= 1} = Of(k)
    BY <2>1 DEF Averages
  <2> QED
    BY <2>1, <2>2, RankingAlike
<1> HIDE DEF Top
<1>7. ASSUME NEW k \in cuisines, NEW top \in Top(k)
      PROVE  top # <<>> /\ top[1] \in {Selected(a) : a \in FirstRows(Of(k), Bytes)}
  <2>1. \A a \in Of(k) : a.where \in Restaurants /\ a.average \in Averages
    BY <1>1, <1>5
  <2>2. Of(k) # {} /\ IsFiniteSet(Of(k)) /\ top \in FirstOf(Of(k))
    BY <1>4, <1>5, <1>6, <1>7
  <2> QED
    BY <2>1, <2>2, FirstIsBest
<1>8. ranked = cuisines
  BY <1>7
<1> HIDE DEF ranked
<1>9. ASSUME NEW k \in cuisines, NEW w \in MemCuisineWinners(s)[k]
      PROVE  \E a \in FirstRows(Of(k), Bytes), c \in Of(k) :
                Name[c.where] = Name[a.where] /\ w = Winner(Category[c.where], Selected(a))
  <2>1. PICK top \in Top(k) : \E cuisine \in Spellings(k, top[1].name) : w = Winner(cuisine, top[1])
    BY <1>2, <1>8, <1>9
  <2>2. PICK c \in Of(k) : Name[c.where] = top[1].name /\ w = Winner(Category[c.where], top[1])
    BY <2>1
  <2>3. PICK a \in FirstRows(Of(k), Bytes) : top[1] = Selected(a)
    BY <1>7
  <2>4. top[1].name = Name[a.where]
    BY <2>3 DEF Selected
  <2> QED
    BY <2>2, <2>3, <2>4
<1> QED
  BY <1>2, <1>3, <1>8, <1>9

\* Lists of fewer winners are among those of more, and there is one.
LEMMA ListsAmong ==
  ASSUME NEW mem, NEW pg, DOMAIN mem = DOMAIN pg, NEW rank,
         \A k \in DOMAIN mem : mem[k] # {} /\ mem[k] \subseteq pg[k]
  PROVE  Among(CuisineLists(mem, rank), CuisineLists(pg, rank))
<1> DEFINE OneEach(f) == {w \in [DOMAIN f -> UNION Range(f)] : \A k \in DOMAIN f : w[k] \in f[k]}
           List(w) == Sorted(Range(w), LAMBDA a, b : rank[a.cuisine] < rank[b.cuisine])
           one == [k \in DOMAIN mem |-> CHOOSE x \in mem[k] : TRUE]
<1>1. /\ CuisineLists(mem, rank) = {List(w) : w \in OneEach(mem)}
      /\ CuisineLists(pg, rank) = {List(w) : w \in OneEach(pg)}
  BY DEF CuisineLists
<1> HIDE DEF List
<1>2. one \in OneEach(mem)
  <2>1. \A k \in DOMAIN mem : one[k] \in mem[k] /\ mem[k] \in Range(mem)
    BY DEF Range
  <2>2. DOMAIN one = DOMAIN mem /\ one = [k \in DOMAIN mem |-> one[k]]
    OBVIOUS
  <2> HIDE DEF one
  <2> QED
    BY <2>1, <2>2
<1>3. OneEach(mem) \subseteq OneEach(pg)
  <2> SUFFICES ASSUME NEW w \in OneEach(mem) PROVE w \in OneEach(pg)
    OBVIOUS
  <2>1. \A k \in DOMAIN pg : w[k] \in pg[k] /\ pg[k] \in Range(pg)
    BY DEF Range
  <2>2. w = [k \in DOMAIN pg |-> w[k]]
    OBVIOUS
  <2>3. w \in [DOMAIN pg -> UNION Range(pg)]
    BY <2>1, <2>2
  <2> QED
    BY <2>1, <2>3
<1> HIDE DEF one, OneEach
<1> QED
  BY <1>1, <1>2, <1>3 DEF Among

-----------------------------------------------------------------------------
(* Records and totals of the Trophy Case *)

\* The order of three keys.
LEMMA TriplePrecedes ==
  ASSUME NEW a1 \in Int, NEW a2 \in Int, NEW a3 \in Int,
         NEW b1 \in Int, NEW b2 \in Int, NEW b3 \in Int
  PROVE  Precedes(<<a1, a2, a3>>, <<b1, b2, b3>>) <=>
            a1 < b1 \/ (a1 = b1 /\ a2 < b2) \/ (a1 = b1 /\ a2 = b2 /\ a3 < b3)
<1> DEFINE a == <<a1, a2, a3>>
           b == <<b1, b2, b3>>
<1>1. DOMAIN a = 1..3 /\ a[1] = a1 /\ a[2] = a2 /\ a[3] = a3 /\ b[1] = b1 /\ b[2] = b2 /\ b[3] = b3
  OBVIOUS
<1> HIDE DEF a, b
<1>2. Precedes(a, b) <=> \E i \in {1, 2, 3} : a[i] < b[i] /\ \A j \in 1..(i - 1) : a[j] = b[j]
  <2>1. DOMAIN a = {1, 2, 3}
    BY <1>1
  <2> QED
    BY <2>1 DEF Precedes
<1>3. 1..(1 - 1) = {} /\ 1..(2 - 1) = {1} /\ 1..(3 - 1) = {1, 2}
  OBVIOUS
<1> QED
  BY <1>1, <1>2, <1>3 DEF a, b

\* A finite set of numbers has a least one.
LEMMA LowestOf ==
  ASSUME NEW S \in SUBSET Int, IsFiniteSet(S), S # {}
  PROVE  Min(S) \in S /\ \A x \in S : Min(S) <= x
<1> DEFINE minus == [x \in S |-> -x]
           N == {minus[x] : x \in S}
<1>1. IsFiniteSet(N)
  <2> HIDE DEF minus
  <2> QED
    BY ImageFinite
<1>2. N \in SUBSET Int /\ N # {} /\ (\A x \in S : x \in Int /\ minus[x] = -x)
  <2>1. \A x \in S : x \in Int /\ minus[x] = -x
    OBVIOUS
  <2>2. \A x \in S : minus[x] \in Int
    BY <2>1
  <2> HIDE DEF minus
  <2> QED
    BY <2>1, <2>2
<1>3. \A y \in N : \E x \in S : y = minus[x]
  OBVIOUS
<1>4. \A x \in S : minus[x] \in N
  OBVIOUS
<1> HIDE DEF N, minus
<1>5. Max(N) \in N /\ \A y \in N : y <= Max(N)
  BY <1>1, <1>2, GreatestOf
<1>6. PICK m \in S : Max(N) = minus[m]
  BY <1>3, <1>5
<1>7. \A x \in S : m <= x
  <2> SUFFICES ASSUME NEW x \in S PROVE m <= x
    OBVIOUS
  <2>1. -x <= -m /\ x \in Int /\ m \in Int
    BY <1>2, <1>4, <1>5, <1>6
  <2> QED
    BY <2>1
<1> QED
  BY <1>7 DEF Min

GapOf(d) == Max(Range(d.scores)) - Min(Range(d.scores))
SplitRow(d) == [name |-> Name[d.where], gap |-> GapOf(d), at |-> d.at]

\* A gap between the ratings of a dine takes two who rated it.
LEMMA GapIs ==
  ASSUME NEW d \in Rows
  PROVE  /\ GapOf(d) \in Int
         /\ GapOf(d) > 0 => Cardinality(DOMAIN d.scores) >= 2
<1> DEFINE P == DOMAIN d.scores
           R == Range(d.scores)
<1>1. P \subseteq People /\ P # {} /\ d.scores \in [P -> Int]
  BY RowFields
<1>2. IsFiniteSet(P) /\ Cardinality(P) \in Nat
  <2>1. People = 1..Cardinality(People) /\ Cardinality(People) \in Nat
    BY HistoryAssumption
  <2>2. IsFiniteSet(People)
    BY <2>1, FS_Interval
  <2> HIDE DEF P
  <2> QED
    BY <1>1, <2>2, FS_Subset, FS_CardinalityType
<1>3. R = {d.scores[p] : p \in P}
  BY DEF Range
<1> HIDE DEF P
<1>4. R \in SUBSET Int /\ R # {} /\ IsFiniteSet(R)
  <2>1. IsFiniteSet({d.scores[p] : p \in P})
    BY <1>2, ImageFinite
  <2> HIDE DEF R
  <2> QED
    BY <1>1, <1>3, <2>1
<1> HIDE DEF R
<1>5. Max(R) \in Int /\ Min(R) \in Int
  BY <1>4, GreatestOf, LowestOf
<1>6. ASSUME Cardinality(P) < 2 PROVE Max(R) = Min(R)
  <2>1. Cardinality(P) # 0
    BY <1>1, <1>2, FS_EmptySet
  <2>2. Cardinality(P) = 1
    BY <1>2, <1>6, <2>1
  <2>3. PICK p : P = {p}
    BY <1>2, <2>2, FS_Singleton
  <2> DEFINE x == d.scores[p]
  <2>4. R = {x} /\ x \in Int
    BY <1>1, <1>3, <2>3
  <2> HIDE DEF x
  <2>5. Max(R) \in R /\ Min(R) \in R
    BY <1>4, GreatestOf, LowestOf
  <2> QED
    BY <2>4, <2>5
<1>7. GapOf(d) = Max(R) - Min(R)
  BY DEF GapOf, R
<1> QED
  BY <1>2, <1>5, <1>6, <1>7 DEF P

\* The dine that split opinions most is one that the query may put first.
LEMMA SplitAlike ==
  ASSUME NEW s, Stored(s)
  PROVE  BiggestRatingSplit(s) \in BiggestSplit(Range(s), Bytes)
<1> DEFINE S == Range(s)
           P == {d \in S : Cardinality(DOMAIN d.scores) >= 2 /\ GapOf(d) > 0}
           Q == {d \in S : DOMAIN d.scores # {} /\ GapOf(d) > 0}
           split == Kept(s, P)
           V == {SplitRow(d) : d \in P}
           rows == [i \in DOMAIN split |-> SplitRow(split[i])]
           Better(a, b) == \/ a.gap > b.gap
                           \/ /\ a.gap = b.gap
                              /\ a.at > b.at \/ (a.at = b.at /\ a.name < b.name)
           Before(a, b) == Precedes(<<-a.gap, -a.at, Bytes[a.name]>>,
                                    <<-b.gap, -b.at, Bytes[b.name]>>)
           better == [a \in V |-> {b \in V : Better(a, b)}]
<1>1. S \subseteq Rows /\ Lists(s, S)
  BY StoredListed
<1>2. BiggestRatingSplit(s)
        = BestOf(rows, [a \in Range(rows) |-> {b \in Range(rows) : Better(a, b)}], None)
  BY DEF BiggestRatingSplit, GapOf, SplitRow
<1>3. BiggestSplit(S, Bytes) = IF {SplitRow(d) : d \in Q} = {} THEN {None}
                        ELSE {a \in {SplitRow(d) : d \in Q} :
                                 \A b \in {SplitRow(d) : d \in Q} : ~Before(b, a)}
  BY DEF BiggestSplit, LimitOne, GapOf, SplitRow
<1>4. P = Q
  BY <1>1, GapIs, RowFields
<1>5. P \subseteq S /\ S \cap P = P
  OBVIOUS
<1> HIDE DEF S, P, Q
<1>6. Lists(split, P)
  BY <1>1, <1>5, KeptLists
<1>7. /\ Len(split) \in Nat /\ DOMAIN split = 1..Len(split)
      /\ \A i \in 1..Len(split) : split[i] \in P
      /\ \A d \in P : \E i \in 1..Len(split) : split[i] = d
  BY <1>6, ListCounted DEF Lists
<1> HIDE DEF split
<1>8. /\ rows \in Seq(V) /\ Len(rows) = Len(split) /\ Range(rows) = V
  <2>1. rows \in [1..Len(split) -> V]
    BY <1>7
  <2>2. rows \in Seq(V) /\ Len(rows) = Len(split)
    BY <1>7, <2>1
  <2>3. Range(rows) = {SplitRow(split[i]) : i \in 1..Len(split)}
    BY <1>7 DEF Range
  <2>4. {SplitRow(split[i]) : i \in 1..Len(split)} = V
    BY <1>7
  <2> QED
    BY <2>2, <2>3, <2>4
<1>9. \A a \in V : a.gap \in Int /\ a.at \in Int /\ a.name \in Nat
  <2> SUFFICES ASSUME NEW d \in P
               PROVE  SplitRow(d).gap \in Int /\ SplitRow(d).at \in Int /\ SplitRow(d).name \in Nat
    OBVIOUS
  <2>1. d \in Rows /\ GapOf(d) \in Int /\ d.at \in Int /\ d.where \in Restaurants
    BY <1>1, <1>5, GapIs, RowFields
  <2>2. Name[d.where] \in Nat
    BY <2>1, NamesAre
  <2> QED
    BY <2>1, <2>2 DEF SplitRow
<1>10. BiggestRatingSplit(s) = BestOf(rows, better, None)
  BY <1>2, <1>8
<1> HIDE DEF rows, V
<1>11. \A a, b \in V : Before(a, b) <=> Better(a, b)
  <2> SUFFICES ASSUME NEW a \in V, NEW b \in V PROVE Before(a, b) <=> Better(a, b)
    OBVIOUS
  <2>1. /\ a.gap \in Int /\ a.at \in Int /\ a.name \in Nat /\ Bytes[a.name] = a.name
        /\ b.gap \in Int /\ b.at \in Int /\ b.name \in Nat /\ Bytes[b.name] = b.name
    BY <1>9 DEF Bytes
  <2> DEFINE a1 == -a.gap
             a2 == -a.at
             a3 == a.name
             b1 == -b.gap
             b2 == -b.at
             b3 == b.name
  <2>2. a1 \in Int /\ a2 \in Int /\ a3 \in Int /\ b1 \in Int /\ b2 \in Int /\ b3 \in Int
    BY <2>1
  <2>3. Before(a, b) <=> Precedes(<<a1, a2, a3>>, <<b1, b2, b3>>)
    BY <2>1
  <2> HIDE DEF Before, a1, a2, a3, b1, b2, b3
  <2>4. Before(a, b) <=> a1 < b1 \/ (a1 = b1 /\ a2 < b2) \/ (a1 = b1 /\ a2 = b2 /\ a3 < b3)
    BY <2>2, <2>3, TriplePrecedes
  <2> QED
    BY <2>1, <2>4 DEF a1, a2, a3, b1, b2, b3
<1>12. /\ \A a \in V : ~Better(a, a)
       /\ \A a, b, c \in V : Better(a, b) /\ Better(b, c) => Better(a, c)
  BY <1>9
<1> HIDE DEF Better, Before
<1>13. better \in [V -> SUBSET V] /\ \A a, b \in V : b \in better[a] <=> Better(a, b)
  OBVIOUS
<1> HIDE DEF better
<1>14. /\ \A x \in V : x \notin better[x]
       /\ \A x, y \in V : x \in better[y] => better[x] \subseteq better[y]
  BY <1>12, <1>13
<1>15. CASE V = {}
  <2>1. rows = <<>>
    BY <1>8, <1>15
  <2>2. BestOf(rows, better, None) = None
    BY <2>1 DEF BestOf
  <2>3. BiggestSplit(S, Bytes) = {None}
    BY <1>3, <1>4, <1>15 DEF V
  <2> QED
    BY <1>10, <2>2, <2>3 DEF S
<1>16. CASE V # {}
  <2>1. rows # <<>>
    <3>1. Range(<<>>) = {}
      BY DEF Range
    <3> QED
      BY <1>8, <1>16, <3>1
  <2>2. rows \in Seq(V)
    BY <1>8
  <2>3. \A none : \E b \in 1..Len(rows) : /\ BestOf(rows, better, none) = rows[b]
                                          /\ \A i \in 1..Len(rows) : rows[b] \notin better[rows[i]]
    BY <1>13, <1>14, <2>1, <2>2, BestIs
  <2>4. PICK b \in 1..Len(rows) : /\ BestOf(rows, better, None) = rows[b]
                                  /\ \A i \in 1..Len(rows) : rows[b] \notin better[rows[i]]
    BY <2>3
  <2>5. DOMAIN rows = 1..Len(rows) /\ \A i \in 1..Len(rows) : rows[i] \in V
    BY <2>2
  <2>6. \A v \in V : \E i \in 1..Len(rows) : rows[i] = v
    BY <1>8, <2>5 DEF Range
  <2>7. \A v \in V : ~Before(v, rows[b])
    BY <1>11, <1>13, <2>4, <2>5, <2>6
  <2>8. BiggestSplit(S, Bytes) = {a \in V : \A v \in V : ~Before(v, a)}
    BY <1>3, <1>4, <1>16 DEF V
  <2> QED
    BY <1>10, <2>4, <2>5, <2>7, <2>8 DEF S
<1> QED
  BY <1>15, <1>16

\* What the loop over the dines found of each restaurant, and what the query finds.
LEMMA RecordsAlike ==
  ASSUME NEW s, Stored(s)
  PROVE  /\ RestaurantVisitRecords(s) = RestaurantRecords(Range(s))
         /\ IsFiniteSet(RestaurantVisitRecords(s))
         /\ \A a \in RestaurantVisitRecords(s) : a.name \in Nat /\ a.visits \in Nat /\ a.last \in Nat
<1> DEFINE S == Range(s)
           seen == {a \in Range(Records(s)) : a.visits > 0}
           Told(a) == [name |-> Name[a.where], visits |-> a.visits, last |-> a.latest]
           Row(r) == [where |-> r, visits |-> Cardinality(At(S, r)), latest |-> Latest(At(S, r))]
           Asked(r) == [name |-> Name[r], visits |-> Cardinality(At(S, r)), last |-> Latest(At(S, r))]
           asked == [r \in Visited(S) |-> Asked(r)]
<1>1. S \in SUBSET Rows /\ Lists(s, S) /\ IsFiniteSet(S)
  BY StoredListed, ListCounted
<1>2. RestaurantVisitRecords(s) = {Told(a) : a \in seen}
  BY DEF RestaurantVisitRecords
<1>3. RestaurantRecords(S) = {Asked(r) : r \in Visited(S)}
  BY DEF RestaurantRecords
<1> HIDE DEF S
<1>4. seen = {Row(r) : r \in Visited(S)} /\ seen \subseteq Record
  BY <1>1, RecordedRows
<1>5. \A r : Told(Row(r)) = Asked(r)
  OBVIOUS
<1>6. ASSUME NEW a \in seen
      PROVE  Told(a).name \in Nat /\ Told(a).visits \in Nat /\ Told(a).last \in Nat
  <2>1. a \in Record /\ Name \in [Restaurants -> Nat]
    BY <1>4, HistoryAssumption
  <2>2. a.where \in Restaurants /\ a.visits \in Nat /\ a.latest \in Nat
    BY <2>1 DEF Record
  <2> QED
    BY <2>1, <2>2
<1> HIDE DEF Told, Row, Asked, seen
<1>7. RestaurantVisitRecords(s) = RestaurantRecords(S)
  BY <1>2, <1>3, <1>4, <1>5
<1>8. IsFiniteSet(RestaurantRecords(S))
  <2> DEFINE where == [d \in S |-> d.where]
  <2>1. IsFiniteSet({where[d] : d \in S})
    <3> HIDE DEF where
    <3> QED
      BY <1>1, ImageFinite
  <2>2. Visited(S) = {where[d] : d \in S}
    BY DEF Visited
  <2>3. IsFiniteSet({asked[r] : r \in Visited(S)})
    <3> HIDE DEF asked
    <3> QED
      BY <2>1, <2>2, ImageFinite
  <2>4. {asked[r] : r \in Visited(S)} = {Asked(r) : r \in Visited(S)}
    OBVIOUS
  <2> QED
    BY <1>3, <2>3, <2>4
<1>9. \A a \in RestaurantVisitRecords(s) : a.name \in Nat /\ a.visits \in Nat /\ a.last \in Nat
  BY <1>2, <1>6
<1> QED
  BY <1>7, <1>8, <1>9 DEF S

\* The most loyal restaurant is one that the query may put first.
LEMMA LoyalAlike ==
  ASSUME NEW s, Stored(s)
  PROVE  Loyal(s) \subseteq MostLoyal(Range(s), Bytes)
<1> DEFINE values == {a \in RestaurantVisitRecords(s) : a.visits >= 2}
           Better(a, b) == \/ a.visits > b.visits
                           \/ /\ a.visits = b.visits
                              /\ a.last > b.last \/ (a.last = b.last /\ a.name < b.name)
           Before(a, b) == Precedes(<<-a.visits, -a.last, Bytes[a.name]>>,
                                    <<-b.visits, -b.last, Bytes[b.name]>>)
           better == [a \in values |-> {b \in values : Better(a, b)}]
<1>1. /\ values = {a \in RestaurantRecords(Range(s)) : a.visits >= 2} /\ IsFiniteSet(values)
      /\ \A a \in values : a.name \in Nat /\ a.visits \in Nat /\ a.last \in Nat
  <2>1. values \in SUBSET RestaurantVisitRecords(s)
    OBVIOUS
  <2>2. IsFiniteSet(values)
    <3> HIDE DEF values
    <3> QED
      BY <2>1, RecordsAlike, FS_Subset
  <2> QED
    BY <2>2, RecordsAlike
<1>2. Loyal(s) = RangeBest(values, better)
  BY DEF Loyal
<1>3. MostLoyal(Range(s), Bytes) = IF values = {} THEN {None}
                                   ELSE {a \in values : \A b \in values : ~Before(b, a)}
  BY <1>1 DEF MostLoyal, LimitOne
<1> HIDE DEF values
<1>4. \A a, b \in values : Before(a, b) <=> Better(a, b)
  <2> SUFFICES ASSUME NEW a \in values, NEW b \in values PROVE Before(a, b) <=> Better(a, b)
    OBVIOUS
  <2>1. /\ a.visits \in Nat /\ a.last \in Nat /\ a.name \in Nat /\ Bytes[a.name] = a.name
        /\ b.visits \in Nat /\ b.last \in Nat /\ b.name \in Nat /\ Bytes[b.name] = b.name
    BY <1>1 DEF Bytes
  <2> DEFINE a1 == -a.visits
             a2 == -a.last
             a3 == a.name
             b1 == -b.visits
             b2 == -b.last
             b3 == b.name
  <2>2. a1 \in Int /\ a2 \in Int /\ a3 \in Int /\ b1 \in Int /\ b2 \in Int /\ b3 \in Int
    BY <2>1
  <2>3. Before(a, b) <=> Precedes(<<a1, a2, a3>>, <<b1, b2, b3>>)
    BY <2>1
  <2> HIDE DEF Before, a1, a2, a3, b1, b2, b3
  <2>4. Before(a, b) <=> a1 < b1 \/ (a1 = b1 /\ a2 < b2) \/ (a1 = b1 /\ a2 = b2 /\ a3 < b3)
    BY <2>2, <2>3, TriplePrecedes
  <2> QED
    BY <2>1, <2>4 DEF a1, a2, a3, b1, b2, b3
<1>5. /\ \A a \in values : ~Better(a, a)
      /\ \A a, b, c \in values : Better(a, b) /\ Better(b, c) => Better(a, c)
  BY <1>1
<1> HIDE DEF Better, Before
<1>6. better \in [values -> SUBSET values] /\ \A a, b \in values : b \in better[a] <=> Better(a, b)
  OBVIOUS
<1> HIDE DEF better
<1>7. /\ \A x \in values : x \notin better[x]
      /\ \A x, y \in values : x \in better[y] => better[x] \subseteq better[y]
  BY <1>5, <1>6
<1>8. RangeBest(values, better) \subseteq
         IF values = {} THEN {None} ELSE {a \in values : \A b \in values : a \notin better[b]}
  <2>1. IsFiniteSet(values) /\ better \in [values -> SUBSET values]
    BY <1>1, <1>6
  <2> QED
    BY <1>7, <2>1, RangeBestIs
<1> QED
  BY <1>2, <1>3, <1>4, <1>6, <1>8

\* The restaurant gone to longest ago is one that the query may put first.
LEMMA NostalgiaAlike ==
  ASSUME NEW s, Stored(s)
  PROVE  NostalgiaOf(s) \subseteq Nostalgia(Range(s), Bytes)
<1> DEFINE S == Range(s)
           latest == Max({0} \cup {s[i].at : i \in DOMAIN s})
           values == {a \in RestaurantVisitRecords(s) : a.last < latest}
           Better(a, b) == a.last < b.last \/ (a.last = b.last /\ a.name < b.name)
           Before(a, b) == Precedes(<<a.last, Bytes[a.name]>>, <<b.last, Bytes[b.name]>>)
           better == [a \in values |-> {b \in values : Better(a, b)}]
<1>1. S \subseteq Rows /\ IsFiniteSet(S) /\ S = {s[i] : i \in DOMAIN s}
  <2>1. S \subseteq Rows /\ Lists(s, S)
    BY StoredListed
  <2>2. IsFiniteSet(S)
    BY <2>1, ListCounted
  <2> QED
    BY <2>1, <2>2 DEF Range
<1>2. RestaurantVisitRecords(s) = RestaurantRecords(S)
  BY RecordsAlike
<1>3. S # {} => latest = Latest(S)
  <2> SUFFICES ASSUME S # {} PROVE latest = Latest(S)
    OBVIOUS
  <2> DEFINE times == {d.at : d \in S}
  <2>1. {s[i].at : i \in DOMAIN s} = times
    BY <1>1
  <2>2. IsFiniteSet(times) /\ times \in SUBSET Nat /\ times # {}
    BY <1>1, TimesFinite, RowFields
  <2> HIDE DEF times
  <2>3. Max(times) \in times /\ \A x \in times : x <= Max(times)
    BY <2>2, GreatestOf
  <2> DEFINE m == Max(times)
  <2>4. m \in {0} \cup times /\ {0} \cup times \in SUBSET Int /\ \A x \in {0} \cup times : x <= m
    <3>1. m \in times /\ m \in Nat /\ \A x \in times : x <= m
      BY <2>2, <2>3
    <3> HIDE DEF m
    <3> QED
      BY <2>2, <3>1
  <2> HIDE DEF m
  <2>5. Max({0} \cup times) = m
    BY <2>4, GreatestIs
  <2> QED
    BY <2>1, <2>5 DEF m, times, Latest
<1>4. S = {} => RestaurantRecords(S) = {}
  BY DEF RestaurantRecords, Visited
<1> HIDE DEF S, latest
<1>5. /\ values = {a \in RestaurantRecords(S) : a.last < Latest(S)} /\ IsFiniteSet(values)
      /\ \A a \in values : a.name \in Nat /\ a.last \in Nat
  <2>1. values \in SUBSET RestaurantVisitRecords(s)
    OBVIOUS
  <2>2. IsFiniteSet(values)
    <3> HIDE DEF values
    <3> QED
      BY <2>1, RecordsAlike, FS_Subset
  <2>3. values = {a \in RestaurantRecords(S) : a.last < Latest(S)}
    BY <1>2, <1>3, <1>4
  <2>4. \A a \in values : a.name \in Nat /\ a.last \in Nat
    BY RecordsAlike
  <2> QED
    BY <2>2, <2>3, <2>4
<1>6. NostalgiaOf(s) = RangeBest(values, better)
  BY DEF NostalgiaOf, latest
<1> HIDE DEF values
<1>7. Nostalgia(S, Bytes) = IF values = {} THEN {None}
                            ELSE {a \in values : \A b \in values : ~Before(b, a)}
  BY <1>5 DEF Nostalgia, LimitOne
<1>8. \A a, b \in values : Before(a, b) <=> Better(a, b)
  <2> SUFFICES ASSUME NEW a \in values, NEW b \in values PROVE Before(a, b) <=> Better(a, b)
    OBVIOUS
  <2>1. /\ a.last \in Int /\ a.name \in Nat /\ Bytes[a.name] = a.name
        /\ b.last \in Int /\ b.name \in Nat /\ Bytes[b.name] = b.name
    BY <1>5 DEF Bytes
  <2> QED
    BY <2>1, PairPrecedes
<1>9. /\ \A a \in values : ~Better(a, a)
      /\ \A a, b, c \in values : Better(a, b) /\ Better(b, c) => Better(a, c)
  BY <1>5
<1> HIDE DEF Better, Before
<1>10. better \in [values -> SUBSET values] /\ \A a, b \in values : b \in better[a] <=> Better(a, b)
  OBVIOUS
<1> HIDE DEF better
<1>11. /\ \A x \in values : x \notin better[x]
       /\ \A x, y \in values : x \in better[y] => better[x] \subseteq better[y]
  BY <1>9, <1>10
<1>12. RangeBest(values, better) \subseteq
          IF values = {} THEN {None} ELSE {a \in values : \A b \in values : a \notin better[b]}
  <2>1. IsFiniteSet(values) /\ better \in [values -> SUBSET values]
    BY <1>5, <1>10
  <2> QED
    BY <1>11, <2>1, RangeBestIs
<1>13. NostalgiaOf(s) \subseteq Nostalgia(S, Bytes)
  BY <1>6, <1>7, <1>8, <1>10, <1>12
<1> QED
  BY <1>13 DEF S

\* The totals are the same.
LEMMA TotalsAlike ==
  ASSUME NEW s, Stored(s), NEW rank
  PROVE  MemStats(s).totals = Stats(Range(s), rank).totals
<1> DEFINE S == Range(s)
           places == {s[i].where : i \in DOMAIN s}
           cities1 == {Fold(City[r]) : r \in {r \in places : City[r] # 0}}
           cities2 == {Fold(City[r]) : r \in Visited(S)} \ {0}
           average == AverageOf(RatingsOf(Counted(s)))
<1>1. S \subseteq Rows /\ Lists(s, S) /\ S = {s[i] : i \in DOMAIN s} /\ Cardinality(S) = Len(s)
  BY StoredListed, ListCounted DEF Range
<1>2. MemStats(s).totals = {[dines |-> Len(s), places |-> Cardinality(places),
                             cities |-> Cardinality(cities1), average |-> average]}
  BY DEF MemStats
<1>3. Stats(S, rank).totals = {[dines |-> Cardinality(S), places |-> Cardinality(Visited(S)),
                          cities |-> Cardinality(cities2), average |-> Average(AggregateRatings(S))]}
  BY DEF Stats
<1>4. places = Visited(S)
  BY <1>1 DEF Visited
<1>5. cities1 = cities2
  <2>1. \A r \in Visited(S) : r \in Restaurants
    BY <1>1, RowFields DEF Visited
  <2>2. \A r \in Visited(S) : City[r] \in Text \cup {0}
    <3>1. City \in [Restaurants -> Text \cup {0}]
      BY HistoryAssumption
    <3> QED
      BY <2>1, <3>1
  <2>3. \A r \in Visited(S) : Fold(City[r]) # 0 <=> City[r] # 0
    BY <2>2, FoldIs
  <2> QED
    BY <1>4, <2>3
<1>6. average = Average(AggregateRatings(S))
  <2>1. Lists(RatingsOf(Counted(s)), AggregateRatings(S))
    BY AggregatesListed
  <2>2. \A x \in AggregateRatings(S) : x[1].scores[x[2]] \in Int
    <3>1. AggregateRatings(S) \subseteq Ratings(S) /\ S \in SUBSET Rows
      BY <1>1, AggregatesListed
    <3> HIDE DEF S
    <3> QED
      BY <3>1, RatingIs
  <2> QED
    BY <2>1, <2>2, AverageIs
<1> HIDE DEF places, cities1, cities2, average, S
<1> QED
  BY <1>1, <1>2, <1>3, <1>4, <1>5, <1>6 DEF S

-----------------------------------------------------------------------------
(* What each person likes best *)

\* The ratings that a person gave to dines of a category, and a category's row.
TastedBy(S, p) == {x \in AggregateRatings(S) : x[2] = p /\ Category[x[1].where] # 0}
TasteRow(R, rank) ==
    [category |-> Least({Category[x[1].where] : x \in R}, rank), average |-> Average(R)]
SameTaste(R, k) == {x \in R : Fold(Category[x[1].where]) = k}
Tastes(R, rank) == {TasteRow(SameTaste(R, Fold(Category[x[1].where])), rank) : x \in R}

\* In byte order the least text is the least number.
LEMMA LeastIsMin ==
  ASSUME NEW V \in SUBSET Nat
  PROVE  Least(V, Bytes) = Min(V)
<1>1. \A t, u \in V : Bytes[t] <= Bytes[u] <=> t <= u
  BY DEF Bytes
<1>2. {t \in V : \A u \in V : Bytes[t] <= Bytes[u]} = {t \in V : \A u \in V : t <= u}
  BY <1>1
<1> QED
  BY <1>1 DEF Least, Min

\* Of two categories that a person rated, the one that goes before.
TasteBefore(a, b) ==
    \/ Higher(a.average, b.average)
    \/ /\ Equal(a.average, b.average)
       /\ \/ a.average.count > b.average.count
          \/ a.average.count = b.average.count /\ a.category < b.category

\* The loop finds the rows of a person's categories that the query finds.
LEMMA TastesAlike ==
  ASSUME NEW s, Stored(s), NEW p
  PROVE  LET entries == Tastes(TastedBy(Range(s), p), Bytes)
         IN /\ IsFiniteSet(entries)
            /\ \A v \in entries : v.category \in Nat /\ v.average \in Averages
            /\ TasteOf(s, p) =
                  RangeBest(entries, [v \in entries |-> {w \in entries : TasteBefore(v, w)}])
<1> DEFINE S == Range(s)
           A == AggregateRatings(S)
           By == TastedBy(S, p)
           T == {x \in S \X {p} : Category[x[1].where] # 0}
           rated == Kept(RatingsOf(Counted(s)), T)
           Of(k) == Kept(rated, SameTaste(By, k))
           Entry(list) == [category |-> Min({Category[x[1].where] : x \in Range(list)}),
                           average |-> AverageOf(list)]
           entries == {Entry(Of(Fold(Category[x[1].where]))) : x \in By}
           row == [x \in By |-> TasteRow(SameTaste(By, Fold(Category[x[1].where])), Bytes)]
<1>1. S \in SUBSET Rows /\ A \in SUBSET Ratings(S) /\ Lists(RatingsOf(Counted(s)), A)
  BY StoredListed, AggregatesListed
<1>2. A \cap T = By
  <2>1. \A x \in A : x = <<x[1], x[2]>> /\ x[1] \in S
    <3> HIDE DEF S, A
    <3> QED
      BY <1>1, RatingIs
  <2>2. \A x \in A : x \in T <=> x[2] = p /\ Category[x[1].where] # 0
    <3> HIDE DEF S, A
    <3> QED
      BY <2>1
  <2>3. By = {x \in A : x[2] = p /\ Category[x[1].where] # 0}
    BY DEF TastedBy
  <2> HIDE DEF By, A, T
  <2> QED
    BY <2>2, <2>3
<1>3. Lists(rated, By)
  <2> HIDE DEF A, T, By
  <2> QED
    BY <1>1, <1>2, KeptLists
<1>4. Range(rated) = By /\ IsFiniteSet(By)
  BY <1>3, ListCounted
<1>5. By \in SUBSET Ratings(S)
  BY <1>1, <1>2
<1>6. TasteOf(s, p) = RangeBest(entries, [v \in entries |-> {w \in entries : TasteBefore(v, w)}])
  <2> DEFINE Part(k) == Kept(rated, {x \in Range(rated) : Fold(Category[x[1].where]) = k})
             found == {Entry(Part(Fold(Category[x[1].where]))) : x \in Range(rated)}
             Worse(v) == {w \in found :
                        \/ Higher(v.average, w.average)
                        \/ /\ Equal(v.average, w.average)
                           /\ \/ v.average.count > w.average.count
                              \/ v.average.count = w.average.count /\ v.category < w.category}
  <2>1. TasteOf(s, p) = RangeBest(found, [v \in found |-> Worse(v)])
    BY DEF TasteOf
  <2>2. \A k : Part(k) = Of(k)
    <3> HIDE DEF rated, By
    <3> QED
      BY <1>4 DEF SameTaste
  <2>3. found = entries
    <3> HIDE DEF rated, By, Part, Of, Entry
    <3> QED
      BY <1>4, <2>2
  <2>4. \A v : Worse(v) = {w \in found : TasteBefore(v, w)}
    <3> HIDE DEF found
    <3> QED
      BY DEF TasteBefore
  <2> HIDE DEF found, Worse, entries
  <2> QED
    BY <2>1, <2>3, <2>4
<1> HIDE DEF rated, By, S
<1>7. ASSUME NEW k
      PROVE  /\ Range(Of(k)) = SameTaste(By, k) /\ AverageOf(Of(k)) = Average(SameTaste(By, k))
             /\ SameTaste(By, k) # {} => Average(SameTaste(By, k)) \in Averages
  <2> DEFINE R == SameTaste(By, k)
  <2>1. By \cap R = R
    BY DEF SameTaste
  <2> HIDE DEF R
  <2>2. /\ Lists(Kept(rated, R), R) /\ AverageOf(Kept(rated, R)) = Average(R)
        /\ R # {} => Average(R) \in Averages
    BY <1>1, <1>3, <1>5, <2>1, PartAverage
  <2>3. Range(Kept(rated, R)) = R
    BY <2>2, ListCounted
  <2> QED
    BY <2>2, <2>3 DEF R
<1>8. ASSUME NEW k PROVE Entry(Of(k)) = TasteRow(SameTaste(By, k), Bytes)
  <2> DEFINE V == {Category[y[1].where] : y \in SameTaste(By, k)}
  <2>1. \A y \in By : y[1].where \in Restaurants
    BY <1>1, <1>5, RatingIs
  <2>2. Category \in [Restaurants -> Nat]
    BY ColumnsAre
  <2>3. \A y \in SameTaste(By, k) : y \in By
    BY DEF SameTaste
  <2>4. V \in SUBSET Nat
    BY <2>1, <2>2, <2>3
  <2> HIDE DEF V
  <2>5. Least(V, Bytes) = Min(V)
    BY <2>4, LeastIsMin
  <2>6. TasteRow(SameTaste(By, k), Bytes) = [category |-> Min(V), average |-> Average(SameTaste(By, k))]
    BY <2>5 DEF TasteRow, V
  <2>7. Entry(Of(k)) = [category |-> Min(V), average |-> Average(SameTaste(By, k))]
    BY <1>7 DEF V
  <2> QED
    BY <2>6, <2>7
<1> HIDE DEF Entry, Of
<1>9. entries = Tastes(By, Bytes) /\ entries = {row[x] : x \in By}
  BY <1>8 DEF Tastes
<1>10. IsFiniteSet(entries)
  <2> HIDE DEF row, entries
  <2> QED
    BY <1>4, <1>9, ImageFinite
<1>11. ASSUME NEW x \in By PROVE row[x].category \in Nat /\ row[x].average \in Averages
  <2> DEFINE R == SameTaste(By, Fold(Category[x[1].where]))
             V == {Category[y[1].where] : y \in R}
  <2>1. x \in R /\ R \subseteq By
    BY DEF SameTaste
  <2>2. row[x].category = Least(V, Bytes) /\ row[x].average = Average(R)
    BY DEF TasteRow
  <2>3. Average(R) \in Averages
    BY <1>7, <2>1
  <2>4. \A y \in By : Category[y[1].where] \in Nat
    <3>1. \A y \in By : y[1].where \in Restaurants
      BY <1>1, <1>5, RatingIs
    <3>2. Category \in [Restaurants -> Nat]
      BY ColumnsAre
    <3> QED
      BY <3>1, <3>2
  <2>5. V \in SUBSET Nat /\ V # {}
    BY <2>1, <2>4
  <2> HIDE DEF V
  <2>6. \E m \in V : \A v \in V : m <= v
    BY <2>5, LeastNumber
  <2>7. Least(V, Bytes) \in V
    BY <2>5, <2>6, LeastIsMin DEF Min
  <2> QED
    BY <2>2, <2>3, <2>5, <2>7
<1>12. \A v \in entries : v.category \in Nat /\ v.average \in Averages
  <2> HIDE DEF row, entries
  <2> QED
    BY <1>9, <1>11
<1> HIDE DEF entries
<1> QED
  BY <1>6, <1>9, <1>10, <1>12 DEF By, S

\* The order of a person's categories is strict.
LEMMA TasteOrder ==
  ASSUME NEW V, \A v \in V : v.category \in Nat /\ v.average \in Averages
  PROVE  /\ \A a \in V : ~TasteBefore(a, a)
         /\ \A a, b, c \in V : TasteBefore(a, b) /\ TasteBefore(b, c) => TasteBefore(a, c)
<1>1. \A a \in V : ~TasteBefore(a, a)
  <2> SUFFICES ASSUME NEW a \in V PROVE ~TasteBefore(a, a)
    OBVIOUS
  <2>1. ~Higher(a.average, a.average) /\ a.average.count \in Nat /\ a.category \in Nat
    BY AveragesOrdered DEF Averages
  <2> QED
    BY <2>1 DEF TasteBefore
<1>2. ASSUME NEW a \in V, NEW b \in V, NEW c \in V, TasteBefore(a, b), TasteBefore(b, c)
      PROVE  TasteBefore(a, c)
  <2> DEFINE x == a.average
             y == b.average
             z == c.average
             After(m, n, u, v) == m > n \/ (m = n /\ u < v)
  <2>1. /\ x \in Averages /\ y \in Averages /\ z \in Averages
        /\ a.category \in Nat /\ b.category \in Nat /\ c.category \in Nat
    OBVIOUS
  <2>2. x.count \in Nat /\ y.count \in Nat /\ z.count \in Nat
    BY <2>1 DEF Averages
  <2>3. /\ Higher(x, y) \/ (Equal(x, y) /\ After(x.count, y.count, a.category, b.category))
        /\ Higher(y, z) \/ (Equal(y, z) /\ After(y.count, z.count, b.category, c.category))
    BY <1>2 DEF TasteBefore
  <2>4. /\ After(x.count, y.count, a.category, b.category)
        /\ After(y.count, z.count, b.category, c.category)
        => After(x.count, z.count, a.category, c.category)
    BY <2>1, <2>2
  <2>5. TasteBefore(a, c) <=>
           Higher(x, z) \/ (Equal(x, z) /\ After(x.count, z.count, a.category, c.category))
    BY DEF TasteBefore
  <2> HIDE DEF x, y, z, After
  <2>6. /\ Equal(x, y) <=> ~Higher(x, y) /\ ~Higher(y, x)
        /\ Equal(y, z) <=> ~Higher(y, z) /\ ~Higher(z, y)
        /\ Equal(x, z) <=> ~Higher(x, z) /\ ~Higher(z, x)
        /\ Higher(x, y) => ~Higher(y, x)
        /\ Higher(y, z) => ~Higher(z, y)
    BY <2>1, AveragesOrdered
  <2>7. /\ ~Higher(y, x) /\ ~Higher(z, y) => ~Higher(z, x)
        /\ ~Higher(y, x) /\ Higher(y, z) => Higher(x, z)
        /\ Higher(x, y) /\ ~Higher(z, y) => Higher(x, z)
    BY <2>1, AveragesOrdered
  <2>8. /\ ~Higher(y, z) /\ ~Higher(x, y) => ~Higher(x, z)
        /\ ~Higher(y, z) /\ Higher(y, x) => Higher(z, x)
        /\ Higher(z, y) /\ ~Higher(x, y) => Higher(z, x)
    BY <2>1, AveragesOrdered
  <2> QED
    BY <2>3, <2>4, <2>5, <2>6, <2>7, <2>8
<1> QED
  BY <1>1, <1>2

\* The category that a person likes best is one that the query may put first.
LEMMA TasteAlike ==
  ASSUME NEW s, Stored(s), NEW p \in People
  PROVE  TasteOf(s, p) \subseteq IF p \in DOMAIN TasteProfiles(Range(s), Bytes)
                                THEN TasteProfiles(Range(s), Bytes)[p] ELSE {None}
<1> DEFINE S == Range(s)
           entries == Tastes(TastedBy(S, p), Bytes)
           better == [v \in entries |-> {w \in entries : TasteBefore(v, w)}]
           Before(a, b) ==
               \/ Higher(a.average, b.average)
               \/ /\ Equal(a.average, b.average)
                  /\ Precedes(<<-a.average.count, Bytes[a.category]>>,
                              <<-b.average.count, Bytes[b.category]>>)
           First(V) == IF V = {} THEN {None} ELSE {a \in V : \A b \in V : ~Before(b, a)}
<1>1. TasteProfiles(S, Bytes) = [q \in {q \in People : TastedBy(S, q) # {}} |->
                                    First(Tastes(TastedBy(S, q), Bytes))]
  BY DEF TasteProfiles, TastedBy, Tastes, TasteRow, SameTaste, LimitOne
<1>2. /\ IsFiniteSet(entries)
      /\ \A v \in entries : v.category \in Nat /\ v.average \in Averages
      /\ TasteOf(s, p) = RangeBest(entries, better)
  BY TastesAlike
<1>3. p \in DOMAIN TasteProfiles(S, Bytes) <=> TastedBy(S, p) # {}
  BY <1>1
<1>4. TastedBy(S, p) # {} => TasteProfiles(S, Bytes)[p] = First(entries)
  BY <1>1
<1>5. TastedBy(S, p) = {} => entries = {}
  BY DEF Tastes
<1> HIDE DEF S, entries
<1>6. \A a, b \in entries : Before(a, b) <=> TasteBefore(a, b)
  <2> SUFFICES ASSUME NEW a \in entries, NEW b \in entries PROVE Before(a, b) <=> TasteBefore(a, b)
    OBVIOUS
  <2> DEFINE m == a.average.count
             n == b.average.count
             u == a.category
             v == b.category
  <2>1. m \in Nat /\ n \in Nat /\ u \in Nat /\ v \in Nat /\ Bytes[u] = u /\ Bytes[v] = v
    BY <1>2 DEF Averages, Bytes
  <2>2. /\ Before(a, b) <=> \/ Higher(a.average, b.average)
                            \/ Equal(a.average, b.average) /\ Precedes(<<-m, u>>, <<-n, v>>)
        /\ TasteBefore(a, b) <=> \/ Higher(a.average, b.average)
                                 \/ Equal(a.average, b.average) /\ (m > n \/ (m = n /\ u < v))
    BY <2>1 DEF TasteBefore
  <2> HIDE DEF Before, m, n, u, v
  <2>3. Precedes(<<-m, u>>, <<-n, v>>) <=> -m < -n \/ (-m = -n /\ u < v)
    BY <2>1, PairPrecedes
  <2>4. Precedes(<<-m, u>>, <<-n, v>>) <=> m > n \/ (m = n /\ u < v)
    BY <2>1, <2>3
  <2> QED
    BY <2>2, <2>4
<1>7. better \in [entries -> SUBSET entries]
      /\ \A a, b \in entries : b \in better[a] <=> TasteBefore(a, b)
  OBVIOUS
<1> HIDE DEF better, Before
<1>8. /\ \A x \in entries : x \notin better[x]
      /\ \A x, y \in entries : x \in better[y] => better[x] \subseteq better[y]
  BY <1>2, <1>7, TasteOrder
<1>9. RangeBest(entries, better) \subseteq
         IF entries = {} THEN {None} ELSE {a \in entries : \A b \in entries : a \notin better[b]}
  <2>1. IsFiniteSet(entries) /\ better \in [entries -> SUBSET entries]
    BY <1>2, <1>7
  <2> QED
    BY <1>8, <2>1, RangeBestIs
<1>10. TasteOf(s, p) \subseteq First(entries)
  BY <1>2, <1>6, <1>7, <1>9
<1>11. CASE TastedBy(S, p) = {}
  BY <1>3, <1>5, <1>10, <1>11 DEF S
<1>12. CASE TastedBy(S, p) # {}
  <2> HIDE DEF First
  <2> QED
    BY <1>3, <1>4, <1>10, <1>12 DEF S
<1> QED
  BY <1>11, <1>12

-----------------------------------------------------------------------------
(* The spinner's favorites *)

\* A sort says the same of the same elements, whoever tells their order.
LEMMA FavoritesSorted ==
  ASSUME NEW T \in SUBSET Restaurants
  PROVE  Sorted(T, LAMBDA r, q : IF Name[r] = Name[q] THEN r < q ELSE Name[r] < Name[q])
           = Sorted(T, LAMBDA r, q : Precedes(<<Bytes[Name[r]], r>>, <<Bytes[Name[q]], q>>))
<1> DEFINE Less(r, q) == IF Name[r] = Name[q] THEN r < q ELSE Name[r] < Name[q]
           Before(r, q) == Precedes(<<Bytes[Name[r]], r>>, <<Bytes[Name[q]], q>>)
           n == Cardinality(T)
           below1(x) == {y \in T : Less(y, x)}
           below2(x) == {y \in T : Before(y, x)}
           At1(i) == CHOOSE x \in T : Cardinality({y \in T : Less(y, x)}) = i - 1
           At2(i) == CHOOSE x \in T : Cardinality({y \in T : Before(y, x)}) = i - 1
<1>1. \A r, q \in T : Less(r, q) <=> Before(r, q)
  <2> SUFFICES ASSUME NEW r \in T, NEW q \in T PROVE Less(r, q) <=> Before(r, q)
    OBVIOUS
  <2>1. /\ Name[r] \in Nat /\ Bytes[Name[r]] = Name[r]
        /\ Name[q] \in Nat /\ Bytes[Name[q]] = Name[q]
    BY NamesAre
  <2>2. Before(r, q) <=> Name[r] < Name[q] \/ (Name[r] = Name[q] /\ r < q)
    BY <2>1, PairPrecedes
  <2> HIDE DEF Before
  <2> QED
    BY <2>1, <2>2
<1>2. Sorted(T, Less) = [i \in 1..n |-> At1(i)]
  BY DEF Sorted
<1>3. Sorted(T, Before) = [i \in 1..n |-> At2(i)]
  BY DEF Sorted
<1>4. \A x \in T : below1(x) = below2(x)
  <2> HIDE DEF Less, Before
  <2> QED
    BY <1>1
<1>5. \A i \in 1..n : At1(i) = At2(i)
  <2>1. \A i : /\ At1(i) = CHOOSE x \in T : Cardinality(below1(x)) = i - 1
               /\ At2(i) = CHOOSE x \in T : Cardinality(below2(x)) = i - 1
    OBVIOUS
  <2> HIDE DEF At1, At2, below1, below2, Less, Before
  <2> SUFFICES ASSUME NEW i \in 1..n
               PROVE  (CHOOSE x \in T : Cardinality(below1(x)) = i - 1)
                        = (CHOOSE x \in T : Cardinality(below2(x)) = i - 1)
    BY <2>1
  <2> QED
    BY <1>4
<1> HIDE DEF At1, At2, n
<1>6. Sorted(T, Less) = Sorted(T, Before)
  <2> HIDE DEF Less, Before
  <2> QED
    BY <1>2, <1>3, <1>5
<1> QED
  BY <1>6

\* The favorites that nobody has gone to lately are the same, in the same order.
LEMMA RestedAlike ==
  ASSUME NEW s, Stored(s), NEW least \in Int, NEW before \in Int
  PROVE  MemRestedFavorites(s, least, before) = RestedFavorites(Range(s), least, before, Bytes)
<1> DEFINE S == Range(s)
           values == RatingsByRestaurant(s)
           rested1 == {a \in values : /\ a.average.sum >= least * a.average.count
                                      /\ Records(s)[a.where].latest < before}
           places1 == {a.where : a \in rested1}
           Rated(r) == {x \in AggregateRatings(S) : x[1].where = r}
           places2 == {r \in Visited(S) :
                          /\ Rated(r) # {}
                          /\ ~Higher([sum |-> least, count |-> 1], Average(Rated(r)))
                          /\ Latest(At(S, r)) < before}
<1>1. /\ S \in SUBSET Rows /\ Lists(s, S)
      /\ values = {RatedRow(S, r) : r \in RatedPlaces(S)}
      /\ \A r : RatedAt(S, r) # {} => Average(RatedAt(S, r)) \in Averages
  BY StoredListed, RestaurantsRated
<1>2. \A r \in Restaurants : At(S, r) # {} => Records(s)[r].latest = Latest(At(S, r))
  <2> HIDE DEF S
  <2>1. \A r \in Restaurants :
           Records(s)[r] = [where |-> r, visits |-> Cardinality(At(S, r)),
                            latest |-> IF At(S, r) = {} THEN 0 ELSE Latest(At(S, r))]
    BY <1>1, RecordsAre
  <2> SUFFICES ASSUME NEW r \in Restaurants, At(S, r) # {}
               PROVE  Records(s)[r].latest = Latest(At(S, r))
    OBVIOUS
  <2>2. Records(s)[r].latest = IF At(S, r) = {} THEN 0 ELSE Latest(At(S, r))
    <3> DEFINE latest == IF At(S, r) = {} THEN 0 ELSE Latest(At(S, r))
    <3>1. Records(s)[r] = [where |-> r, visits |-> Cardinality(At(S, r)), latest |-> latest]
      BY <2>1
    <3> HIDE DEF latest
    <3>2. Records(s)[r].latest = latest
      BY <3>1
    <3> QED
      BY <3>2 DEF latest
  <2> QED
    BY <2>2
<1>3. MemRestedFavorites(s, least, before)
        = Sorted(places1, LAMBDA r, q : IF Name[r] = Name[q] THEN r < q ELSE Name[r] < Name[q])
  BY DEF MemRestedFavorites
<1>4. RestedFavorites(S, least, before, Bytes)
        = Sorted(places2, LAMBDA r, q : Precedes(<<Bytes[Name[r]], r>>, <<Bytes[Name[q]], q>>))
  BY DEF RestedFavorites
<1>5. \A r : Rated(r) = RatedAt(S, r)
  BY DEF RatedAt
<1>6. ASSUME NEW r PROVE RatedAt(S, r) # {} => At(S, r) # {}
  <2> SUFFICES ASSUME NEW x \in RatedAt(S, r) PROVE At(S, r) # {}
    OBVIOUS
  <2>1. x \in Ratings(S) /\ x[1].where = r
    BY <1>1, AggregatesListed DEF RatedAt
  <2>2. x[1] \in S
    <3> HIDE DEF S
    <3> QED
      BY <1>1, <2>1, RatingIs
  <2> QED
    BY <2>1, <2>2 DEF At
<1> HIDE DEF S, values, Rated
<1>7. ASSUME NEW r \in Restaurants, RatedAt(S, r) # {}
      PROVE  Average(RatedAt(S, r)).sum >= least * Average(RatedAt(S, r)).count <=>
               ~Higher([sum |-> least, count |-> 1], Average(RatedAt(S, r)))
  <2> DEFINE a == Average(RatedAt(S, r))
             b == [sum |-> least, count |-> 1]
  <2>1. a.sum \in Int /\ a.count \in Int
    BY <1>1, <1>7 DEF Averages
  <2>2. Higher(b, a) <=> b.sum * a.count > a.sum * b.count
    BY DEF Higher
  <2>3. b.sum = least /\ b.count = 1
    OBVIOUS
  <2> HIDE DEF a, b
  <2>4. least * a.count \in Int /\ a.sum * 1 = a.sum
    BY <2>1
  <2>5. Higher(b, a) <=> least * a.count > a.sum
    BY <2>2, <2>3, <2>4
  <2>6. a.sum >= least * a.count <=> ~(least * a.count > a.sum)
    BY <2>1, <2>4
  <2> QED
    BY <2>5, <2>6 DEF a, b
<1>8. \A r : RatedRow(S, r).where = r /\ RatedRow(S, r).average = Average(RatedAt(S, r))
  BY DEF RatedRow
<1>9. \A r : r \in places1 <=>
         /\ r \in RatedPlaces(S)
         /\ Average(RatedAt(S, r)).sum >= least * Average(RatedAt(S, r)).count
         /\ Records(s)[r].latest < before
  BY <1>1, <1>8
<1>10. \A r : At(S, r) # {} => r \in Visited(S)
  BY DEF At, Visited
<1>11. \A r : r \in places2 <=>
         /\ r \in Visited(S) /\ RatedAt(S, r) # {}
         /\ ~Higher([sum |-> least, count |-> 1], Average(RatedAt(S, r)))
         /\ Latest(At(S, r)) < before
  BY <1>5
<1>12. \A r \in Visited(S) : r \in Restaurants
  BY <1>1, RowFields DEF Visited
<1> HIDE DEF places1, places2
<1>13. places1 = places2
  <2>1. \A r : r \in RatedPlaces(S) <=> r \in Restaurants /\ RatedAt(S, r) # {}
    BY DEF RatedPlaces
  <2>2. ASSUME NEW r PROVE r \in places1 <=> r \in places2
    BY <1>2, <1>6, <1>7, <1>9, <1>10, <1>11, <1>12, <2>1
  <2> QED
    BY <2>2
<1>14. places2 \in SUBSET Restaurants
  BY <1>11, <1>12
<1> QED
  BY <1>3, <1>4, <1>13, <1>14, FavoritesSorted DEF S

-----------------------------------------------------------------------------
(* Who picked how often *)

\* What is known of a person before and after another dine.
Pick == [picks : Nat, last : Int \cup {None}]
NoPicks == [p \in People |-> [picks |-> 0, last |-> None]]
Picked(v, d, since) ==
    IF d.picker = Everybody THEN v
    ELSE [v EXCEPT ![d.picker].picks = IF d.at >= since THEN @ + 1 ELSE @,
                   ![d.picker].last = IF @ = None \/ d.at > @ THEN d.at ELSE @]

\* A dine counts for its picker alone, and for nobody if everybody picked it.
LEMMA PickStep ==
  ASSUME NEW since \in Int, NEW v \in [People -> Pick], NEW d \in Rows
  PROVE  /\ Picked(v, d, since) \in [People -> Pick]
         /\ \A p \in People : Picked(v, d, since)[p] =
               IF p = d.picker
               THEN [picks |-> IF d.at >= since THEN v[p].picks + 1 ELSE v[p].picks,
                     last |-> IF v[p].last = None \/ d.at > v[p].last THEN d.at ELSE v[p].last]
               ELSE v[p]
<1> DEFINE w == d.picker
           one == [v EXCEPT ![w].picks = IF d.at >= since THEN @ + 1 ELSE @]
           two == [one EXCEPT ![w].last = IF @ = None \/ d.at > @ THEN d.at ELSE @]
           new == [picks |-> IF d.at >= since THEN v[w].picks + 1 ELSE v[w].picks,
                   last |-> IF v[w].last = None \/ d.at > v[w].last THEN d.at ELSE v[w].last]
<1>1. d.at \in Nat /\ w \in People \cup {Everybody} /\ Everybody \notin People
  BY RowFields, HistoryAssumption
<1>2. w # Everybody => Picked(v, d, since) = two
  BY DEF Picked
<1>3. CASE w = Everybody
  <2>1. Picked(v, d, since) = v
    BY <1>3 DEF Picked
  <2>2. \A p \in People : p # w
    BY <1>1, <1>3
  <2> HIDE DEF w
  <2> QED
    BY <2>1, <2>2 DEF w
<1>4. CASE w # Everybody
  <2>1. w \in People
    BY <1>1, <1>4
  <2> HIDE DEF w
  <2>2. v[w] \in Pick
    BY <2>1
  <2>3. new \in Pick
    BY <1>1, <2>2 DEF Pick
  <2>4. /\ DOMAIN one = People /\ one = [p \in People |-> one[p]]
        /\ \A p \in People : p # w => one[p] = v[p]
        /\ one[w] = [picks |-> new.picks, last |-> v[w].last]
    <3>1. one = [v EXCEPT ![w] = [v[w] EXCEPT !.picks = IF d.at >= since THEN @ + 1 ELSE @]]
      OBVIOUS
    <3>2. [v[w] EXCEPT !.picks = IF d.at >= since THEN @ + 1 ELSE @]
            = [picks |-> new.picks, last |-> v[w].last]
      BY <2>2 DEF Pick
    <3>3. one = [p \in People |-> one[p]]
      OBVIOUS
    <3> HIDE DEF one, new
    <3> QED
      BY <2>1, <3>1, <3>2, <3>3
  <2> HIDE DEF one
  <2>5. /\ two = [p \in People |-> two[p]]
        /\ \A p \in People : p # w => two[p] = v[p]
        /\ two[w] = new
    <3>1. two = [one EXCEPT ![w] = [one[w] EXCEPT !.last = IF @ = None \/ d.at > @ THEN d.at ELSE @]]
      OBVIOUS
    <3>2. [one[w] EXCEPT !.last = IF @ = None \/ d.at > @ THEN d.at ELSE @] = new
      BY <2>4
    <3> HIDE DEF two, new
    <3> QED
      BY <2>1, <2>4, <3>1, <3>2
  <2> HIDE DEF two, new
  <2>6. \A p \in People : two[p] \in Pick
    BY <2>3, <2>5
  <2>7. two \in [People -> Pick]
    BY <2>5, <2>6
  <2> QED
    BY <1>2, <1>4, <2>5, <2>7 DEF new, w
<1> QED
  BY <1>3, <1>4

\* What a run of the loop over the dines computes.
LEMMA PicksRun ==
  ASSUME NEW since \in Int, NEW s \in Seq(Rows)
  PROVE  \E f \in [0..Len(s) -> [People -> Pick]] :
            /\ f[0] = NoPicks /\ MemPickCounts(s, since) = f[Len(s)]
            /\ \A k \in 1..Len(s) : f[k] = Picked(f[k - 1], s[k], since)
<1> DEFINE n == Len(s)
           Body(v, k) == Picked(v, s[k], since)
           V == [People -> Pick]
           step == [k \in 1..n |-> [v \in V |-> Body(v, k)]]
           Loop(f) == f = [k \in 0..n |-> IF k = 0 THEN NoPicks ELSE Body(f[k - 1], k)]
           by == CHOOSE f : Loop(f)
<1>1. n \in Nat /\ \A k \in 1..n : s[k] \in Rows
  OBVIOUS
<1>2. MemPickCounts(s, since) = by[n]
  BY DEF MemPickCounts, Picked, NoPicks
<1>3. \A v \in V, k \in 1..n : Body(v, k) \in V
  BY <1>1, PickStep
<1>4. NoPicks \in V
  BY DEF NoPicks, Pick
<1> HIDE DEF n, Body, V
<1>5. \E f : Loop(f)
  <2>1. step \in Bodies(V, n)
    BY <1>3 DEF Bodies
  <2>2. PICK f \in [0..n -> V] : f[0] = NoPicks /\ \A k \in 1..n : f[k] = step[k][f[k - 1]]
    <3> HIDE DEF step
    <3>1. LoopRuns(V, n, NoPicks, step) # {}
      BY <1>1, <1>4, <2>1, Iterated
    <3> QED
      BY <3>1 DEF LoopRuns
  <2>3. ASSUME NEW k \in 0..n PROVE f[k] = IF k = 0 THEN NoPicks ELSE Body(f[k - 1], k)
    <3>1. CASE k # 0
      <4>1. k \in 1..n /\ f[k - 1] \in V
        BY <1>1, <2>2, <3>1
      <4> QED
        BY <2>2, <3>1, <4>1
    <3> QED
      BY <2>2, <3>1
  <2>4. Loop(f)
    BY <2>2, <2>3
  <2> QED
    BY <2>4
<1>6. Loop(by)
  <2> HIDE DEF Loop
  <2> QED
    BY <1>5
<1> HIDE DEF by
<1>7. /\ DOMAIN by = 0..n /\ by[0] = NoPicks
      /\ \A k \in 1..n : by[k] = Body(by[k - 1], k)
  BY <1>1, <1>6
<1>8. by = [k \in 0..n |-> by[k]]
  BY <1>6
<1> HIDE DEF Loop
<1> DEFINE Q == {k \in 0..n : by[k] \in V}
<1>9. \A k \in 0..n : k \in Q
  <2>1. 0 \in Q
    BY <1>1, <1>4, <1>7
  <2>2. ASSUME NEW k \in 1..n, k - 1 \in Q PROVE k \in Q
    <3>1. Body(by[k - 1], k) \in V
      BY <1>3, <2>2
    <3>2. by[k] = Body(by[k - 1], k) /\ k \in 0..n
      BY <1>1, <1>7
    <3> QED
      BY <3>1, <3>2
  <2> HIDE DEF Q
  <2> QED
    BY <1>1, <2>1, <2>2, Upwards
<1>10. by \in [0..n -> V]
  BY <1>8, <1>9
<1> QED
  BY <1>2, <1>7, <1>10 DEF n, Body, V

\* The dines that a person picked, and those of them that count.
PickedBy(S, p) == {d \in S : d.picker = p}
PickedSince(S, p, since) == {d \in PickedBy(S, p) : d.at >= since}

\* Both stores count the same dines for each person, and know the same last one.
LEMMA PicksAlike ==
  ASSUME NEW s, Stored(s), NEW since \in Int
  PROVE  MemPickCounts(s, since) = PickCounts(Range(s), since)
<1> DEFINE S == Range(s)
           n == Len(s)
           Seen(k) == {s[i] : i \in 1..k}
<1>1. /\ S \in SUBSET Rows /\ Lists(s, S) /\ n \in Nat
      /\ s \in Seq(Rows) /\ \A i \in 1..n : s[i] \in Rows
  BY StoredListed DEF Stored
<1>2. \A i, j \in 1..n : s[i] = s[j] => i = j
  BY <1>1 DEF Lists
<1>3. PICK f \in [0..n -> [People -> Pick]] :
         /\ f[0] = NoPicks /\ MemPickCounts(s, since) = f[n]
         /\ \A k \in 1..n : f[k] = Picked(f[k - 1], s[k], since)
  BY <1>1, PicksRun
<1>4. Seen(n) = S
  BY <1>1 DEF Lists
<1>5. None \notin Int
  BY HistoryAssumption
<1> HIDE DEF n, S
<1> DEFINE Right(v, T, p) ==
              /\ IsFiniteSet(PickedSince(T, p, since))
              /\ v.picks = Cardinality(PickedSince(T, p, since))
              /\ IF PickedBy(T, p) = {} THEN v.last = None
                 ELSE /\ \E d \in PickedBy(T, p) : d.at = v.last
                      /\ \A d \in PickedBy(T, p) : d.at <= v.last
           Q == {k \in 0..n : \A p \in People : Right(f[k][p], Seen(k), p)}
<1>6. 0 \in Q
  <2>1. ASSUME NEW p \in People PROVE Right(f[0][p], Seen(0), p)
    <3>1. PickedBy(Seen(0), p) = {} /\ PickedSince(Seen(0), p, since) = {}
      BY DEF PickedBy, PickedSince
    <3>2. f[0][p].picks = 0 /\ f[0][p].last = None
      BY <1>3 DEF NoPicks
    <3> HIDE DEF Seen
    <3> QED
      BY <3>1, <3>2, FS_EmptySet
  <2>2. 0 \in 0..n
    BY <1>1
  <2> HIDE DEF Right, Seen
  <2> QED
    BY <2>1, <2>2
<1>7. ASSUME NEW k \in 1..n, k - 1 \in Q PROVE k \in Q
  <2> DEFINE d == s[k]
             T == Seen(k - 1)
  <2>1. d \in Rows /\ d.at \in Nat
    BY <1>1, RowFields
  <2>2. Seen(k) = T \cup {d} /\ d \notin T
    <3>1. Seen(k) = T \cup {d}
      BY <1>1
    <3>2. ASSUME NEW i \in 1..(k - 1), s[i] = d PROVE FALSE
      <4>1. i \in 1..n /\ i # k
        BY <1>1
      <4> QED
        BY <1>2, <3>2, <4>1
    <3> QED
      BY <3>1, <3>2
  <2>3. f[k] = Picked(f[k - 1], d, since) /\ f[k - 1] \in [People -> Pick]
    <3>1. k - 1 \in 0..n
      BY <1>1
    <3> QED
      BY <1>3, <3>1
  <2>4. \A p \in People : Right(f[k - 1][p], T, p)
    BY <1>7
  <2>5. \A e \in T : e.at \in Nat
    <3>1. \A i \in 1..(k - 1) : s[i] \in Rows
      BY <1>1
    <3> QED
      BY <3>1, RowFields
  <2> HIDE DEF T, d, Seen
  <2>6. ASSUME NEW p \in People PROVE Right(f[k][p], T \cup {d}, p)
    <3> DEFINE v == f[k - 1][p]
               w == f[k][p]
               A == PickedBy(T, p)
               B == PickedBy(T \cup {d}, p)
               A1 == PickedSince(T, p, since)
               B1 == PickedSince(T \cup {d}, p, since)
    <3>1. Right(v, T, p)
      BY <2>4
    <3>2. v.picks \in Nat /\ v.last \in Int \cup {None}
      BY <2>3 DEF Pick
    <3>3. w = IF p = d.picker
              THEN [picks |-> IF d.at >= since THEN v.picks + 1 ELSE v.picks,
                    last |-> IF v.last = None \/ d.at > v.last THEN d.at ELSE v.last]
              ELSE v
      <4> DEFINE g == f[k - 1]
      <4>1. g \in [People -> Pick] /\ f[k] = Picked(g, d, since)
        BY <2>3
      <4> HIDE DEF g
      <4>2. Picked(g, d, since)[p] =
               IF p = d.picker
               THEN [picks |-> IF d.at >= since THEN g[p].picks + 1 ELSE g[p].picks,
                     last |-> IF g[p].last = None \/ d.at > g[p].last THEN d.at ELSE g[p].last]
               ELSE g[p]
        BY <2>1, <4>1, PickStep
      <4> QED
        BY <4>1, <4>2 DEF g
    <3> HIDE DEF v, w
    <3>4. CASE p # d.picker
      <4>1. B = A /\ B1 = A1
        BY <3>4 DEF PickedBy, PickedSince
      <4>2. Right(v, T \cup {d}, p)
        BY <3>1, <4>1
      <4> HIDE DEF Right
      <4> QED
        BY <3>3, <3>4, <4>2 DEF w
    <3>5. CASE p = d.picker
      <4>1. B = A \cup {d} /\ B1 = (IF d.at >= since THEN A1 \cup {d} ELSE A1) /\ d \notin A1
        BY <2>2, <3>5 DEF PickedBy, PickedSince
      <4>2. /\ w.picks = IF d.at >= since THEN v.picks + 1 ELSE v.picks
            /\ w.last = IF v.last = None \/ d.at > v.last THEN d.at ELSE v.last
        BY <3>3, <3>5
      <4>3. IsFiniteSet(B1) /\ w.picks = Cardinality(B1)
        <5>1. IsFiniteSet(A1) /\ v.picks = Cardinality(A1)
          BY <3>1
        <5> HIDE DEF A1, B1
        <5>2. IsFiniteSet(A1 \cup {d}) /\ Cardinality(A1 \cup {d}) = Cardinality(A1) + 1
          BY <4>1, <5>1, FS_AddElement
        <5> QED
          BY <4>1, <4>2, <5>1, <5>2
      <4>4. \A e \in A : e.at \in Nat
        BY <2>5 DEF PickedBy
      <4>5. w.last \in Int /\ (\E e \in B : e.at = w.last) /\ \A e \in B : e.at <= w.last
        <5>1. CASE v.last = None
          <6>1. ~(\E e \in A : e.at = v.last)
            BY <1>5, <4>4, <5>1
          <6>2. A = {}
            BY <3>1, <6>1
          <6>3. w.last = d.at
            BY <4>2, <5>1
          <6> HIDE DEF A, B
          <6>4. \A e : e \in B <=> e = d
            BY <4>1, <6>2
          <6> QED
            BY <2>1, <6>3, <6>4
        <5>2. CASE v.last # None
          <6>1. v.last \in Int
            BY <3>2, <5>2
          <6>2. (\E e \in A : e.at = v.last) /\ \A e \in A : e.at <= v.last
            BY <3>1, <5>2
          <6>3. w.last = IF d.at > v.last THEN d.at ELSE v.last
            BY <4>2, <5>2
          <6> HIDE DEF A, B
          <6> QED
            BY <2>1, <4>1, <4>4, <6>1, <6>2, <6>3
        <5> QED
          BY <5>1, <5>2
      <4>6. B # {}
        BY <4>1
      <4> HIDE DEF A, B, A1, B1
      <4>7. IF B = {} THEN w.last = None
            ELSE (\E e \in B : e.at = w.last) /\ \A e \in B : e.at <= w.last
        BY <4>5, <4>6
      <4> QED
        BY <4>3, <4>7 DEF w, B, B1
    <3> QED
      BY <3>4, <3>5
  <2>7. k \in 0..n
    BY <1>1
  <2> HIDE DEF Right
  <2> QED
    BY <2>2, <2>6, <2>7
<1>8. n \in Q
  <2> HIDE DEF Q
  <2>1. \A k \in 0..n : k \in Q
    BY <1>1, <1>6, <1>7, Upwards
  <2> QED
    BY <1>1, <2>1
<1>9. f[n] \in [People -> Pick]
  BY <1>1, <1>3
<1>10. ASSUME NEW p \in People
       PROVE  f[n][p] = [picks |-> Cardinality(PickedSince(S, p, since)),
                         last |-> IF PickedBy(S, p) = {} THEN None ELSE Latest(PickedBy(S, p))]
  <2> DEFINE v == f[n][p]
             A == PickedBy(S, p)
             last == IF A = {} THEN None ELSE Latest(A)
  <2>1. Right(v, S, p)
    BY <1>4, <1>8
  <2>2. v \in Pick
    BY <1>9
  <2>3. \A d \in A : d.at \in Int
    BY <1>1, RowIs DEF PickedBy
  <2> HIDE DEF v
  <2>4. v.last = last
    <3>1. CASE A = {}
      BY <2>1, <3>1
    <3>2. CASE A # {}
      <4> DEFINE times == {d.at : d \in A}
      <4>1. (\E d \in A : d.at = v.last) /\ \A d \in A : d.at <= v.last
        BY <2>1, <3>2
      <4>2. v.last \in times /\ \A x \in times : x <= v.last
        BY <4>1
      <4>3. times \in SUBSET Int
        BY <2>3
      <4> HIDE DEF times
      <4>4. Max(times) = v.last
        BY <4>2, <4>3, GreatestIs
      <4> QED
        BY <3>2, <4>4 DEF Latest, times
    <3> QED
      BY <3>1, <3>2
  <2>5. v.picks = Cardinality(PickedSince(S, p, since))
    BY <2>1
  <2> HIDE DEF last
  <2>6. v = [picks |-> Cardinality(PickedSince(S, p, since)), last |-> last]
    BY <2>2, <2>4, <2>5 DEF Pick
  <2> QED
    BY <2>6 DEF v, last
<1>11. PickCounts(S, since) =
          [p \in People |->
              [picks |-> Cardinality(PickedSince(S, p, since)),
               last |-> IF PickedBy(S, p) = {} THEN None ELSE Latest(PickedBy(S, p))]]
  BY DEF PickCounts, PickedSince, PickedBy
<1>12. f[n] = [p \in People |-> f[n][p]]
  BY <1>9
<1> HIDE DEF Right, Q, Seen
<1>13. f[n] = PickCounts(S, since)
  <2> DEFINE Row(p) == [picks |-> Cardinality(PickedSince(S, p, since)),
                        last |-> IF PickedBy(S, p) = {} THEN None ELSE Latest(PickedBy(S, p))]
  <2>1. \A p \in People : f[n][p] = Row(p)
    BY <1>10
  <2>2. PickCounts(S, since) = [p \in People |-> Row(p)]
    BY <1>11
  <2> HIDE DEF Row
  <2> QED
    BY <1>12, <2>1, <2>2
<1> QED
  BY <1>3, <1>13 DEF S

-----------------------------------------------------------------------------
(* That there is an answer *)

\* A finite set has a list.
LEMMA ListExists ==
  ASSUME NEW S, IsFiniteSet(S)
  PROVE  \E t : Lists(t, S)
<1>1. PICK n \in Nat : ExistsBijection(1..n, S)
  BY FS_NatBijection
<1>2. PICK t \in Bijection(1..n, S) : TRUE
  BY <1>1 DEF ExistsBijection
<1>3. /\ t \in [1..n -> S]
      /\ \A x \in S : \E i \in 1..n : t[i] = x
      /\ \A i, j \in 1..n : t[i] = t[j] => i = j
  BY DEF Bijection, Injection, Surjection, IsInjective
<1>4. t \in Seq(S) /\ Len(t) = n
  BY <1>3
<1> QED
  BY <1>3, <1>4 DEF Lists

\* Ranging over a map finds something to keep, or that it is empty.
LEMMA RangeBestSome ==
  ASSUME NEW values, IsFiniteSet(values), NEW worse
  PROVE  RangeBest(values, worse) # {}
<1>1. PICK t : t \in SetToSeqs(values)
  BY ListExists, SeqsAreLists
<1>2. BestOf(t, worse, None) \in RangeBest(values, worse)
  BY <1>1 DEF RangeBest
<1> QED
  BY <1>2

\* A sort has an answer, whatever ties its order leaves: ranks before the ties
\* are broken need only be those of a weak order.
LEMMA OrderExists ==
  ASSUME NEW S, IsFiniteSet(S), NEW above \in [S -> SUBSET S],
         \A x, y \in S : x \in above[y] => y \notin above[x],
         \A x, y, z \in S : x \in above[y] => x \in above[z] \/ z \in above[y]
  PROVE  \E t \in SetToSeqs(S) : \A i, j \in DOMAIN t : i < j => t[j] \notin above[t[i]]
<1>1. PICK u : Lists(u, S)
  BY ListExists
<1> DEFINE at == [x \in S |-> CHOOSE i \in 1..Len(u) : u[i] = x]
           n == Cardinality(S)
           Tied(x, y) == x \notin above[y] /\ y \notin above[x]
           below == [x \in S |-> {y \in S : y \in above[x] \/ (Tied(x, y) /\ at[y] < at[x])}]
<1>2. ASSUME NEW x \in S PROVE at[x] \in Nat /\ u[at[x]] = x
  <2>1. \E i \in 1..Len(u) : u[i] = x
    BY <1>1 DEF Lists
  <2>2. Len(u) \in Nat
    BY <1>1, ListCounted
  <2> QED
    BY <2>1, <2>2
<1>3. \A x, y \in S : at[x] = at[y] => x = y
  BY <1>2
<1> HIDE DEF at
<1>4. /\ below \in [S -> SUBSET S]
      /\ \A x, y \in S : y \in below[x] <=> y \in above[x] \/ (Tied(x, y) /\ at[y] < at[x])
  OBVIOUS
<1> HIDE DEF below
<1>5. \A x \in S : x \notin below[x]
  BY <1>2, <1>4
<1>6. \A x, y \in S : x # y => x \in below[y] \/ y \in below[x]
  BY <1>2, <1>3, <1>4
<1>7. \A x, y \in S : x \in below[y] => below[x] \subseteq below[y]
  <2> SUFFICES ASSUME NEW x \in S, NEW y \in S, NEW z \in S, x \in below[y], z \in below[x]
               PROVE  z \in below[y]
    BY <1>4
  <2>1. /\ x \in above[y] \/ (Tied(y, x) /\ at[x] < at[y])
        /\ z \in above[x] \/ (Tied(x, z) /\ at[z] < at[x])
    BY <1>4
  <2>2. at[x] \in Nat /\ at[y] \in Nat /\ at[z] \in Nat
    BY <1>2
  <2>3. z \in above[y] \/ (Tied(y, z) /\ at[z] < at[y])
    BY <2>1, <2>2
  <2> QED
    BY <1>4, <2>3
<1>8. /\ n \in Nat
      /\ \A x, y \in S : x \in below[y] <=> Cardinality(below[x]) < Cardinality(below[y])
      /\ \A x \in S : Cardinality(below[x]) \in 0..(n - 1)
      /\ \A k \in 1..n : \E x \in S : Cardinality(below[x]) = k - 1
  BY <1>4, <1>5, <1>6, <1>7, Ranks
<1> DEFINE t == [i \in 1..n |-> CHOOSE x \in S : Cardinality(below[x]) = i - 1]
<1>9. t \in [1..n -> S] /\ \A i \in 1..n : Cardinality(below[t[i]]) = i - 1
  BY <1>8
<1>10. \A i, j \in 1..n : i # j => t[i] # t[j]
  BY <1>8, <1>9
<1>11. t \in SetToSeqs(S)
  BY <1>9, <1>10 DEF SetToSeqs
<1> HIDE DEF t
<1>12. ASSUME NEW i \in DOMAIN t, NEW j \in DOMAIN t, i < j PROVE t[j] \notin above[t[i]]
  <2>1. t[i] \in S /\ t[j] \in S /\ i \in 1..n /\ j \in 1..n
    BY <1>9
  <2>2. t[i] \in below[t[j]]
    BY <1>8, <1>9, <1>12, <2>1
  <2>3. t[i] \in above[t[j]] \/ Tied(t[j], t[i])
    BY <1>4, <2>1, <2>2
  <2> QED
    BY <2>1, <2>3
<1> QED
  BY <1>11, <1>12

\* The ranking of restaurants is a weak order: two of a name may share a rank.
LEMMA RanksWeakly ==
  ASSUME NEW a, NEW b, NEW c,
         a.where \in Restaurants, a.average \in Averages, b.where \in Restaurants,
         b.average \in Averages, c.where \in Restaurants, c.average \in Averages
  PROVE  /\ RanksAbove(a, b, Bytes) => ~RanksAbove(b, a, Bytes)
         /\ RanksAbove(a, b, Bytes) => RanksAbove(a, c, Bytes) \/ RanksAbove(c, b, Bytes)
<1> DEFINE x == a.average
           y == b.average
           z == c.average
           After(m, n, u, v) == IF m # n THEN m > n ELSE u < v
           Ranked(p, q, d, e) == IF ~Equal(p, q) THEN Higher(p, q)
                                 ELSE After(p.count, q.count, Name[d], Name[e])
<1>1. /\ x.count \in Nat /\ y.count \in Nat /\ z.count \in Nat
      /\ Name[a.where] \in Nat /\ Name[b.where] \in Nat /\ Name[c.where] \in Nat
      /\ x \in Averages /\ y \in Averages /\ z \in Averages
  <2>1. Name \in [Restaurants -> Nat]
    BY HistoryAssumption
  <2> QED
    BY <2>1 DEF Averages
<1>2. /\ RanksAbove(a, b, Bytes) <=> Ranked(x, y, a.where, b.where)
      /\ RanksAbove(b, a, Bytes) <=> Ranked(y, x, b.where, a.where)
      /\ RanksAbove(a, c, Bytes) <=> Ranked(x, z, a.where, c.where)
      /\ RanksAbove(c, b, Bytes) <=> Ranked(z, y, c.where, b.where)
  BY RanksAlike
<1> DEFINE xy == After(x.count, y.count, Name[a.where], Name[b.where])
           yx == After(y.count, x.count, Name[b.where], Name[a.where])
           xz == After(x.count, z.count, Name[a.where], Name[c.where])
           zy == After(z.count, y.count, Name[c.where], Name[b.where])
<1>3. (xy => ~yx) /\ (xy => xz \/ zy)
  BY <1>1
<1>4. /\ RanksAbove(a, b, Bytes) <=> IF ~Equal(x, y) THEN Higher(x, y) ELSE xy
      /\ RanksAbove(b, a, Bytes) <=> IF ~Equal(y, x) THEN Higher(y, x) ELSE yx
      /\ RanksAbove(a, c, Bytes) <=> IF ~Equal(x, z) THEN Higher(x, z) ELSE xz
      /\ RanksAbove(c, b, Bytes) <=> IF ~Equal(z, y) THEN Higher(z, y) ELSE zy
  BY <1>2
<1> HIDE DEF x, y, z, xy, yx, xz, zy
<1>5. /\ Equal(x, y) <=> ~Higher(x, y) /\ ~Higher(y, x)
      /\ Equal(y, x) <=> ~Higher(y, x) /\ ~Higher(x, y)
      /\ Equal(x, z) <=> ~Higher(x, z) /\ ~Higher(z, x)
      /\ Equal(z, y) <=> ~Higher(z, y) /\ ~Higher(y, z)
      /\ Higher(x, y) => ~Higher(y, x)
  BY <1>1, AveragesOrdered
<1>6. /\ ~Higher(x, z) /\ ~Higher(z, y) => ~Higher(x, y)
      /\ ~Higher(y, x) /\ Higher(z, x) => Higher(z, y)
      /\ ~Higher(y, x) /\ Higher(y, z) => Higher(x, z)
  BY <1>1, AveragesOrdered
<1>7. /\ Equal(x, y) /\ Equal(x, z) => Equal(z, y)
      /\ ~Higher(x, z) /\ Higher(x, y) => Higher(z, y)
      /\ Higher(x, z) /\ ~Higher(y, x) => ~Higher(z, x)
  BY <1>1, <1>5, AveragesOrdered
<1> QED
  BY <1>3, <1>4, <1>5, <1>6, <1>7

\* The ranking lists something first, or nothing if there is nothing.
LEMMA FirstOfSome ==
  ASSUME NEW rows, IsFiniteSet(rows),
         \A a \in rows : a.where \in Restaurants /\ a.average \in Averages
  PROVE  FirstOf(rows) # {}
<1> DEFINE above == [x \in rows |-> {y \in rows : RanksAbove(y, x, Bytes)}]
           first(t) == [i \in 1..Min({TopLimit, Len(t)}) |-> Selected(t[i])]
<1>1. above \in [rows -> SUBSET rows] /\ \A x, y \in rows : y \in above[x] <=> RanksAbove(y, x, Bytes)
  OBVIOUS
<1> HIDE DEF above
<1>2. \A x, y \in rows : x \in above[y] => y \notin above[x]
  BY <1>1, RanksWeakly
<1>3. \A x, y, z \in rows : x \in above[y] => x \in above[z] \/ z \in above[y]
  BY <1>1, RanksWeakly
<1>4. PICK t \in SetToSeqs(rows) : \A i, j \in DOMAIN t : i < j => t[j] \notin above[t[i]]
  BY <1>1, <1>2, <1>3, OrderExists
<1>5. \A i \in DOMAIN t : t[i] \in rows
  BY <1>4 DEF SetToSeqs
<1>6. \A i, j \in DOMAIN t : i < j => ~RanksAbove(t[j], t[i], Bytes)
  BY <1>1, <1>4, <1>5
<1>7. first(t) \in FirstOf(rows)
  BY <1>6 DEF FirstOf
<1> QED
  BY <1>7

\* The map's points come in some order.
LEMMA MapSome ==
  ASSUME NEW s, Stored(s)
  PROVE  MemMapPoints(s) # {}
<1> DEFINE S == Range(s)
           M == {d \in S : d.where \in Mapped}
           rows == {a \in Range(Records(Kept(s, M))) : a.visits > 0}
           Less(a, b) == IF a.latest # b.latest THEN a.latest > b.latest
                         ELSE Name[a.where] < Name[b.where]
           above == [x \in rows |-> {y \in rows : Less(y, x)}]
<1>1. S \subseteq Rows /\ Lists(s, S)
  BY StoredListed
<1>2. \A t : t \in MemMapPoints(s) <=>
         t \in SetToSeqs(rows) /\ \A i, j \in DOMAIN t : i < j => ~Less(t[j], t[i])
  BY DEF MemMapPoints, OrderBy
<1>3. S \cap M = M /\ M \in SUBSET Rows
  BY <1>1
<1> HIDE DEF S, M
<1>4. Lists(Kept(s, M), M)
  BY <1>1, <1>3, KeptLists
<1>5. /\ rows = {[where |-> r, visits |-> Cardinality(At(M, r)), latest |-> Latest(At(M, r))] :
                    r \in Visited(M)}
      /\ rows \subseteq Record
  BY <1>3, <1>4, RecordedRows
<1>6. IsFiniteSet(rows)
  <2> DEFINE where == [d \in M |-> d.where]
             row == [r \in Visited(M) |-> [where |-> r, visits |-> Cardinality(At(M, r)),
                                           latest |-> Latest(At(M, r))]]
  <2>1. IsFiniteSet(M)
    BY <1>4, ListCounted
  <2>2. IsFiniteSet({where[d] : d \in M})
    <3> HIDE DEF where
    <3> QED
      BY <2>1, ImageFinite
  <2>3. Visited(M) = {where[d] : d \in M}
    BY DEF Visited
  <2>4. IsFiniteSet({row[r] : r \in Visited(M)})
    <3> HIDE DEF row
    <3> QED
      BY <2>2, <2>3, ImageFinite
  <2>5. rows = {row[r] : r \in Visited(M)}
    <3> HIDE DEF rows
    <3> QED
      BY <1>5
  <2> QED
    BY <2>4, <2>5
<1> HIDE DEF rows
<1>7. \A a \in rows : a.latest \in Nat /\ Name[a.where] \in Nat
  <2>1. Name \in [Restaurants -> Nat]
    BY HistoryAssumption
  <2> QED
    BY <1>5, <2>1 DEF Record
<1>8. above \in [rows -> SUBSET rows] /\ \A x, y \in rows : y \in above[x] <=> Less(y, x)
  OBVIOUS
<1>9. /\ \A a, b \in rows : Less(a, b) => ~Less(b, a)
      /\ \A a, b, c \in rows : Less(a, b) => Less(a, c) \/ Less(c, b)
  BY <1>7
<1> HIDE DEF above, Less
<1>10. /\ \A x, y \in rows : x \in above[y] => y \notin above[x]
       /\ \A x, y, z \in rows : x \in above[y] => x \in above[z] \/ z \in above[y]
  BY <1>8, <1>9
<1>11. PICK t \in SetToSeqs(rows) : \A i, j \in DOMAIN t : i < j => t[j] \notin above[t[i]]
  BY <1>6, <1>8, <1>10, OrderExists
<1>12. \A i \in DOMAIN t : t[i] \in rows
  BY <1>11 DEF SetToSeqs
<1>13. t \in MemMapPoints(s)
  BY <1>2, <1>8, <1>11, <1>12
<1> QED
  BY <1>13

\* The loops of the Trophy Case and of the taste profiles have an answer.
LEMMA TrophiesSome ==
  ASSUME NEW s, Stored(s)
  PROVE  /\ TopAverage(s) # {} /\ BottomAverage(s) # {} /\ Loyal(s) # {} /\ NostalgiaOf(s) # {}
         /\ \A p : TasteOf(s, p) # {}
         /\ TopRestaurantStats(RatingsByRestaurant(s), 2) # {}
         /\ \A k \in DOMAIN MemCuisineWinners(s) : MemCuisineWinners(s)[k] # {}
<1>1. TopAverage(s) # {} /\ BottomAverage(s) # {}
  <2>1. IsFiniteSet(RatingByPicker(s))
    BY PickersAlike
  <2>2. \A worse : RangeBest(RatingByPicker(s), worse) # {}
    BY <2>1, RangeBestSome
  <2> QED
    BY <2>2 DEF TopAverage, BottomAverage
<1>2. Loyal(s) # {} /\ NostalgiaOf(s) # {}
  <2>1. IsFiniteSet(RestaurantVisitRecords(s))
    BY RecordsAlike
  <2>2. \A values \in SUBSET RestaurantVisitRecords(s) :
           \A worse : RangeBest(values, worse) # {}
    BY <2>1, FS_Subset, RangeBestSome
  <2> QED
    BY <2>2 DEF Loyal, NostalgiaOf
<1>3. ASSUME NEW p PROVE TasteOf(s, p) # {}
  BY TastesAlike, RangeBestSome
<1> DEFINE values == RatingsByRestaurant(s)
<1>4. /\ IsFiniteSet(values)
      /\ \A a \in values : a.where \in Restaurants /\ a.average \in Averages
  BY RestaurantsRated, RestaurantsAlike
<1>5. ASSUME NEW part \in SUBSET values, NEW least PROVE TopRestaurantStats(part, least) # {}
  <2> DEFINE rows == {a \in part : a.average.count >= least}
  <2> HIDE DEF values
  <2>1. rows \in SUBSET values /\ \A a \in part : a.where \in Restaurants /\ a.average \in Averages
    BY <1>4
  <2>2. TopRestaurantStats(part, least) = FirstOf(rows)
    BY <2>1, RankingAlike
  <2> HIDE DEF rows
  <2>3. IsFiniteSet(rows) /\ \A a \in rows : a.where \in Restaurants /\ a.average \in Averages
    BY <1>4, <2>1, FS_Subset
  <2> QED
    BY <2>2, <2>3, FirstOfSome
<1>6. ASSUME NEW k \in DOMAIN MemCuisineWinners(s) PROVE MemCuisineWinners(s)[k] # {}
  <2> DEFINE with == {a \in values : Category[a.where] # 0}
             Of(j) == {a \in with : Fold(Category[a.where]) = j}
             Top(j) == TopRestaurantStats(Of(j), 1)
             cuisines == {Fold(Category[a.where]) : a \in with}
             ranked == {j \in cuisines : <<>> \notin Top(j)}
             Spellings(j, name) ==
                 {Category[b.where] : b \in {b \in Of(j) : Name[b.where] = name}}
  <2>1. MemCuisineWinners(s) =
           [j \in ranked |->
               UNION {{Winner(cuisine, top[1]) : cuisine \in Spellings(j, top[1].name)} :
                          top \in Top(j)}]
    BY DEF MemCuisineWinners
  <2>2. Of(k) \in SUBSET values /\ (k \in cuisines => Of(k) # {})
    OBVIOUS
  <2>3. k \in ranked /\ k \in cuisines
    BY <2>1
  <2> HIDE DEF ranked, cuisines, Of, with
  <2>4. PICK top : top \in Top(k)
    BY <1>5, <2>2
  <2>5. top[1] \in {Selected(a) : a \in FirstRows(Of(k), Bytes)}
    <3> HIDE DEF values
    <3>1. /\ IsFiniteSet(Of(k)) /\ Of(k) # {}
          /\ \A a \in Of(k) : a.where \in Restaurants /\ a.average \in Averages
      BY <1>4, <2>2, <2>3, FS_Subset
    <3>2. {a \in Of(k) : a.average.count >= 1} = Of(k)
      BY <3>1 DEF Averages
    <3>3. Top(k) = FirstOf(Of(k))
      BY <3>1, <3>2, RankingAlike
    <3> QED
      BY <2>4, <3>1, <3>3, FirstIsBest
  <2>6. PICK a \in FirstRows(Of(k), Bytes) : top[1] = Selected(a)
    BY <2>5
  <2>7. a \in Of(k)
    BY <2>2, <2>3 DEF FirstRows, LimitOne
  <2>8. Category[a.where] \in Spellings(k, top[1].name)
    BY <2>6, <2>7 DEF Selected
  <2>9. Winner(Category[a.where], top[1]) \in MemCuisineWinners(s)[k]
    <3> HIDE DEF Top, Spellings
    <3> QED
      BY <2>1, <2>3, <2>4, <2>8
  <2> QED
    BY <2>9
<1> QED
  BY <1>1, <1>2, <1>3, <1>5, <1>6

-----------------------------------------------------------------------------
(* The two stores *)

\* The memory store lists what Postgres may list.
LEMMA HistoryAlike ==
  ASSUME Stored(visits)
  PROVE  SameHistory
<1>1. MaxDines \in Nat
  BY HistoryAssumption
<1>2. ASSUME NEW params \in Params, NEW limit \in 1..MaxDines, NEW offset \in 0..MaxDines
      PROVE  LET filter == ReadFilter(params).filter
             IN /\ MemVisitsPage(visits, filter, limit, offset) = VisitsPage(D, filter, limit, offset)
                /\ Len(MatchingVisits(visits, filter)) = CountVisits(D, filter)
  <2> DEFINE filter == ReadFilter(params).filter
  <2>1. params.year \in Int
    <3>1. params.year \in Nat
      BY HistoryAssumption
    <3> QED
      BY <3>1
  <2>2. filter.year = params.year /\ filter.everybody \in BOOLEAN
    BY DEF ReadFilter
  <2>3. limit \in Nat \ {0} /\ offset \in Nat
    BY <1>1
  <2> HIDE DEF filter
  <2> QED
    BY <2>1, <2>2, <2>3, PagesAlike DEF D, filter
<1>3. /\ \A id \in Ids : MemVisitPosition(visits, id) = VisitPosition(D, id)
      /\ MemVisitFilterOptions(visits) = VisitFilterOptions(D)
      /\ \A r \in Restaurants : MemRestaurantVisits(visits, r) \in RestaurantVisits(D, r)
      /\ Among(MemMapPoints(visits), MapPoints(D, Bytes))
  BY PositionAlike, OptionsAlike, PlacesDinesAlike, MapAlike, MapSome DEF D, Among
<1> QED
  BY <1>2, <1>3 DEF SameHistory

\* In every state the memory store lists what Postgres may list, as it claims to
\* mirror it (memory.go:167, memory.go:189): pages, counts, positions, choices and a
\* restaurant's dines, and the map if the database's collation is "C".
THEOREM StoresListAlike == Spec => []SameHistory
<1>1. IInv => SameHistory
  BY HistoryAlike DEF IInv
<1> QED
  BY <1>1, HistoryInvariant, PTL

\* The memory store's winners of the cuisines are Postgres's, but for the spelling of
\* a cuisine that namesakes share.
LEMMA SameWinners ==
  ASSUME Stored(visits)
  PROVE  SameCuisines
<1> DEFINE mem == MemCuisineWinners(visits)
           pg == CuisineWinners(D, Bytes)
           First(k) == FirstRows(CuisineRows(D, k), Bytes)
<1>1. /\ DOMAIN mem = CuisinesOf(D)
      /\ \A k \in CuisinesOf(D) : \A w \in mem[k] :
            \E a \in First(k), c \in CuisineRows(D, k) :
               Name[c.where] = Name[a.where] /\ w = Winner(Category[c.where], Selected(a))
  BY CuisinesAlike DEF D
<1>2. pg = [k \in CuisinesOf(D) |->
               {Winner(Category[a.where], Selected(a)) : a \in First(k)}]
  BY WinnersAsked
<1>3. \A k \in DOMAIN mem : mem[k] # {}
  BY TrophiesSome
<1> HIDE DEF mem, pg
<1>4. ASSUME NEW k \in CuisinesOf(D), NEW w \in mem[k]
      PROVE  /\ \E b \in pg[k] :
                   /\ w = Winner(w.cuisine, b)
                   /\ \E c \in RatedRestaurants(D, 1) :
                         Name[c.where] = b.name /\ Category[c.where] = w.cuisine
             /\ Fold(w.cuisine) = k
             /\ NamesakesSpellAlike => w \in pg[k]
  <2>1. PICK a \in First(k), c \in CuisineRows(D, k) :
           Name[c.where] = Name[a.where] /\ w = Winner(Category[c.where], Selected(a))
    BY <1>1
  <2> DEFINE b == Winner(Category[a.where], Selected(a))
  <2>2. b \in pg[k]
    BY <1>2
  <2>3. a \in CuisineRows(D, k)
    BY <2>1 DEF FirstRows, LimitOne
  <2>4. /\ a \in RatedRestaurants(D, 1) /\ Fold(Category[a.where]) = k
        /\ c \in RatedRestaurants(D, 1) /\ Fold(Category[c.where]) = k
    BY <2>3 DEF CuisineRows
  <2>5. /\ w.cuisine = Category[c.where] /\ b.name = Name[a.where]
        /\ Winner(Category[c.where], Selected(a)) = Winner(Category[c.where], b)
    BY <2>1 DEF Winner, Selected
  <2>6. NamesakesSpellAlike => w = b
    BY <2>1, <2>4 DEF NamesakesSpellAlike
  <2> HIDE DEF b
  <2> QED
    BY <2>1, <2>2, <2>4, <2>5, <2>6
<1>5. NamesakesSpellAlike => Among(CuisineLists(mem, Bytes), CuisineLists(pg, Bytes))
  <2> SUFFICES ASSUME NamesakesSpellAlike
               PROVE  Among(CuisineLists(mem, Bytes), CuisineLists(pg, Bytes))
    OBVIOUS
  <2>1. DOMAIN mem = DOMAIN pg /\ \A k \in DOMAIN mem : mem[k] # {} /\ mem[k] \subseteq pg[k]
    BY <1>1, <1>2, <1>3, <1>4
  <2> QED
    BY <2>1, ListsAmong
<1>6. DOMAIN mem = CuisinesOf(D) /\ DOMAIN pg = CuisinesOf(D)
  BY <1>1, <1>2
<1> QED
  BY <1>3, <1>4, <1>5, <1>6 DEF SameCuisines, TopByCuisine, TopRestaurantsByCuisine, mem, pg

\* What the memory store computes of the dines, Postgres may compute.
LEMMA StatisticsAlike ==
  ASSUME Stored(visits)
  PROVE  SameStatistics
<1> DEFINE mem == MemStats(visits)
           pg == Stats(D, Bytes)
           tastes == TasteProfiles(D, Bytes)
<1>1. /\ DOMAIN pg = {"totals", "best", "worst", "top", "split", "loyal", "nostalgia"}
      /\ pg.best = BestPicker(D, Bytes) /\ pg.worst = WorstPicker(D, Bytes)
      /\ pg.top = TopRestaurants(D, Bytes) /\ pg.split = BiggestSplit(D, Bytes)
      /\ pg.loyal = MostLoyal(D, Bytes) /\ pg.nostalgia = Nostalgia(D, Bytes)
  BY DEF Stats
<1>2. /\ mem.best = TopAverage(visits) /\ mem.worst = BottomAverage(visits)
      /\ mem.top = TopRestaurantStats(RatingsByRestaurant(visits), 2)
      /\ mem.split = {BiggestRatingSplit(visits)}
      /\ mem.loyal = Loyal(visits) /\ mem.nostalgia = NostalgiaOf(visits)
  BY DEF MemStats
<1>3. mem.totals \subseteq pg.totals
  BY TotalsAlike DEF D
<1> HIDE DEF mem, pg
<1>4. mem.best \subseteq pg.best /\ mem.worst \subseteq pg.worst
  BY <1>1, <1>2, BestPickerAlike DEF D
<1>5. mem.top \subseteq pg.top
  BY <1>1, <1>2, TopAlike DEF D
<1>6. mem.split \subseteq pg.split
  <2>1. BiggestRatingSplit(visits) \in BiggestSplit(D, Bytes)
    BY SplitAlike DEF D
  <2> QED
    BY <1>1, <1>2, <2>1
<1>7. mem.loyal \subseteq pg.loyal /\ mem.nostalgia \subseteq pg.nostalgia
  BY <1>1, <1>2, LoyalAlike, NostalgiaAlike DEF D
<1>8. \A field \in DOMAIN pg : Among(mem[field], pg[field])
  <2>1. mem.totals # {} /\ mem.split # {}
    BY DEF mem, MemStats
  <2>2. /\ mem.best # {} /\ mem.worst # {} /\ mem.top # {}
        /\ mem.loyal # {} /\ mem.nostalgia # {}
    BY <1>2, TrophiesSome
  <2>3. /\ Among(mem.totals, pg.totals) /\ Among(mem.best, pg.best) /\ Among(mem.worst, pg.worst)
        /\ Among(mem.top, pg.top) /\ Among(mem.split, pg.split)
        /\ Among(mem.loyal, pg.loyal) /\ Among(mem.nostalgia, pg.nostalgia)
    BY <1>3, <1>4, <1>5, <1>6, <1>7, <2>1, <2>2 DEF Among
  <2> QED
    BY <1>1, <2>3
<1>9. SameCuisines
  BY SameWinners
<1>10. \A p \in People :
          Among(TasteOf(visits, p), IF p \in DOMAIN tastes THEN tastes[p] ELSE {None})
  BY TasteAlike, TrophiesSome DEF D, Among
<1>11. MemRestedFavorites(visits, SpinMinAverage, RestedBefore)
         = RestedFavorites(D, SpinMinAverage, RestedBefore, Bytes)
  BY RestedAlike, HistoryAssumption DEF D
<1>12. MemPickCounts(visits, TurnSince) = PickCounts(D, TurnSince)
  BY PicksAlike, HistoryAssumption DEF D
<1> HIDE DEF tastes
<1> QED
  BY <1>8, <1>9, <1>10, <1>11, <1>12 DEF SameStatistics, mem, pg, tastes

\* In every state, whatever the order of its maps, the memory store arrives at
\* statistics, favorites and pick counts that Postgres may compute on a database
\* whose collation is "C", but for the spelling of a cuisine that namesakes share
\* (topRestaurantStatsByCuisine).
THEOREM StoresCountAlike == Spec => []SameStatistics
<1>1. IInv => SameStatistics
  BY StatisticsAlike DEF IInv
<1> QED
  BY <1>1, HistoryInvariant, PTL

-----------------------------------------------------------------------------
(* Another collation *)

\* What no order of texts changes: higher averages go first, then more ratings.
Beats(x, y) == Higher(x, y) \/ (Equal(x, y) /\ x.count > y.count)

\* Of two that do not beat each other neither beats what the other does not.
LEMMA BeatsWeakly ==
  ASSUME NEW x \in Averages, NEW y \in Averages
  PROVE  /\ ~Beats(x, x)
         /\ ~Beats(x, y) /\ ~Beats(y, x) => Equal(x, y) /\ x.count = y.count
         /\ \A z \in Averages : Beats(x, y) => Beats(x, z) \/ Beats(z, y)
<1>1. x.count \in Nat /\ y.count \in Nat /\ \A z \in Averages : z.count \in Nat
  BY DEF Averages
<1>2. ~Beats(x, x)
  BY <1>1, AveragesOrdered DEF Beats
<1>3. ~Beats(x, y) /\ ~Beats(y, x) => Equal(x, y) /\ x.count = y.count
  <2>1. /\ Equal(x, y) <=> ~Higher(x, y) /\ ~Higher(y, x)
        /\ Equal(y, x) <=> ~Higher(x, y) /\ ~Higher(y, x)
    BY AveragesOrdered
  <2>2. ~(x.count > y.count) /\ ~(y.count > x.count) => x.count = y.count
    BY <1>1
  <2> QED
    BY <2>1, <2>2 DEF Beats
<1>4. ASSUME NEW z \in Averages, Beats(x, y) PROVE Beats(x, z) \/ Beats(z, y)
  <2>1. /\ Equal(x, y) <=> ~Higher(x, y) /\ ~Higher(y, x)
        /\ Equal(x, z) <=> ~Higher(x, z) /\ ~Higher(z, x)
        /\ Equal(z, y) <=> ~Higher(z, y) /\ ~Higher(y, z)
        /\ Higher(x, y) => ~Higher(y, x)
    BY AveragesOrdered
  <2>2. /\ ~Higher(x, z) /\ ~Higher(z, y) => ~Higher(x, y)
        /\ ~Higher(y, x) /\ Higher(z, x) => Higher(z, y)
        /\ ~Higher(y, x) /\ Higher(y, z) => Higher(x, z)
    BY AveragesOrdered
  <2>3. x.count > y.count => x.count > z.count \/ z.count > y.count
    BY <1>1
  <2> QED
    BY <1>4, <2>1, <2>2, <2>3 DEF Beats
<1> QED
  BY <1>2, <1>3, <1>4

\* In any collation a restaurant ranks above those that it beats.
LEMMA BeatsRanks ==
  ASSUME NEW a, NEW b, NEW rank, Beats(a.average, b.average),
         a.average \in Averages, b.average \in Averages
  PROVE  RanksAbove(a, b, rank)
<1> DEFINE m == a.average.count
           n == b.average.count
<1>1. m \in Nat /\ n \in Nat
  BY DEF Averages
<1>2. RanksAbove(a, b, rank) <=>
         \/ Higher(a.average, b.average)
         \/ /\ Equal(a.average, b.average)
            /\ Precedes(<<-m, rank[Name[a.where]]>>, <<-n, rank[Name[b.where]]>>)
  BY DEF RanksAbove
<1>3. Higher(a.average, b.average) \/ (Equal(a.average, b.average) /\ m > n)
  BY DEF Beats
<1> HIDE DEF m, n
<1>4. m > n => Precedes(<<-m, rank[Name[a.where]]>>, <<-n, rank[Name[b.where]]>>)
  BY <1>1, PairPrecedes
<1> QED
  BY <1>2, <1>3, <1>4

\* Of two lists of the same things that both keep a weak order, neither is ahead of
\* the other anywhere.
LEMMA NeverAhead ==
  ASSUME NEW S, NEW s, Lists(s, S), NEW t, Lists(t, S), NEW above \in [S -> SUBSET S],
         \A x \in S : x \notin above[x],
         \A x, y, z \in S : x \in above[y] => x \in above[z] \/ z \in above[y],
         \A i, j \in DOMAIN s : i < j => s[j] \notin above[s[i]],
         \A i, j \in DOMAIN t : i < j => t[j] \notin above[t[i]]
  PROVE  \A i \in DOMAIN s : i \in DOMAIN t /\ t[i] \notin above[s[i]]
<1> DEFINE n == Len(s)
<1>1. /\ n \in Nat /\ Len(t) = n /\ DOMAIN s = 1..n /\ DOMAIN t = 1..n
      /\ \A i \in 1..n : s[i] \in S /\ t[i] \in S
  BY ListCounted
<1>2. /\ \A x \in S : \E i \in 1..n : s[i] = x
      /\ \A i, j \in 1..n : t[i] = t[j] => i = j
  BY <1>1 DEF Lists
<1> HIDE DEF n
<1>3. ASSUME NEW i \in 1..n, t[i] \in above[s[i]] PROVE FALSE
  <2> DEFINE at == [j \in 1..i |-> CHOOSE k \in 1..n : s[k] = t[j]]
  <2>1. \A j \in 1..i : j \in 1..n /\ j <= i
    BY <1>1
  <2>2. ASSUME NEW j \in 1..i PROVE at[j] \in 1..n /\ s[at[j]] = t[j]
    <3>1. \E k \in 1..n : s[k] = t[j]
      BY <1>1, <1>2, <2>1
    <3> QED
      BY <3>1
  <2> HIDE DEF at
  <2>3. ASSUME NEW j \in 1..i PROVE at[j] < i
    <3>1. t[j] \in S /\ t[i] \in S /\ s[i] \in S /\ at[j] \in 1..n /\ s[at[j]] = t[j]
      BY <1>1, <2>1, <2>2
    <3>2. t[i] \notin above[t[j]]
      <4>1. CASE j = i
        BY <3>1, <4>1
      <4>2. CASE j # i
        <5>1. j < i
          BY <2>1, <4>2
        <5> QED
          BY <1>1, <2>1, <5>1
      <4> QED
        BY <4>1, <4>2
    <3>3. s[at[j]] \in above[s[i]]
      BY <1>3, <3>1, <3>2
    <3>4. at[j] # i /\ ~(i < at[j])
      BY <1>1, <3>1, <3>3
    <3> QED
      BY <3>1, <3>4
  <2>4. at \in [1..i -> 1..(i - 1)]
    <3>1. \A j \in 1..i : at[j] \in 1..(i - 1)
      BY <2>2, <2>3
    <3>2. at = [j \in 1..i |-> at[j]]
      BY DEF at
    <3> QED
      BY <3>1, <3>2
  <2>5. /\ IsFiniteSet(1..i) /\ Cardinality(1..i) = i
        /\ IsFiniteSet(1..(i - 1)) /\ Cardinality(1..(i - 1)) = i - 1
    BY <1>1, FS_Interval
  <2>6. PICK j \in 1..i, k \in 1..i : j # k /\ at[j] = at[k]
    <3> DEFINE Pigeons == 1..i
               Holes == 1..(i - 1)
    <3>1. /\ IsFiniteSet(Pigeons) /\ IsFiniteSet(Holes) /\ at \in [Pigeons -> Holes]
          /\ Cardinality(Holes) < Cardinality(Pigeons)
      BY <2>4, <2>5
    <3> HIDE DEF Pigeons, Holes
    <3>2. \E x, y \in Pigeons : x # y /\ at[x] = at[y]
      BY <3>1, FS_PigeonHole
    <3> QED
      BY <3>2 DEF Pigeons
  <2> QED
    BY <1>2, <2>1, <2>2, <2>6
<1> QED
  BY <1>1, <1>3

\* Two such lists tie at each place.
LEMMA ListsTie ==
  ASSUME NEW S, NEW s, Lists(s, S), NEW t, Lists(t, S), NEW above \in [S -> SUBSET S],
         \A x \in S : x \notin above[x],
         \A x, y, z \in S : x \in above[y] => x \in above[z] \/ z \in above[y],
         \A i, j \in DOMAIN s : i < j => s[j] \notin above[s[i]],
         \A i, j \in DOMAIN t : i < j => t[j] \notin above[t[i]]
  PROVE  /\ Len(s) = Len(t) /\ Range(s) = S /\ Range(t) = S
         /\ Len(s) \in Nat /\ DOMAIN s = 1..Len(s) /\ DOMAIN t = 1..Len(t)
         /\ \A i \in DOMAIN s : /\ s[i] \in S /\ t[i] \in S
                                /\ t[i] \notin above[s[i]] /\ s[i] \notin above[t[i]]
<1>1. /\ Len(s) = Len(t) /\ Range(s) = S /\ Range(t) = S
      /\ Len(s) \in Nat /\ DOMAIN s = 1..Len(s) /\ DOMAIN t = 1..Len(t)
      /\ \A i \in 1..Len(s) : s[i] \in S /\ t[i] \in S
  BY ListCounted
<1>2. \A i \in DOMAIN s : i \in DOMAIN t /\ t[i] \notin above[s[i]]
  BY NeverAhead
<1>3. \A i \in DOMAIN t : i \in DOMAIN s /\ s[i] \notin above[t[i]]
  BY NeverAhead
<1> QED
  BY <1>1, <1>2, <1>3

\* In any two collations the ranking lists restaurants of the same rank.
LEMMA TopTie ==
  ASSUME NEW s, Stored(s), NEW rank1, NEW rank2,
         NEW a \in TopRestaurants(Range(s), rank1), NEW b \in TopRestaurants(Range(s), rank2)
  PROVE  Len(a) = Len(b) /\ \A i \in DOMAIN a : SameRank(a[i], b[i])
<1> DEFINE rows == RatedRestaurants(Range(s), 2)
           above == [y \in rows |-> {x \in rows : Beats(x.average, y.average)}]
<1>1. IsFiniteSet(rows) /\ \A x \in rows : x.average \in Averages
  <2> DEFINE all == RatingsByRestaurant(s)
  <2>1. rows = {x \in all : x.average.count >= 2}
    <3>1. 2 \in Nat \ {0}
      OBVIOUS
    <3> QED
      BY <3>1, RestaurantsAlike
  <2>2. IsFiniteSet(all) /\ \A x \in all : x.average \in Averages
    BY RestaurantsRated, RestaurantsAlike
  <2> HIDE DEF all, rows
  <2>3. rows \in SUBSET all
    BY <2>1
  <2> QED
    BY <2>2, <2>3, FS_Subset
<1>2. PICK u \in SetToSeqs(rows) :
         /\ \A i, j \in DOMAIN u : i < j => ~RanksAbove(u[j], u[i], rank1)
         /\ a = [i \in 1..Min({TopLimit, Len(u)}) |-> Selected(u[i])]
  BY DEF TopRestaurants, OrderBy
<1>3. PICK v \in SetToSeqs(rows) :
         /\ \A i, j \in DOMAIN v : i < j => ~RanksAbove(v[j], v[i], rank2)
         /\ b = [i \in 1..Min({TopLimit, Len(v)}) |-> Selected(v[i])]
  BY DEF TopRestaurants, OrderBy
<1> HIDE DEF rows
<1>4. Lists(u, rows) /\ Lists(v, rows)
  BY <1>1, SeqsAreLists
<1>5. /\ above \in [rows -> SUBSET rows]
      /\ \A x, y \in rows : x \in above[y] <=> Beats(x.average, y.average)
  OBVIOUS
<1> HIDE DEF above
<1>6. /\ \A x \in rows : x \notin above[x]
      /\ \A x, y, z \in rows : x \in above[y] => x \in above[z] \/ z \in above[y]
  BY <1>1, <1>5, BeatsWeakly
<1>7. /\ \A i \in DOMAIN u : u[i] \in rows
      /\ \A i \in DOMAIN v : v[i] \in rows
  BY <1>4, ListCounted
<1>8. /\ \A i, j \in DOMAIN u : i < j => u[j] \notin above[u[i]]
      /\ \A i, j \in DOMAIN v : i < j => v[j] \notin above[v[i]]
  BY <1>1, <1>2, <1>3, <1>5, <1>7, BeatsRanks
<1>9. /\ Len(u) = Len(v) /\ Len(u) \in Nat /\ DOMAIN u = 1..Len(u)
      /\ \A i \in DOMAIN u : /\ u[i] \in rows /\ v[i] \in rows
                             /\ v[i] \notin above[u[i]] /\ u[i] \notin above[v[i]]
  BY <1>4, <1>5, <1>6, <1>8, ListsTie
<1> DEFINE m == Min({TopLimit, Len(u)})
<1>10. m \in Nat /\ m <= Len(u)
  <2> DEFINE l == Len(u)
  <2>1. TopLimit \in Nat /\ l \in Nat
    BY <1>9, HistoryAssumption
  <2> HIDE DEF l
  <2>2. Min({TopLimit, l}) = IF TopLimit <= l THEN TopLimit ELSE l
    BY <2>1, MinOfTwo
  <2>3. Min({TopLimit, l}) \in Nat /\ Min({TopLimit, l}) <= l
    BY <2>1, <2>2
  <2> QED
    BY <2>3 DEF l
<1>11. /\ a = [i \in 1..m |-> Selected(u[i])] /\ b = [i \in 1..m |-> Selected(v[i])]
  BY <1>2, <1>3, <1>9
<1> HIDE DEF m
<1>12. Len(a) = m /\ Len(b) = m /\ DOMAIN a = 1..m
  BY <1>10, <1>11
<1>13. ASSUME NEW i \in 1..m PROVE SameRank(a[i], b[i])
  <2>1. i \in DOMAIN u
    BY <1>9, <1>10
  <2>2. /\ u[i].average \in Averages /\ v[i].average \in Averages
        /\ ~Beats(v[i].average, u[i].average) /\ ~Beats(u[i].average, v[i].average)
    BY <1>1, <1>5, <1>9, <2>1
  <2>3. /\ Equal(u[i].average, v[i].average) /\ u[i].average.count = v[i].average.count
    BY <2>2, BeatsWeakly
  <2>4. a[i].average = u[i].average /\ b[i].average = v[i].average
    BY <1>11 DEF Selected
  <2> QED
    BY <2>3, <2>4 DEF SameRank, SameAverage
<1> QED
  BY <1>12, <1>13

\* In any two collations the rows that may come first are of the same rank.
LEMMA FirstRowsTie ==
  ASSUME NEW rows, rows # {}, \A x \in rows : x.average \in Averages, NEW rank1, NEW rank2,
         NEW a \in FirstRows(rows, rank1), NEW b \in FirstRows(rows, rank2)
  PROVE  Equal(a.average, b.average) /\ a.average.count = b.average.count
<1>1. /\ a \in rows /\ \A x \in rows : ~RanksAbove(x, a, rank1)
      /\ b \in rows /\ \A x \in rows : ~RanksAbove(x, b, rank2)
  BY DEF FirstRows, LimitOne
<1>2. ~Beats(a.average, b.average) /\ ~Beats(b.average, a.average)
  BY <1>1, BeatsRanks
<1> QED
  BY <1>1, <1>2, BeatsWeakly

\* So are the winners of the cuisines.
LEMMA CuisinesTie ==
  ASSUME NEW s, Stored(s), NEW rank
  PROVE  /\ DOMAIN MemCuisineWinners(s) = DOMAIN CuisineWinners(Range(s), rank)
         /\ \A k \in DOMAIN CuisineWinners(Range(s), rank) :
               Tie(MemCuisineWinners(s)[k], CuisineWinners(Range(s), rank)[k], SameRank)
<1> DEFINE S == Range(s)
<1>1. CuisineWinners(S, rank) =
         [k \in CuisinesOf(S) |->
             {Winner(Category[a.where], Selected(a)) : a \in FirstRows(CuisineRows(S, k), rank)}]
  BY WinnersAsked
<1>2. \A a \in RatedRestaurants(S, 1) : a.average \in Averages
  BY RestaurantsAlike
<1>3. /\ DOMAIN MemCuisineWinners(s) = CuisinesOf(S)
      /\ \A k \in CuisinesOf(S) : \A w \in MemCuisineWinners(s)[k] :
            \E a \in FirstRows(CuisineRows(S, k), Bytes), c \in CuisineRows(S, k) :
               Name[c.where] = Name[a.where] /\ w = Winner(Category[c.where], Selected(a))
  BY CuisinesAlike
<1> HIDE DEF S
<1>4. ASSUME NEW k \in CuisinesOf(S), NEW v \in MemCuisineWinners(s)[k],
             NEW w \in CuisineWinners(S, rank)[k]
      PROVE  SameRank(v, w)
  <2>1. PICK a \in FirstRows(CuisineRows(S, k), Bytes), c \in CuisineRows(S, k) :
           v = Winner(Category[c.where], Selected(a))
    BY <1>3
  <2>2. PICK b \in FirstRows(CuisineRows(S, k), rank) : w = Winner(Category[b.where], Selected(b))
    BY <1>1
  <2>3. CuisineRows(S, k) # {} /\ \A x \in CuisineRows(S, k) : x.average \in Averages
    BY <1>2, <2>1 DEF CuisineRows
  <2>4. Equal(a.average, b.average) /\ a.average.count = b.average.count
    BY <2>3, FirstRowsTie
  <2>5. v.average = a.average /\ w.average = b.average
    BY <2>1, <2>2 DEF Winner, Selected
  <2> QED
    BY <2>4, <2>5 DEF SameRank, SameAverage
<1> QED
  BY <1>1, <1>3, <1>4 DEF Tie, S

\* So are the best and the worst picker, but for the number of ratings.
LEMMA PickersTie ==
  ASSUME NEW s, Stored(s), NEW rank
  PROVE  /\ Tie(TopAverage(s), BestPicker(Range(s), rank), SameAverage)
         /\ Tie(BottomAverage(s), WorstPicker(Range(s), rank), SameAverage)
<1> DEFINE S == Range(s)
           values == PickerAverages(S)
<1>1. \A v \in values : v.average \in Averages
  BY PickersAlike
<1>2. ASSUME NEW order, NEW a
      PROVE  /\ a \in BestPicker(S, order) =>
                   \/ values = {} /\ a = None
                   \/ a \in values /\ \A b \in values : ~Higher(b.average, a.average)
             /\ a \in WorstPicker(S, order) =>
                   \/ values = {} /\ a = None
                   \/ a \in values /\ \A b \in values : ~Higher(a.average, b.average)
  BY DEF BestPicker, WorstPicker, LimitOne
<1>3. /\ TopAverage(s) \subseteq BestPicker(S, Bytes)
      /\ BottomAverage(s) \subseteq WorstPicker(S, Bytes)
  BY BestPickerAlike
<1> HIDE DEF values, S
<1>4. ASSUME NEW a \in TopAverage(s), NEW b \in BestPicker(S, rank)
      PROVE  (a = None /\ b = None) \/ Equal(a.average, b.average)
  <2>1. \/ values = {} /\ a = None /\ b = None
        \/ /\ a \in values /\ b \in values
           /\ ~Higher(b.average, a.average) /\ ~Higher(a.average, b.average)
    BY <1>2, <1>3
  <2> QED
    BY <1>1, <2>1, AveragesOrdered
<1>5. ASSUME NEW a \in BottomAverage(s), NEW b \in WorstPicker(S, rank)
      PROVE  (a = None /\ b = None) \/ Equal(a.average, b.average)
  <2>1. \/ values = {} /\ a = None /\ b = None
        \/ /\ a \in values /\ b \in values
           /\ ~Higher(b.average, a.average) /\ ~Higher(a.average, b.average)
    BY <1>2, <1>3
  <2> QED
    BY <1>1, <2>1, AveragesOrdered
<1> QED
  BY <1>4, <1>5 DEF Tie, SameAverage, S

\* The dine that split opinions most differs only in the restaurant's name.
LEMMA SplitTie ==
  ASSUME NEW s, Stored(s)
  PROVE  Tie({BiggestRatingSplit(s)}, BiggestSplit(Range(s), Collated),
             LAMBDA a, b : a.gap = b.gap /\ a.at = b.at)
<1> DEFINE S == Range(s)
           Q == {d \in S : DOMAIN d.scores # {} /\ GapOf(d) > 0}
           V == {SplitRow(d) : d \in Q}
           Before(a, b, rank) == Precedes(<<-a.gap, -a.at, rank[a.name]>>,
                                          <<-b.gap, -b.at, rank[b.name]>>)
           Later(a, b) == a.gap > b.gap \/ (a.gap = b.gap /\ a.at > b.at)
<1>1. BiggestRatingSplit(s) \in BiggestSplit(S, Bytes)
  BY SplitAlike
<1>2. ASSUME NEW rank
      PROVE  BiggestSplit(S, rank) =
                IF V = {} THEN {None} ELSE {a \in V : \A b \in V : ~Before(b, a, rank)}
  BY DEF BiggestSplit, LimitOne, GapOf, SplitRow
<1>3. S \subseteq Rows
  BY StoredListed
<1> HIDE DEF S
<1>4. \A a \in V : /\ a.gap \in Int /\ a.at \in Int
                   /\ Bytes[a.name] \in Int /\ Collated[a.name] \in Int
  <2> SUFFICES ASSUME NEW d \in Q
               PROVE  /\ SplitRow(d).gap \in Int /\ SplitRow(d).at \in Int
                      /\ Bytes[SplitRow(d).name] \in Int /\ Collated[SplitRow(d).name] \in Int
    OBVIOUS
  <2>1. d \in Rows
    BY <1>3
  <2>2. GapOf(d) \in Int /\ d.at \in Int /\ d.where \in Restaurants
    BY <2>1, GapIs, RowFields
  <2>3. Bytes[Name[d.where]] \in Int /\ Collated[Name[d.where]] \in Int
    BY <2>2, NamesAre
  <2> QED
    BY <2>2, <2>3 DEF SplitRow
<1> HIDE DEF V
<1>5. ASSUME NEW rank, NEW a \in V, NEW b \in V, rank[a.name] \in Int, rank[b.name] \in Int,
             Later(a, b)
      PROVE  Before(a, b, rank)
  <2> DEFINE a1 == -a.gap
             a2 == -a.at
             a3 == rank[a.name]
             b1 == -b.gap
             b2 == -b.at
             b3 == rank[b.name]
  <2>1. a1 \in Int /\ a2 \in Int /\ a3 \in Int /\ b1 \in Int /\ b2 \in Int /\ b3 \in Int
    BY <1>4, <1>5
  <2>2. a1 < b1 \/ (a1 = b1 /\ a2 < b2)
    BY <1>4, <1>5
  <2>3. Before(a, b, rank) <=> Precedes(<<a1, a2, a3>>, <<b1, b2, b3>>)
    OBVIOUS
  <2> HIDE DEF Before, a1, a2, a3, b1, b2, b3
  <2> QED
    BY <2>1, <2>2, <2>3, TriplePrecedes
<1> HIDE DEF Before
<1>6. ASSUME NEW a, a = BiggestRatingSplit(s), NEW b \in BiggestSplit(S, Collated)
      PROVE  (a = None /\ b = None) \/ (a.gap = b.gap /\ a.at = b.at)
  <2>1. CASE V = {}
    <3>1. a \in {None} /\ b \in {None}
      BY <1>1, <1>2, <1>6, <2>1
    <3> QED
      BY <3>1
  <2>2. CASE V # {}
    <3>1. /\ a \in V /\ \A x \in V : ~Before(x, a, Bytes)
          /\ b \in V /\ \A x \in V : ~Before(x, b, Collated)
      BY <1>1, <1>2, <1>6, <2>2
    <3>2. ~Later(b, a) /\ ~Later(a, b)
      BY <1>4, <1>5, <3>1
    <3>3. a.gap \in Int /\ b.gap \in Int /\ a.at \in Int /\ b.at \in Int
      BY <1>4, <3>1
    <3> QED
      BY <3>2, <3>3
  <2> QED
    BY <2>1, <2>2
<1> QED
  BY <1>6 DEF Tie, S

\* The most loyal restaurant differs only in its name, and so does the restaurant
\* gone to longest ago, but for its number of dines.
LEMMA RecordsTie ==
  ASSUME NEW s, Stored(s)
  PROVE  /\ Tie(Loyal(s), MostLoyal(Range(s), Collated),
                LAMBDA a, b : a.visits = b.visits /\ a.last = b.last)
         /\ Tie(NostalgiaOf(s), Nostalgia(Range(s), Collated), LAMBDA a, b : a.last = b.last)
<1> DEFINE S == Range(s)
           often == {a \in RestaurantRecords(S) : a.visits >= 2}
           past == {a \in RestaurantRecords(S) : a.last < Latest(S)}
           Ahead1(a, b, rank) == Precedes(<<-a.visits, -a.last, rank[a.name]>>,
                                          <<-b.visits, -b.last, rank[b.name]>>)
           Ahead2(a, b, rank) == Precedes(<<a.last, rank[a.name]>>, <<b.last, rank[b.name]>>)
           Later(a, b) == a.visits > b.visits \/ (a.visits = b.visits /\ a.last > b.last)
<1>1. Loyal(s) \subseteq MostLoyal(S, Bytes) /\ NostalgiaOf(s) \subseteq Nostalgia(S, Bytes)
  BY LoyalAlike, NostalgiaAlike
<1>2. ASSUME NEW rank
      PROVE  /\ MostLoyal(S, rank) = IF often = {} THEN {None}
                                     ELSE {a \in often : \A b \in often : ~Ahead1(b, a, rank)}
             /\ Nostalgia(S, rank) = IF past = {} THEN {None}
                                     ELSE {a \in past : \A b \in past : ~Ahead2(b, a, rank)}
  BY DEF MostLoyal, Nostalgia, LimitOne
<1>3. \A a \in RestaurantRecords(S) : /\ a.visits \in Nat /\ a.last \in Nat
                                      /\ Bytes[a.name] \in Int /\ Collated[a.name] \in Int
  <2>1. \A a \in RestaurantRecords(S) : a.visits \in Nat /\ a.last \in Nat
    BY RecordsAlike
  <2>2. \A r \in Visited(S) : r \in Restaurants
    BY StoredListed, RowFields DEF Visited
  <2>3. \A a \in RestaurantRecords(S) : Bytes[a.name] \in Int /\ Collated[a.name] \in Int
    BY <2>2, NamesAre DEF RestaurantRecords
  <2> QED
    BY <2>1, <2>3
<1>4. often \subseteq RestaurantRecords(S) /\ past \subseteq RestaurantRecords(S)
  OBVIOUS
<1> HIDE DEF S, often, past
<1>5. ASSUME NEW rank, NEW a \in RestaurantRecords(S), NEW b \in RestaurantRecords(S),
             rank[a.name] \in Int, rank[b.name] \in Int
      PROVE  /\ Later(a, b) => Ahead1(a, b, rank)
             /\ a.last < b.last => Ahead2(a, b, rank)
  <2> DEFINE a1 == -a.visits
             a2 == -a.last
             a3 == rank[a.name]
             b1 == -b.visits
             b2 == -b.last
             b3 == rank[b.name]
  <2>1. a1 \in Int /\ a2 \in Int /\ a3 \in Int /\ b1 \in Int /\ b2 \in Int /\ b3 \in Int
    BY <1>3, <1>5
  <2>2. Later(a, b) => a1 < b1 \/ (a1 = b1 /\ a2 < b2)
    BY <1>3
  <2>3. Ahead1(a, b, rank) <=> Precedes(<<a1, a2, a3>>, <<b1, b2, b3>>)
    OBVIOUS
  <2>4. a.last < b.last => Ahead2(a, b, rank)
    BY PairPrecedes
  <2> HIDE DEF Ahead1, Ahead2, Later, a1, a2, a3, b1, b2, b3
  <2> QED
    BY <2>1, <2>2, <2>3, <2>4, TriplePrecedes
<1> HIDE DEF Ahead1, Ahead2
<1>6. ASSUME NEW a \in Loyal(s), NEW b \in MostLoyal(S, Collated)
      PROVE  (a = None /\ b = None) \/ (a.visits = b.visits /\ a.last = b.last)
  <2>1. CASE often = {}
    <3>1. a \in {None} /\ b \in {None}
      BY <1>1, <1>2, <2>1
    <3> QED
      BY <3>1
  <2>2. CASE often # {}
    <3>1. /\ a \in often /\ \A x \in often : ~Ahead1(x, a, Bytes)
          /\ b \in often /\ \A x \in often : ~Ahead1(x, b, Collated)
      BY <1>1, <1>2, <2>2
    <3>2. ~Later(b, a) /\ ~Later(a, b)
      BY <1>3, <1>4, <1>5, <3>1
    <3>3. a.visits \in Nat /\ b.visits \in Nat /\ a.last \in Nat /\ b.last \in Nat
      BY <1>3, <1>4, <3>1
    <3> QED
      BY <3>2, <3>3
  <2> QED
    BY <2>1, <2>2
<1>7. ASSUME NEW a \in NostalgiaOf(s), NEW b \in Nostalgia(S, Collated)
      PROVE  (a = None /\ b = None) \/ a.last = b.last
  <2>1. CASE past = {}
    <3>1. a \in {None} /\ b \in {None}
      BY <1>1, <1>2, <2>1
    <3> QED
      BY <3>1
  <2>2. CASE past # {}
    <3>1. /\ a \in past /\ \A x \in past : ~Ahead2(x, a, Bytes)
          /\ b \in past /\ \A x \in past : ~Ahead2(x, b, Collated)
      BY <1>1, <1>2, <2>2
    <3>2. ~(b.last < a.last) /\ ~(a.last < b.last)
      BY <1>3, <1>4, <1>5, <3>1
    <3>3. a.last \in Nat /\ b.last \in Nat
      BY <1>3, <1>4, <3>1
    <3> QED
      BY <3>2, <3>3
  <2> QED
    BY <2>1, <2>2
<1> QED
  BY <1>6, <1>7 DEF Tie, S

\* What a person likes best is rated as high and as often, whichever cuisine comes
\* first and however it is spelled.
LEMMA TasteTie ==
  ASSUME NEW s, Stored(s), NEW p \in People, NEW rank
  PROVE  Tie(TasteOf(s, p),
             IF p \in DOMAIN TasteProfiles(Range(s), rank)
             THEN TasteProfiles(Range(s), rank)[p] ELSE {None},
             SameRank)
<1> DEFINE S == Range(s)
           By == TastedBy(S, p)
           Before(a, b, order) ==
               \/ Higher(a.average, b.average)
               \/ /\ Equal(a.average, b.average)
                  /\ Precedes(<<-a.average.count, order[a.category]>>,
                              <<-b.average.count, order[b.category]>>)
           First(V, order) ==
               IF V = {} THEN {None} ELSE {a \in V : \A b \in V : ~Before(b, a, order)}
           Answer(order) == IF p \in DOMAIN TasteProfiles(S, order)
                            THEN TasteProfiles(S, order)[p] ELSE {None}
<1>1. ASSUME NEW order PROVE Answer(order) = First(Tastes(By, order), order)
  <2>1. TasteProfiles(S, order) = [q \in {q \in People : TastedBy(S, q) # {}} |->
                                     First(Tastes(TastedBy(S, q), order), order)]
    BY DEF TasteProfiles, TastedBy, Tastes, TasteRow, SameTaste, LimitOne
  <2>2. By = {} => Tastes(By, order) = {}
    BY DEF Tastes
  <2> HIDE DEF S, Before
  <2>3. CASE By = {}
    BY <2>1, <2>2, <2>3
  <2>4. CASE By # {}
    <3> HIDE DEF First
    <3>1. p \in DOMAIN TasteProfiles(S, order)
      BY <2>1, <2>4
    <3> QED
      BY <2>1, <3>1
  <2> QED
    BY <2>3, <2>4
<1>2. TasteOf(s, p) \subseteq Answer(Bytes)
  BY TasteAlike
<1>3. \A v \in Tastes(By, Bytes) : v.average \in Averages
  BY TastesAlike
<1> HIDE DEF Answer, By, S
<1>4. ASSUME NEW order
      PROVE  /\ \A v \in Tastes(By, Bytes) : \E w \in Tastes(By, order) : w.average = v.average
             /\ \A v \in Tastes(By, order) : \E w \in Tastes(By, Bytes) : w.average = v.average
  <2> DEFINE Same(x) == SameTaste(By, Fold(Category[x[1].where]))
  <2>1. \A x : TasteRow(Same(x), order).average = TasteRow(Same(x), Bytes).average
    BY DEF TasteRow
  <2>2. /\ Tastes(By, Bytes) = {TasteRow(Same(x), Bytes) : x \in By}
        /\ Tastes(By, order) = {TasteRow(Same(x), order) : x \in By}
    BY DEF Tastes
  <2> HIDE DEF Same
  <2> QED
    BY <2>1, <2>2
<1>5. ASSUME NEW order, NEW a, NEW b, a.average \in Averages, b.average \in Averages,
             Beats(a.average, b.average)
      PROVE  Before(a, b, order)
  <2> DEFINE m == a.average.count
             n == b.average.count
  <2>1. m \in Nat /\ n \in Nat
    BY <1>5 DEF Averages
  <2>2. Higher(a.average, b.average) \/ (Equal(a.average, b.average) /\ m > n)
    BY <1>5 DEF Beats
  <2>3. Before(a, b, order) <=>
           \/ Higher(a.average, b.average)
           \/ /\ Equal(a.average, b.average)
              /\ Precedes(<<-m, order[a.category]>>, <<-n, order[b.category]>>)
    OBVIOUS
  <2> HIDE DEF m, n, Before
  <2>4. m > n => Precedes(<<-m, order[a.category]>>, <<-n, order[b.category]>>)
    BY <2>1, PairPrecedes
  <2> QED
    BY <2>2, <2>3, <2>4
<1> HIDE DEF Before
<1>6. ASSUME NEW a \in TasteOf(s, p), NEW b \in Answer(rank)
      PROVE  (a = None /\ b = None) \/ SameRank(a, b)
  <2> DEFINE V == Tastes(By, Bytes)
             W == Tastes(By, rank)
  <2>1. a \in First(V, Bytes) /\ b \in First(W, rank)
    BY <1>1, <1>2
  <2>2. /\ \A v \in V : v.average \in Averages /\ \E w \in W : w.average = v.average
        /\ \A w \in W : w.average \in Averages /\ \E v \in V : v.average = w.average
    BY <1>3, <1>4
  <2> HIDE DEF V, W
  <2>3. CASE V = {}
    <3>1. W = {}
      BY <2>2, <2>3
    <3>2. a \in {None} /\ b \in {None}
      BY <2>1, <2>3, <3>1
    <3> QED
      BY <3>2
  <2>4. CASE V # {}
    <3>1. W # {}
      BY <2>2, <2>4
    <3>2. /\ a \in V /\ \A v \in V : ~Before(v, a, Bytes)
          /\ b \in W /\ \A w \in W : ~Before(w, b, rank)
      BY <2>1, <2>4, <3>1
    <3>3. PICK v \in V : v.average = b.average
      BY <2>2, <3>2
    <3>4. PICK w \in W : w.average = a.average
      BY <2>2, <3>2
    <3>5. ~Beats(b.average, a.average) /\ ~Beats(a.average, b.average)
      BY <1>5, <2>2, <3>2, <3>3, <3>4
    <3>6. a.average \in Averages /\ b.average \in Averages
      BY <2>2, <3>2
    <3> QED
      BY <3>5, <3>6, BeatsWeakly DEF SameRank, SameAverage
  <2> QED
    BY <2>3, <2>4
<1> QED
  BY <1>6 DEF Tie, Answer, S

\* The map lists the same restaurants, and as many of each latest time in its place.
LEMMA MapTie ==
  ASSUME NEW s, Stored(s),
         NEW u \in MemMapPoints(s), NEW v \in MapPoints(Range(s), Collated)
  PROVE  Range(u) = Range(v) /\ Len(u) = Len(v) /\ \A i \in DOMAIN u : u[i].latest = v[i].latest
<1> DEFINE S == Range(s)
           M == {d \in S : d.where \in Mapped}
           Row(T, r) == [where |-> r, visits |-> Cardinality(At(T, r)), latest |-> Latest(At(T, r))]
           rows == {Row(S, r) : r \in Visited(S) \cap Mapped}
           row == [r \in Visited(S) \cap Mapped |-> Row(S, r)]
           above == [y \in rows |-> {x \in rows : x.latest > y.latest}]
           where == [d \in M |-> d.where]
<1>1. S \subseteq Rows /\ Lists(s, S)
  BY StoredListed
<1>2. ASSUME NEW rank, NEW t \in MapPoints(S, rank)
      PROVE  /\ t \in SetToSeqs(rows)
             /\ \A i, j \in DOMAIN t : i < j => ~Precedes(<<-t[j].latest, rank[Name[t[j].where]]>>,
                                                          <<-t[i].latest, rank[Name[t[i].where]]>>)
  BY <1>2 DEF MapPoints, OrderBy
<1>3. u \in MapPoints(S, Bytes)
  BY MapAlike
<1>4. M \subseteq S /\ S \cap M = M /\ M \in SUBSET Rows
  BY <1>1
<1>5. Lists(Kept(s, M), M)
  BY <1>1, <1>4, KeptLists
<1>6. /\ Visited(M) = Visited(S) \cap Mapped /\ \A r \in Mapped : At(M, r) = At(S, r)
      /\ Visited(M) = {where[d] : d \in M}
  BY DEF Visited, At
<1>7. IsFiniteSet(Visited(M))
  <2>1. IsFiniteSet(M)
    BY <1>5, ListCounted
  <2> HIDE DEF where, M
  <2> QED
    BY <1>6, <2>1, ImageFinite
<1> HIDE DEF S, M
<1>8. {Row(M, r) : r \in Visited(M)} \subseteq Record
  BY <1>4, <1>5, RecordedRows
<1>9. rows \subseteq Record
  <2>1. \A r \in Visited(M) : Row(M, r) = Row(S, r)
    BY <1>6
  <2> HIDE DEF Row
  <2> QED
    BY <1>6, <1>8, <2>1
<1>10. IsFiniteSet(rows)
  <2>1. rows = {row[r] : r \in Visited(S) \cap Mapped}
    OBVIOUS
  <2> HIDE DEF row, rows
  <2> QED
    BY <1>6, <1>7, <2>1, ImageFinite
<1>11. \A x \in rows : x.latest \in Nat
  BY <1>9 DEF Record
<1> HIDE DEF rows
<1>12. /\ above \in [rows -> SUBSET rows]
       /\ \A x, y \in rows : x \in above[y] <=> x.latest > y.latest
  OBVIOUS
<1> HIDE DEF above
<1>13. ASSUME NEW rank, NEW t \in MapPoints(S, rank)
       PROVE  Lists(t, rows) /\ \A i, j \in DOMAIN t : i < j => t[j] \notin above[t[i]]
  <2>1. Lists(t, rows)
    BY <1>2, <1>10, SeqsAreLists
  <2>2. \A i \in DOMAIN t : t[i] \in rows
    BY <2>1, ListCounted
  <2>3. ASSUME NEW i \in DOMAIN t, NEW j \in DOMAIN t, i < j PROVE t[j] \notin above[t[i]]
    <3> DEFINE m == -t[j].latest
               n == -t[i].latest
    <3>1. ~Precedes(<<m, rank[Name[t[j].where]]>>, <<n, rank[Name[t[i].where]]>>)
      BY <1>2, <2>3
    <3>2. ~(m < n)
      <4> HIDE DEF m, n
      <4> QED
        BY <3>1, PairPrecedes
    <3> QED
      BY <1>11, <1>12, <2>2, <3>2
  <2> QED
    BY <2>1, <2>3
<1>14. /\ Lists(u, rows) /\ \A i, j \in DOMAIN u : i < j => u[j] \notin above[u[i]]
       /\ Lists(v, rows) /\ \A i, j \in DOMAIN v : i < j => v[j] \notin above[v[i]]
  BY <1>3, <1>13 DEF S
<1>15. /\ \A x \in rows : x \notin above[x]
       /\ \A x, y, z \in rows : x \in above[y] => x \in above[z] \/ z \in above[y]
  BY <1>11, <1>12
<1>16. /\ Len(u) = Len(v) /\ Range(u) = rows /\ Range(v) = rows
       /\ \A i \in DOMAIN u : /\ u[i] \in rows /\ v[i] \in rows
                              /\ v[i] \notin above[u[i]] /\ u[i] \notin above[v[i]]
  BY <1>12, <1>14, <1>15, ListsTie
<1> QED
  BY <1>11, <1>12, <1>16

\* In any order of names the favorites are the same restaurants.
LEMMA RestedTie ==
  ASSUME NEW s, Stored(s), NEW least, NEW before
  PROVE  Range(RestedFavorites(Range(s), least, before, Bytes))
           = Range(RestedFavorites(Range(s), least, before, Collated))
<1> DEFINE S == Range(s)
           Rated(r) == {x \in AggregateRatings(S) : x[1].where = r}
           T == {r \in Visited(S) :
                    /\ Rated(r) # {}
                    /\ ~Higher([sum |-> least, count |-> 1], Average(Rated(r)))
                    /\ Latest(At(S, r)) < before}
           n == Cardinality(T)
           Before(q, r, rank) == Precedes(<<rank[Name[q]], q>>, <<rank[Name[r]], r>>)
<1>1. T \in SUBSET Restaurants /\ IsFiniteSet(T)
  <2>1. S \subseteq Rows /\ IsFiniteSet(S)
    BY StoredListed, ListCounted
  <2>2. T \in SUBSET Visited(S)
    OBVIOUS
  <2> HIDE DEF S, T
  <2>3. [d \in S |-> d.where] \in Surjection(S, Visited(S))
    BY DEF Surjection, Visited
  <2>4. IsFiniteSet(Visited(S))
    BY <2>1, <2>3, FS_Surjection
  <2>5. Visited(S) \subseteq Restaurants
    BY <2>1, RowFields DEF Visited
  <2> QED
    BY <2>2, <2>4, <2>5, FS_Subset
<1>2. ASSUME NEW rank
      PROVE  RestedFavorites(S, least, before, rank) =
                [i \in 1..n |-> CHOOSE x \in T : Cardinality({y \in T : Before(y, x, rank)}) = i - 1]
  BY DEF RestedFavorites, Sorted
<1> HIDE DEF T
<1>3. ASSUME NEW rank, \A r \in Restaurants : rank[Name[r]] \in Int
      PROVE  Range(RestedFavorites(S, least, before, rank)) = T
  <2> DEFINE below == [x \in T |-> {y \in T : Before(y, x, rank)}]
             favorites == RestedFavorites(S, least, before, rank)
  <2>1. \A x, y \in T : Before(y, x, rank) <=>
           rank[Name[y]] < rank[Name[x]] \/ (rank[Name[y]] = rank[Name[x]] /\ y < x)
    BY PairPrecedes
  <2>2. \A x \in T : x \in Int /\ rank[Name[x]] \in Int
    BY <1>1, <1>3, HistoryAssumption
  <2>3. favorites = [i \in 1..n |-> CHOOSE x \in T : Cardinality(below[x]) = i - 1]
    <3> DEFINE Beneath(x) == {y \in T : Before(y, x, rank)}
               At1(i) == CHOOSE x \in T : Cardinality(Beneath(x)) = i - 1
               At2(i) == CHOOSE x \in T : Cardinality(below[x]) = i - 1
    <3>1. favorites = [i \in 1..n |-> At1(i)]
      BY <1>2
    <3>2. \A x \in T : below[x] = Beneath(x)
      OBVIOUS
    <3> HIDE DEF Beneath, below
    <3>3. \A i \in 1..n : At1(i) = At2(i)
      BY <3>2
    <3> HIDE DEF At1, At2, favorites
    <3>4. favorites = [i \in 1..n |-> At2(i)]
      BY <3>1, <3>3
    <3> QED
      BY <3>4 DEF At2
  <2>4. /\ below \in [T -> SUBSET T]
        /\ \A x, y \in T : y \in below[x] <=> Before(y, x, rank)
    OBVIOUS
  <2> HIDE DEF below, Before, favorites
  <2>5. \A x \in T : x \notin below[x]
    BY <2>1, <2>2, <2>4
  <2>6. \A x, y \in T : x # y => x \in below[y] \/ y \in below[x]
    BY <2>1, <2>2, <2>4
  <2>7. \A x, y \in T : x \in below[y] => below[x] \subseteq below[y]
    BY <2>1, <2>2, <2>4
  <2>8. /\ n \in Nat
        /\ \A x \in T : Cardinality(below[x]) \in 0..(n - 1)
        /\ \A x, y \in T : x \in below[y] <=> Cardinality(below[x]) < Cardinality(below[y])
        /\ \A k \in 1..n : \E x \in T : Cardinality(below[x]) = k - 1
    BY <1>1, <2>4, <2>5, <2>6, <2>7, Ranks
  <2> HIDE DEF n
  <2>9. \A i \in 1..n : favorites[i] \in T /\ Cardinality(below[favorites[i]]) = i - 1
    BY <2>3, <2>8
  <2>10. ASSUME NEW x \in T PROVE \E i \in 1..n : favorites[i] = x
    <3> DEFINE i == Cardinality(below[x]) + 1
    <3>1. i \in 1..n /\ Cardinality(below[x]) = i - 1
      BY <2>8
    <3> HIDE DEF i
    <3>2. favorites[i] \in T /\ Cardinality(below[favorites[i]]) = Cardinality(below[x])
      BY <2>9, <3>1
    <3>3. favorites[i] \notin below[x] /\ x \notin below[favorites[i]]
      BY <2>8, <3>2
    <3> QED
      BY <2>6, <3>1, <3>2, <3>3
  <2>11. DOMAIN favorites = 1..n
    BY <2>3
  <2> QED
    BY <2>9, <2>10, <2>11 DEF Range, favorites
<1>4. Range(RestedFavorites(S, least, before, Bytes)) = T
  <2>1. \A r \in Restaurants : Bytes[Name[r]] \in Int
    BY NamesAre
  <2> QED
    BY <1>3, <2>1
<1>5. Range(RestedFavorites(S, least, before, Collated)) = T
  <2>1. \A r \in Restaurants : Collated[Name[r]] \in Int
    BY NamesAre
  <2> QED
    BY <1>3, <2>1
<1> QED
  BY <1>4, <1>5 DEF S

\* Whatever the collation, the memory store's answers are of the rank of Postgres's.
LEMMA TextsAlone ==
  ASSUME Stored(visits)
  PROVE  OnlyTextsDiffer
<1> DEFINE mem == MemStats(visits)
           pg == Stats(D, Collated)
           tastes == TasteProfiles(D, Collated)
           memCuisines == MemCuisineWinners(visits)
           cuisines == CuisineWinners(D, Collated)
<1>1. mem.totals = pg.totals
  BY TotalsAlike DEF D
<1>2. /\ pg.best = BestPicker(D, Collated) /\ pg.worst = WorstPicker(D, Collated)
      /\ pg.top = TopRestaurants(D, Collated) /\ pg.split = BiggestSplit(D, Collated)
      /\ pg.loyal = MostLoyal(D, Collated) /\ pg.nostalgia = Nostalgia(D, Collated)
  BY DEF Stats
<1>3. /\ mem.best = TopAverage(visits) /\ mem.worst = BottomAverage(visits)
      /\ mem.top = TopRestaurantStats(RatingsByRestaurant(visits), 2)
      /\ mem.split = {BiggestRatingSplit(visits)}
      /\ mem.loyal = Loyal(visits) /\ mem.nostalgia = NostalgiaOf(visits)
  BY DEF MemStats
<1> HIDE DEF mem, pg
<1>4. Tie(mem.best, pg.best, SameAverage) /\ Tie(mem.worst, pg.worst, SameAverage)
  BY <1>2, <1>3, PickersTie DEF D
<1>5. Tie(mem.split, pg.split, LAMBDA a, b : a.gap = b.gap /\ a.at = b.at)
  BY <1>2, <1>3, SplitTie DEF D
<1>6. /\ Tie(mem.loyal, pg.loyal, LAMBDA a, b : a.visits = b.visits /\ a.last = b.last)
      /\ Tie(mem.nostalgia, pg.nostalgia, LAMBDA a, b : a.last = b.last)
  BY <1>2, <1>3, RecordsTie DEF D
<1>7. \A s \in mem.top, t \in pg.top : Len(s) = Len(t) /\ \A i \in DOMAIN s : SameRank(s[i], t[i])
  <2>1. mem.top = TopRestaurants(D, Bytes)
    BY <1>3, TopAlike DEF D
  <2> QED
    BY <1>2, <2>1, TopTie DEF D
<1>8. /\ DOMAIN memCuisines = DOMAIN cuisines
      /\ \A k \in DOMAIN cuisines : Tie(memCuisines[k], cuisines[k], SameRank)
  BY CuisinesTie DEF D
<1>9. \A p \in People :
         Tie(TasteOf(visits, p), IF p \in DOMAIN tastes THEN tastes[p] ELSE {None}, SameRank)
  BY TasteTie DEF D
<1>10. \A s \in MemMapPoints(visits), t \in MapPoints(D, Collated) :
          /\ Range(s) = Range(t) /\ Len(s) = Len(t)
          /\ \A i \in DOMAIN s : s[i].latest = t[i].latest
  BY MapTie DEF D
<1>11. Range(MemRestedFavorites(visits, SpinMinAverage, RestedBefore))
         = Range(RestedFavorites(D, SpinMinAverage, RestedBefore, Collated))
  <2>1. MemRestedFavorites(visits, SpinMinAverage, RestedBefore)
          = RestedFavorites(D, SpinMinAverage, RestedBefore, Bytes)
    BY RestedAlike, HistoryAssumption DEF D
  <2> QED
    BY <2>1, RestedTie DEF D
<1> HIDE DEF tastes, memCuisines, cuisines
<1> QED
  BY <1>1, <1>4, <1>5, <1>6, <1>7, <1>8, <1>9, <1>10, <1>11
     DEF OnlyTextsDiffer, mem, pg, tastes, memCuisines, cuisines

\* In every state and any collation the two stores' answers tie: they are equal in
\* what they are ranked by, and only which of several that tie comes first differs
\* (ORDER BY and MIN of names and categories, store.go and store_spinner.go).
THEOREM StoresTieAlike == Spec => []OnlyTextsDiffer
<1>1. IInv => OnlyTextsDiffer
  BY TextsAlone DEF IInv
<1> QED
  BY <1>1, HistoryInvariant, PTL

\* The memory store mirrors Postgres: every answer is one that Postgres may give
\* under the collation "C", but for the spelling of a cuisine that namesakes share,
\* and ties with every answer of Postgres under any other.
THEOREM StoresMirror == Spec => []MirrorsPostgres
<1>1. SameHistory /\ SameStatistics /\ OnlyTextsDiffer => MirrorsPostgres
  BY DEF MirrorsPostgres
<1> QED
  BY <1>1, StoresListAlike, StoresCountAlike, StoresTieAlike, PTL
=============================================================================
