---------------------------- MODULE MemoryProofs ----------------------------
(***************************************************************************)
(* The in-memory store keeps its copies and its list consistent, and       *)
(* implements the ledger, for any number of restaurants, dines and         *)
(* requests.  The three conjuncts of Inv are inductive together: a step    *)
(* keeps the copies because it writes all of them (RowStored), keeps the   *)
(* list because each change of the slice moves whole items (ItemsMarked,   *)
(* ItemReopened, ItemAdded, ItemCut), and maps to one operation of Ledger  *)
(* because a restaurant is found and written in that one step              *)
(* (ResolveMaps).                                                          *)
(***************************************************************************)
EXTENDS Memory, TLAPS, WellFoundedInduction, SequenceTheorems

Inv == TypeOK /\ CopiesCurrent /\ ListedOnce

-----------------------------------------------------------------------------
(* Restaurants *)

\* The first match of a search through the slice is one of the matches.
LEMMA FirstIn ==
  ASSUME NEW S \in SUBSET Nat, S # {}
  PROVE  First(S) \in S
<1>1. PICK R : R = OpToRel(<, Nat)
  OBVIOUS
<1>2. \A a, b \in Nat : a < b => <<a, b>> \in R
  BY <1>1, Zenon DEF OpToRel
<1>3. IsWellFoundedOn(R, Nat)
  BY <1>1, NatLessThanWellFounded, Zenon
<1>4. PICK m \in S : \A k \in S : ~ (<<k, m>> \in R)
  BY <1>3, WFMin
<1>5. \A k \in S : m <= k
  <2>1. SUFFICES ASSUME NEW k \in S, k < m PROVE FALSE
    OBVIOUS
  <2>2. <<k, m>> \in R
    BY <1>2, <2>1, Zenon
  <2> QED
    BY <1>4, <2>2, Zenon
<1> QED
  BY <1>5 DEF First

\* Filling a restaurant keeps its place if it has one, else takes the input's.
LEMMA FillTyped ==
  ASSUME NEW row \in Row, NEW in \in Row
  PROVE  /\ Fill(row, in) \in Row
         /\ Fill(row, in).place = IF row.place = None THEN in.place ELSE row.place
         /\ WithoutPlaceDetails(in) \in Row
         /\ WithoutPlaceDetails(in).place = in.place
BY DEF Fill, Coalesce, WithoutPlaceDetails, Row, OrNone

\* A restaurant the store resolves to is one it has or a new one; if it is
\* linked to a place in this step, no other restaurant is linked to that place.
LEMMA ResolvedFacts ==
  ASSUME TypeOK, NEW chosen \in OrNone(Known), NEW in \in Row,
         NEW r \in Resolved(chosen, in)
  PROVE  /\ r \in Restaurants /\ restaurants[r] # Gone
         /\ NewRow(chosen, in, r) \in Row
         /\ \/ NewRow(chosen, in, r).place = LinkedTo[r]
            \/ /\ LinkedTo[r] = None
               /\ NewRow(chosen, in, r).place \in Places
               /\ Owners(NewRow(chosen, in, r).place) = {}
<1> USE MemoryAssumption
<1>0. /\ restaurants \in [Restaurants -> Row \cup {None, Gone}]
      /\ Restaurants \subseteq Nat
  BY DEF TypeOK, Restaurants
<1>1. CASE chosen # None /\ Live(chosen)
  <2>1. r = chosen /\ ~PlaceConflict(r, in.place) /\ r \in Restaurants /\ Live(r)
    BY <1>1 DEF Resolved, Known, OrNone
  <2>2. restaurants[r] \in Row
    BY <1>0, <2>1 DEF Live
  <2>3. NewRow(chosen, in, r) = Fill(restaurants[r], WithoutPlaceDetails(in))
    BY <2>1 DEF NewRow
  <2>4. /\ NewRow(chosen, in, r) \in Row
        /\ NewRow(chosen, in, r).place =
              IF restaurants[r].place = None THEN in.place ELSE restaurants[r].place
    BY <2>2, <2>3, FillTyped
  <2>5. LinkedTo[r] = restaurants[r].place
    BY <2>1 DEF LinkedTo
  <2>6. CASE in.place # None /\ restaurants[r].place = None
    <3>1. in.place \in Places
      BY <2>6 DEF Row, OrNone
    <3>2. Owners(in.place) \ {r} = {}
      BY <2>1, <2>6 DEF PlaceConflict
    <3>3. r \notin Owners(in.place)
      BY <2>6 DEF Owners
    <3>4. Owners(in.place) = {}
      BY <3>2, <3>3
    <3> QED
      BY <2>1, <2>4, <2>5, <2>6, <3>1, <3>4 DEF Live
  <2> QED
    BY <2>1, <2>4, <2>5, <2>6 DEF Live
<1>2. CASE ~(chosen # None /\ Live(chosen)) /\ Found(in) # {}
  <2>1. Found(in) \in SUBSET {s \in Restaurants : Live(s)}
    BY DEF Found, Owners, Namesakes
  <2>2. r = First(Found(in)) /\ r \in Found(in)
    <3>1. r = First(Found(in))
      BY <1>2 DEF Resolved
    <3>2. Found(in) \in SUBSET Nat
      BY <1>0, <2>1
    <3> QED
      BY <1>2, <3>1, <3>2, FirstIn
  <2>3. r \in Restaurants /\ Live(r) /\ restaurants[r] \in Row /\ r # chosen
    BY <1>0, <1>2, <2>1, <2>2 DEF Live, Restaurants
  <2>4. NewRow(chosen, in, r) = Fill(restaurants[r], in)
    BY <2>3 DEF NewRow
  <2>5. /\ NewRow(chosen, in, r) \in Row
        /\ NewRow(chosen, in, r).place =
              IF restaurants[r].place = None THEN in.place ELSE restaurants[r].place
    BY <2>3, <2>4, FillTyped
  <2>6. LinkedTo[r] = restaurants[r].place
    BY <2>3 DEF LinkedTo
  <2>7. CASE in.place # None /\ restaurants[r].place = None
    <3>1. in.place \in Places
      BY <2>7 DEF Row, OrNone
    <3>2. r \notin Owners(in.place)
      BY <2>7 DEF Owners
    <3>3. Owners(in.place) = {}
      BY <2>2, <2>7, <3>2 DEF Found
    <3> QED
      BY <2>3, <2>5, <2>6, <2>7, <3>1, <3>3 DEF Live
  <2> QED
    BY <2>3, <2>5, <2>6, <2>7 DEF Live
<1>3. CASE ~(chosen # None /\ Live(chosen)) /\ Found(in) = {}
  <2>1. r \in Restaurants /\ restaurants[r] = None
    BY <1>3 DEF Resolved, Unused
  <2>2. NewRow(chosen, in, r) = in /\ LinkedTo[r] = None
    BY <2>1 DEF NewRow, Live, LinkedTo
  <2>3. in.place # None => in.place \in Places /\ Owners(in.place) = {}
    BY <1>3 DEF Found, Row, OrNone
  <2> QED
    BY <2>1, <2>2, <2>3
<1> QED
  BY <1>1, <1>2, <1>3

\* What a dine stores is neither nil nor the mark of a deleted dine.
LEMMA StoredIsValue == Stored \cap {None, Gone} = {}
BY MemoryAssumption

\* A row written over all its copies leaves every dine where it is, with the
\* restaurant's row as it then is.
LEMMA RowStored ==
  ASSUME TypeOK, CopiesCurrent, NEW r \in Restaurants, NEW row \in Row, StoreRow(r, row)
  PROVE  /\ restaurants' \in [Restaurants -> Row \cup {None, Gone}]
         /\ visits' \in [Dines -> Stored \cup {None, Gone}]
         /\ \A s \in Restaurants : Live(s)' <=> s = r \/ Live(s)
         /\ CopiesCurrent' /\ DineAt' = DineAt
<1> USE MemoryAssumption
<1>0. /\ restaurants \in [Restaurants -> Row \cup {None, Gone}]
      /\ visits \in [Dines -> Stored \cup {None, Gone}]
      /\ restaurants' = [restaurants EXCEPT ![r] = row]
      /\ visits' = Synced(r, row)
  BY DEF TypeOK, StoreRow
<1>1. /\ restaurants' \in [Restaurants -> Row \cup {None, Gone}]
      /\ \A s \in Restaurants : Live(s)' <=> s = r \/ Live(s)
      /\ restaurants'[r] = row /\ \A s \in Restaurants : s # r => restaurants'[s] = restaurants[s]
  BY <1>0 DEF Live
<1>2. [rest |-> r, copy |-> row] \in Stored
  BY DEF Stored
<1>3. visits' \in [Dines -> Stored \cup {None, Gone}]
  BY <1>0, <1>2 DEF Synced
<1>4. ASSUME NEW v \in Dines
      PROVE  IF LiveVisit(v) /\ visits[v].rest = r
             THEN visits'[v] = [rest |-> r, copy |-> row] ELSE visits'[v] = visits[v]
  BY <1>0 DEF Synced, VisitsAt
<1>5. ASSUME NEW v \in Dines
      PROVE  /\ LiveVisit(v)' <=> LiveVisit(v)
             /\ LiveVisit(v) => visits'[v].rest = visits[v].rest
  <2>1. [rest |-> r, copy |-> row] \notin {None, Gone}
    BY <1>2, StoredIsValue
  <2> QED
    BY <1>4, <2>1 DEF LiveVisit
<1>6. ASSUME NEW v \in Dines, LiveVisit(v)'
      PROVE  (Live(visits[v].rest) /\ visits[v].copy = restaurants[visits[v].rest])'
  <2>1. /\ LiveVisit(v) /\ Live(visits[v].rest) /\ visits[v].rest \in Restaurants
        /\ visits[v].copy = restaurants[visits[v].rest]
    BY <1>0, <1>5, <1>6 DEF CopiesCurrent, LiveVisit, Stored
  <2> QED
    BY <1>1, <1>4, <1>5, <1>6, <2>1 DEF Live
<1>7. CopiesCurrent'
  BY <1>6 DEF CopiesCurrent
<1>8. DineAt' = DineAt
  BY <1>4, <1>5 DEF DineAt, LiveVisit
<1> QED
  BY <1>1, <1>3, <1>7, <1>8

\* Writing the resolved restaurant is what the ledger's operations do with it.
LEMMA ResolveMaps ==
  ASSUME TypeOK, NEW chosen \in OrNone(Known), NEW in \in Row, NEW r \in Resolved(chosen, in),
         restaurants' = [restaurants EXCEPT ![r] = NewRow(chosen, in, r)]
  PROVE  L!Resolve(r)
<1> DEFINE row == NewRow(chosen, in, r)
<1>0. /\ restaurants \in [Restaurants -> Row \cup {None, Gone}]
      /\ r \in Restaurants /\ restaurants[r] # Gone /\ row \in Row
      /\ \/ row.place = LinkedTo[r]
         \/ LinkedTo[r] = None /\ row.place \in Places /\ Owners(row.place) = {}
  BY ResolvedFacts DEF TypeOK
<1> HIDE DEF row
<1>1. restaurants' = [restaurants EXCEPT ![r] = row]
  BY DEF row
<1>2. row \notin {None, Gone}
  BY <1>0, MemoryAssumption
<1>3. \A s \in Restaurants : Live(s)' <=> s = r \/ Live(s)
  BY <1>0, <1>1, <1>2 DEF Live
<1>4. Saved' = Saved \cup {r}
  BY <1>0, <1>3 DEF Saved
<1>5. Removed' = Removed
  BY <1>0, <1>1, <1>2 DEF Removed
<1>6. LinkedTo' = [LinkedTo EXCEPT ![r] = row.place]
  BY <1>0, <1>1, <1>3 DEF LinkedTo
<1>7. ASSUME Owners(row.place) = {} PROVE L!Unowned(row.place)
  BY <1>7 DEF L!Unowned, Owners, Saved, LinkedTo
<1>8. LinkedTo' = LinkedTo \/ \E p \in Places : /\ LinkedTo[r] = None /\ L!Unowned(p)
                                                /\ LinkedTo' = [LinkedTo EXCEPT ![r] = p]
  <2>1. CASE row.place = LinkedTo[r]
    BY <1>0, <1>6, <2>1 DEF LinkedTo
  <2>2. CASE LinkedTo[r] = None /\ row.place \in Places /\ Owners(row.place) = {}
    BY <1>6, <1>7, <2>2
  <2> QED
    BY <1>0, <2>1, <2>2
<1>9. r \notin Removed
  BY <1>0 DEF Removed
<1> QED
  BY <1>4, <1>5, <1>8, <1>9 DEF L!Resolve

-----------------------------------------------------------------------------
(* The slice of the Want to Try list *)

ArrayOK == /\ array \in Seq(Item \cup {None})
           /\ size \in 0..Len(array)
           /\ \A i \in 1..size : array[i] # None

PointersOK == \A a \in answers : /\ a \in Answer
                                 /\ a.cell # 0 => a.cell \in DOMAIN array /\ array[a.cell] # None

\* A sequence is a function on 1..n.
LEMMA SeqOf ==
  ASSUME NEW S, NEW n \in Nat, NEW f \in [1..n -> S]
  PROVE  f \in Seq(S) /\ Len(f) = n /\ DOMAIN f = 1..n
BY SeqDef

\* Every cell of the list holds an item.
LEMMA ArrayFacts ==
  ASSUME ArrayOK
  PROVE  /\ Len(array) \in Nat /\ DOMAIN array = 1..Len(array)
         /\ array \in [1..Len(array) -> Item \cup {None}]
         /\ size \in Nat /\ 1..size \subseteq 1..Len(array)
         /\ \A i \in 1..size : array[i] \in Item /\ array[i].rest \in Restaurants
BY DEF ArrayOK, Item

\* markWantToTryDone changes no item but the open one of its restaurant.
LEMMA ItemsMarked ==
  ASSUME ArrayOK, PointersOK, ListedOnce, NEW r \in Restaurants,
         array' = Marked(r), size' = size, answers' = answers,
         \A s \in Restaurants : Live(s) => Live(s)'
  PROVE  ArrayOK' /\ PointersOK' /\ ListedOnce' /\ L!ClearItem(r)
<1>0. /\ Len(array) \in Nat /\ DOMAIN array = 1..Len(array)
      /\ array \in [1..Len(array) -> Item \cup {None}]
      /\ size \in Nat /\ 1..size \subseteq 1..Len(array)
      /\ \A i \in 1..size : array[i] \in Item /\ array[i].rest \in Restaurants
  BY ArrayFacts
<1>1. array' = [i \in 1..Len(array) |-> IF i \in Cells(r) THEN [array[i] EXCEPT !.done = TRUE]
                                                         ELSE array[i]]
  BY <1>0 DEF Marked
<1>2. ASSUME NEW i \in Cells(r)
      PROVE  i \in 1..size /\ array'[i] \in Item /\ array'[i].rest = r /\ array'[i].done
  BY <1>0, <1>1 DEF Cells, Item
<1>3. \A i \in 1..Len(array) : i \notin Cells(r) => array'[i] = array[i]
  BY <1>1
<1>4. array' \in [1..Len(array) -> Item \cup {None}]
  <2>1. \A i \in 1..Len(array) : array'[i] \in Item \cup {None}
    BY <1>0, <1>2, <1>3
  <2> QED
    BY <1>1, <2>1
<1>5. array' \in Seq(Item \cup {None}) /\ Len(array') = Len(array) /\ DOMAIN array' = 1..Len(array)
  BY <1>0, <1>4, SeqOf
<1>6. \A i \in 1..Len(array) : array[i] # None => array'[i] # None
  BY <1>2, <1>3, MemoryAssumption
<1>7. ArrayOK' /\ PointersOK'
  BY <1>0, <1>5, <1>6 DEF ArrayOK, PointersOK
<1>8. \A i \in 1..size : array'[i].rest = array[i].rest
  BY <1>0, <1>2, <1>3 DEF Cells
<1>9. \A s \in Restaurants : Cells(s)' = Cells(s)
  BY <1>8 DEF Cells
<1>10. ListedOnce'
  BY <1>0, <1>8, <1>9 DEF ListedOnce
<1>11. ASSUME NEW s \in Restaurants
       PROVE  OnList'[s] = [OnList EXCEPT ![r] = IF @ = "open" THEN "done" ELSE @][s]
  <2>1. CASE s = r
    BY <1>2, <1>9, <2>1 DEF OnList
  <2>2. CASE s # r
    <3>1. \A i \in Cells(s) : array'[i] = array[i]
      BY <1>0, <1>3, <2>2 DEF Cells
    <3> QED
      BY <1>9, <2>2, <3>1 DEF OnList
  <2> QED
    BY <2>1, <2>2
<1> QED
  BY <1>7, <1>10, <1>11 DEF L!ClearItem, OnList

\* Saving a listed restaurant again opens its item and touches no other.
LEMMA ItemReopened ==
  ASSUME ArrayOK, PointersOK, ListedOnce, NEW r \in Restaurants, NEW i \in Cells(r),
         array' = [array EXCEPT ![i].done = FALSE], size' = size,
         answers' = answers \cup {Pending(r, i)},
         \A s \in Restaurants : Live(s) => Live(s)'
  PROVE  ArrayOK' /\ PointersOK' /\ ListedOnce' /\ OnList' = [OnList EXCEPT ![r] = "open"]
<1>0. /\ Len(array) \in Nat /\ DOMAIN array = 1..Len(array)
      /\ array \in [1..Len(array) -> Item \cup {None}]
      /\ size \in Nat /\ 1..size \subseteq 1..Len(array)
      /\ \A j \in 1..size : array[j] \in Item /\ array[j].rest \in Restaurants
  BY ArrayFacts
<1>1. /\ i \in 1..size /\ i \in 1..Len(array) /\ array'[i] \in Item
      /\ array'[i].rest = r /\ array'[i].done = FALSE
  BY <1>0 DEF Cells, Item
<1>2. \A j \in 1..Len(array) : j # i => array'[j] = array[j]
  BY <1>0
<1>3. array' \in [1..Len(array) -> Item \cup {None}]
  <2>1. \A j \in 1..Len(array) : array'[j] \in Item \cup {None}
    BY <1>0, <1>1, <1>2
  <2>2. array' = [j \in 1..Len(array) |-> array'[j]]
    BY <1>0
  <2> QED
    BY <2>1, <2>2
<1>4. array' \in Seq(Item \cup {None}) /\ Len(array') = Len(array) /\ DOMAIN array' = 1..Len(array)
  BY <1>0, <1>3, SeqOf
<1>5. \A j \in 1..Len(array) : array[j] # None => array'[j] # None
  BY <1>1, <1>2, MemoryAssumption
<1>6. ArrayOK'
  BY <1>0, <1>4, <1>5 DEF ArrayOK
<1>7. PointersOK'
  <2>1. /\ Pending(r, i) \in Answer /\ Pending(r, i).cell = i /\ i \in DOMAIN array'
        /\ array'[i] # None
    <3>1. i \in Nat
      BY <1>0, <1>1
    <3>2. Pending(r, i) \in Answer /\ Pending(r, i).cell = i
      BY <3>1 DEF Pending, Answer
    <3> QED
      BY <1>1, <1>4, <3>2, MemoryAssumption
  <2>2. ASSUME NEW a \in answers
        PROVE  a \in Answer /\ (a.cell # 0 => a.cell \in DOMAIN array' /\ array'[a.cell] # None)
    BY <1>0, <1>4, <1>5 DEF PointersOK
  <2> QED
    BY <2>1, <2>2 DEF PointersOK
<1>8. \A j \in 1..size : array'[j].rest = array[j].rest
  BY <1>0, <1>1, <1>2 DEF Cells
<1>9. \A s \in Restaurants : Cells(s)' = Cells(s)
  BY <1>8 DEF Cells
<1>10. ListedOnce'
  BY <1>0, <1>8, <1>9 DEF ListedOnce
<1>11. Cells(r) = {i}
  BY <1>1 DEF ListedOnce, Cells
<1>12. ASSUME NEW s \in Restaurants
       PROVE  OnList'[s] = [OnList EXCEPT ![r] = "open"][s]
  <2>1. CASE s = r
    BY <1>1, <1>9, <1>11, <2>1 DEF OnList
  <2>2. CASE s # r
    <3>1. \A j \in Cells(s) : array'[j] = array[j]
      BY <1>0, <1>2, <1>11, <2>2 DEF Cells
    <3> QED
      BY <1>9, <2>2, <3>1 DEF OnList
  <2> QED
    BY <2>1, <2>2
<1> QED
  BY <1>6, <1>7, <1>10, <1>12 DEF OnList

\* append makes room: the array only gets longer.
LEMMA CapacityFacts ==
  ASSUME ArrayOK
  PROVE  Capacity \in Nat /\ size + 1 <= Capacity /\ Len(array) <= Capacity
<1>1. size \in Nat /\ Len(array) \in Nat /\ size <= Len(array)
  BY DEF ArrayOK
<1>2. CASE ~Full
  BY <1>1, <1>2 DEF Capacity, Full
<1>3. CASE Full
  BY <1>1, <1>3 DEF Capacity, Full
<1> QED
  BY <1>2, <1>3

\* append writes the new item behind the last one and keeps the others.
LEMMA AppendedFacts ==
  ASSUME ArrayOK, NEW item \in Item
  PROVE  /\ Appended(item) \in Seq(Item \cup {None})
         /\ Len(Appended(item)) = Capacity /\ DOMAIN Appended(item) = 1..Capacity
         /\ Appended(item)[size + 1] = item
         /\ \A j \in 1..Len(array) : j # size + 1 => Appended(item)[j] = array[j]
<1>0. /\ Len(array) \in Nat /\ array \in [1..Len(array) -> Item \cup {None}] /\ size \in Nat
  BY ArrayFacts
<1>1. Capacity \in Nat /\ size + 1 <= Capacity /\ Len(array) <= Capacity
  BY CapacityFacts
<1>2. Appended(item) \in [1..Capacity -> Item \cup {None}]
  BY <1>0, <1>1 DEF Appended
<1>3. Appended(item)[size + 1] = item
  BY <1>0, <1>1 DEF Appended
<1>4. \A j \in 1..Len(array) : j # size + 1 => Appended(item)[j] = array[j]
  BY <1>0, <1>1 DEF Appended
<1> QED
  BY <1>1, <1>2, <1>3, <1>4, SeqOf

\* A restaurant that is not listed gets one new item at the end of the list.
LEMMA ItemAdded ==
  ASSUME ArrayOK, PointersOK, ListedOnce, NEW r \in Restaurants, Cells(r) = {},
         array' = Appended([rest |-> r, done |-> FALSE]), size' = size + 1,
         answers' = StillPending \cup {Pending(r, 0)},
         Live(r)', \A s \in Restaurants : Live(s) => Live(s)'
  PROVE  ArrayOK' /\ PointersOK' /\ ListedOnce' /\ OnList' = [OnList EXCEPT ![r] = "open"]
<1> DEFINE new == [rest |-> r, done |-> FALSE]
<1>0. /\ Len(array) \in Nat /\ DOMAIN array = 1..Len(array)
      /\ array \in [1..Len(array) -> Item \cup {None}]
      /\ size \in Nat /\ 1..size \subseteq 1..Len(array) /\ size <= Len(array)
      /\ \A j \in 1..size : array[j] \in Item /\ array[j].rest \in Restaurants
  BY ArrayFacts DEF ArrayOK
<1>1. new \in Item /\ new.rest = r /\ new.done = FALSE
  BY DEF Item
<1> HIDE DEF new
<1>2. Capacity \in Nat /\ size + 1 <= Capacity /\ Len(array) <= Capacity
  BY CapacityFacts
<1>3. array' = Appended(new)
  BY DEF new
<1>5. array' \in Seq(Item \cup {None}) /\ Len(array') = Capacity /\ DOMAIN array' = 1..Capacity
  BY <1>1, <1>3, AppendedFacts
<1>6. array'[size + 1] = new
  BY <1>1, <1>3, AppendedFacts
<1>7. \A j \in 1..Len(array) : j # size + 1 => array'[j] = array[j]
  BY <1>1, <1>3, AppendedFacts
<1>8. \A j \in 1..size : array'[j] = array[j]
  <2>1. \A j \in 1..size : j \in 1..Len(array) /\ j # size + 1
    BY <1>0
  <2> QED
    BY <1>7, <2>1, Zenon
<1>8a. 1..size' = (1..size) \cup {size + 1}
  BY <1>0
<1>9. ArrayOK'
  <2>1. size' \in 0..Len(array')
    BY <1>0, <1>2, <1>5
  <2>2. \A j \in 1..size : array'[j] # None
    BY <1>8 DEF ArrayOK
  <2>3. array'[size + 1] # None
    BY <1>1, <1>6, MemoryAssumption
  <2> QED
    BY <1>5, <1>8a, <2>1, <2>2, <2>3 DEF ArrayOK
<1>10. PointersOK'
  <2>1. Pending(r, 0) \in Answer /\ Pending(r, 0).cell = 0
    BY DEF Pending, Answer
  <2>2. ASSUME NEW a \in StillPending
        PROVE  a \in Answer /\ (a.cell # 0 => a.cell \in DOMAIN array' /\ array'[a.cell] # None)
    <3>1. CASE Full
      <4>1. PICK b \in answers : a = [b EXCEPT !.cell = 0, !.id = Named(b)]
        BY <2>2, <3>1 DEF StillPending
      <4>2. b \in Answer /\ Named(b) \in Restaurants
        <5>1. b \in Answer /\ (b.cell # 0 => b.cell \in DOMAIN array /\ array[b.cell] # None)
          BY DEF PointersOK
        <5>2. CASE b.cell = 0
          BY <5>1, <5>2 DEF Named, Answer
        <5>3. CASE b.cell # 0
          <6>1. array[b.cell] \in Item
            BY <1>0, <5>1, <5>3
          <6> QED
            BY <5>1, <5>3, <6>1 DEF Named, Item
        <5> QED
          BY <5>1, <5>2, <5>3
      <4> QED
        BY <4>1, <4>2 DEF Answer
    <3>2. CASE ~Full
      <4>1. a \in answers
        BY <2>2, <3>2 DEF StillPending
      <4>2. a \in Answer /\ (a.cell # 0 => a.cell \in DOMAIN array /\ array[a.cell] # None)
        BY <4>1 DEF PointersOK
      <4>3. ASSUME a.cell # 0 PROVE a.cell \in DOMAIN array' /\ array'[a.cell] # None
        <5>1. a.cell \in 1..Len(array) /\ a.cell \in 1..Capacity
          BY <1>0, <1>2, <4>2, <4>3
        <5>2. CASE a.cell = size + 1
          BY <1>1, <1>5, <1>6, <5>1, <5>2, MemoryAssumption
        <5>3. CASE a.cell # size + 1
          BY <1>5, <1>7, <4>2, <4>3, <5>1, <5>3
        <5> QED
          BY <5>2, <5>3
      <4> QED
        BY <4>2, <4>3
    <3> QED
      BY <3>1, <3>2
  <2> QED
    BY <2>1, <2>2 DEF PointersOK
<1>11. Cells(r)' = {size + 1}
  <2>1. \A j \in 1..size : array'[j].rest # r
    BY <1>8 DEF Cells
  <2> QED
    BY <1>1, <1>6, <1>8a, <2>1 DEF Cells
<1>12. ASSUME NEW s \in Restaurants, s # r PROVE Cells(s)' = Cells(s)
  BY <1>1, <1>6, <1>8, <1>8a, <1>12 DEF Cells
<1>13. ListedOnce'
  <2>1. ASSUME NEW j \in 1..(size + 1)
        PROVE  (Live(array[j].rest) /\ Cells(array[j].rest) = {j})'
    <3>1. CASE j = size + 1
      <4>1. array'[j].rest = r
        BY <1>1, <1>6, <3>1
      <4> QED
        BY <1>11, <3>1, <4>1
    <3>2. CASE j \in 1..size
      <4>1. array'[j] = array[j] /\ array[j].rest \in Restaurants /\ array[j].rest # r
        BY <1>0, <1>8, <3>2 DEF Cells
      <4>2. Live(array[j].rest) /\ Cells(array[j].rest) = {j}
        BY <3>2 DEF ListedOnce
      <4>3. PICK s \in Restaurants : s = array[j].rest
        BY <4>1
      <4>4. Cells(s)' = {j} /\ Live(s)' /\ s = array'[j].rest
        BY <1>12, <4>1, <4>2, <4>3
      <4> QED
        BY <4>4
    <3> QED
      BY <1>8a, <2>1, <3>1, <3>2
  <2> QED
    BY <2>1 DEF ListedOnce
<1>14. ASSUME NEW s \in Restaurants
       PROVE  OnList'[s] = [OnList EXCEPT ![r] = "open"][s]
  <2>1. CASE s = r
    BY <1>1, <1>6, <1>11, <2>1 DEF OnList
  <2>2. CASE s # r
    <3>1. \A j \in Cells(s) : array'[j] = array[j]
      BY <1>8 DEF Cells
    <3> QED
      BY <1>12, <2>2, <3>1 DEF OnList
  <2> QED
    BY <2>1, <2>2
<1> QED
  BY <1>9, <1>10, <1>13, <1>14 DEF OnList

\* Deleting an item moves the later ones up, whole, and loses only that one.
LEMMA ItemCut ==
  ASSUME ArrayOK, PointersOK, ListedOnce, NEW r \in Restaurants, NEW i \in Cells(r),
         array' = Cut(i), size' = size - 1, answers' = answers,
         \A s \in Restaurants \ {r} : Live(s) => Live(s)'
  PROVE  ArrayOK' /\ PointersOK' /\ ListedOnce' /\ OnList' = [OnList EXCEPT ![r] = "off"]
<1>0. /\ Len(array) \in Nat /\ DOMAIN array = 1..Len(array)
      /\ array \in [1..Len(array) -> Item \cup {None}]
      /\ size \in Nat /\ 1..size \subseteq 1..Len(array) /\ size <= Len(array)
      /\ \A j \in 1..size : array[j] \in Item /\ array[j].rest \in Restaurants
  BY ArrayFacts DEF ArrayOK
<1>1. Cells(r) = {i} /\ i \in Nat /\ 1 <= i /\ i <= size
  <2>1. i \in 1..size /\ array[i].rest = r
    BY DEF Cells
  <2>2. Cells(r) = {i}
    BY <2>1 DEF ListedOnce
  <2> QED
    BY <1>0, <2>1, <2>2
<1>2. array' = [j \in 1..Len(array) |-> IF i <= j /\ j < size THEN array[j + 1] ELSE array[j]]
  BY <1>0 DEF Cut
<1>3. ASSUME NEW j \in 1..Len(array), i <= j, j < size
      PROVE  j + 1 \in 1..size /\ array'[j] = array[j + 1]
  BY <1>0, <1>1, <1>2, <1>3
<1>4. ASSUME NEW j \in 1..Len(array), ~(i <= j /\ j < size)
      PROVE  array'[j] = array[j]
  BY <1>2, <1>4
<1>5. ASSUME NEW j \in 1..Len(array) PROVE array'[j] \in Item \cup {None}
  BY <1>0, <1>3, <1>4
<1>6. array' \in Seq(Item \cup {None}) /\ Len(array') = Len(array) /\ DOMAIN array' = 1..Len(array)
  <2>1. array' \in [1..Len(array) -> Item \cup {None}]
    BY <1>2, <1>5
  <2> QED
    BY <1>0, <2>1, SeqOf
<1>7. \A j \in 1..Len(array) : array[j] # None => array'[j] # None
  BY <1>0, <1>3, <1>4, MemoryAssumption
<1>8. size' \in 0..Len(array') /\ \A j \in 1..size' : j \in 1..size /\ j \in 1..Len(array)
  BY <1>0, <1>1, <1>6
<1>9. ArrayOK'
  <2>1. \A j \in 1..size' : array'[j] # None
    BY <1>0, <1>7, <1>8, MemoryAssumption
  <2> QED
    BY <1>6, <1>8, <2>1 DEF ArrayOK
<1>10. PointersOK'
  BY <1>0, <1>6, <1>7 DEF PointersOK
<1>11. ASSUME NEW j \in 1..size'
       PROVE  \E k \in 1..size : /\ k # i /\ array'[j] = array[k]
                                 /\ k = IF i <= j THEN j + 1 ELSE j
  <2>1. j \in 1..Len(array) /\ j < size
    BY <1>0, <1>8
  <2>2. CASE i <= j
    BY <1>3, <2>1, <2>2
  <2>3. CASE ~(i <= j)
    BY <1>4, <1>8, <2>3
  <2> QED
    BY <2>2, <2>3
<1>12. ASSUME NEW k \in 1..size, k # i
       PROVE  \E j \in 1..size' : array'[j] = array[k] /\ k = IF i <= j THEN j + 1 ELSE j
  <2>1. CASE k < i
    <3>1. k \in 1..size' /\ k \in 1..Len(array) /\ ~(i <= k)
      BY <1>0, <1>1, <2>1
    <3> QED
      BY <1>4, <3>1
  <2>2. CASE i < k
    <3>1. k - 1 \in 1..size' /\ k - 1 \in 1..Len(array) /\ i <= k - 1 /\ k - 1 < size /\ (k - 1) + 1 = k
      BY <1>0, <1>1, <2>2
    <3>2. array'[k - 1] = array[k]
      BY <1>3, <3>1
    <3> QED
      BY <3>1, <3>2
  <2> QED
    BY <1>1, <1>12, <2>1, <2>2
<1>13. Cells(r)' = {}
  <2>1. ASSUME NEW j \in 1..size' PROVE array'[j].rest # r
    BY <1>1, <1>11 DEF Cells
  <2> QED
    BY <2>1 DEF Cells
<1>14. ListedOnce'
  <2>1. ASSUME NEW j \in 1..size'
        PROVE  (Live(array[j].rest) /\ Cells(array[j].rest) = {j})'
    <3>1. PICK k \in 1..size : k # i /\ array'[j] = array[k] /\ k = IF i <= j THEN j + 1 ELSE j
      BY <1>11
    <3>2. PICK s \in Restaurants : s = array[k].rest
      BY <1>0
    <3>3. Cells(s) = {k} /\ Live(s) /\ s # r /\ s = array'[j].rest
      BY <1>1, <3>1, <3>2 DEF ListedOnce
    <3>4. Live(s)'
      BY <3>3
    <3>5. ASSUME NEW m \in Cells(s)' PROVE m = j
      <4>1. m \in 1..size' /\ array'[m].rest = s
        BY DEF Cells
      <4>2. PICK n \in 1..size : array'[m] = array[n] /\ n = IF i <= m THEN m + 1 ELSE m
        BY <1>11, <4>1
      <4>3. n = k
        BY <3>3, <4>1, <4>2 DEF Cells
      <4>4. m \in Nat /\ j \in Nat
        BY <1>0, <4>1
      <4> QED
        BY <1>1, <3>1, <4>2, <4>3, <4>4
    <3>6. j \in Cells(s)'
      BY <3>3 DEF Cells
    <3>7. Cells(s)' = {j}
      BY <3>5, <3>6
    <3> QED
      BY <3>3, <3>4, <3>7
  <2> QED
    BY <2>1 DEF ListedOnce
<1>15. ASSUME NEW s \in Restaurants PROVE OnList'[s] = [OnList EXCEPT ![r] = "off"][s]
  <2>1. CASE s = r
    BY <1>13, <2>1 DEF OnList
  <2>2. CASE s # r
    <3>1. ASSUME NEW j \in Cells(s)' PROVE \E k \in Cells(s) : array'[j] = array[k]
      BY <1>11 DEF Cells
    <3>2. ASSUME NEW k \in Cells(s) PROVE \E j \in Cells(s)' : array'[j] = array[k]
      <4>1. k \in 1..size /\ k # i
        BY <1>1, <2>2 DEF Cells
      <4> QED
        BY <1>12, <4>1 DEF Cells
    <3>3. (Cells(s)' = {}) <=> (Cells(s) = {})
      BY <3>1, <3>2
    <3>4. (\E j \in Cells(s)' : array'[j].done) <=> (\E k \in Cells(s) : array[k].done)
      BY <3>1, <3>2
    <3>5. OnList'[s] = IF Cells(s)' = {} THEN "off"
                       ELSE IF \E j \in Cells(s)' : array'[j].done THEN "done" ELSE "open"
      BY DEF OnList
    <3>6. OnList[s] = IF Cells(s) = {} THEN "off"
                      ELSE IF \E k \in Cells(s) : array[k].done THEN "done" ELSE "open"
      BY DEF OnList
    <3>7. [OnList EXCEPT ![r] = "off"][s] = OnList[s]
      BY <2>2 DEF OnList
    <3> QED
      BY <3>3, <3>4, <3>5, <3>6, <3>7
  <2> QED
    BY <2>1, <2>2
<1>16. OnList' = [OnList EXCEPT ![r] = "off"]
  BY <1>15 DEF OnList
<1> QED
  BY <1>9, <1>10, <1>14, <1>16

-----------------------------------------------------------------------------
(* Each operation keeps Inv and is a step of the ledger *)

StepOK == Inv' /\ [L!Next]_L!vars

\* TypeOK speaks of the slice and of the pointers into it in these two parts.
LEMMA TypeParts ==
  TypeOK <=> /\ restaurants \in [Restaurants -> Row \cup {None, Gone}]
             /\ visits \in [Dines -> Stored \cup {None, Gone}]
             /\ ArrayOK /\ PointersOK
             /\ refreshing \subseteq [rest : Restaurants, place : Places]
BY DEF TypeOK, ArrayOK, PointersOK

\* An operation that leaves the slice alone and no listed restaurant out leaves
\* the list as it is.
LEMMA ListKept ==
  ASSUME ArrayOK, PointersOK, ListedOnce, UNCHANGED <<array, size, answers>>,
         \A s \in Restaurants : Live(s) /\ Cells(s) # {} => Live(s)'
  PROVE  ArrayOK' /\ PointersOK' /\ ListedOnce' /\ OnList' = OnList
<1>1. \A i \in 1..size : array[i].rest \in Restaurants
  BY ArrayFacts
<1>2. \A s \in Restaurants : Cells(s)' = Cells(s)
  BY DEF Cells
<1>3. ArrayOK' /\ PointersOK'
  BY DEF ArrayOK, PointersOK
<1>4. ListedOnce'
  <2>1. ASSUME NEW i \in 1..size
        PROVE  (Live(array[i].rest) /\ Cells(array[i].rest) = {i})'
    <3>1. PICK s \in Restaurants : s = array[i].rest
      BY <1>1
    <3>2. Live(s) /\ Cells(s) = {i}
      BY <3>1 DEF ListedOnce
    <3> QED
      BY <1>2, <3>1, <3>2
  <2> QED
    BY <2>1 DEF ListedOnce
<1> QED
  BY <1>2, <1>3, <1>4 DEF OnList

\* A restaurant that keeps its place keeps what the ledger knows of it.
LEMMA PlaceKept ==
  ASSUME TypeOK, NEW r \in Restaurants, Live(r), NEW row \in Row,
         row.place = restaurants[r].place, restaurants' = [restaurants EXCEPT ![r] = row]
  PROVE  /\ \A s \in Restaurants : Live(s)' <=> Live(s)
         /\ Saved' = Saved /\ Removed' = Removed /\ LinkedTo' = LinkedTo
<1>1. restaurants \in [Restaurants -> Row \cup {None, Gone}] /\ row \notin {None, Gone}
  BY MemoryAssumption DEF TypeOK
<1>2. \A s \in Restaurants : Live(s)' <=> Live(s)
  BY <1>1 DEF Live
<1>3. Removed' = Removed
  BY <1>1 DEF Removed, Live
<1>4. LinkedTo' = LinkedTo
  BY <1>1, <1>2 DEF LinkedTo
<1> QED
  BY <1>2, <1>3, <1>4 DEF Saved

\* A dine is stored with the row that its restaurant and its other dines get.
LEMMA DineStored ==
  ASSUME TypeOK, CopiesCurrent, NEW r \in Restaurants, NEW row \in Row, NEW v \in Dines,
         StoreVisit(v, r, row)
  PROVE  /\ restaurants' \in [Restaurants -> Row \cup {None, Gone}]
         /\ visits' \in [Dines -> Stored \cup {None, Gone}]
         /\ \A s \in Restaurants : Live(s) => Live(s)'
         /\ CopiesCurrent' /\ DineAt' = [DineAt EXCEPT ![v] = r]
<1> DEFINE stored == [rest |-> r, copy |-> row]
<1>0. /\ restaurants \in [Restaurants -> Row \cup {None, Gone}]
      /\ visits \in [Dines -> Stored \cup {None, Gone}]
      /\ restaurants' = [restaurants EXCEPT ![r] = row]
      /\ visits' = [Synced(r, row) EXCEPT ![v] = stored]
  BY DEF TypeOK, StoreVisit
<1>1. /\ stored \in Stored /\ stored.rest = r /\ stored.copy = row /\ stored \notin {None, Gone}
      /\ row \notin {None, Gone}
  <2>1. stored \in Stored /\ stored.rest = r /\ stored.copy = row
    BY DEF Stored
  <2> QED
    BY <2>1, StoredIsValue, MemoryAssumption
<1> HIDE DEF stored
<1>2. \A w \in Dines : visits'[w] = IF w = v \/ (LiveVisit(w) /\ visits[w].rest = r)
                                    THEN stored ELSE visits[w]
  BY <1>0 DEF Synced, VisitsAt, stored
<1>3. visits' \in [Dines -> Stored \cup {None, Gone}]
  <2>1. visits' = [w \in Dines |-> visits'[w]]
    BY <1>0 DEF Synced
  <2> QED
    BY <1>0, <1>1, <1>2, <2>1
<1>4. /\ restaurants' \in [Restaurants -> Row \cup {None, Gone}]
      /\ \A s \in Restaurants : Live(s) => Live(s)'
      /\ Live(r)' /\ restaurants'[r] = row
      /\ \A s \in Restaurants : s # r => restaurants'[s] = restaurants[s]
  BY <1>0, <1>1 DEF Live
<1>5. ASSUME NEW w \in Dines, LiveVisit(w)'
      PROVE  (Live(visits[w].rest) /\ visits[w].copy = restaurants[visits[w].rest])'
  <2>1. CASE visits'[w] = stored
    BY <1>1, <1>4, <2>1
  <2>2. CASE visits'[w] # stored
    <3>1. visits'[w] = visits[w] /\ LiveVisit(w) /\ visits[w].rest # r
      BY <1>2, <1>5, <2>2 DEF LiveVisit
    <3>2. visits[w].rest \in Restaurants
      BY <1>0, <3>1 DEF LiveVisit, Stored
    <3>3. Live(visits[w].rest) /\ visits[w].copy = restaurants[visits[w].rest]
      BY <3>1 DEF CopiesCurrent
    <3> QED
      BY <1>4, <3>1, <3>2, <3>3 DEF Live
  <2> QED
    BY <2>1, <2>2
<1>6. ASSUME NEW w \in Dines PROVE DineAt'[w] = [DineAt EXCEPT ![v] = r][w]
  BY <1>1, <1>2 DEF DineAt, LiveVisit
<1> QED
  BY <1>3, <1>4, <1>5, <1>6 DEF CopiesCurrent, DineAt

\* Logging a dine is the ledger's LogDine at the restaurant resolved to.
LEMMA CreateVisitOK ==
  ASSUME Inv, NEW v \in Dines, NEW c \in OrNone(Known), NEW in \in Row, CreateVisit(v, c, in)
  PROVE  StepOK
<1>1. PICK r \in Resolved(c, in) : StoreVisit(v, r, NewRow(c, in, r)) /\ array' = Marked(r)
  BY DEF CreateVisit
<1>2. visits[v] = None /\ UNCHANGED <<size, answers, refreshing>>
  BY DEF CreateVisit
<1>3. r \in Restaurants /\ NewRow(c, in, r) \in Row
  BY ResolvedFacts DEF Inv
<1>4. /\ restaurants' \in [Restaurants -> Row \cup {None, Gone}]
      /\ visits' \in [Dines -> Stored \cup {None, Gone}]
      /\ \A s \in Restaurants : Live(s) => Live(s)'
      /\ CopiesCurrent' /\ DineAt' = [DineAt EXCEPT ![v] = r]
  BY <1>1, <1>3, DineStored DEF Inv
<1>5. ArrayOK' /\ PointersOK' /\ ListedOnce' /\ L!ClearItem(r)
  BY <1>1, <1>2, <1>3, <1>4, ItemsMarked, TypeParts DEF Inv
<1>6. L!Resolve(r)
  BY <1>1, ResolveMaps DEF Inv, StoreVisit
<1>7. DineAt[v] = None
  BY <1>2 DEF DineAt, LiveVisit
<1>8. L!LogDine(v, r)
  BY <1>4, <1>5, <1>6, <1>7 DEF L!LogDine
<1>9. TypeOK'
  BY <1>2, <1>4, <1>5 DEF Inv, TypeOK, ArrayOK, PointersOK
<1> QED
  BY <1>3, <1>4, <1>5, <1>8, <1>9 DEF StepOK, Inv, L!Next

\* Editing a dine is MoveDine if it changes the restaurant, else nothing.
LEMMA UpdateVisitOK ==
  ASSUME Inv, NEW v \in Dines, NEW r \in Restaurants, UpdateVisit(v, r)
  PROVE  StepOK
<1> DEFINE stored == [rest |-> r, copy |-> restaurants[r]]
<1>0. /\ restaurants \in [Restaurants -> Row \cup {None, Gone}]
      /\ visits \in [Dines -> Stored \cup {None, Gone}]
      /\ LiveVisit(v) /\ Live(r) /\ array' = Cleared(v, r)
      /\ visits' = [visits EXCEPT ![v] = stored]
      /\ UNCHANGED <<restaurants, size, answers, refreshing>>
  BY DEF Inv, TypeOK, UpdateVisit
<1>1. stored \in Stored /\ stored.rest = r /\ stored.copy = restaurants[r] /\ stored \notin {None, Gone}
  <2>1. stored \in Stored /\ stored.rest = r /\ stored.copy = restaurants[r]
    BY <1>0 DEF Stored, Live
  <2> QED
    BY <2>1, StoredIsValue
<1> HIDE DEF stored
<1>2. visits' \in [Dines -> Stored \cup {None, Gone}]
  BY <1>0, <1>1
<1>3. CopiesCurrent'
  BY <1>0, <1>1 DEF Inv, CopiesCurrent, LiveVisit, Live
<1>4. DineAt' = [DineAt EXCEPT ![v] = r] /\ DineAt[v] = visits[v].rest
  BY <1>0, <1>1 DEF DineAt, LiveVisit
<1>5. Saved' = Saved /\ Removed' = Removed /\ LinkedTo' = LinkedTo
  BY <1>0 DEF Saved, Removed, LinkedTo, Live
<1>6. visits[v].rest \in Saved /\ r \in Saved
  BY <1>0 DEF Inv, CopiesCurrent, LiveVisit, Stored, Saved
<1>7. \A s \in Restaurants : Live(s) => Live(s)'
  BY <1>0 DEF Live
<1>8. CASE visits[v].rest # r
  <2>1. ArrayOK' /\ PointersOK' /\ ListedOnce' /\ L!ClearItem(r)
    BY <1>0, <1>7, <1>8, ItemsMarked, TypeParts DEF Inv, Cleared
  <2>2. L!MoveDine(v, r)
    BY <1>4, <1>5, <1>6, <1>8, <2>1 DEF L!MoveDine
  <2>3. TypeOK'
    BY <1>0, <1>2, <2>1 DEF Inv, TypeOK, ArrayOK, PointersOK
  <2> QED
    BY <1>3, <2>1, <2>2, <2>3 DEF StepOK, Inv, L!Next
<1>9. CASE visits[v].rest = r
  <2>1. ArrayOK' /\ PointersOK' /\ ListedOnce' /\ OnList' = OnList
    BY <1>0, <1>7, <1>9, ListKept, TypeParts DEF Inv, Cleared
  <2>2. DineAt' = DineAt
    BY <1>4, <1>9 DEF DineAt
  <2>3. TypeOK'
    BY <1>0, <1>2, <2>1 DEF Inv, TypeOK, ArrayOK, PointersOK
  <2> QED
    BY <1>3, <1>5, <2>1, <2>2, <2>3 DEF StepOK, Inv, L!vars
<1> QED
  BY <1>8, <1>9

\* Deleting a dine is DeleteDine; the item it cleared stays cleared.
LEMMA DeleteVisitOK ==
  ASSUME Inv, NEW v \in Dines, DeleteVisit(v)
  PROVE  StepOK
<1>0. /\ visits \in [Dines -> Stored \cup {None, Gone}] /\ LiveVisit(v)
      /\ visits' = [visits EXCEPT ![v] = Gone]
      /\ UNCHANGED <<restaurants, array, size, answers, refreshing>>
  BY DEF Inv, TypeOK, DeleteVisit
<1>1. CopiesCurrent'
  BY <1>0 DEF Inv, CopiesCurrent, LiveVisit, Live
<1>2. DineAt' = [DineAt EXCEPT ![v] = Gone] /\ DineAt[v] = visits[v].rest
  BY <1>0 DEF DineAt, LiveVisit
<1>3. Saved' = Saved /\ Removed' = Removed /\ LinkedTo' = LinkedTo
  BY <1>0 DEF Saved, Removed, LinkedTo, Live
<1>4. visits[v].rest \in Saved
  BY <1>0 DEF Inv, CopiesCurrent, LiveVisit, Stored, Saved
<1>5. ArrayOK' /\ PointersOK' /\ ListedOnce' /\ OnList' = OnList
  BY <1>0, ListKept, TypeParts DEF Inv, Live
<1>6. TypeOK'
  BY <1>0, <1>5 DEF Inv, TypeOK, ArrayOK, PointersOK
<1>7. L!DeleteDine(v)
  BY <1>2, <1>3, <1>4, <1>5 DEF L!DeleteDine
<1> QED
  BY <1>1, <1>5, <1>6, <1>7 DEF StepOK, Inv, L!Next

\* Saving to the list is SaveItem, whether the item is reopened or added.
LEMMA SaveWantToTryOK ==
  ASSUME Inv, NEW c \in OrNone(Known), NEW form \in Row, SaveWantToTry(c, form)
  PROVE  StepOK
<1> DEFINE in == [form EXCEPT !.chain = FALSE]
<1>1. in \in Row
  BY DEF Row
<1>2. PICK r \in Resolved(c, in) :
         /\ StoreRow(r, NewRow(c, in, r))
         /\ \/ \E i \in Listed(r) : /\ array' = [array EXCEPT ![i].done = FALSE]
                                    /\ answers' = answers \cup {Pending(r, i)}
                                    /\ UNCHANGED size
            \/ /\ Listed(r) = {}
               /\ array' = Appended([rest |-> r, done |-> FALSE])
               /\ answers' = StillPending \cup {Pending(r, 0)}
               /\ size' = size + 1
  BY Zenon DEF SaveWantToTry
<1>3. UNCHANGED refreshing
  BY DEF SaveWantToTry
<1> HIDE DEF in
<1>4. r \in Restaurants /\ NewRow(c, in, r) \in Row
  BY <1>1, ResolvedFacts DEF Inv
<1>5. /\ restaurants' \in [Restaurants -> Row \cup {None, Gone}]
      /\ visits' \in [Dines -> Stored \cup {None, Gone}]
      /\ \A s \in Restaurants : Live(s)' <=> s = r \/ Live(s)
      /\ CopiesCurrent' /\ DineAt' = DineAt
  BY <1>2, <1>4, RowStored DEF Inv
<1>6. L!Resolve(r)
  BY <1>1, <1>2, ResolveMaps DEF Inv, StoreRow
<1>7. ArrayOK' /\ PointersOK' /\ ListedOnce' /\ OnList' = [OnList EXCEPT ![r] = "open"]
  <2>1. ASSUME NEW i \in Cells(r), array' = [array EXCEPT ![i].done = FALSE],
               answers' = answers \cup {Pending(r, i)}, UNCHANGED size
        PROVE  ArrayOK' /\ PointersOK' /\ ListedOnce' /\ OnList' = [OnList EXCEPT ![r] = "open"]
    BY <1>4, <1>5, <2>1, ItemReopened, TypeParts DEF Inv
  <2>2. ASSUME Cells(r) = {}, array' = Appended([rest |-> r, done |-> FALSE]),
               answers' = StillPending \cup {Pending(r, 0)}, size' = size + 1
        PROVE  ArrayOK' /\ PointersOK' /\ ListedOnce' /\ OnList' = [OnList EXCEPT ![r] = "open"]
    BY <1>4, <1>5, <2>2, ItemAdded, TypeParts DEF Inv
  <2> QED
    BY <1>2, <2>1, <2>2, Zenon DEF Listed
<1>8. L!SaveItem(r)
  BY <1>5, <1>6, <1>7 DEF L!SaveItem
<1>9. TypeOK'
  BY <1>3, <1>5, <1>7 DEF Inv, TypeOK, ArrayOK, PointersOK
<1> QED
  BY <1>4, <1>5, <1>7, <1>8, <1>9 DEF StepOK, Inv, L!Next

\* Answering a save changes nothing that is stored.
LEMMA RedirectOK ==
  ASSUME Inv, NEW a \in answers, Redirect(a)
  PROVE  StepOK
<1>0. /\ answers' = answers \ {a}
      /\ UNCHANGED <<restaurants, visits, array, size, refreshing>>
  BY DEF Redirect
<1>1. TypeOK'
  BY <1>0 DEF Inv, TypeOK
<1>2. CopiesCurrent' /\ ListedOnce'
  BY <1>0 DEF Inv, CopiesCurrent, ListedOnce, LiveVisit, Live, Cells
<1>3. UNCHANGED L!vars
  BY <1>0 DEF L!vars, Saved, Removed, LinkedTo, DineAt, OnList, Live, LiveVisit, Cells
<1> QED
  BY <1>1, <1>2, <1>3 DEF StepOK, Inv

\* Deleting the item of a cell is RemoveItem for that cell's restaurant.
LEMMA DeleteWantToTryOK ==
  ASSUME Inv, NEW i \in 1..size, DeleteWantToTry(i)
  PROVE  StepOK
<1>0. /\ array' = Cut(i) /\ size' = size - 1
      /\ UNCHANGED <<restaurants, visits, answers, refreshing>>
  BY DEF DeleteWantToTry
<1>1. PICK r \in Restaurants : r = array[i].rest
  BY ArrayFacts, TypeParts DEF Inv
<1>2. i \in Cells(r) /\ OnList[r] # "off"
  BY <1>1 DEF Cells, OnList
<1>3. ArrayOK' /\ PointersOK' /\ ListedOnce' /\ OnList' = [OnList EXCEPT ![r] = "off"]
  BY <1>0, <1>2, ItemCut, TypeParts DEF Inv, Live
<1>4. CopiesCurrent' /\ UNCHANGED <<Saved, Removed, LinkedTo, DineAt>>
  BY <1>0 DEF Inv, CopiesCurrent, Saved, Removed, LinkedTo, DineAt, Live, LiveVisit
<1>5. TypeOK'
  BY <1>0, <1>3 DEF Inv, TypeOK, ArrayOK, PointersOK
<1>6. L!RemoveItem(r)
  BY <1>2, <1>3, <1>4 DEF L!RemoveItem
<1> QED
  BY <1>3, <1>4, <1>5, <1>6 DEF StepOK, Inv, L!Next

\* Removing a restaurant takes its item along: the ledger's RemoveSpot.
LEMMA DeleteRestaurantOK ==
  ASSUME Inv, NEW r \in Restaurants, DeleteRestaurantIfUnvisited(r)
  PROVE  StepOK
<1>0. /\ restaurants \in [Restaurants -> Row \cup {None, Gone}]
      /\ visits \in [Dines -> Stored \cup {None, Gone}]
      /\ Live(r) /\ VisitsAt(r) = {} /\ restaurants' = [restaurants EXCEPT ![r] = Gone]
      /\ DropItems(r) /\ UNCHANGED <<visits, answers, refreshing>>
  BY DEF Inv, TypeOK, DeleteRestaurantIfUnvisited
<1>1. /\ restaurants' \in [Restaurants -> Row \cup {None, Gone}]
      /\ \A s \in Restaurants : Live(s)' <=> s # r /\ Live(s)
      /\ \A s \in Restaurants : s # r => restaurants'[s] = restaurants[s]
      /\ restaurants'[r] = Gone
  BY <1>0 DEF Live
<1>2. ArrayOK' /\ PointersOK' /\ ListedOnce' /\ OnList' = [OnList EXCEPT ![r] = "off"]
  <2>1. CASE Cells(r) = {} /\ UNCHANGED <<array, size>>
    <3>1. ArrayOK' /\ PointersOK' /\ ListedOnce' /\ OnList' = OnList
      BY <1>0, <1>1, <2>1, ListKept, TypeParts DEF Inv
    <3>2. OnList[r] = "off"
      BY <2>1 DEF OnList
    <3> QED
      BY <3>1, <3>2 DEF OnList
  <2>2. ASSUME NEW i \in Cells(r), array' = Cut(i), size' = size - 1
        PROVE  ArrayOK' /\ PointersOK' /\ ListedOnce' /\ OnList' = [OnList EXCEPT ![r] = "off"]
    BY <1>0, <1>1, <2>2, ItemCut, TypeParts DEF Inv
  <2> QED
    BY <1>0, <2>1, <2>2, Zenon DEF DropItems
<1>3. CopiesCurrent'
  <2>1. ASSUME NEW v \in Dines, LiveVisit(v)
        PROVE  /\ visits[v].rest \in Restaurants \ {r} /\ Live(visits[v].rest)
               /\ visits[v].copy = restaurants[visits[v].rest]
    BY <1>0, <2>1 DEF Inv, CopiesCurrent, LiveVisit, Stored, VisitsAt
  <2> QED
    BY <1>0, <1>1, <2>1 DEF CopiesCurrent, LiveVisit
<1>4. Saved' = Saved \ {r} /\ r \in Saved
  BY <1>0, <1>1 DEF Saved
<1>5. Removed' = Removed \cup {r}
  BY <1>0, <1>1 DEF Removed
<1>6. LinkedTo' = [LinkedTo EXCEPT ![r] = None]
  BY <1>1 DEF LinkedTo
<1>7. DineAt' = DineAt
  BY <1>0 DEF DineAt, LiveVisit
<1>8. L!DinesAt(r) = {}
  BY <1>0, MemoryAssumption DEF L!DinesAt, DineAt, VisitsAt, LiveVisit
<1>9. L!RemoveSpot(r)
  BY <1>2, <1>4, <1>5, <1>6, <1>7, <1>8 DEF L!RemoveSpot
<1>10. TypeOK'
  BY <1>0, <1>1, <1>2 DEF Inv, TypeOK, ArrayOK, PointersOK
<1> QED
  BY <1>2, <1>3, <1>9, <1>10 DEF StepOK, Inv, L!Next

\* Rewriting what a restaurant is called, or what Google says of it, changes
\* every copy and nothing the ledger speaks of.
LEMMA RowRewritten ==
  ASSUME Inv, NEW r \in Restaurants, Live(r), NEW row \in Row,
         row.place = restaurants[r].place, StoreRow(r, row),
         UNCHANGED <<array, size, answers>>, refreshing' \subseteq refreshing
  PROVE  StepOK
<1>1. /\ restaurants' \in [Restaurants -> Row \cup {None, Gone}]
      /\ visits' \in [Dines -> Stored \cup {None, Gone}]
      /\ CopiesCurrent' /\ DineAt' = DineAt
  BY RowStored DEF Inv
<1>2. /\ \A s \in Restaurants : Live(s)' <=> Live(s)
      /\ Saved' = Saved /\ Removed' = Removed /\ LinkedTo' = LinkedTo
  BY PlaceKept DEF Inv, StoreRow
<1>3. ArrayOK' /\ PointersOK' /\ ListedOnce' /\ OnList' = OnList
  BY <1>2, ListKept, TypeParts DEF Inv
<1>4. TypeOK'
  BY <1>1, <1>3 DEF Inv, TypeOK, ArrayOK, PointersOK
<1> QED
  BY <1>1, <1>2, <1>3, <1>4 DEF StepOK, Inv, L!vars

\* The edit form rewrites one restaurant and keeps its place.
LEMMA UpdateRestaurantOK ==
  ASSUME Inv, NEW r \in Restaurants, NEW n \in Names, NEW a \in OrNone(Addresses),
         NEW c \in BOOLEAN, UpdateRestaurant(r, n, a, c)
  PROVE  StepOK
<1> DEFINE row == [restaurants[r] EXCEPT !.name = n, !.address = a, !.chain = c]
<1>1. Live(r) /\ StoreRow(r, row) /\ UNCHANGED <<array, size, answers, refreshing>>
  BY DEF UpdateRestaurant
<1>2. restaurants[r] \in Row
  BY <1>1 DEF Inv, TypeOK, Live
<1>3. row \in Row /\ row.place = restaurants[r].place
  BY <1>2 DEF Row
<1> HIDE DEF row
<1> QED
  BY <1>1, <1>3, RowRewritten

\* The chain switch, which patches each copy, writes what StoreRow would.
LEMMA ToggleChainOK ==
  ASSUME Inv, NEW r \in Restaurants, NEW c \in BOOLEAN, ToggleChain(r, c)
  PROVE  StepOK
<1> DEFINE row == [restaurants[r] EXCEPT !.chain = c]
<1>1. /\ Live(r) /\ restaurants' = [restaurants EXCEPT ![r].chain = c]
      /\ visits' = [v \in Dines |-> IF v \in VisitsAt(r)
                                    THEN [visits[v] EXCEPT !.copy.chain = c]
                                    ELSE visits[v]]
      /\ UNCHANGED <<array, size, answers, refreshing>>
  BY DEF ToggleChain
<1>2. restaurants[r] \in Row
  BY <1>1 DEF Inv, TypeOK, Live
<1>3. row \in Row /\ row.place = restaurants[r].place
  BY <1>2 DEF Row
<1>4. ASSUME NEW v \in VisitsAt(r)
      PROVE  [visits[v] EXCEPT !.copy.chain = c] = [rest |-> r, copy |-> row]
  <2>1. visits[v] \in Stored /\ visits[v].rest = r /\ visits[v].copy = restaurants[r]
    BY <1>4 DEF Inv, TypeOK, CopiesCurrent, VisitsAt, LiveVisit
  <2>2. visits[v] = [rest |-> r, copy |-> restaurants[r]]
    BY <2>1 DEF Stored
  <2> QED
    BY <2>2
<1>5. StoreRow(r, row)
  BY <1>1, <1>4 DEF StoreRow, Synced
<1> HIDE DEF row
<1> QED
  BY <1>1, <1>3, <1>5, RowRewritten

\* A refresh that asks Google has changed nothing yet.
LEMMA BeginRefreshOK ==
  ASSUME Inv, NEW r \in Restaurants, BeginRefresh(r)
  PROVE  StepOK
<1>0. /\ Live(r) /\ restaurants[r].place # None
      /\ refreshing' = refreshing \cup {[rest |-> r, place |-> restaurants[r].place]}
      /\ UNCHANGED <<restaurants, visits, array, size, answers>>
  BY DEF BeginRefresh
<1>1. restaurants[r].place \in Places
  BY <1>0 DEF Inv, TypeOK, Live, Row, OrNone
<1>2. TypeOK'
  BY <1>0, <1>1 DEF Inv, TypeOK
<1>3. CopiesCurrent' /\ ListedOnce'
  BY <1>0 DEF Inv, CopiesCurrent, ListedOnce, LiveVisit, Live, Cells
<1>4. UNCHANGED L!vars
  BY <1>0 DEF L!vars, Saved, Removed, LinkedTo, DineAt, OnList, Live, LiveVisit, Cells
<1> QED
  BY <1>2, <1>3, <1>4 DEF StepOK, Inv

\* A late answer from Google is written over the row as it is by then.
LEMMA EndRefreshOK ==
  ASSUME Inv, NEW f \in refreshing, EndRefresh(f)
  PROVE  StepOK
<1>0. f.rest \in Restaurants /\ f.place \in Places /\ refreshing' = refreshing \ {f}
  BY DEF Inv, TypeOK, EndRefresh
<1>1. UNCHANGED <<array, size, answers>>
  BY DEF EndRefresh
<1>2. CASE UNCHANGED <<restaurants, visits>>
  <2>1. TypeOK'
    BY <1>0, <1>1, <1>2 DEF Inv, TypeOK
  <2>2. CopiesCurrent' /\ ListedOnce'
    BY <1>1, <1>2 DEF Inv, CopiesCurrent, ListedOnce, LiveVisit, Live, Cells
  <2>3. UNCHANGED L!vars
    BY <1>1, <1>2 DEF L!vars, Saved, Removed, LinkedTo, DineAt, OnList, Live, LiveVisit, Cells
  <2> QED
    BY <2>1, <2>2, <2>3 DEF StepOK, Inv
<1>3. ASSUME Live(f.rest), StoreRow(f.rest, [restaurants[f.rest] EXCEPT !.coords = f.place])
      PROVE  StepOK
  <2> DEFINE row == [restaurants[f.rest] EXCEPT !.coords = f.place]
  <2>1. restaurants[f.rest] \in Row
    BY <1>0, <1>3 DEF Inv, TypeOK, Live
  <2>2. row \in Row /\ row.place = restaurants[f.rest].place
    BY <1>0, <2>1 DEF Row, OrNone
  <2>3. StoreRow(f.rest, row)
    BY <1>3
  <2> HIDE DEF row
  <2> QED
    BY <1>0, <1>1, <1>3, <2>2, <2>3, RowRewritten
<1> QED
  BY <1>2, <1>3 DEF EndRefresh

-----------------------------------------------------------------------------
(* Theorems *)

\* The empty store is the empty ledger.
LEMMA InitOK == Init => Inv /\ L!Init
<1>1. SUFFICES ASSUME Init PROVE Inv /\ L!Init
  OBVIOUS
<1>2. TypeOK
  BY <1>1 DEF Init, TypeOK
<1>3. CopiesCurrent /\ ListedOnce
  BY <1>1 DEF Init, CopiesCurrent, LiveVisit, ListedOnce
<1>4. \A r \in Restaurants : Cells(r) = {} /\ ~Live(r) /\ restaurants[r] = None
  BY <1>1 DEF Init, Cells, Live
<1>5. \A v \in Dines : ~LiveVisit(v) /\ visits[v] = None
  BY <1>1 DEF Init, LiveVisit
<1>6. L!Init
  BY <1>4, <1>5, MemoryAssumption DEF L!Init, Saved, Removed, LinkedTo, DineAt, OnList
<1> QED
  BY <1>2, <1>3, <1>6 DEF Inv

\* Every step keeps the invariant and is a step of the ledger or a stutter.
LEMMA NextOK == Inv /\ [Next]_vars => StepOK
<1>1. SUFFICES ASSUME Inv, [Next]_vars PROVE StepOK
  OBVIOUS
<1>2. CASE UNCHANGED vars
  <2>1. TypeOK' /\ CopiesCurrent' /\ ListedOnce'
    BY <1>1, <1>2 DEF vars, Inv, TypeOK, CopiesCurrent, ListedOnce, LiveVisit, Live, Cells
  <2>2. UNCHANGED L!vars
    BY <1>2 DEF vars, L!vars, Saved, Removed, LinkedTo, DineAt, OnList, Live, LiveVisit, Cells
  <2> QED
    BY <2>1, <2>2 DEF StepOK, Inv
<1>3. Inputs \subseteq Row
  BY MemoryAssumption
<1>4. ASSUME NEW v \in Dines, NEW c \in OrNone(Known), NEW in \in Inputs, CreateVisit(v, c, in)
      PROVE  StepOK
  BY <1>1, <1>3, <1>4, CreateVisitOK
<1>5. ASSUME NEW v \in Dines, NEW r \in Restaurants, UpdateVisit(v, r) PROVE StepOK
  BY <1>1, <1>5, UpdateVisitOK
<1>6. ASSUME NEW v \in Dines, DeleteVisit(v) PROVE StepOK
  BY <1>1, <1>6, DeleteVisitOK
<1>7. ASSUME NEW c \in OrNone(Known), NEW in \in Inputs, SaveWantToTry(c, in) PROVE StepOK
  BY <1>1, <1>3, <1>7, SaveWantToTryOK
<1>8. ASSUME NEW a \in answers, Redirect(a) PROVE StepOK
  BY <1>1, <1>8, RedirectOK
<1>9. ASSUME NEW i \in 1..size, DeleteWantToTry(i) PROVE StepOK
  BY <1>1, <1>9, DeleteWantToTryOK
<1>10. ASSUME NEW r \in Restaurants, DeleteRestaurantIfUnvisited(r) PROVE StepOK
  BY <1>1, <1>10, DeleteRestaurantOK
<1>11. ASSUME NEW r \in Restaurants, NEW n \in Names, NEW a \in OrNone(Addresses),
              NEW c \in BOOLEAN, UpdateRestaurant(r, n, a, c)
       PROVE  StepOK
  BY <1>1, <1>11, UpdateRestaurantOK
<1>12. ASSUME NEW r \in Restaurants, NEW c \in BOOLEAN, ToggleChain(r, c) PROVE StepOK
  BY <1>1, <1>12, ToggleChainOK
<1>13. ASSUME NEW r \in Restaurants, BeginRefresh(r) PROVE StepOK
  BY <1>1, <1>13, BeginRefreshOK
<1>14. ASSUME NEW f \in refreshing, EndRefresh(f) PROVE StepOK
  BY <1>1, <1>14, EndRefreshOK
<1> QED
  BY <1>1, <1>2, <1>4, <1>5, <1>6, <1>7, <1>8, <1>9, <1>10, <1>11, <1>12, <1>13, <1>14, Zenon
     DEF Next

\* The slice, the pointers into it and the pending refreshes stay well formed:
\* no pending answer ever points outside the array or to a cell without an item.
THEOREM TypeCorrect == Spec => []TypeOK
<1>1. Init => Inv
  BY InitOK
<1>2. Inv /\ [Next]_vars => Inv'
  BY NextOK DEF StepOK
<1>3. Inv => TypeOK
  BY DEF Inv
<1> QED
  BY <1>1, <1>2, <1>3, PTL DEF Spec

\* Every dine shows its restaurant as it is: no sequence of saves, edits, late
\* refreshes and removals leaves a copy behind.
THEOREM CopiesCorrect == Spec => []CopiesCurrent
<1>1. Init => Inv
  BY InitOK
<1>2. Inv /\ [Next]_vars => Inv'
  BY NextOK DEF StepOK
<1>3. Inv => CopiesCurrent
  BY DEF Inv
<1> QED
  BY <1>1, <1>2, <1>3, PTL DEF Spec

\* No restaurant is on the list twice, and none that was removed.
THEOREM ListCorrect == Spec => []ListedOnce
<1>1. Init => Inv
  BY InitOK
<1>2. Inv /\ [Next]_vars => Inv'
  BY NextOK DEF StepOK
<1>3. Inv => ListedOnce
  BY DEF Inv
<1> QED
  BY <1>1, <1>2, <1>3, PTL DEF Spec

\* The in-memory store implements the ledger: each of its steps is one whole
\* operation of Ledger, or changes nothing that Ledger speaks of.
THEOREM LedgerCorrect == Spec => ImplementsLedger
<1>1. Init => Inv /\ L!Init
  BY InitOK
<1>2. Inv /\ [Next]_vars => Inv' /\ [L!Next]_(L!vars)
  BY NextOK DEF StepOK
<1> QED
  BY <1>1, <1>2, PTL DEF Spec, ImplementsLedger, L!Spec

-----------------------------------------------------------------------------
(* One restaurant of each description *)

NamesStay == \A r \in Restaurants : Live(r) /\ Live(r)' => Called(r)' = Called(r)

\* A step that links no restaurant to another place, and adds none, keeps them
\* apart unless it renames one.
LEMMA LinksStay ==
  ASSUME Distinct, NamesStay,
         \A s \in Restaurants :
             Live(s)' => Live(s) /\ restaurants'[s].place = restaurants[s].place
  PROVE  Distinct'
<1>1. ASSUME NEW s \in Restaurants, Live(s)'
      PROVE  /\ Live(s) /\ restaurants'[s].place = restaurants[s].place
             /\ restaurants'[s].name = restaurants[s].name
             /\ restaurants'[s].address = restaurants[s].address
  BY <1>1 DEF NamesStay, Called
<1> QED
  BY <1>1 DEF Distinct

\* A restaurant that is resolved keeps its description or is the first of it.
LEMMA ResolvedDistinct ==
  ASSUME Inv, Distinct, NamesStay, NEW chosen \in OrNone(Known), NEW in \in Row,
         NEW r \in Resolved(chosen, in),
         restaurants' = [restaurants EXCEPT ![r] = NewRow(chosen, in, r)]
  PROVE  Distinct'
<1> DEFINE row == NewRow(chosen, in, r)
<1>1. /\ restaurants \in [Restaurants -> Row \cup {None, Gone}]
      /\ r \in Restaurants /\ restaurants[r] # Gone /\ row \in Row
      /\ \/ row.place = LinkedTo[r]
         \/ LinkedTo[r] = None /\ row.place \in Places /\ Owners(row.place) = {}
  BY ResolvedFacts DEF Inv, TypeOK
<1>2. ~Live(r) => row = in /\ Found(in) = {}
  <2>1. SUFFICES ASSUME ~Live(r) PROVE row = in /\ Found(in) = {}
    OBVIOUS
  <2>2. ~(chosen # None /\ Live(chosen))
    BY <2>1 DEF Resolved
  <2>3. ASSUME Found(in) # {} PROVE FALSE
    <3>1. Found(in) \in SUBSET {s \in Restaurants : Live(s)}
      BY DEF Found, Owners, Namesakes
    <3>2. Restaurants \subseteq Nat
      BY MemoryAssumption DEF Restaurants
    <3>3. First(Found(in)) \in Found(in)
      BY <2>3, <3>1, <3>2, FirstIn
    <3>4. r = First(Found(in))
      BY <2>2, <2>3 DEF Resolved
    <3> QED
      BY <2>1, <3>1, <3>3, <3>4
  <2> QED
    BY <2>1, <2>3 DEF NewRow
<1> HIDE DEF row
<1>3. restaurants' = [restaurants EXCEPT ![r] = row]
  BY DEF row
<1>4. \A s \in Restaurants : s # r => restaurants'[s] = restaurants[s] /\ Live(s)' = Live(s)
  BY <1>1, <1>3 DEF Live
<1>5. restaurants'[r] = row
  BY <1>1, <1>3
<1>6. ASSUME NEW s \in Restaurants, s # r, Live(s)
      PROVE  /\ row.place # None => restaurants[s].place # row.place
             /\ restaurants[s].place # None => restaurants[s].place # row.place
             /\ row.address # None => \/ restaurants[s].name # row.name
                                      \/ restaurants[s].address # row.address
  <2>1. Live(r) => row.name = restaurants[r].name /\ row.address = restaurants[r].address
    <3>1. SUFFICES ASSUME Live(r) PROVE Called(r)' = Called(r)
      BY <1>5 DEF Called
    <3>2. Live(r)'
      BY <1>1, <1>5, MemoryAssumption DEF Live
    <3> QED
      BY <1>1, <3>1, <3>2 DEF NamesStay
  <2>2. Owners(row.place) = {} => restaurants[s].place # row.place
    BY <1>6 DEF Owners
  <2>3. row.place # None => restaurants[s].place # row.place
    <3>1. CASE row.place = LinkedTo[r] /\ row.place # None
      <4>1. Live(r) /\ restaurants[r].place = row.place
        BY <1>1, <3>1 DEF LinkedTo
      <4> QED
        BY <1>1, <1>6, <3>1, <4>1 DEF Distinct
    <3> QED
      BY <1>1, <2>2, <3>1
  <2>4. ASSUME row.address # None
        PROVE  restaurants[s].name # row.name \/ restaurants[s].address # row.address
    <3>1. CASE Live(r)
      BY <1>1, <1>6, <2>1, <2>4, <3>1 DEF Distinct
    <3>2. CASE ~Live(r)
      <4>1. row = in /\ Namesakes(in) = {}
        BY <1>2, <3>2 DEF Found
      <4> QED
        BY <1>6, <2>4, <4>1 DEF Namesakes
    <3> QED
      BY <3>1, <3>2
  <2> QED
    BY <2>3, <2>4
<1>7. ASSUME NEW s \in Restaurants, NEW u \in Restaurants, s # u, Live(s)', Live(u)'
      PROVE  (/\ restaurants[s].place # None => restaurants[s].place # restaurants[u].place
              /\ restaurants[s].address # None =>
                    \/ restaurants[s].name # restaurants[u].name
                    \/ restaurants[s].address # restaurants[u].address)'
  <2>1. CASE s = r
    BY <1>4, <1>5, <1>6, <1>7, <2>1
  <2>2. CASE u = r
    BY <1>4, <1>5, <1>6, <1>7, <2>2
  <2>3. CASE s # r /\ u # r
    BY <1>4, <1>7, <2>3 DEF Distinct
  <2> QED
    BY <2>1, <2>2, <2>3
<1> QED
  BY <1>7 DEF Distinct

\* Only an edit that renames a restaurant makes two of one description.
LEMMA DistinctStep == Inv /\ [Next]_vars /\ Distinct /\ NamesStay => Distinct'
<1>1. SUFFICES ASSUME Inv, [Next]_vars, Distinct, NamesStay PROVE Distinct'
  OBVIOUS
<1>2. restaurants \in [Restaurants -> Row \cup {None, Gone}] /\ Inputs \subseteq Row
  BY <1>1, MemoryAssumption DEF Inv, TypeOK
<1>3. CASE UNCHANGED restaurants
  BY <1>1, <1>3, LinksStay DEF Live
<1>4. ASSUME NEW v \in Dines, NEW c \in OrNone(Known), NEW in \in Inputs, CreateVisit(v, c, in)
      PROVE  Distinct'
  <2>1. in \in Row
    BY <1>2
  <2>2. PICK r \in Resolved(c, in) : restaurants' = [restaurants EXCEPT ![r] = NewRow(c, in, r)]
    BY <1>4 DEF CreateVisit, StoreVisit
  <2> QED
    BY <1>1, <2>1, <2>2, ResolvedDistinct
<1>5. ASSUME NEW c \in OrNone(Known), NEW form \in Inputs, SaveWantToTry(c, form)
      PROVE  Distinct'
  <2> DEFINE in == [form EXCEPT !.chain = FALSE]
  <2>1. in \in Row
    BY <1>2 DEF Row
  <2>2. PICK r \in Resolved(c, in) : restaurants' = [restaurants EXCEPT ![r] = NewRow(c, in, r)]
    BY <1>5 DEF SaveWantToTry, StoreRow
  <2> HIDE DEF in
  <2> QED
    BY <1>1, <2>1, <2>2, ResolvedDistinct
<1>6. ASSUME NEW r \in Restaurants, DeleteRestaurantIfUnvisited(r) PROVE Distinct'
  <2>1. restaurants' = [restaurants EXCEPT ![r] = Gone]
    BY <1>6 DEF DeleteRestaurantIfUnvisited
  <2>2. \A s \in Restaurants : Live(s)' => s # r
    BY <1>2, <2>1 DEF Live
  <2>3. \A s \in Restaurants : s # r => restaurants'[s] = restaurants[s]
    BY <1>2, <2>1
  <2> QED
    BY <1>1, <2>2, <2>3, LinksStay DEF Live
<1>7. ASSUME NEW r \in Restaurants, NEW row \in Row, Live(r), row.place = restaurants[r].place,
             restaurants' = [restaurants EXCEPT ![r] = row]
      PROVE  Distinct'
  <2>1. \A s \in Restaurants : restaurants'[s] = IF s = r THEN row ELSE restaurants[s]
    BY <1>2, <1>7
  <2> QED
    BY <1>1, <1>7, <2>1, LinksStay DEF Live
<1>8. \A r \in Restaurants : Live(r) => restaurants[r] \in Row
  BY <1>2 DEF Live
<1>9. ASSUME NEW r \in Restaurants, NEW n \in Names, NEW a \in OrNone(Addresses),
             NEW c \in BOOLEAN, UpdateRestaurant(r, n, a, c)
      PROVE  Distinct'
  <2> DEFINE row == [restaurants[r] EXCEPT !.name = n, !.address = a, !.chain = c]
  <2>1. Live(r) /\ restaurants' = [restaurants EXCEPT ![r] = row]
    BY <1>9 DEF UpdateRestaurant, StoreRow
  <2>2. row \in Row /\ row.place = restaurants[r].place
    BY <1>8, <2>1 DEF Row
  <2> HIDE DEF row
  <2> QED
    BY <1>7, <2>1, <2>2
<1>10. ASSUME NEW r \in Restaurants, NEW c \in BOOLEAN, ToggleChain(r, c) PROVE Distinct'
  <2> DEFINE row == [restaurants[r] EXCEPT !.chain = c]
  <2>1. Live(r) /\ restaurants' = [restaurants EXCEPT ![r] = row]
    BY <1>10 DEF ToggleChain
  <2>2. row \in Row /\ row.place = restaurants[r].place
    BY <1>8, <2>1 DEF Row
  <2> HIDE DEF row
  <2> QED
    BY <1>7, <2>1, <2>2
<1>11. ASSUME NEW f \in refreshing, EndRefresh(f) PROVE Distinct'
  <2> DEFINE row == [restaurants[f.rest] EXCEPT !.coords = f.place]
  <2>1. f.rest \in Restaurants /\ f.place \in Places
    BY <1>1 DEF Inv, TypeOK
  <2>2. CASE Live(f.rest) /\ restaurants' = [restaurants EXCEPT ![f.rest] = row]
    <3>1. row \in Row /\ row.place = restaurants[f.rest].place
      BY <1>8, <2>1, <2>2 DEF Row, OrNone
    <3> HIDE DEF row
    <3> QED
      BY <1>7, <2>1, <2>2, <3>1
  <2> QED
    BY <1>3, <1>11, <2>2 DEF EndRefresh, StoreRow
<1> QED
  BY <1>1, <1>3, <1>4, <1>5, <1>6, <1>9, <1>10, <1>11, Zenon
     DEF Next, vars, UpdateVisit, DeleteVisit, Redirect, DeleteWantToTry, BeginRefresh

\* Requests alone never make two restaurants of one description: whatever the
\* store held before, only an edit that renames a restaurant does.
THEOREM OneOfEachCorrect == Spec => OneOfEach
<1>1. Init => Inv
  BY InitOK
<1>2. Inv /\ [Next]_vars => Inv'
  BY NextOK DEF StepOK
<1>3. Inv /\ [Next]_vars => (Distinct /\ NamesStay => Distinct')
  BY DistinctStep
<1> QED
  BY <1>1, <1>2, <1>3, PTL DEF Spec, OneOfEach, NamesStay
=============================================================================
