---------------------------- MODULE StoreProofs ----------------------------
(***************************************************************************)
(* The ledger store is correct for any number of concurrent requests,      *)
(* restaurants, dines and places.  Invariant (StoreInvariants) is          *)
(* inductive; one lemma per conjunct, named after it, shows that the       *)
(* statements of Next preserve it:                                         *)
(*   Typing       what a transaction's fields hold at each statement;      *)
(*   FreshIds     the name of a row a transaction may insert is its own;   *)
(*   LocksExclude, LockedStays   what a row lock excludes, and so keeps;   *)
(*   DinesApart, DinesHeld       who writes which dine, and where it is;   *)
(*   PlacesHeld   who is about to link which place;                        *)
(* from which ReferencesHold and PlacesUnique follow for the commits.      *)
(* Three theorems rest on it and on what each needs besides:               *)
(*   - Google metadata follows the place it came with (DetailsFollowPlace):*)
(*     what a request read of a restaurant it chose stays true until it    *)
(*     commits (Follows);                                                  *)
(*   - the store implements Ledger where users do not remove restaurants,  *)
(*     and do not move dines while others save items: a dine takes an open *)
(*     item off the list exactly if there is one (Listed);                 *)
(*   - no set of requests waits for one another (NoDeadlock) where users   *)
(*     do not remove restaurants, or two requests run at once: a rank      *)
(*     falls along every wait (Rank).                                      *)
(***************************************************************************)
EXTENDS StoreInvariants, TLAPS, WellFoundedInduction

\* ORDER BY created_at LIMIT 1 returns one of the rows that match.
LEMMA OldestIn ==
  ASSUME NEW S \in SUBSET Nat, S # {}
  PROVE  Oldest(S) \in S
<1>1. PICK R : R = OpToRel(<, Nat)
  OBVIOUS
<1>2. \A a, b \in Nat : a < b => <<a, b>> \in R
  BY <1>1, Zenon DEF OpToRel
<1>3. IsWellFoundedOn(R, Nat)
  BY <1>1, NatLessThanWellFounded, Zenon
<1>4. PICK m \in S : \A k \in S : ~ (<<k, m>> \in R)
  BY <1>3, WFMin
<1>5. \A k \in S : m <= k
  <2>1. SUFFICES ASSUME NEW k \in S, k < m PROVE FALSE
    OBVIOUS
  <2>2. <<k, m>> \in R
    BY <1>2, <2>1, Zenon
  <2> QED
    BY <1>4, <2>2, Zenon
<1> QED
  BY <1>5 DEF Oldest

\* A statement changes the record of its own transaction and no other.
LEMMA BecomesOf ==
  ASSUME tx \in [Tx -> TxRecords], NEW t \in Tx, NEW x, Becomes(t, x)
  PROVE  tx'[t] = x /\ \A u \in Tx : u # t => tx'[u] = tx[u]
BY DEF Becomes

\* A statement that leaves its own transaction well typed leaves all of them so.
LEMMA BecomesTyped ==
  ASSUME tx \in [Tx -> TxRecords], \A u \in Tx : Control(tx[u]),
         NEW t \in Tx, NEW x \in TxRecords, Control(x), Becomes(t, x)
  PROVE  tx' \in [Tx -> TxRecords] /\ \A u \in Tx : Control(tx'[u])
<1> HIDE DEF Control
<1>1. tx' \in [Tx -> TxRecords]
  BY DEF Becomes
<1>2. ASSUME NEW u \in Tx PROVE Control(tx'[u])
  <2>1. CASE u = t
    BY <2>1 DEF Becomes
  <2>2. CASE u # t
    BY <2>2 DEF Becomes
  <2> QED
    BY <2>1, <2>2
<1> QED
  BY <1>1, <1>2

\* A connection with no request in flight is well typed.
LEMMA IdleTyped == Idle \in TxRecords /\ Control(Idle)
<1> USE StoreAssumption DEF Idle
<1>1. Idle \in TxRecords
  BY DEF TxRecords, OrNone
<1>2. Control(Idle)
  BY DEF Control, Steps, Resolving, Matching, Chosen, Writing, Moving, NoKeyUpdate, ForUpdate
<1> QED
  BY <1>1, <1>2

\* The types of the variables and the control state of each transaction.
Typing == TypeOK /\ \A t \in Tx : Control(tx[t])

\* fillRestaurantDetails writes a restaurant row, whose place is the stored one
\* or else the submitted one.
LEMMA FillTyped ==
  ASSUME NEW row \in Row, NEW in \in Row
  PROVE  /\ Fill(row, in) \in Row
         /\ Fill(row, in).place = Coalesce(row.place, in.place)
<1>1. /\ Coalesce(row.address, in.address) \in OrNone(Addresses)
      /\ Coalesce(row.place, in.place) \in OrNone(Places)
      /\ Coalesce(row.coords, in.coords) \in OrNone(Places)
  BY DEF Row, Coalesce
<1>2. Fill(row, in) \in Row
  BY <1>1, Zenon DEF Fill, Row
<1>3. Fill(row, in).place = Coalesce(row.place, in.place)
  BY DEF Fill, Row
<1> QED
  BY <1>2, <1>3

\* withoutPlaceDetails drops coordinates at most, never the place.
LEMMA FillInputTyped ==
  ASSUME NEW t \in Tx, tx[t].in \in Row
  PROVE  FillInput(t) \in Row /\ FillInput(t).place = tx[t].in.place
BY DEF FillInput, WithoutPlaceDetails, Row, OrNone

\* A restaurant the ledger has is a row.
LEMMA LiveRow ==
  ASSUME TypeOK, NEW r \in Restaurants, Live(r)
  PROVE  restaurants[r] \in Row
BY DEF TypeOK, Live

\* Every statement preserves the types and the control state.
LEMMA TypingStep ==
  ASSUME Typing, [Next]_vars
  PROVE  Typing'
<1> USE StoreAssumption
<1> USE DEF OrNone, Steps, Resolving, Matching, Chosen, Writing, Moving,
            NoKeyUpdate, ForUpdate
<1> SUFFICES ASSUME Next PROVE Typing'
  BY DEF Typing, TypeOK, vars
<1>0. /\ tx \in [Tx -> TxRecords]
      /\ \A u \in Tx : tx[u] \in TxRecords /\ Control(tx[u])
  BY DEF Typing, TypeOK
<1>e. ASSUME NEW t \in Tx, End(t), <<restaurants, dines, want, nextId>>' = <<restaurants, dines, want, nextId>>
      PROVE  Typing'
  BY <1>e, IdleTyped, BecomesTyped DEF Typing, TypeOK, End
<1>t. ASSUME NEW t \in Tx, NEW x \in TxRecords, Control(x), Becomes(t, x),
             <<restaurants, dines, want, nextId>>' = <<restaurants, dines, want, nextId>>
      PROVE  Typing'
  BY <1>t, BecomesTyped DEF Typing, TypeOK
<1>1. ASSUME NEW t \in Tx, ChosenExists(t) PROVE Typing'
  <2> DEFINE x == [tx[t] EXCEPT !.pc = FirstStep("create", tx[t].chosen, tx[t].in)]
  <2>1. tx[t] \in TxRecords /\ Control(tx[t]) /\ tx[t].pc = "exists"
    BY <1>1, <1>0 DEF ChosenExists, Ready
  <2>2. x.pc = IF tx[t].in.place # None THEN "lockChosen" ELSE "fill"
    BY <2>1 DEF FirstStep, Control, TxRecords
  <2>3. x.pc \in Steps
    BY <2>2
  <2>4. x \in TxRecords
    BY <2>1, <2>3, Zenon DEF TxRecords
  <2>5. Control(x)
    BY <2>1, <2>2 DEF Control, TxRecords
  <2> QED
    BY <1>1, <1>e, <1>t, <2>4, <2>5 DEF ChosenExists, tables
<1>2. ASSUME NEW t \in Tx, LockChosen(t) PROVE Typing'
  <2> DEFINE x == [tx[t] EXCEPT !.lock = ChosenLock, !.pc = "owner"]
             y == [tx[t] EXCEPT !.pc = "fill"]
  <2>1. tx[t] \in TxRecords /\ Control(tx[t]) /\ tx[t].pc = "lockChosen"
    BY <1>2, <1>0 DEF LockChosen, Ready
  <2>2. ChosenLock \in 0..4 /\ "owner" \in Steps /\ "fill" \in Steps
    BY DEF ChosenLock
  <2>a. x \in TxRecords
    BY <2>1, <2>2, Zenon DEF TxRecords
  <2>3. y \in TxRecords
    BY <2>1, <2>2 DEF TxRecords
  <2>4. Control(x) /\ Control(y)
    BY <2>1 DEF Control, TxRecords, ChosenLock
  <2> QED
    BY <1>2, <1>t, <2>a, <2>3, <2>4 DEF LockChosen, tables
<1>3. ASSUME NEW t \in Tx, CheckOwner(t) PROVE Typing'
  <2> DEFINE x == [tx[t] EXCEPT !.pc = "fill"]
  <2>1. tx[t] \in TxRecords /\ Control(tx[t]) /\ tx[t].pc = "owner"
    BY <1>3, <1>0 DEF CheckOwner, Ready
  <2>2. x \in TxRecords
    BY <2>1 DEF TxRecords
  <2>3. Control(x)
    BY <2>1 DEF Control, TxRecords
  <2> QED
    BY <1>3, <1>e, <1>t, <2>2, <2>3 DEF CheckOwner, tables
<1>f. ASSUME NEW t \in Tx, NEW S \in SUBSET Restaurants, S # {},
             tx[t].pc \in {"byPlace", "byName"}
      PROVE  /\ [tx[t] EXCEPT !.rest = Oldest(S), !.pc = "fill"] \in TxRecords
             /\ Control([tx[t] EXCEPT !.rest = Oldest(S), !.pc = "fill"])
  <2>1. Oldest(S) \in Restaurants
    <3>1. S \in SUBSET Nat
      BY DEF Restaurants
    <3> QED
      BY <1>f, <3>1, OldestIn
  <2>2. tx[t] \in TxRecords /\ Control(tx[t])
    BY <1>0
  <2>3. "fill" \in Steps
    OBVIOUS
  <2>4. [tx[t] EXCEPT !.rest = Oldest(S), !.pc = "fill"] \in TxRecords
    BY <2>1, <2>2, <2>3, Zenon DEF TxRecords
  <2>5. Oldest(S) # None
    BY <2>1 DEF Restaurants
  <2>6. Control([tx[t] EXCEPT !.rest = Oldest(S), !.pc = "fill"])
    BY <1>f, <2>2, <2>5 DEF Control, TxRecords
  <2> QED
    BY <2>4, <2>6
<1>4. ASSUME NEW t \in Tx, MatchPlace(t) PROVE Typing'
  <2> DEFINE S == Owners(tx[t].in.place)
             y == [tx[t] EXCEPT !.pc = MatchStep(tx[t].in)]
  <2>1. tx[t] \in TxRecords /\ Control(tx[t]) /\ tx[t].pc = "byPlace"
    BY <1>4, <1>0 DEF MatchPlace, Ready
  <2>2. MatchStep(tx[t].in) \in {"byName", "insert"}
    BY DEF MatchStep
  <2>3. y \in TxRecords
    BY <2>1, <2>2 DEF TxRecords
  <2>4. Control(y)
    BY <2>1, <2>2 DEF Control, TxRecords
  <2>5. S \in SUBSET Restaurants
    BY DEF Owners
  <2>6. CASE S # {}
    <3> HIDE DEF S
    <3> QED
      BY <1>4, <1>t, <1>f, <2>1, <2>5, <2>6 DEF MatchPlace, tables, S
  <2>7. CASE S = {}
    BY <1>4, <1>t, <2>3, <2>4, <2>7 DEF MatchPlace, tables
  <2> QED
    BY <2>6, <2>7
<1>5. ASSUME NEW t \in Tx, MatchName(t) PROVE Typing'
  <2> DEFINE S == Namesakes(tx[t].in)
             y == [tx[t] EXCEPT !.pc = "insert"]
  <2>1. tx[t] \in TxRecords /\ Control(tx[t]) /\ tx[t].pc = "byName"
    BY <1>5, <1>0 DEF MatchName, Ready
  <2>2. y \in TxRecords
    BY <2>1 DEF TxRecords
  <2>3. Control(y)
    BY <2>1 DEF Control, TxRecords
  <2>4. S \in SUBSET Restaurants
    BY DEF Namesakes
  <2>5. CASE S # {}
    <3> HIDE DEF S
    <3> QED
      BY <1>5, <1>t, <1>f, <2>1, <2>4, <2>5 DEF MatchName, tables, S
  <2>6. CASE S = {}
    BY <1>5, <1>t, <2>2, <2>3, <2>6 DEF MatchName, tables
  <2> QED
    BY <2>5, <2>6
<1>r. ASSUME NEW t \in Tx, NEW r \in Restaurants, NEW row \in Row, Resolved(t, r, row),
             tx[t].pc \in {"insert", "fill"}, UNCHANGED <<tables, nextId>>
      PROVE  Typing'
  <2> DEFINE k == IF tx[t].lock > NoKeyUpdate THEN tx[t].lock ELSE NoKeyUpdate
             x == [tx[t] EXCEPT !.rest = r, !.row = row, !.id = None,
                                !.lock = k, !.pc = AfterResolve(tx[t].op)]
  <2>1. tx[t] \in TxRecords /\ Control(tx[t])
    BY <1>0
  <2>2. k \in {NoKeyUpdate, ForUpdate}
    BY <1>r, <2>1 DEF Control, TxRecords
  <2>3. AfterResolve(tx[t].op) \in {"dine", "want"}
    BY DEF AfterResolve
  <2>4. x \in TxRecords
    <3>1. k \in 0..4 /\ AfterResolve(tx[t].op) \in Steps
      BY <2>2, <2>3
    <3> HIDE DEF k
    <3> DEFINE y == [tx[t] EXCEPT !.rest = r, !.row = row]
               z == [y EXCEPT !.id = None, !.lock = k, !.pc = AfterResolve(tx[t].op)]
    <3>2. y \in TxRecords
      BY <2>1, Zenon DEF TxRecords
    <3>3. z \in TxRecords
      <4> HIDE DEF y, Steps, Resolving, Writing
      <4> QED
        BY <3>1, <3>2, Zenon DEF TxRecords
    <3>4. x = z
      OBVIOUS
    <3> QED
      BY <3>3, <3>4
  <2>5. r # None /\ row # None /\ row # Gone
    BY DEF Restaurants
  <2>6. Control(x)
    <3> HIDE DEF k
    <3> QED
      BY <1>r, <2>1, <2>2, <2>5 DEF Control, TxRecords, AfterResolve
  <2>7. Becomes(t, x)
    BY <1>r, <2>1 DEF Resolved
  <2> QED
    BY <1>r, <1>t, <2>4, <2>6, <2>7 DEF tables
<1>6. ASSUME NEW t \in Tx, InsertRestaurant(t) PROVE Typing'
  <2> DEFINE owner == IF tx[t].in.place = None THEN {} ELSE Owners(tx[t].in.place)
  <2>1. tx[t] \in TxRecords /\ Control(tx[t]) /\ tx[t].pc = "insert"
    BY <1>6, <1>0 DEF InsertRestaurant, Ready
  <2>2. tx[t].in \in Row /\ tx[t].id \in Restaurants
    BY <2>1 DEF Control, TxRecords
  <2>3. CASE owner = {}
    BY <1>6, <1>r, <2>1, <2>2, <2>3 DEF InsertRestaurant
  <2>4. CASE owner # {}
    <3> DEFINE r == Oldest(owner)
    <3>1. owner \in SUBSET Restaurants /\ owner \in SUBSET Nat
      BY DEF Owners, Restaurants
    <3>2. r \in owner
      <4> HIDE DEF owner
      <4> QED
        BY <2>4, <3>1, OldestIn
    <3>3. r \in Restaurants /\ restaurants[r] \in Row
      BY <3>2, LiveRow DEF Owners, Typing
    <3>4. Fill(restaurants[r], tx[t].in) \in Row
      BY <3>3, <2>2, FillTyped
    <3>5. Resolved(t, r, Fill(restaurants[r], tx[t].in)) /\ UNCHANGED <<tables, nextId>>
      BY <1>6, <2>4 DEF InsertRestaurant
    <3> HIDE DEF r
    <3> QED
      BY <1>r, <2>1, <3>3, <3>4, <3>5
  <2> QED
    BY <2>3, <2>4
<1>7. ASSUME NEW t \in Tx, FillRestaurant(t) PROVE Typing'
  <2> DEFINE r == tx[t].rest
             x == [tx[t] EXCEPT !.id = None, !.pc = AfterResolve(tx[t].op)]
  <2>1. tx[t] \in TxRecords /\ Control(tx[t]) /\ tx[t].pc = "fill"
    BY <1>7, <1>0 DEF FillRestaurant, Ready
  <2>2. tx[t].in \in Row /\ r \in Restaurants
    BY <2>1 DEF Control, TxRecords
  <2>3. AfterResolve(tx[t].op) \in Steps
    BY DEF AfterResolve
  <2>4. x \in TxRecords
    <3> DEFINE y == [tx[t] EXCEPT !.id = None]
               pc == AfterResolve(tx[t].op)
    <3>1. pc \in Steps
      BY <2>3
    <3>2. y \in TxRecords
      BY <2>1, Zenon DEF TxRecords, OrNone
    <3>3. x = [y EXCEPT !.pc = pc]
      BY <2>1 DEF TxRecords
    <3> HIDE DEF pc, x, y, Steps
    <3>4. [y EXCEPT !.pc = pc] \in TxRecords
      BY <3>1, <3>2, Zenon DEF TxRecords
    <3> QED
      BY <3>3, <3>4
  <2>5. Control(x)
    BY <2>1 DEF Control, TxRecords, AfterResolve
  <2>6. CASE Live(r)
    <3>1. Fill(restaurants[r], FillInput(t)) \in Row
      BY <2>2, <2>6, FillTyped, FillInputTyped, LiveRow DEF Typing
    <3>2. CASE End(t)
      BY <1>7, <1>e, <3>2 DEF FillRestaurant, tables
    <3>3. CASE Resolved(t, r, Fill(restaurants[r], FillInput(t)))
      BY <1>7, <1>r, <2>1, <2>2, <3>1, <3>3 DEF FillRestaurant
    <3> QED
      BY <1>7, <2>6, <3>2, <3>3 DEF FillRestaurant
  <2>7. CASE ~Live(r)
    BY <1>7, <1>t, <2>4, <2>5, <2>7 DEF FillRestaurant, tables
  <2> QED
    BY <2>6, <2>7
<1>8. ASSUME NEW t \in Tx, InsertDine(t) PROVE Typing'
  <2> DEFINE x == [tx[t] EXCEPT !.dine = tx[t].target, !.pc = "want"]
  <2>1. tx[t] \in TxRecords /\ Control(tx[t]) /\ tx[t].pc = "dine"
    BY <1>8, <1>0 DEF InsertDine, Ready
  <2>2. "want" \in Steps
    OBVIOUS
  <2>3. x \in TxRecords
    <3> HIDE DEF Steps
    <3> QED
      BY <2>1, <2>2, Zenon DEF TxRecords
  <2>4. tx[t].row # None => Control(x)
    BY <2>1, <2>2 DEF Control, TxRecords
  <2> QED
    BY <1>8, <1>e, <1>t, <2>3, <2>4 DEF InsertDine, tables
<1>9. ASSUME NEW t \in Tx, MarkDone(t) PROVE Typing'
  <2> DEFINE w == IF want[tx[t].rest] = "open" THEN "done" ELSE None
             x == [tx[t] EXCEPT !.pc = "commit", !.want = w]
  <2>1. tx[t] \in TxRecords /\ Control(tx[t]) /\ tx[t].pc = "want" /\ tx[t].op # "save"
    BY <1>9, <1>0 DEF MarkDone, Ready
  <2>2. "commit" \in Steps /\ w \in {None, "done"}
    OBVIOUS
  <2> HIDE DEF w
  <2>3. x \in TxRecords
    <3> HIDE DEF Steps
    <3> QED
      BY <2>1, <2>2, Zenon DEF TxRecords
  <2>4. Control(x)
    BY <2>1, <2>2 DEF Control, TxRecords
  <2> QED
    BY <1>9, <1>t, <2>3, <2>4 DEF MarkDone, tables, w
<1>10. ASSUME NEW t \in Tx, UpsertWant(t) PROVE Typing'
  <2> DEFINE x == [tx[t] EXCEPT !.pc = "commit", !.want = "open"]
  <2>1. tx[t] \in TxRecords /\ Control(tx[t]) /\ tx[t].pc = "want"
    BY <1>10, <1>0 DEF UpsertWant, Ready
  <2>2. "commit" \in Steps
    OBVIOUS
  <2>3. x \in TxRecords
    <3> HIDE DEF Steps
    <3> QED
      BY <2>1, <2>2, Zenon DEF TxRecords
  <2>4. tx[t].row # None => Control(x)
    BY <2>1, <2>2 DEF Control, TxRecords
  <2> QED
    BY <1>10, <1>e, <1>t, <2>3, <2>4 DEF UpsertWant, tables
<1>11. ASSUME NEW t \in Tx, LockDine(t) PROVE Typing'
  <2> DEFINE x == [tx[t] EXCEPT !.dine = tx[t].target, !.pc = "move"]
  <2>1. tx[t] \in TxRecords /\ Control(tx[t]) /\ tx[t].pc = "lockDine"
    BY <1>11, <1>0 DEF LockDine, Ready
  <2>2. "move" \in Steps
    OBVIOUS
  <2>3. x \in TxRecords
    <3> HIDE DEF Steps
    <3> QED
      BY <2>1, <2>2, Zenon DEF TxRecords
  <2>4. Control(x)
    BY <2>1, <2>2 DEF Control, TxRecords
  <2> QED
    BY <1>11, <1>e, <1>t, <2>3, <2>4 DEF LockDine, tables
<1>12. ASSUME NEW t \in Tx, RemoveRow(t) PROVE Typing'
  <2> DEFINE x == [tx[t] EXCEPT !.lock = ForUpdate, !.row = Gone, !.pc = "cascade"]
  <2>1. tx[t] \in TxRecords /\ Control(tx[t]) /\ tx[t].pc = "remove"
    BY <1>12, <1>0 DEF RemoveRow, Ready
  <2>2. "cascade" \in Steps /\ ForUpdate \in 0..4
    OBVIOUS
  <2>3. x \in TxRecords
    <3> HIDE DEF Steps
    <3> QED
      BY <2>1, <2>2, Zenon DEF TxRecords
  <2>4. Control(x)
    BY <2>1, <2>2 DEF Control, TxRecords
  <2> QED
    BY <1>12, <1>e, <1>t, <2>3, <2>4 DEF RemoveRow, tables
<1>13. ASSUME NEW t \in Tx, MoveDine(t) PROVE Typing'
  <2> DEFINE x == [tx[t] EXCEPT !.pc = WantStep(t)]
             y == [tx[t] EXCEPT !.lock = KeyShare, !.pc = WantStep(t)]
  <2>1. tx[t] \in TxRecords /\ Control(tx[t]) /\ tx[t].pc = "move"
    BY <1>13, <1>0 DEF MoveDine, Ready
  <2>2. WantStep(t) \in {"want", "commit"} /\ WantStep(t) \in Steps /\ KeyShare \in 0..4
    BY DEF WantStep, KeyShare
  <2>3. x \in TxRecords
    BY <2>1, <2>2 DEF TxRecords
  <2>4. y \in TxRecords
    <3> HIDE DEF Steps
    <3> QED
      BY <2>1, <2>2, Zenon DEF TxRecords
  <2>5. Control(x) /\ Control(y)
    BY <2>1, <2>2 DEF Control, TxRecords, KeyShare
  <2> QED
    BY <1>13, <1>e, <1>t, <2>3, <2>4, <2>5 DEF MoveDine, tables
<1>14. ASSUME NEW t \in Tx, Cascade(t) PROVE Typing'
  <2>1. tx[t] \in TxRecords /\ Control(tx[t]) /\ tx[t].pc = "cascade"
    BY <1>14, <1>0 DEF Cascade, Ready
  <2>2. tx' \in [Tx -> TxRecords] /\ \A u \in Tx : Control(tx'[u])
    BY <1>0, <1>14, IdleTyped, BecomesTyped DEF Cascade, End
  <2>3. restaurants' \in [Restaurants -> Row \cup {None, Gone}]
    BY <1>14 DEF Cascade, Typing, TypeOK
  <2>4. dines' \in [Dines -> Restaurants \cup {None, Gone}]
    BY <1>14 DEF Cascade, Typing, TypeOK
  <2>5. want' \in [Restaurants -> {"off", "open", "done"}]
    BY <1>14 DEF Cascade, Typing, TypeOK
  <2> QED
    BY <1>14, <2>2, <2>3, <2>4, <2>5 DEF Cascade, Typing, TypeOK
<1>15. ASSUME NEW t \in Tx, WriteRefresh(t) PROVE Typing'
  <2>1. tx[t] \in TxRecords /\ Control(tx[t]) /\ tx[t].pc = "refresh"
    BY <1>15, <1>0 DEF WriteRefresh, Ready
  <2>2. tx' \in [Tx -> TxRecords] /\ \A u \in Tx : Control(tx'[u])
    BY <1>0, <1>15, IdleTyped, BecomesTyped DEF WriteRefresh, End
  <2>3. tx[t].rest \in Restaurants /\ tx[t].in.place \in OrNone(Places)
    BY <2>1 DEF Control, TxRecords, Row
  <2>4. restaurants' \in [Restaurants -> Row \cup {None, Gone}]
    <3>1. CASE UNCHANGED restaurants
      BY <3>1 DEF Typing, TypeOK
    <3>2. CASE /\ Live(tx[t].rest)
               /\ restaurants' = [restaurants EXCEPT ![tx[t].rest].coords = tx[t].in.place]
      <4>1. restaurants[tx[t].rest] \in Row
        BY <2>3, <3>2, LiveRow DEF Typing
      <4>2. [restaurants[tx[t].rest] EXCEPT !.coords = tx[t].in.place] \in Row
        BY <2>3, <4>1 DEF Row
      <4> QED
        BY <2>3, <3>2, <4>2 DEF Typing, TypeOK
    <3> QED
      BY <1>15, <3>1, <3>2 DEF WriteRefresh
  <2> QED
    BY <1>15, <2>2, <2>4 DEF WriteRefresh, Typing, TypeOK
<1>16. ASSUME NEW t \in Tx, Commit(t) PROVE Typing'
  <2>1. tx[t] \in TxRecords /\ Control(tx[t]) /\ tx[t].pc = "commit"
    BY <1>16, <1>0 DEF Commit, Ready
  <2>2. tx' \in [Tx -> TxRecords] /\ \A u \in Tx : Control(tx'[u])
    BY <1>0, <1>16, IdleTyped, BecomesTyped DEF Commit, End
  <2>3. /\ tx[t].rest \in Restaurants
        /\ tx[t].row \in Row \cup {None, Gone}
        /\ tx[t].want \in {None, "open", "done"}
    BY <2>1 DEF Control, TxRecords
  <2>4. restaurants' \in [Restaurants -> Row \cup {None, Gone}]
    BY <1>16, <2>3 DEF Commit, Typing, TypeOK
  <2>5. dines' \in [Dines -> Restaurants \cup {None, Gone}]
    BY <1>16, <2>3 DEF Commit, Typing, TypeOK
  <2>6. want' \in [Restaurants -> {"off", "open", "done"}]
    BY <1>16, <2>3 DEF Commit, Typing, TypeOK
  <2> QED
    BY <1>16, <2>2, <2>4, <2>5, <2>6 DEF Commit, Typing, TypeOK
<1>17. ASSUME NEW t \in Tx, Abort(t) PROVE Typing'
  BY <1>17, <1>e DEF Abort, tables
<1>18. ASSUME NEW t \in Tx, BeginSave(t) PROVE Typing'
  <2>1. PICK op \in {"create", "save"}, in \in Inputs :
          \E v \in Targets(op) : \/ BeginDescribed(t, op, v, in)
                                 \/ \E r \in Known : BeginChosen(t, op, v, r, in)
    BY <1>18 DEF BeginSave
  <2>2. PICK v \in Targets(op) : \/ BeginDescribed(t, op, v, in)
                                 \/ \E r \in Known : BeginChosen(t, op, v, r, in)
    BY <2>1
  <2>3. in \in Row /\ v \in OrNone(Dines) /\ (op = "create" => v # None)
    BY <2>1, <2>2 DEF Targets, StoreAssumption
  <2>4. CASE BeginDescribed(t, op, v, in)
    <3> DEFINE pc == FirstStep(op, None, in)
               x == [Idle EXCEPT !.op = op, !.target = v, !.in = in, !.id = nextId, !.pc = pc]
    <3>1. pc = IF in.place # None THEN "byPlace" ELSE MatchStep(in)
      BY DEF FirstStep
    <3>2. pc \in Matching /\ (pc = "byPlace" => in.place # None)
      BY <3>1 DEF MatchStep
    <3>3. nextId \in Restaurants /\ nextId' \in 1..(MaxRestaurants + 1)
      BY <2>4 DEF BeginDescribed, Typing, TypeOK, Restaurants
    <3>4. Becomes(t, x)
      BY <2>4 DEF BeginDescribed
    <3> HIDE DEF pc
    <3>5. x \in TxRecords
      <4>1. pc \in Steps
        BY <3>2
      <4> HIDE DEF Steps
      <4> QED
        BY <2>3, <3>3, <4>1, IdleTyped, Zenon DEF TxRecords
    <3>6. nextId # None
      BY <3>3 DEF Restaurants
    <3>7. Control(x)
      BY <2>3, <3>2, <3>6 DEF Control, Idle
    <3>8. tx' \in [Tx -> TxRecords] /\ \A u \in Tx : Control(tx'[u])
      <4> HIDE DEF x
      <4> QED
        BY <1>0, <3>4, <3>5, <3>7, BecomesTyped
    <3> QED
      BY <2>4, <3>3, <3>8 DEF BeginDescribed, Typing, TypeOK, tables
  <2>5. CASE \E r \in Known : BeginChosen(t, op, v, r, in)
    <3>1. PICK r \in Known : BeginChosen(t, op, v, r, in)
      BY <2>5
    <3> DEFINE pc == FirstStep(op, r, in)
               y == [Idle EXCEPT !.op = op, !.target = v, !.chosen = r]
               x == [Idle EXCEPT !.op = op, !.target = v, !.chosen = r, !.in = in,
                                 !.rest = r, !.pc = pc]
    <3>2. r \in Restaurants /\ r # None
      BY DEF Known, Restaurants
    <3>3. pc \in {"exists", "lockChosen", "fill"} /\ (pc = "lockChosen" => in.place # None)
      BY <3>2 DEF FirstStep
    <3>4. Becomes(t, x)
      BY <3>1 DEF BeginChosen
    <3> HIDE DEF pc
    <3>5. x \in TxRecords
      <4>1. pc \in Steps
        BY <3>3
      <4>2. y \in TxRecords
        BY <2>3, <3>2, IdleTyped, Zenon DEF TxRecords
      <4>3. [y EXCEPT !.in = in, !.rest = r, !.pc = pc] \in TxRecords
        <5> HIDE DEF Steps, y
        <5> QED
          BY <2>3, <3>2, <4>1, <4>2, Zenon DEF TxRecords
      <4> QED
        BY <4>3
    <3>6. Control(x)
      BY <2>3, <3>2, <3>3 DEF Control, Idle
    <3> HIDE DEF x
    <3> QED
      BY <1>t, <3>1, <3>4, <3>5, <3>6 DEF BeginChosen, tables
  <2> QED
    BY <2>2, <2>4, <2>5
<1>19. ASSUME NEW t \in Tx, NEW v \in Dines, NEW r \in Known, BeginUpdate(t, v, r) PROVE Typing'
  <2> DEFINE x == [Idle EXCEPT !.op = "update", !.target = v, !.rest = r, !.pc = "lockDine"]
  <2>1. r \in Restaurants /\ r # None /\ v # None
    BY DEF Known, Restaurants
  <2>2. Becomes(t, x)
    BY <1>19 DEF BeginUpdate
  <2>3. x \in TxRecords
    BY <2>1, IdleTyped, Zenon DEF TxRecords
  <2>4. Control(x)
    BY <2>1 DEF Control, Idle
  <2> HIDE DEF x
  <2> QED
    BY <1>19, <1>t, <2>2, <2>3, <2>4 DEF BeginUpdate, tables
<1>20. ASSUME NEW t \in Tx, NEW r \in Restaurants, BeginDelete(t, r) PROVE Typing'
  <2> DEFINE x == [Idle EXCEPT !.op = "delete", !.rest = r, !.pc = "remove"]
  <2>1. r # None
    BY DEF Restaurants
  <2>2. Becomes(t, x)
    BY <1>20 DEF BeginDelete
  <2>3. x \in TxRecords
    BY IdleTyped, Zenon DEF TxRecords
  <2>4. Control(x)
    BY <2>1 DEF Control, Idle
  <2> HIDE DEF x
  <2> QED
    BY <1>20, <1>t, <2>2, <2>3, <2>4 DEF BeginDelete, tables
<1>21. ASSUME NEW t \in Tx, NEW r \in Restaurants, BeginRefresh(t, r) PROVE Typing'
  <2> DEFINE x == [Idle EXCEPT !.op = "refresh", !.rest = r, !.in = restaurants[r],
                               !.pc = "refresh"]
  <2>1. r # None /\ restaurants[r] \in Row
    BY <1>21, LiveRow DEF Restaurants, BeginRefresh, Typing
  <2>2. Becomes(t, x)
    BY <1>21 DEF BeginRefresh
  <2>3. x \in TxRecords
    BY <2>1, IdleTyped, Zenon DEF TxRecords
  <2>4. Control(x)
    BY <2>1 DEF Control, Idle
  <2> HIDE DEF x
  <2> QED
    BY <1>21, <1>t, <2>2, <2>3, <2>4 DEF BeginRefresh, tables
<1>22. ASSUME NEW v \in Dines, DeleteDine(v) PROVE Typing'
  BY <1>22 DEF DeleteDine, Typing, TypeOK
<1>23. ASSUME NEW r \in Restaurants, DeleteWantToTry(r) PROVE Typing'
  BY <1>23 DEF DeleteWantToTry, Typing, TypeOK
<1>24. ASSUME NEW r \in Restaurants, NEW n \in Names, NEW a \in OrNone(Addresses),
              EditRestaurant(r, n, a)
       PROVE  Typing'
  <2>1. restaurants[r] \in Row
    BY <1>24, LiveRow DEF EditRestaurant, Typing
  <2>2. [[restaurants[r] EXCEPT !.name = n] EXCEPT !.address = a] \in Row
    BY <2>1, Zenon DEF Row
  <2>3. restaurants' \in [Restaurants -> Row \cup {None, Gone}]
    BY <1>24, <2>2 DEF EditRestaurant, Typing, TypeOK
  <2> QED
    BY <1>24, <2>3 DEF EditRestaurant, Typing, TypeOK
<1> QED
  BY <1>1, <1>2, <1>3, <1>4, <1>5, <1>6, <1>7, <1>8, <1>9, <1>10, <1>11, <1>12, <1>13,
     <1>14, <1>15, <1>16, <1>17, <1>18, <1>19, <1>20, <1>21, <1>22, <1>23, <1>24
  DEF Next, Step, Begin

\* The empty ledger is well typed.
LEMMA InitTyping == Init => Typing
<1>1. ASSUME Init PROVE TypeOK
  BY <1>1, StoreAssumption, IdleTyped DEF Init, TypeOK, Restaurants
<1>2. ASSUME Init, NEW t \in Tx PROVE Control(tx[t])
  BY <1>2, IdleTyped DEF Init
<1> QED
  BY <1>1, <1>2 DEF Typing

\* Every variable keeps its type: what each field of a transaction holds
\* follows from the statement it is at (Control).
THEOREM TypeCorrect == Spec => []TypeOK
<1>1. Typing => TypeOK
  BY DEF Typing
<1> QED
  BY <1>1, InitTyping, TypingStep, PTL DEF Spec

\* UpdateRestaurant leaves the place ID alone and creates no row.
LEMMA EditFields ==
  ASSUME Typing, NEW r \in Restaurants, NEW n \in Names, NEW a \in OrNone(Addresses),
         EditRestaurant(r, n, a)
  PROVE  /\ restaurants[r] \in Row /\ restaurants'[r] \in Row
         /\ restaurants'[r].place = restaurants[r].place
         /\ \A s \in Restaurants : s # r => restaurants'[s] = restaurants[s]
<1> DEFINE row == [[restaurants[r] EXCEPT !.name = n] EXCEPT !.address = a]
<1>1. restaurants[r] \in Row
  BY LiveRow DEF EditRestaurant, Typing
<1>2. row \in Row
  BY <1>1, Zenon DEF Row
<1>3. row.place = restaurants[r].place
  BY <1>1 DEF Row
<1>4. restaurants' = [restaurants EXCEPT ![r] = row]
  BY <1>1 DEF EditRestaurant
<1> QED
  BY <1>1, <1>2, <1>3, <1>4 DEF Typing, TypeOK

\* A refresh that writes changes the coordinates of its restaurant only.
LEMMA RefreshFields ==
  ASSUME Typing, NEW t \in Tx, WriteRefresh(t)
  PROVE  /\ tx[t].rest \in Restaurants
         /\ \/ UNCHANGED restaurants
            \/ /\ restaurants[tx[t].rest] \in Row /\ restaurants'[tx[t].rest] \in Row
               /\ restaurants'[tx[t].rest].place = restaurants[tx[t].rest].place
               /\ \A s \in Restaurants : s # tx[t].rest => restaurants'[s] = restaurants[s]
<1> DEFINE r == tx[t].rest
           row == [restaurants[r] EXCEPT !.coords = tx[t].in.place]
<1>1. tx[t] \in TxRecords /\ Control(tx[t]) /\ tx[t].pc = "refresh"
  BY DEF WriteRefresh, Ready, Typing, TypeOK
<1>2. r \in Restaurants /\ tx[t].in.place \in OrNone(Places)
  BY <1>1 DEF Control, TxRecords, Row, OrNone, Steps, Matching
<1>3. CASE Live(r) /\ restaurants' = [restaurants EXCEPT ![r].coords = tx[t].in.place]
  <2>1. restaurants[r] \in Row
    BY <1>2, <1>3, LiveRow DEF Typing
  <2>2. row \in Row /\ row.place = restaurants[r].place
    BY <1>2, <2>1 DEF Row
  <2>3. restaurants' = [restaurants EXCEPT ![r] = row]
    BY <1>3
  <2> QED
    BY <1>2, <2>1, <2>2, <2>3 DEF Typing, TypeOK
<1> QED
  BY <1>2, <1>3 DEF WriteRefresh

\* A request begins with no lock and nothing written.
LEMMA BeginFields ==
  ASSUME Typing, NEW t \in Tx, Begin(t)
  PROVE  /\ UNCHANGED tables
         /\ Becomes(t, tx'[t])
         /\ tx'[t].lock = 0 /\ tx'[t].row = None /\ tx'[t].dine = None /\ tx'[t].want = None
         /\ \A u \in Tx : u # t => tx'[u] = tx[u]
<1> USE DEF Typing, TypeOK, Becomes, Idle
<1>1. CASE \E op \in {"create", "save"}, in \in Inputs : \E v \in Targets(op) :
             BeginDescribed(t, op, v, in)
  BY <1>1 DEF BeginDescribed
<1>2. CASE \E op \in {"create", "save"}, in \in Inputs : \E v \in Targets(op), r \in Known :
             BeginChosen(t, op, v, r, in)
  BY <1>2 DEF BeginChosen
<1>3. CASE \E v \in Dines, r \in Known : BeginUpdate(t, v, r)
  BY <1>3 DEF BeginUpdate
<1>4. CASE \E r \in Restaurants : BeginDelete(t, r)
  BY <1>4 DEF BeginDelete
<1>5. CASE \E r \in Restaurants : BeginRefresh(t, r)
  BY <1>5 DEF BeginRefresh
<1> QED
  BY <1>1, <1>2, <1>3, <1>4, <1>5 DEF Begin, BeginSave

\* A resolved restaurant is locked for update and its row is written.
LEMMA ResolvedFields ==
  ASSUME Typing, NEW t \in Tx, NEW r, NEW row, Resolved(t, r, row)
  PROVE  /\ tx'[t].rest = r /\ tx'[t].row = row /\ tx'[t].id = None
         /\ tx'[t].lock = IF tx[t].lock > NoKeyUpdate THEN tx[t].lock ELSE NoKeyUpdate
         /\ tx'[t].pc = AfterResolve(tx[t].op)
         /\ tx'[t].op = tx[t].op /\ tx'[t].target = tx[t].target
         /\ tx'[t].dine = tx[t].dine /\ tx'[t].want = tx[t].want
         /\ Becomes(t, tx'[t])
         /\ \A u \in Tx : u # t => tx'[u] = tx[u]
<1>1. Becomes(t, tx'[t])
  BY DEF Typing, TypeOK, Resolved, Becomes
<1> QED
  BY <1>1 DEF Typing, TypeOK, TxRecords, Resolved, Becomes

\* A request that inserts a restaurant ends up with a new row or with the row
\* that already has the place.
LEMMA InsertResolves ==
  ASSUME Typing, NEW t \in Tx, InsertRestaurant(t)
  PROVE  /\ tx[t].in \in Row /\ tx[t].id \in Restaurants
         /\ \/ /\ Resolved(t, tx[t].id, tx[t].in)
               /\ tx[t].in.place # None => Owners(tx[t].in.place) = {}
            \/ \E r \in Owners(tx[t].in.place) :
                  /\ Resolved(t, r, Fill(restaurants[r], tx[t].in))
                  /\ tx[t].in.place # None
<1> DEFINE owner == IF tx[t].in.place = None THEN {} ELSE Owners(tx[t].in.place)
<1>1. tx[t] \in TxRecords /\ Control(tx[t]) /\ tx[t].pc = "insert"
  BY DEF InsertRestaurant, Ready, Typing, TypeOK
<1>2. tx[t].in \in Row /\ tx[t].id \in Restaurants
  BY <1>1 DEF Control, TxRecords, Resolving, Matching, OrNone
<1>3. CASE owner = {}
  BY <1>2, <1>3 DEF InsertRestaurant
<1>4. CASE owner # {}
  <2> DEFINE r == Oldest(owner)
  <2>1. owner \in SUBSET Nat
    BY StoreAssumption DEF Owners, Restaurants
  <2>2. r \in owner
    <3> HIDE DEF owner
    <3> QED
      BY <1>4, <2>1, OldestIn
  <2>3. Resolved(t, r, Fill(restaurants[r], tx[t].in))
    BY <1>4 DEF InsertRestaurant
  <2> HIDE DEF r
  <2> QED
    BY <1>2, <2>2, <2>3
<1> QED
  BY <1>3, <1>4

\* No statement lets two requests insert a restaurant under one id.
LEMMA FreshIdsStep ==
  ASSUME Typing, Typing', FreshIds, [Next]_vars
  PROVE  FreshIds'
<1> USE StoreAssumption DEF Restaurants, tables
<1> SUFFICES ASSUME Next PROVE FreshIds'
  BY DEF FreshIds, vars
<1>0. /\ tx \in [Tx -> TxRecords]
      /\ \A u \in Tx : tx[u] \in TxRecords /\ Control(tx[u])
      /\ restaurants \in [Restaurants -> Row \cup {None, Gone}]
      /\ nextId \in Nat
  BY DEF Typing, TypeOK
<1>t. ASSUME NEW t \in Tx, NEW x, Becomes(t, x), UNCHANGED <<tables, nextId>>,
             x.id \in {None, tx[t].id},
             \/ x.rest \in {None, tx[t].rest}
             \/ x.rest \in Restaurants /\ restaurants[x.rest] # None
             \/ x.rest = tx[t].id /\ x.id = None
      PROVE  FreshIds'
  <2>1. tx'[t] = x /\ \A u \in Tx : u # t => tx'[u] = tx[u]
    BY <1>0, <1>t, BecomesOf
  <2>2. \A u \in Tx : tx'[u].rest # None => tx'[u].rest < nextId
    BY <1>0, <1>t, <2>1 DEF FreshIds
  <2>3. ASSUME NEW u \in Tx, tx'[u].id # None
        PROVE  /\ tx'[u].id = tx[u].id
               /\ \A v \in Tx : tx'[v].rest # tx'[u].id /\ (v # u => tx'[v].id # tx'[u].id)
    BY <1>0, <1>t, <2>1, <2>3 DEF FreshIds
  <2> QED
    BY <1>t, <2>2, <2>3 DEF FreshIds
<1>e. ASSUME NEW t \in Tx, End(t), nextId' = nextId,
             \A r \in Restaurants : restaurants'[r] # None =>
                restaurants[r] # None \/ (r = tx[t].rest /\ tx[t].rest # None)
      PROVE  FreshIds'
  <2>1. tx'[t] = Idle /\ \A u \in Tx : u # t => tx'[u] = tx[u]
    BY <1>0, <1>e, BecomesOf DEF End
  <2>2. \A r \in Restaurants : restaurants'[r] # None => r < nextId
    BY <1>0, <1>e DEF FreshIds
  <2>3. \A u \in Tx : tx'[u].rest # None => tx'[u].rest < nextId
    BY <1>0, <1>e, <2>1 DEF FreshIds, Idle
  <2>4. ASSUME NEW u \in Tx, tx'[u].id # None
        PROVE  /\ u # t /\ tx'[u].id = tx[u].id /\ tx[u].id \in Restaurants
               /\ \A v \in Tx : tx'[v].rest # tx'[u].id /\ (v # u => tx'[v].id # tx'[u].id)
    <3>1. u # t /\ tx'[u] = tx[u]
      BY <2>1, <2>4 DEF Idle
    <3>2. tx[u].id \in Restaurants
      BY <1>0, <2>4, <3>1 DEF TxRecords, OrNone
    <3> QED
      BY <1>0, <2>1, <2>4, <3>1, <3>2 DEF FreshIds, Idle
  <2>5. ASSUME NEW u \in Tx, tx'[u].id # None
        PROVE  restaurants'[tx'[u].id] = None
    BY <1>e, <2>4, <2>5 DEF FreshIds
  <2> QED
    BY <1>e, <2>2, <2>3, <2>4, <2>5 DEF FreshIds
<1>f. ASSUME NEW S \in SUBSET Restaurants, S # {}
      PROVE  Oldest(S) \in S
  <2>1. S \in SUBSET Nat
    OBVIOUS
  <2> QED
    BY <1>f, <2>1, OldestIn
<1>1. ASSUME NEW t \in Tx, ChosenExists(t) PROVE FreshIds'
  BY <1>1, <1>0, <1>t, <1>e DEF ChosenExists, TxRecords
<1>2. ASSUME NEW t \in Tx, LockChosen(t) PROVE FreshIds'
  BY <1>2, <1>0, <1>t DEF LockChosen, TxRecords
<1>3. ASSUME NEW t \in Tx, CheckOwner(t) PROVE FreshIds'
  BY <1>3, <1>0, <1>t, <1>e DEF CheckOwner, TxRecords
<1>4. ASSUME NEW t \in Tx, InsertDine(t) PROVE FreshIds'
  BY <1>4, <1>0, <1>t, <1>e DEF InsertDine, TxRecords
<1>5. ASSUME NEW t \in Tx, MarkDone(t) PROVE FreshIds'
  BY <1>5, <1>0, <1>t DEF MarkDone, TxRecords
<1>6. ASSUME NEW t \in Tx, UpsertWant(t) PROVE FreshIds'
  BY <1>6, <1>0, <1>t, <1>e DEF UpsertWant, TxRecords
<1>7. ASSUME NEW t \in Tx, LockDine(t) PROVE FreshIds'
  BY <1>7, <1>0, <1>t, <1>e DEF LockDine, TxRecords
<1>8. ASSUME NEW t \in Tx, MoveDine(t) PROVE FreshIds'
  BY <1>8, <1>0, <1>t, <1>e DEF MoveDine, TxRecords
<1>9. ASSUME NEW t \in Tx, RemoveRow(t) PROVE FreshIds'
  BY <1>9, <1>0, <1>t, <1>e DEF RemoveRow, TxRecords
<1>10. ASSUME NEW t \in Tx, Cascade(t) PROVE FreshIds'
  BY <1>10, <1>0, <1>t, <1>e DEF Cascade, TxRecords, Ready, Control
<1>11. ASSUME NEW t \in Tx, WriteRefresh(t) PROVE FreshIds'
  BY <1>11, <1>0, <1>t, <1>e DEF WriteRefresh, TxRecords, Ready, Control
<1>12. ASSUME NEW t \in Tx, Commit(t) PROVE FreshIds'
  BY <1>12, <1>0, <1>t, <1>e DEF Commit, TxRecords, Ready, Control
<1>13. ASSUME NEW t \in Tx, Abort(t) PROVE FreshIds'
  BY <1>13, <1>0, <1>t, <1>e DEF Abort, TxRecords
<1>14. ASSUME NEW t \in Tx, MatchPlace(t) PROVE FreshIds'
  <2> DEFINE S == Owners(tx[t].in.place)
  <2>1. S \in SUBSET Restaurants /\ \A r \in S : restaurants[r] # None
    BY DEF Owners, Live
  <2>2. S # {} => Oldest(S) \in S
    BY <1>f, <2>1
  <2> HIDE DEF S
  <2> QED
    BY <1>14, <1>0, <1>t, <2>1, <2>2 DEF MatchPlace, TxRecords, S
<1>15. ASSUME NEW t \in Tx, MatchName(t) PROVE FreshIds'
  <2> DEFINE S == Namesakes(tx[t].in)
  <2>1. S \in SUBSET Restaurants /\ \A r \in S : restaurants[r] # None
    BY DEF Namesakes, Live
  <2>2. S # {} => Oldest(S) \in S
    BY <1>f, <2>1
  <2> HIDE DEF S
  <2> QED
    BY <1>15, <1>0, <1>t, <2>1, <2>2 DEF MatchName, TxRecords, S
<1>16. ASSUME NEW t \in Tx, InsertRestaurant(t) PROVE FreshIds'
  <2>1. UNCHANGED <<tables, nextId>> /\ \A u \in Tx : u # t => tx'[u] = tx[u]
    BY <1>16, InsertResolves, ResolvedFields DEF InsertRestaurant
  <2>2. \/ tx'[t].id = None /\ tx'[t].rest = tx[t].id
        \/ tx'[t].id = None /\ tx'[t].rest \in Restaurants /\ restaurants[tx'[t].rest] # None
    BY <1>16, InsertResolves, ResolvedFields DEF Owners, Live
  <2>3. Becomes(t, tx'[t])
    BY <1>16, InsertResolves, ResolvedFields
  <2> DEFINE x == tx'[t]
  <2>4. Becomes(t, x) /\ x.id = None /\ \/ x.rest = tx[t].id
                                        \/ x.rest \in Restaurants /\ restaurants[x.rest] # None
    BY <2>2, <2>3
  <2> HIDE DEF x
  <2> QED
    BY <1>t, <2>1, <2>4
<1>17. ASSUME NEW t \in Tx, FillRestaurant(t) PROVE FreshIds'
  BY <1>17, <1>0, <1>t, <1>e DEF FillRestaurant, Resolved, TxRecords
<1>18. ASSUME NEW t \in Tx, BeginSave(t) PROVE FreshIds'
  <2>1. PICK op \in {"create", "save"}, in \in Inputs : \E v \in Targets(op) :
          \/ BeginDescribed(t, op, v, in)
          \/ \E r \in Known : BeginChosen(t, op, v, r, in)
    BY <1>18 DEF BeginSave
  <2>2. CASE \E v \in Targets(op), r \in Known : BeginChosen(t, op, v, r, in)
    BY <1>t, <2>2 DEF BeginChosen, Known, Idle
  <2>3. CASE \E v \in Targets(op) : BeginDescribed(t, op, v, in)
    <3>1. PICK v \in Targets(op) : BeginDescribed(t, op, v, in)
      BY <2>3
    <3>2. /\ tx'[t].id = nextId /\ tx'[t].rest = None
          /\ nextId \in Restaurants /\ nextId' = nextId + 1 /\ restaurants' = restaurants
          /\ \A u \in Tx : u # t => tx'[u] = tx[u]
      BY <1>0, <3>1 DEF BeginDescribed, Becomes, Idle, Typing, TypeOK
    <3>3. \A u \in Tx : /\ tx[u].rest # nextId /\ tx[u].id # nextId
                        /\ tx'[u].rest # None => tx'[u].rest < nextId
      BY <1>0, <3>2 DEF FreshIds
    <3>4. restaurants[nextId] = None
      BY <1>0, <3>2 DEF FreshIds
    <3>5. \A r \in Restaurants : restaurants'[r] # None => r < nextId'
      BY <1>0, <3>2 DEF FreshIds
    <3>6. \A u \in Tx : tx'[u].rest # None => tx'[u].rest < nextId'
      <4>1. tx' \in [Tx -> TxRecords]
        BY DEF Typing, TypeOK
      <4>2. \A u \in Tx : tx'[u].rest # None => tx'[u].rest \in Nat
        BY <4>1 DEF TxRecords, OrNone
      <4> QED
        BY <1>0, <3>2, <3>3, <4>2
    <3>7. ASSUME NEW u \in Tx, tx'[u].id # None
          PROVE  /\ tx'[u].id < nextId'
                 /\ restaurants'[tx'[u].id] = None
                 /\ \A w \in Tx : tx'[w].rest # tx'[u].id /\ (w # u => tx'[w].id # tx'[u].id)
      <4>1. CASE u = t
        <5>1. nextId # None
          BY <3>2
        <5> QED
          BY <1>0, <3>2, <3>3, <3>4, <4>1, <5>1
      <4>2. CASE u # t
        <5>1. tx'[u] = tx[u] /\ tx[u].id \in Restaurants
          BY <1>0, <3>2, <3>7, <4>2 DEF TxRecords, OrNone
        <5> QED
          BY <1>0, <3>2, <3>3, <3>7, <5>1 DEF FreshIds
      <4> QED
        BY <4>1, <4>2
    <3> QED
      BY <3>5, <3>6, <3>7 DEF FreshIds
  <2> QED
    BY <2>1, <2>2, <2>3
<1>19. ASSUME NEW t \in Tx, NEW v \in Dines, NEW r \in Known, BeginUpdate(t, v, r) PROVE FreshIds'
  BY <1>19, <1>t DEF BeginUpdate, Known, Idle
<1>20. ASSUME NEW t \in Tx, NEW r \in Restaurants, BeginDelete(t, r) PROVE FreshIds'
  BY <1>20, <1>t DEF BeginDelete, Live, Idle
<1>21. ASSUME NEW t \in Tx, NEW r \in Restaurants, BeginRefresh(t, r) PROVE FreshIds'
  BY <1>21, <1>t DEF BeginRefresh, Live, Idle
<1>22. ASSUME NEW v \in Dines, DeleteDine(v) PROVE FreshIds'
  BY <1>22 DEF DeleteDine, FreshIds
<1>23. ASSUME NEW r \in Restaurants, DeleteWantToTry(r) PROVE FreshIds'
  BY <1>23 DEF DeleteWantToTry, FreshIds
<1>24. ASSUME NEW r \in Restaurants, NEW n \in Names, NEW a \in OrNone(Addresses),
              EditRestaurant(r, n, a)
       PROVE  FreshIds'
  <2>1. \A s \in Restaurants : restaurants'[s] = None <=> restaurants[s] = None
    BY <1>24, EditFields
  <2> QED
    BY <1>24, <1>0, <2>1 DEF EditRestaurant, FreshIds, TxRecords, OrNone
<1> QED
  BY <1>1, <1>2, <1>3, <1>4, <1>5, <1>6, <1>7, <1>8, <1>9, <1>10, <1>11, <1>12, <1>13,
     <1>14, <1>15, <1>16, <1>17, <1>18, <1>19, <1>20, <1>21, <1>22, <1>23, <1>24
  DEF Next, Step, Begin

-----------------------------------------------------------------------------
(* Locks *)

\* A statement that runs does not wait for anybody.
LEMMA Unblocked ==
  ASSUME NEW t \in Tx, NEW pc, Ready(t, pc)
  PROVE  /\ tx[t].pc = pc
         /\ \A u \in Tx : u # t => /\ ~RowBlocks(u, t) /\ ~IndexBlocks(u, t)
                                   /\ ~DineBlocks(u, t) /\ ~WantBlocks(u, t)
BY DEF Ready, Blockers

\* A statement that takes a row lock excludes nobody who holds one already.
LEMMA LocksExcludeStep ==
  ASSUME Typing, FreshIds, LocksExclude, [Next]_vars
  PROVE  LocksExclude'
<1> USE StoreAssumption DEF tables, Conflict, KeyShare, NoKeyUpdate, ForUpdate
<1> SUFFICES ASSUME Next PROVE LocksExclude'
  BY DEF LocksExclude, vars
<1>0. /\ tx \in [Tx -> TxRecords]
      /\ \A u \in Tx : tx[u] \in TxRecords /\ Control(tx[u]) /\ tx[u].lock \in 0..4
  BY DEF Typing, TypeOK, TxRecords
<1>t. ASSUME NEW t \in Tx, NEW x, Becomes(t, x),
             \A u \in Tx : u # t /\ tx[u].rest = x.rest => ~Conflict(tx[u].lock, x.lock),
             x.lock \in 0..4
      PROVE  LocksExclude'
  BY <1>0, <1>t, BecomesOf DEF LocksExclude
<1>s. ASSUME NEW t \in Tx, NEW x, Becomes(t, x),
             x.lock = 0 \/ (x.lock = tx[t].lock /\ x.rest = tx[t].rest)
      PROVE  LocksExclude'
  BY <1>0, <1>s, <1>t DEF LocksExclude
<1>e. ASSUME NEW t \in Tx, End(t) PROVE LocksExclude'
  BY <1>e, <1>s DEF End, Idle
<1>1. ASSUME NEW t \in Tx, ChosenExists(t) PROVE LocksExclude'
  BY <1>0, <1>1, <1>s, <1>e DEF ChosenExists, TxRecords
<1>2. ASSUME NEW t \in Tx, LockChosen(t) PROVE LocksExclude'
  <2>1. CASE Becomes(t, [tx[t] EXCEPT !.pc = "fill"])
    BY <1>0, <2>1, <1>s DEF TxRecords
  <2>2. CASE Becomes(t, [tx[t] EXCEPT !.lock = ChosenLock, !.pc = "owner"])
    <3>1. \A u \in Tx : u # t /\ tx[u].rest = tx[t].rest => ~Conflict(tx[u].lock, ChosenLock)
      BY <1>2, Unblocked DEF LockChosen, RowBlocks, AskedLock, AskedRows
    <3> DEFINE x == [tx[t] EXCEPT !.lock = ChosenLock, !.pc = "owner"]
    <3>2. x.lock = ChosenLock /\ x.rest = tx[t].rest /\ ChosenLock \in 0..4
      BY <1>0 DEF TxRecords, ChosenLock
    <3>3. Becomes(t, x)
      BY <2>2
    <3> HIDE DEF x
    <3> QED
      BY <1>t, <3>1, <3>2, <3>3
  <2> QED
    BY <1>2, <2>1, <2>2 DEF LockChosen
<1>3. ASSUME NEW t \in Tx, CheckOwner(t) PROVE LocksExclude'
  BY <1>0, <1>3, <1>s, <1>e DEF CheckOwner, TxRecords
<1>4. ASSUME NEW t \in Tx, MatchPlace(t) \/ MatchName(t) PROVE LocksExclude'
  <2>1. tx[t].lock = 0
    BY <1>0, <1>4 DEF MatchPlace, MatchName, Ready, Control, Writing
  <2> QED
    BY <1>0, <1>4, <1>s, <2>1 DEF MatchPlace, MatchName, TxRecords
<1>5. ASSUME NEW t \in Tx, InsertRestaurant(t) PROVE LocksExclude'
  <2>1. tx[t].lock = 0 /\ tx[t].pc = "insert"
    BY <1>0, <1>5 DEF InsertRestaurant, Ready, Control, Writing
  <2>2. ASSUME NEW r, NEW row, Resolved(t, r, row),
               \A u \in Tx : u # t /\ tx[u].rest = r => ~Conflict(tx[u].lock, NoKeyUpdate)
        PROVE  LocksExclude'
    <3>1. tx'[t].lock = NoKeyUpdate /\ tx'[t].rest = r
      BY <2>1, <2>2, ResolvedFields
    <3>2. Becomes(t, tx'[t])
      BY <1>0, <2>2 DEF Resolved, Becomes
    <3> QED
      BY <1>t, <2>2, <3>1, <3>2
  <2>3. CASE Resolved(t, tx[t].id, tx[t].in)
    <3>1. \A u \in Tx : tx[u].rest # tx[t].id
      BY <1>0, <1>5, InsertResolves DEF FreshIds, Restaurants
    <3> QED
      BY <2>2, <2>3, <3>1
  <2>4. ASSUME NEW r \in Owners(tx[t].in.place), tx[t].in.place # None,
               Resolved(t, r, Fill(restaurants[r], tx[t].in))
        PROVE  LocksExclude'
    <3>1. \A u \in Tx : u # t /\ tx[u].rest = r => ~Conflict(tx[u].lock, NoKeyUpdate)
      <4>1. AskedLock(t) = NoKeyUpdate /\ r \in AskedRows(t)
        BY <2>1, <2>4 DEF AskedLock, AskedRows
      <4>2. \A u \in Tx : u # t => ~RowBlocks(u, t)
        BY <1>5, Unblocked DEF InsertRestaurant
      <4> QED
        BY <4>1, <4>2 DEF RowBlocks
    <3> QED
      BY <2>2, <2>4, <3>1
  <2> QED
    BY <1>5, <2>3, <2>4, InsertResolves
<1>6. ASSUME NEW t \in Tx, FillRestaurant(t) PROVE LocksExclude'
  <2>1. tx[t].pc = "fill" /\ tx[t].lock \in {0, ForUpdate}
    BY <1>0, <1>6 DEF FillRestaurant, Ready, Control
  <2>2. \A u \in Tx : u # t /\ tx[u].rest = tx[t].rest => ~Conflict(tx[u].lock, NoKeyUpdate)
    BY <1>6, <2>1, Unblocked DEF FillRestaurant, RowBlocks, AskedLock, AskedRows
  <2>3. \A u \in Tx : u # t /\ tx[u].rest = tx[t].rest => ~Conflict(tx[u].lock, tx[t].lock)
    BY <1>0 DEF LocksExclude
  <2>4. ASSUME NEW row, Resolved(t, tx[t].rest, row) PROVE LocksExclude'
    <3>1. tx'[t].lock \in {NoKeyUpdate, tx[t].lock} /\ tx'[t].rest = tx[t].rest
      BY <2>4, ResolvedFields
    <3>2. Becomes(t, tx'[t])
      BY <1>0, <2>4 DEF Resolved, Becomes
    <3> QED
      BY <1>0, <1>t, <2>2, <2>3, <3>1, <3>2
  <2> QED
    BY <1>0, <1>6, <1>e, <1>s, <2>4 DEF FillRestaurant, TxRecords
<1>7. ASSUME NEW t \in Tx, InsertDine(t) \/ MarkDone(t) \/ UpsertWant(t) \/ LockDine(t)
      PROVE  LocksExclude'
  BY <1>0, <1>7, <1>s, <1>e DEF InsertDine, MarkDone, UpsertWant, LockDine, TxRecords
<1>8. ASSUME NEW t \in Tx, MoveDine(t) PROVE LocksExclude'
  <2>1. CASE Becomes(t, [tx[t] EXCEPT !.pc = WantStep(t)])
    BY <1>0, <2>1, <1>s DEF TxRecords
  <2>2. CASE /\ dines[tx[t].dine] # tx[t].rest
             /\ Becomes(t, [tx[t] EXCEPT !.lock = KeyShare, !.pc = WantStep(t)])
    <3>1. \A u \in Tx : u # t /\ tx[u].rest = tx[t].rest => ~Conflict(tx[u].lock, KeyShare)
      <4>1. AskedLock(t) = KeyShare /\ AskedRows(t) = {tx[t].rest}
        BY <1>8, <2>2 DEF MoveDine, Ready, AskedLock, AskedRows
      <4> QED
        BY <1>8, <4>1, Unblocked DEF MoveDine, RowBlocks
    <3> DEFINE x == [tx[t] EXCEPT !.lock = KeyShare, !.pc = WantStep(t)]
    <3>2. x.lock = KeyShare /\ x.rest = tx[t].rest
      BY <1>0 DEF TxRecords
    <3>3. Becomes(t, x)
      BY <2>2
    <3> HIDE DEF x
    <3> QED
      BY <1>t, <3>1, <3>2, <3>3
  <2> QED
    BY <1>8, <1>e, <2>1, <2>2 DEF MoveDine
<1>9. ASSUME NEW t \in Tx, RemoveRow(t) PROVE LocksExclude'
  <2>1. \A u \in Tx : u # t /\ tx[u].rest = tx[t].rest => ~Conflict(tx[u].lock, ForUpdate)
    BY <1>9, Unblocked DEF RemoveRow, RowBlocks, AskedLock, AskedRows
  <2> DEFINE x == [tx[t] EXCEPT !.lock = ForUpdate, !.row = Gone, !.pc = "cascade"]
  <2>2. x.lock = ForUpdate /\ x.rest = tx[t].rest
    BY <1>0 DEF TxRecords
  <2>3. End(t) \/ Becomes(t, x)
    BY <1>9 DEF RemoveRow
  <2> HIDE DEF x
  <2> QED
    BY <1>e, <1>t, <2>1, <2>2, <2>3
<1>10. ASSUME NEW t \in Tx, Cascade(t) \/ WriteRefresh(t) \/ Commit(t) \/ Abort(t)
       PROVE  LocksExclude'
  <2>1. End(t)
    <3>1. ASSUME Cascade(t) \/ Abort(t) PROVE End(t)
      BY <3>1 DEF Cascade, Abort
    <3>2. ASSUME WriteRefresh(t) \/ Commit(t) PROVE End(t)
      BY <3>2 DEF WriteRefresh, Commit
    <3> QED
      BY <1>10, <3>1, <3>2
  <2> QED
    BY <1>e, <2>1
<1>11. ASSUME NEW t \in Tx, Begin(t) PROVE LocksExclude'
  <2>1. ASSUME NEW op, NEW v, NEW r, NEW in,
               BeginDescribed(t, op, v, in) \/ BeginChosen(t, op, v, r, in)
        PROVE  LocksExclude'
    <3>1. CASE BeginDescribed(t, op, v, in)
      BY <3>1, <1>s DEF BeginDescribed, Idle
    <3>2. CASE BeginChosen(t, op, v, r, in)
      BY <3>2, <1>s DEF BeginChosen, Idle
    <3> QED
      BY <2>1, <3>1, <3>2
  <2>2. ASSUME NEW v, NEW r, BeginUpdate(t, v, r) \/ BeginDelete(t, r) \/ BeginRefresh(t, r)
        PROVE  LocksExclude'
    BY <2>2, <1>s DEF BeginUpdate, BeginDelete, BeginRefresh, Idle
  <2> QED
    BY <1>11, <2>1, <2>2 DEF Begin, BeginSave
<1>12. ASSUME UNCHANGED tx PROVE LocksExclude'
  BY <1>12 DEF LocksExclude
<1> QED
  BY <1>1, <1>2, <1>3, <1>4, <1>5, <1>6, <1>7, <1>8, <1>9, <1>10, <1>11, <1>12
  DEF Next, Step, DeleteDine, DeleteWantToTry, EditRestaurant

\* A committed row changes only by the transaction that holds it, or keeps its
\* place and stays.
LEMMA LockedStaysStep ==
  ASSUME Typing, FreshIds, LocksExclude, LockedStays, [Next]_vars
  PROVE  LockedStays'
<1> USE StoreAssumption DEF tables
<1> SUFFICES ASSUME Next PROVE LockedStays'
  BY DEF LockedStays, Held, Live, vars
<1>0. /\ tx \in [Tx -> TxRecords]
      /\ \A u \in Tx : /\ tx[u] \in TxRecords /\ Control(tx[u]) /\ Held(tx[u])
                       /\ tx[u].lock \in 0..4 /\ tx[u].row \in Row \cup {None, Gone}
                       /\ tx[u].rest \in OrNone(Restaurants)
      /\ None \notin Row /\ Gone \notin Row
  BY DEF Typing, TypeOK, LockedStays, TxRecords
<1>t. ASSUME NEW t \in Tx, NEW x, Becomes(t, x), UNCHANGED restaurants, Held(x)
      PROVE  LockedStays'
  BY <1>0, <1>t, BecomesOf DEF LockedStays, Held, Live
<1>s. ASSUME NEW t \in Tx, NEW x, Becomes(t, x), UNCHANGED restaurants,
             \/ x.lock = 0 /\ x.row = None
             \/ x.lock = tx[t].lock /\ x.row = tx[t].row /\ x.rest = tx[t].rest
             \/ x.row \notin Row /\ Live(x.rest)
      PROVE  LockedStays'
  <2>1. Held(x)
    BY <1>0, <1>s DEF Held
  <2> QED
    BY <1>s, <1>t, <2>1
<1>e. ASSUME NEW t \in Tx, End(t),
             \A u \in Tx : u # t /\ tx[u].lock > 0 =>
                \/ restaurants'[tx[u].rest] = restaurants[tx[u].rest]
                \/ /\ restaurants[tx[u].rest] \in Row
                   /\ restaurants'[tx[u].rest] \in Row
                   /\ restaurants'[tx[u].rest].place = restaurants[tx[u].rest].place
                \/ tx[u].row \notin Row /\ restaurants'[tx[u].rest] \in Row
      PROVE  LockedStays'
  <2>1. tx'[t] = Idle /\ \A u \in Tx : u # t => tx'[u] = tx[u]
    BY <1>0, <1>e, BecomesOf DEF End
  <2>2. Held(Idle)'
    BY <1>0 DEF Held, Idle
  <2>3. ASSUME NEW u \in Tx, u # t PROVE Held(tx[u])'
    <3>1. CASE tx[u].lock = 0
      BY <1>0, <2>1, <2>3, <3>1 DEF Held, Control, NoKeyUpdate
    <3>2. CASE tx[u].lock > 0
      BY <1>0, <1>e, <2>1, <2>3, <3>2 DEF Held, Live
    <3> QED
      BY <1>0, <3>1, <3>2
  <2> QED
    BY <2>1, <2>2, <2>3 DEF LockedStays, Held
<1>1. ASSUME NEW t \in Tx, ChosenExists(t) \/ CheckOwner(t) PROVE LockedStays'
  BY <1>0, <1>1, <1>s DEF ChosenExists, CheckOwner, End, Idle, TxRecords
<1>2. ASSUME NEW t \in Tx, LockChosen(t) PROVE LockedStays'
  <2>1. tx[t].row = None
    BY <1>0, <1>2 DEF LockChosen, Ready, Control, Resolving
  <2> DEFINE x == [tx[t] EXCEPT !.lock = ChosenLock, !.pc = "owner"]
             y == [tx[t] EXCEPT !.pc = "fill"]
  <2>2. x.row = None /\ x.rest = tx[t].rest
    BY <1>0, <2>1 DEF TxRecords
  <2>3. y.row = None /\ y.rest = tx[t].rest /\ y.lock = tx[t].lock
    BY <1>0, <2>1 DEF TxRecords
  <2>4. (Becomes(t, x) /\ Live(tx[t].rest)) \/ Becomes(t, y)
    BY <1>2 DEF LockChosen
  <2>5. UNCHANGED restaurants
    BY <1>2 DEF LockChosen
  <2> HIDE DEF x, y
  <2> QED
    BY <1>0, <1>s, <2>1, <2>2, <2>3, <2>4, <2>5
<1>3. ASSUME NEW t \in Tx, MatchPlace(t) \/ MatchName(t) PROVE LockedStays'
  <2>1. tx[t].lock = 0 /\ tx[t].row = None
    BY <1>0, <1>3 DEF MatchPlace, MatchName, Ready, Control, Writing, Resolving, Matching
  <2> QED
    BY <1>0, <1>3, <1>s, <2>1 DEF MatchPlace, MatchName, TxRecords
<1>r. ASSUME NEW t \in Tx, NEW r \in Restaurants, NEW in \in Row,
             Live(r), UNCHANGED restaurants, Resolved(t, r, Fill(restaurants[r], in))
      PROVE  LockedStays'
  <2>1. restaurants[r] \in Row
    BY <1>r, LiveRow DEF Typing
  <2>2. tx'[t].row \in Row /\ tx'[t].row.place = Coalesce(restaurants[r].place, in.place)
    BY <1>r, <2>1, FillTyped, ResolvedFields
  <2>3. tx'[t].rest = r /\ Becomes(t, tx'[t])
    BY <1>0, <1>r, ResolvedFields DEF Resolved, Becomes
  <2>4. Held(tx'[t])
    BY <2>2, <2>3 DEF Held, Coalesce
  <2> QED
    BY <1>r, <1>t, <2>3, <2>4
<1>4. ASSUME NEW t \in Tx, InsertRestaurant(t) PROVE LockedStays'
  <2>1. tx[t].in \in Row /\ tx[t].id \in Restaurants /\ UNCHANGED restaurants
    BY <1>4, InsertResolves DEF InsertRestaurant
  <2>2. CASE Resolved(t, tx[t].id, tx[t].in)
    <3>1. tx'[t].rest = tx[t].id /\ tx'[t].row \in Row
      BY <2>1, <2>2, ResolvedFields
    <3>a. Becomes(t, tx'[t])
      BY <1>0, <2>2 DEF Resolved, Becomes
    <3>2. ~Live(tx[t].id)
      BY <2>1 DEF FreshIds, Live, Restaurants
    <3>3. Held(tx'[t])
      BY <3>1, <3>2 DEF Held
    <3> QED
      BY <1>t, <2>1, <3>a, <3>3
  <2>3. ASSUME NEW r \in Owners(tx[t].in.place), Resolved(t, r, Fill(restaurants[r], tx[t].in))
        PROVE  LockedStays'
    BY <1>r, <2>1, <2>3 DEF Owners
  <2> QED
    BY <1>4, <2>2, <2>3, InsertResolves
<1>5. ASSUME NEW t \in Tx, FillRestaurant(t) PROVE LockedStays'
  <2>1. tx[t].rest \in Restaurants /\ FillInput(t) \in Row
    BY <1>0, <1>5, FillInputTyped
    DEF FillRestaurant, Ready, Control, OrNone, Steps, Resolving, Matching
  <2>2. CASE /\ Live(tx[t].rest)
             /\ Resolved(t, tx[t].rest, Fill(restaurants[tx[t].rest], FillInput(t)))
    BY <1>5, <1>r, <2>1, <2>2 DEF FillRestaurant
  <2>3. CASE Becomes(t, [tx[t] EXCEPT !.id = None, !.pc = AfterResolve(tx[t].op)])
    BY <1>0, <1>5, <1>s, <2>3 DEF FillRestaurant, TxRecords
  <2>4. CASE End(t)
    BY <1>5, <1>s, <2>4 DEF FillRestaurant, End, Idle
  <2> QED
    BY <1>5, <2>2, <2>3, <2>4 DEF FillRestaurant
<1>6. ASSUME NEW t \in Tx, InsertDine(t) \/ MarkDone(t) \/ UpsertWant(t) \/ LockDine(t)
      PROVE  LockedStays'
  BY <1>0, <1>6, <1>s DEF InsertDine, MarkDone, UpsertWant, LockDine, End, Idle, TxRecords
<1>7. ASSUME NEW t \in Tx, MoveDine(t) PROVE LockedStays'
  <2>1. tx[t].row = None
    BY <1>0, <1>7 DEF MoveDine, Ready, Control, Moving
  <2> DEFINE x == [tx[t] EXCEPT !.lock = KeyShare, !.pc = WantStep(t)]
             y == [tx[t] EXCEPT !.pc = WantStep(t)]
  <2>2. x.row = None /\ x.rest = tx[t].rest
    BY <1>0, <2>1 DEF TxRecords
  <2>3. y.row = tx[t].row /\ y.rest = tx[t].rest /\ y.lock = tx[t].lock
    BY <1>0, <2>1 DEF TxRecords
  <2>4. (Becomes(t, x) /\ Live(tx[t].rest)) \/ Becomes(t, y) \/ Becomes(t, Idle)
    BY <1>7 DEF MoveDine, End
  <2>5. UNCHANGED restaurants /\ Idle.lock = 0 /\ Idle.row = None
    BY <1>7 DEF MoveDine, Idle
  <2> HIDE DEF x, y
  <2> QED
    BY <1>0, <1>s, <2>1, <2>2, <2>3, <2>4, <2>5
<1>8. ASSUME NEW t \in Tx, RemoveRow(t) PROVE LockedStays'
  <2> DEFINE x == [tx[t] EXCEPT !.lock = ForUpdate, !.row = Gone, !.pc = "cascade"]
  <2>1. x.row = Gone /\ x.rest = tx[t].rest
    BY <1>0 DEF TxRecords
  <2>2. (Becomes(t, x) /\ Live(tx[t].rest)) \/ Becomes(t, Idle)
    BY <1>8 DEF RemoveRow, End
  <2>3. UNCHANGED restaurants /\ Idle.lock = 0 /\ Idle.row = None
    BY <1>8 DEF RemoveRow, Idle
  <2> HIDE DEF x
  <2> QED
    BY <1>0, <1>s, <2>1, <2>2, <2>3
<1>9. ASSUME NEW t \in Tx, Cascade(t) PROVE LockedStays'
  <2>1. tx[t].lock = ForUpdate /\ tx[t].rest \in Restaurants
    BY <1>0, <1>9 DEF Cascade, Ready, Control, OrNone, Steps, Matching
  <2>2. \A u \in Tx : u # t /\ tx[u].lock > 0 => tx[u].rest # tx[t].rest
    BY <1>0, <2>1 DEF LocksExclude, Conflict, ForUpdate
  <2>3. \A r \in Restaurants : r # tx[t].rest => restaurants'[r] = restaurants[r]
    BY <1>9 DEF Cascade, Typing, TypeOK
  <2>4. \A u \in Tx : tx[u].lock > 0 => tx[u].rest \in Restaurants
    BY <1>0 DEF Control, OrNone
  <2> QED
    BY <1>9, <1>e, <2>2, <2>3, <2>4 DEF Cascade
<1>10. ASSUME NEW t \in Tx, WriteRefresh(t) PROVE LockedStays'
  <2>1. \A u \in Tx : tx[u].lock > 0 => tx[u].rest \in Restaurants
    BY <1>0 DEF Control, OrNone
  <2> QED
    BY <1>10, <1>e, <2>1, RefreshFields DEF WriteRefresh
<1>11. ASSUME NEW t \in Tx, Commit(t) PROVE LockedStays'
  <2>1. \A u \in Tx : tx[u].lock > 0 => tx[u].rest \in Restaurants
    BY <1>0 DEF Control, OrNone
  <2>2. CASE tx[t].row = None
    BY <1>11, <1>e, <2>2 DEF Commit
  <2>3. CASE tx[t].row # None
    <3>1. tx[t].row \in Row /\ tx[t].lock >= NoKeyUpdate /\ tx[t].rest \in Restaurants
      BY <1>0, <1>11, <2>3 DEF Commit, Ready, Control, OrNone, Steps, Matching
    <3>2. restaurants' = [restaurants EXCEPT ![tx[t].rest] = tx[t].row]
      BY <1>11, <2>3 DEF Commit
    <3>3. \A u \in Tx : u # t /\ tx[u].row \in Row => tx[u].rest # tx[t].rest
      BY <1>0, <3>1 DEF LocksExclude, Conflict, Control, NoKeyUpdate
    <3>4. \A u \in Tx : u # t /\ tx[u].lock > 0 =>
             \/ restaurants'[tx[u].rest] = restaurants[tx[u].rest]
             \/ tx[u].row \notin Row /\ restaurants'[tx[u].rest] \in Row
      BY <2>1, <3>1, <3>2, <3>3 DEF Typing, TypeOK
    <3> QED
      BY <1>11, <1>e, <3>4 DEF Commit
  <2> QED
    BY <2>2, <2>3
<1>12. ASSUME NEW t \in Tx, Abort(t) PROVE LockedStays'
  BY <1>12, <1>e DEF Abort
<1>13. ASSUME NEW t \in Tx, Begin(t) PROVE LockedStays'
  BY <1>13, <1>s, BeginFields
<1>14. ASSUME UNCHANGED <<restaurants, tx>> PROVE LockedStays'
  BY <1>14 DEF LockedStays, Held, Live
<1>15. ASSUME NEW r \in Restaurants, NEW n \in Names, NEW a \in OrNone(Addresses),
              EditRestaurant(r, n, a)
       PROVE  LockedStays'
  <2>1. \A s \in Restaurants :
           \/ restaurants'[s] = restaurants[s]
           \/ /\ restaurants[s] \in Row /\ restaurants'[s] \in Row
              /\ restaurants'[s].place = restaurants[s].place
    BY <1>15, EditFields
  <2>2. ASSUME NEW u \in Tx PROVE Held(tx[u])'
    <3>1. UNCHANGED tx
      BY <1>15 DEF EditRestaurant
    <3>2. CASE tx[u].lock = 0
      BY <1>0, <3>1, <3>2 DEF Held, Control, NoKeyUpdate
    <3>3. CASE tx[u].lock > 0
      <4>1. tx[u].rest \in Restaurants
        BY <1>0, <3>3 DEF Control, OrNone
      <4> QED
        BY <1>0, <2>1, <3>1, <4>1 DEF Held, Live
    <3> QED
      BY <1>0, <3>2, <3>3
  <2> QED
    BY <2>2 DEF LockedStays
<1> QED
  BY <1>1, <1>2, <1>3, <1>4, <1>5, <1>6, <1>7, <1>8, <1>9, <1>10, <1>11, <1>12, <1>13,
     <1>14, <1>15
  DEF Next, Step, DeleteDine, DeleteWantToTry

-----------------------------------------------------------------------------
(* Dines *)

\* FOR UPDATE on the dine and the generated id keep two writers of a dine apart.
LEMMA DinesApartStep ==
  ASSUME Typing, DinesApart, DinesHeld, [Next]_vars
  PROVE  DinesApart'
<1> USE StoreAssumption DEF tables
<1> SUFFICES ASSUME Next PROVE DinesApart'
  BY DEF DinesApart, vars
<1>0. /\ tx \in [Tx -> TxRecords]
      /\ \A u \in Tx : tx[u] \in TxRecords /\ Control(tx[u]) /\ DineOf(tx[u])
      /\ \A u \in Tx : /\ tx[u].dine # None => tx[u].dine = tx[u].target
                       /\ tx[u].op = "create" => tx[u].target # None
  BY DEF Typing, TypeOK, DinesHeld, Control
<1>t. ASSUME NEW t \in Tx, NEW x, Becomes(t, x),
             \A u \in Tx : u # t =>
                /\ x.op = "create" \/ tx[u].op = "create" => tx[u].target # x.target
                /\ x.dine # None => tx[u].dine # x.dine
      PROVE  DinesApart'
  BY <1>0, <1>t, BecomesOf DEF DinesApart
<1>s. ASSUME NEW t \in Tx, NEW x, Becomes(t, x),
             /\ x.op = tx[t].op /\ x.target = tx[t].target
             /\ x.dine \in {None, tx[t].dine}
      PROVE  DinesApart'
  BY <1>0, <1>s, <1>t DEF DinesApart
<1>e. ASSUME NEW t \in Tx, End(t) PROVE DinesApart'
  BY <1>0, <1>e, <1>t DEF End, Idle
<1>1. ASSUME NEW t \in Tx, \/ ChosenExists(t) \/ LockChosen(t) \/ CheckOwner(t)
                           \/ MatchPlace(t) \/ MatchName(t)
      PROVE  DinesApart'
  BY <1>0, <1>1, <1>s, <1>e
  DEF ChosenExists, LockChosen, CheckOwner, MatchPlace, MatchName, TxRecords
<1>2. ASSUME NEW t \in Tx, InsertRestaurant(t) \/ FillRestaurant(t) PROVE DinesApart'
  <2>1. ASSUME NEW r, NEW row, Resolved(t, r, row) PROVE DinesApart'
    <3>1. Becomes(t, tx'[t])
      BY <1>0, <2>1 DEF Resolved, Becomes
    <3> QED
      BY <1>s, <2>1, <3>1, ResolvedFields
  <2>2. CASE Becomes(t, [tx[t] EXCEPT !.id = None, !.pc = AfterResolve(tx[t].op)])
    BY <1>0, <1>s, <2>2 DEF TxRecords
  <2> QED
    BY <1>2, <1>e, <2>1, <2>2, InsertResolves DEF FillRestaurant
<1>3. ASSUME NEW t \in Tx, InsertDine(t) \/ LockDine(t) PROVE DinesApart'
  <2> DEFINE x == [tx[t] EXCEPT !.dine = tx[t].target, !.pc = "want"]
             y == [tx[t] EXCEPT !.dine = tx[t].target, !.pc = "move"]
  <2>1. \A u \in Tx : u # t /\ tx[t].target # None => tx[u].dine # tx[t].target
    <3>1. CASE InsertDine(t)
      <4>1. tx[t].op = "create"
        BY <1>0, <3>1 DEF InsertDine, Ready, Control
      <4> QED
        BY <1>0, <4>1 DEF DinesApart
    <3>2. CASE LockDine(t)
      BY <3>2, Unblocked DEF LockDine, DineBlocks
    <3> QED
      BY <1>3, <3>1, <3>2
  <2>2. /\ x.op = tx[t].op /\ x.target = tx[t].target /\ x.dine = tx[t].target
        /\ y.op = tx[t].op /\ y.target = tx[t].target /\ y.dine = tx[t].target
    BY <1>0 DEF TxRecords
  <2>3. End(t) \/ Becomes(t, x) \/ Becomes(t, y)
    BY <1>3 DEF InsertDine, LockDine
  <2> HIDE DEF x, y
  <2> QED
    BY <1>0, <1>t, <1>e, <2>1, <2>2, <2>3 DEF DinesApart
<1>4. ASSUME NEW t \in Tx, MarkDone(t) \/ UpsertWant(t) \/ MoveDine(t) \/ RemoveRow(t)
      PROVE  DinesApart'
  BY <1>0, <1>4, <1>s, <1>e DEF MarkDone, UpsertWant, MoveDine, RemoveRow, TxRecords
<1>5. ASSUME NEW t \in Tx, Cascade(t) \/ WriteRefresh(t) \/ Commit(t) \/ Abort(t)
      PROVE  DinesApart'
  BY <1>5, <1>e DEF Cascade, WriteRefresh, Commit, Abort
<1>6. ASSUME NEW t \in Tx, BeginSave(t) PROVE DinesApart'
  <2>a. PICK op \in {"create", "save"}, in \in Inputs : \E v \in Targets(op) :
          \/ BeginDescribed(t, op, v, in)
          \/ \E r \in Known : BeginChosen(t, op, v, r, in)
    BY <1>6 DEF BeginSave
  <2>1. PICK v \in Targets(op) : \/ BeginDescribed(t, op, v, in)
                                 \/ \E r \in Known : BeginChosen(t, op, v, r, in)
    BY <2>a
  <2>2. tx'[t].op = op /\ tx'[t].target = v /\ tx'[t].dine = None /\ Becomes(t, tx'[t])
    <3>1. CASE BeginDescribed(t, op, v, in)
      BY <1>0, <3>1 DEF BeginDescribed, Becomes, Idle
    <3>2. ASSUME NEW r \in Known, BeginChosen(t, op, v, r, in)
          PROVE  tx'[t].op = op /\ tx'[t].target = v /\ tx'[t].dine = None /\ Becomes(t, tx'[t])
      BY <1>0, <3>2 DEF BeginChosen, Becomes, Idle
    <3> QED
      BY <2>1, <3>1, <3>2
  <2>3. \A u \in Tx : op = "create" \/ tx[u].op = "create" => tx[u].target # v
    BY <1>0, <2>1 DEF Targets
  <2> QED
    BY <1>t, <2>2, <2>3
<1>7. ASSUME NEW t \in Tx, NEW v \in Dines, NEW r \in Known, BeginUpdate(t, v, r)
      PROVE  DinesApart'
  <2>1. tx'[t].op = "update" /\ tx'[t].target = v /\ tx'[t].dine = None /\ Becomes(t, tx'[t])
    BY <1>0, <1>7 DEF BeginUpdate, Becomes, Idle
  <2>2. \A u \in Tx : tx[u].op = "create" => tx[u].target # v
    BY <1>0, <1>7 DEF BeginUpdate, DineOf
  <2> QED
    BY <1>t, <2>1, <2>2
<1>8. ASSUME NEW t \in Tx, NEW r \in Restaurants, BeginDelete(t, r) \/ BeginRefresh(t, r)
      PROVE  DinesApart'
  <2>1. tx'[t].op # "create" /\ tx'[t].target = None /\ tx'[t].dine = None /\ Becomes(t, tx'[t])
    <3>1. CASE BeginDelete(t, r)
      BY <1>0, <3>1 DEF BeginDelete, Becomes, Idle
    <3>2. CASE BeginRefresh(t, r)
      BY <1>0, <3>2 DEF BeginRefresh, Becomes, Idle
    <3> QED
      BY <1>8, <3>1, <3>2
  <2> QED
    BY <1>0, <1>t, <2>1
<1>9. ASSUME UNCHANGED tx PROVE DinesApart'
  BY <1>9 DEF DinesApart
<1> QED
  BY <1>1, <1>2, <1>3, <1>4, <1>5, <1>6, <1>7, <1>8, <1>9
  DEF Next, Begin, Step, DeleteDine, DeleteWantToTry, EditRestaurant

\* A dine in flight stays where its transaction read it.
LEMMA DinesHeldStep ==
  ASSUME Typing, DinesApart, DinesHeld, [Next]_vars
  PROVE  DinesHeld'
<1> USE StoreAssumption DEF tables
<1> SUFFICES ASSUME Next PROVE DinesHeld'
  BY DEF DinesHeld, DineOf, vars
<1>0. /\ tx \in [Tx -> TxRecords]
      /\ \A u \in Tx : tx[u] \in TxRecords /\ Control(tx[u]) /\ DineOf(tx[u])
      /\ dines \in [Dines -> Restaurants \cup {None, Gone}]
      /\ None \notin Restaurants /\ Gone \notin Restaurants
  BY DEF Typing, TypeOK, DinesHeld, Restaurants
<1>t. ASSUME NEW t \in Tx, NEW x, Becomes(t, x), UNCHANGED dines, DineOf(x)
      PROVE  DinesHeld'
  BY <1>0, <1>t, BecomesOf DEF DinesHeld, DineOf
<1>s. ASSUME NEW t \in Tx, NEW x, Becomes(t, x), UNCHANGED dines,
             x.op # "update", x.pc = "want" => x.op = "save", x.want = None,
             x.op = "create" => tx[t].op = "create" /\ x.target = tx[t].target
      PROVE  DinesHeld'
  <2>1. DineOf(x)
    BY <1>0, <1>s DEF DineOf
  <2> QED
    BY <1>s, <1>t, <2>1
<1>i. DineOf(Idle)
  BY DEF DineOf, Idle
<1>e. ASSUME NEW t \in Tx, End(t),
             \A u \in Tx : u # t =>
                /\ tx[u].dine # None => dines'[tx[u].dine] = dines[tx[u].dine]
                /\ tx[u].op = "create" => dines'[tx[u].target] = None
      PROVE  DinesHeld'
  <2>1. tx'[t] = Idle /\ \A u \in Tx : u # t => tx'[u] = tx[u]
    BY <1>0, <1>e, BecomesOf DEF End
  <2>2. DineOf(Idle)'
    BY DEF DineOf, Idle
  <2>3. ASSUME NEW u \in Tx, u # t PROVE DineOf(tx[u])'
    <3>1. tx'[u] = tx[u] /\ (tx[u].pc \in {"want", "commit"} /\ tx[u].op # "save" => tx[u].dine # None)
      BY <1>0, <2>1, <2>3 DEF Control
    <3> QED
      BY <1>0, <1>e, <2>3, <3>1 DEF DineOf
  <2> QED
    BY <2>1, <2>2, <2>3 DEF DinesHeld, DineOf
<1>1. ASSUME NEW t \in Tx, \/ ChosenExists(t) \/ LockChosen(t) \/ CheckOwner(t)
                           \/ MatchPlace(t) \/ MatchName(t)
      PROVE  DinesHeld'
  <2>1. tx[t].op \in {"create", "save"} /\ tx[t].want = None /\ UNCHANGED dines
    BY <1>0, <1>1 DEF ChosenExists, LockChosen, CheckOwner, MatchPlace, MatchName, Ready,
                      Control, Resolving, Matching
  <2>2. /\ FirstStep("create", tx[t].chosen, tx[t].in) # "want"
        /\ MatchStep(tx[t].in) # "want"
    BY DEF FirstStep, MatchStep
  <2>3. CASE End(t)
    BY <1>t, <1>i, <2>1, <2>3 DEF End
  <2>4. ASSUME NEW x, Becomes(t, x), x.op = tx[t].op, x.want = None, x.pc # "want",
               x.target = tx[t].target
        PROVE  DinesHeld'
    BY <1>s, <2>1, <2>4
  <2>5. CASE ChosenExists(t) \/ CheckOwner(t)
    BY <1>0, <2>1, <2>2, <2>3, <2>4, <2>5 DEF ChosenExists, CheckOwner, TxRecords
  <2>6. CASE LockChosen(t)
    BY <1>0, <2>1, <2>4, <2>6 DEF LockChosen, TxRecords
  <2>7. CASE MatchPlace(t) \/ MatchName(t)
    BY <1>0, <2>1, <2>2, <2>4, <2>7 DEF MatchPlace, MatchName, TxRecords
  <2> QED
    BY <1>1, <2>5, <2>6, <2>7
<1>2. ASSUME NEW t \in Tx, InsertRestaurant(t) \/ FillRestaurant(t) PROVE DinesHeld'
  <2>1. tx[t].op \in {"create", "save"} /\ tx[t].want = None /\ UNCHANGED dines
    BY <1>0, <1>2 DEF InsertRestaurant, FillRestaurant, Ready, Control, Resolving, Matching
  <2>2. AfterResolve(tx[t].op) = "want" => tx[t].op = "save"
    BY <2>1 DEF AfterResolve
  <2>3. ASSUME NEW r, NEW row, Resolved(t, r, row) PROVE DinesHeld'
    <3>1. Becomes(t, tx'[t])
      BY <1>0, <2>3 DEF Resolved, Becomes
    <3>2. /\ tx'[t].op = tx[t].op /\ tx'[t].pc = AfterResolve(tx[t].op)
          /\ tx'[t].want = tx[t].want /\ tx'[t].target = tx[t].target
      BY <2>3, ResolvedFields
    <3> QED
      BY <1>s, <2>1, <2>2, <3>1, <3>2
  <2>4. CASE Becomes(t, [tx[t] EXCEPT !.id = None, !.pc = AfterResolve(tx[t].op)])
    BY <1>0, <1>s, <2>1, <2>2, <2>4 DEF TxRecords
  <2>5. CASE End(t)
    BY <1>t, <1>i, <2>1, <2>5 DEF End
  <2> QED
    BY <1>2, <2>3, <2>4, <2>5, InsertResolves DEF FillRestaurant
<1>3. ASSUME NEW t \in Tx, InsertDine(t) PROVE DinesHeld'
  <2> DEFINE x == [tx[t] EXCEPT !.dine = tx[t].target, !.pc = "want"]
  <2>1. /\ tx[t].op = "create" /\ tx[t].want = None /\ tx[t].target # None
        /\ tx[t].rest \in Restaurants /\ dines[tx[t].target] = None
    BY <1>0, <1>3 DEF InsertDine, Ready, Control, DineOf, TxRecords, OrNone, Steps, Matching, Writing
  <2>2. /\ x.op = tx[t].op /\ x.target = tx[t].target /\ x.dine = tx[t].target
        /\ x.rest = tx[t].rest /\ x.want = tx[t].want
    BY <1>0 DEF TxRecords
  <2>3. (End(t) \/ Becomes(t, x)) /\ UNCHANGED dines
    BY <1>3 DEF InsertDine
  <2> HIDE DEF x
  <2>4. DineOf(x)
    BY <1>0, <2>1, <2>2 DEF DineOf
  <2> QED
    BY <1>t, <1>i, <2>3, <2>4 DEF End
<1>4. ASSUME NEW t \in Tx, MarkDone(t) \/ UpsertWant(t) PROVE DinesHeld'
  <2>1. tx[t].pc = "want" /\ tx[t].want = None /\ UNCHANGED dines
    BY <1>0, <1>4 DEF MarkDone, UpsertWant, Ready, Control
  <2>2. ASSUME NEW w \in {None, "open", "done"}, w = "done" => tx[t].op # "save",
               Becomes(t, [tx[t] EXCEPT !.pc = "commit", !.want = w])
        PROVE  DinesHeld'
    <3> DEFINE x == [tx[t] EXCEPT !.pc = "commit", !.want = w]
    <3>1. /\ x.op = tx[t].op /\ x.pc = "commit" /\ x.target = tx[t].target
          /\ x.dine = tx[t].dine /\ x.rest = tx[t].rest /\ x.want = w /\ x.lock = tx[t].lock
      BY <1>0 DEF TxRecords
    <3>2. Becomes(t, x)
      BY <2>2
    <3> HIDE DEF x
    <3>3. DineOf(x)
      BY <1>0, <2>1, <2>2, <3>1 DEF DineOf
    <3> QED
      BY <1>t, <2>1, <3>2, <3>3
  <2> QED
    BY <1>4, <1>t, <1>i, <2>1, <2>2 DEF MarkDone, UpsertWant, End
<1>5. ASSUME NEW t \in Tx, LockDine(t) PROVE DinesHeld'
  <2> DEFINE x == [tx[t] EXCEPT !.dine = tx[t].target, !.pc = "move"]
  <2>1. tx[t].op = "update" /\ tx[t].want = None /\ UNCHANGED dines
    BY <1>0, <1>5 DEF LockDine, Ready, Control, Moving
  <2>2. /\ x.op = "update" /\ x.pc = "move" /\ x.dine = tx[t].target /\ x.want = None
    BY <1>0, <2>1 DEF TxRecords
  <2>3. End(t) \/ (Becomes(t, x) /\ dines[tx[t].target] \in Restaurants)
    BY <1>5 DEF LockDine
  <2> HIDE DEF x
  <2> QED
    BY <1>t, <1>i, <2>1, <2>2, <2>3 DEF End, DineOf
<1>6. ASSUME NEW t \in Tx, MoveDine(t) PROVE DinesHeld'
  <2>1. /\ tx[t].op = "update" /\ tx[t].want = None /\ tx[t].dine # None /\ UNCHANGED dines
        /\ dines[tx[t].dine] \in Restaurants
    BY <1>0, <1>6 DEF MoveDine, Ready, Control, Moving, DineOf
  <2>2. ASSUME NEW k, k > 0 \/ dines[tx[t].dine] = tx[t].rest, NEW x, Becomes(t, x),
               x.op = "update", x.pc = WantStep(t), x.dine = tx[t].dine,
               x.rest = tx[t].rest, x.want = None, x.lock = k
        PROVE  DinesHeld'
    BY <1>t, <2>1, <2>2 DEF DineOf, WantStep
  <2>3. CASE /\ dines[tx[t].dine] = tx[t].rest
             /\ Becomes(t, [tx[t] EXCEPT !.pc = WantStep(t)])
    BY <1>0, <2>1, <2>2, <2>3 DEF TxRecords
  <2>4. CASE Becomes(t, [tx[t] EXCEPT !.lock = KeyShare, !.pc = WantStep(t)])
    <3> DEFINE x == [tx[t] EXCEPT !.lock = KeyShare, !.pc = WantStep(t)]
    <3>1. /\ x.op = "update" /\ x.pc = WantStep(t) /\ x.dine = tx[t].dine
          /\ x.rest = tx[t].rest /\ x.want = None /\ x.lock = KeyShare
      BY <1>0, <2>1 DEF TxRecords
    <3>2. Becomes(t, x) /\ KeyShare > 0
      BY <2>4 DEF KeyShare
    <3> HIDE DEF x
    <3> QED
      BY <2>2, <3>1, <3>2
  <2> QED
    BY <1>6, <1>t, <1>i, <2>1, <2>3, <2>4 DEF MoveDine, End
<1>7. ASSUME NEW t \in Tx, RemoveRow(t) PROVE DinesHeld'
  <2>1. tx[t].op \notin {"create", "update"} /\ tx[t].want = None
    BY <1>0, <1>7 DEF RemoveRow, Ready, Control
  <2> DEFINE x == [tx[t] EXCEPT !.lock = ForUpdate, !.row = Gone, !.pc = "cascade"]
  <2>2. x.op = tx[t].op /\ x.want = tx[t].want /\ x.pc = "cascade"
    BY <1>0 DEF TxRecords
  <2>3. (End(t) \/ Becomes(t, x)) /\ UNCHANGED dines
    BY <1>7 DEF RemoveRow
  <2> HIDE DEF x
  <2> QED
    BY <1>s, <1>t, <1>i, <2>1, <2>2, <2>3 DEF End
<1>8. ASSUME NEW t \in Tx, Cascade(t) PROVE DinesHeld'
  <2>1. tx[t].rest \in Restaurants
    BY <1>0, <1>8 DEF Cascade, Ready, Control, TxRecords, OrNone, Steps, Matching
  <2>2. \A u \in Tx : u # t /\ tx[u].dine # None => dines[tx[u].dine] # tx[t].rest
    BY <1>8, Unblocked DEF Cascade, DineBlocks
  <2>3. \A v \in Dines : dines[v] # tx[t].rest => dines'[v] = dines[v]
    BY <1>8 DEF Cascade
  <2>4. \A u \in Tx : /\ tx[u].dine # None => tx[u].dine \in Dines
                      /\ tx[u].op = "create" => tx[u].target \in Dines
    BY <1>0 DEF TxRecords, OrNone, Control
  <2> QED
    BY <1>0, <1>8, <1>e, <2>1, <2>2, <2>3, <2>4 DEF Cascade, DineOf
<1>9. ASSUME NEW t \in Tx, Commit(t) PROVE DinesHeld'
  <2>1. \A u \in Tx : /\ tx[u].dine # None => tx[u].dine \in Dines /\ tx[u].dine = tx[u].target
                      /\ tx[u].op = "create" => tx[u].target \in Dines
    BY <1>0 DEF TxRecords, OrNone, Control
  <2>2. \A v \in Dines : v # tx[t].dine => dines'[v] = dines[v]
    BY <1>0, <1>9 DEF Commit
  <2>3. \A u \in Tx : u # t => /\ tx[u].dine # None => tx[u].dine # tx[t].dine
                               /\ tx[u].op = "create" => tx[u].target # tx[t].dine
    BY <1>0, <2>1 DEF DinesApart
  <2> QED
    BY <1>0, <1>9, <1>e, <2>1, <2>2, <2>3 DEF Commit, DineOf
<1>10. ASSUME NEW t \in Tx, WriteRefresh(t) \/ Abort(t) PROVE DinesHeld'
  BY <1>10, <1>t, <1>i DEF WriteRefresh, Abort, End
<1>11. ASSUME NEW t \in Tx, BeginSave(t) PROVE DinesHeld'
  <2>1. PICK op \in {"create", "save"}, in \in Inputs : \E v \in Targets(op) :
          \/ BeginDescribed(t, op, v, in)
          \/ \E r \in Known : BeginChosen(t, op, v, r, in)
    BY <1>11 DEF BeginSave
  <2>2. PICK v \in Targets(op) : \/ BeginDescribed(t, op, v, in)
                                 \/ \E r \in Known : BeginChosen(t, op, v, r, in)
    BY <2>1
  <2>3. Becomes(t, tx'[t]) /\ tx'[t].want = None /\ UNCHANGED dines
    BY <1>11, BeginFields DEF Begin
  <2>4. op = "create" => dines[v] = None
    BY DEF Targets
  <2>5. CASE BeginDescribed(t, op, v, in)
    <3>1. FirstStep(op, None, in) # "want"
      BY DEF FirstStep, MatchStep
    <3>2. tx'[t].op = op /\ tx'[t].target = v /\ tx'[t].pc # "want"
      BY <1>0, <2>5, <3>1 DEF BeginDescribed, Becomes, Idle
    <3> QED
      BY <1>t, <2>3, <2>4, <3>2 DEF DineOf
  <2>6. ASSUME NEW r \in Known, BeginChosen(t, op, v, r, in) PROVE DinesHeld'
    <3>1. FirstStep(op, r, in) # "want"
      BY <1>0 DEF FirstStep, Known
    <3>2. tx'[t].op = op /\ tx'[t].target = v /\ tx'[t].pc # "want"
      BY <1>0, <2>6, <3>1 DEF BeginChosen, Becomes, Idle
    <3> QED
      BY <1>t, <2>3, <2>4, <3>2 DEF DineOf
  <2> QED
    BY <2>2, <2>5, <2>6
<1>12. ASSUME NEW t \in Tx, NEW v \in Dines, NEW r \in Known, BeginUpdate(t, v, r)
       PROVE  DinesHeld'
  BY <1>12, <1>t DEF BeginUpdate, Idle, DineOf
<1>13. ASSUME NEW t \in Tx, NEW r \in Restaurants, BeginDelete(t, r) PROVE DinesHeld'
  BY <1>13, <1>t DEF BeginDelete, Idle, DineOf
<1>14. ASSUME NEW t \in Tx, NEW r \in Restaurants, BeginRefresh(t, r) PROVE DinesHeld'
  BY <1>14, <1>t DEF BeginRefresh, Idle, DineOf
<1>15. ASSUME NEW v \in Dines, DeleteDine(v) PROVE DinesHeld'
  <2>1. \A u \in Tx : /\ tx[u].dine # None => tx[u].dine \in Dines /\ tx[u].dine # v
                      /\ tx[u].op = "create" => tx[u].target \in Dines /\ tx[u].target # v
    BY <1>0, <1>15 DEF DeleteDine, TxRecords, OrNone, Control, DineOf
  <2>2. \A d \in Dines : d # v => dines'[d] = dines[d]
    BY <1>0, <1>15 DEF DeleteDine
  <2>3. ASSUME NEW u \in Tx PROVE DineOf(tx[u])'
    <3>1. tx'[u] = tx[u] /\ (tx[u].pc \in {"want", "commit"} /\ tx[u].op # "save" => tx[u].dine # None)
      BY <1>0, <1>15 DEF DeleteDine, Control
    <3> QED
      BY <1>0, <2>1, <2>2, <3>1 DEF DineOf
  <2> QED
    BY <2>3 DEF DinesHeld
<1>16. ASSUME UNCHANGED <<dines, tx>> PROVE DinesHeld'
  BY <1>16 DEF DinesHeld, DineOf
<1> QED
  BY <1>1, <1>2, <1>3, <1>4, <1>5, <1>6, <1>7, <1>8, <1>9, <1>10, <1>11, <1>12, <1>13,
     <1>14, <1>15, <1>16
  DEF Next, Begin, Step, DeleteWantToTry, EditRestaurant

\* What a transaction writes when it commits is at a restaurant that is there.
LEMMA CommitLive ==
  ASSUME Typing, LockedStays, DinesHeld, ReferencesHold, NEW t \in Tx, Commit(t)
  PROVE  /\ tx[t].rest \in Restaurants
         /\ tx[t].row \in Row \cup {None}
         /\ tx[t].dine # None \/ tx[t].want # None => tx[t].row \in Row \/ Live(tx[t].rest)
<1>1. /\ tx[t] \in TxRecords /\ Control(tx[t]) /\ Held(tx[t]) /\ DineOf(tx[t])
      /\ tx[t].pc = "commit"
  BY DEF Typing, TypeOK, LockedStays, DinesHeld, Commit, Ready
<1>2. /\ tx[t].rest \in Restaurants
      /\ tx[t].row \in Row \cup {None}
      /\ tx[t].want \in {None, "open", "done"}
  BY <1>1 DEF TxRecords, Control, OrNone, Steps, Matching, Writing
<1>3. CASE tx[t].row # None
  BY <1>2, <1>3
<1>4. CASE tx[t].row = None /\ (tx[t].dine # None \/ tx[t].want # None)
  <2>1. tx[t].dine # None /\ tx[t].op = "update"
    BY <1>1, <1>2, <1>4, StoreAssumption DEF Control, DineOf
  <2>2. tx[t].lock > 0 \/ dines[tx[t].dine] = tx[t].rest
    BY <1>1, <2>1 DEF DineOf
  <2>3. CASE tx[t].lock > 0
    BY <1>1, <1>2, <1>4, <2>3, StoreAssumption DEF Held
  <2>4. CASE dines[tx[t].dine] = tx[t].rest
    <3>1. tx[t].dine \in Dines
      BY <1>1, <2>1 DEF TxRecords, OrNone
    <3> QED
      BY <1>2, <2>4, <3>1 DEF ReferencesHold
  <2> QED
    BY <1>2, <2>2, <2>3, <2>4
<1> QED
  BY <1>2, <1>3, <1>4

\* No statement leaves a dine or an item without its restaurant: a transaction
\* that adds one holds a lock that DeleteRestaurantIfUnvisited waits for.
LEMMA ReferencesStep ==
  ASSUME Typing, LockedStays, DinesHeld, ReferencesHold, [Next]_vars
  PROVE  ReferencesHold'
<1> USE StoreAssumption DEF tables
<1> SUFFICES ASSUME Next PROVE ReferencesHold'
  BY DEF ReferencesHold, Live, vars
<1>0. /\ dines \in [Dines -> Restaurants \cup {None, Gone}]
      /\ want \in [Restaurants -> {"off", "open", "done"}]
      /\ restaurants \in [Restaurants -> Row \cup {None, Gone}]
      /\ None \notin Restaurants /\ Gone \notin Restaurants
      /\ None \notin Row /\ Gone \notin Row
  BY DEF Typing, TypeOK, Restaurants
<1>t. ASSUME UNCHANGED tables PROVE ReferencesHold'
  BY <1>t DEF ReferencesHold, Live
<1>1. ASSUME NEW t \in Tx, Commit(t) PROVE ReferencesHold'
  <2>1. /\ tx[t].rest \in Restaurants
        /\ tx[t].row \in Row \cup {None}
        /\ tx[t].dine # None \/ tx[t].want # None => tx[t].row \in Row \/ Live(tx[t].rest)
    BY <1>1, CommitLive
  <2>2. \A r \in Restaurants : Live(r) => restaurants'[r] \notin {None, Gone}
    BY <1>0, <1>1, <2>1 DEF Commit, Live
  <2>3. tx[t].dine # None \/ tx[t].want # None => restaurants'[tx[t].rest] \notin {None, Gone}
    BY <1>0, <1>1, <2>1, <2>2 DEF Commit
  <2>4. ASSUME NEW v \in Dines, dines'[v] \in Restaurants
        PROVE  restaurants'[dines'[v]] \notin {None, Gone}
    BY <1>0, <1>1, <2>2, <2>3, <2>4 DEF Commit, ReferencesHold
  <2>5. ASSUME NEW r \in Restaurants, want'[r] # "off"
        PROVE  restaurants'[r] \notin {None, Gone}
    BY <1>0, <1>1, <2>2, <2>3, <2>5 DEF Commit, ReferencesHold
  <2> QED
    BY <2>4, <2>5 DEF ReferencesHold, Live
<1>2. ASSUME NEW t \in Tx, Cascade(t) PROVE ReferencesHold'
  BY <1>0, <1>2 DEF Cascade, ReferencesHold, Live
<1>3. ASSUME NEW t \in Tx, WriteRefresh(t) PROVE ReferencesHold'
  <2>1. \A r \in Restaurants : Live(r) => restaurants'[r] \notin {None, Gone}
    BY <1>0, <1>3, RefreshFields DEF Live
  <2> QED
    BY <1>3, <2>1 DEF WriteRefresh, ReferencesHold, Live
<1>4. ASSUME NEW v \in Dines, DeleteDine(v) PROVE ReferencesHold'
  BY <1>0, <1>4 DEF DeleteDine, ReferencesHold, Live
<1>5. ASSUME NEW r \in Restaurants, DeleteWantToTry(r) PROVE ReferencesHold'
  BY <1>0, <1>5 DEF DeleteWantToTry, ReferencesHold, Live
<1>6. ASSUME NEW r \in Restaurants, NEW n \in Names, NEW a \in OrNone(Addresses),
             EditRestaurant(r, n, a)
      PROVE  ReferencesHold'
  <2>1. \A s \in Restaurants : Live(s) => restaurants'[s] \notin {None, Gone}
    BY <1>0, <1>6, EditFields DEF Live
  <2> QED
    BY <1>6, <2>1 DEF EditRestaurant, ReferencesHold, Live
<1>7. ASSUME NEW t \in Tx, Begin(t) PROVE ReferencesHold'
  BY <1>7, <1>t, BeginFields
<1> QED
  BY <1>t, <1>1, <1>2, <1>3, <1>4, <1>5, <1>6, <1>7
  DEF Next, Step, Abort, ChosenExists, LockChosen, CheckOwner, MatchPlace, MatchName,
      InsertRestaurant, FillRestaurant, InsertDine, MarkDone, UpsertWant, LockDine, MoveDine,
      RemoveRow

-----------------------------------------------------------------------------
(* Places *)

\* No statement links a place twice: a transaction that is about to link it
\* holds its entry of the unique index.
LEMMA PlacesStep ==
  ASSUME Typing, FreshIds, LocksExclude, PlacesHeld, PlacesUnique, [Next]_vars
  PROVE  PlacesHeld' /\ PlacesUnique'
<1> DEFINE Safe == PlacesHeld /\ PlacesUnique
<1> USE StoreAssumption DEF tables
<1> SUFFICES ASSUME Next PROVE Safe'
  BY DEF PlacesHeld, PlaceOf, PlacesUnique, Owners, Live, vars
<1>0. /\ tx \in [Tx -> TxRecords]
      /\ \A u \in Tx : /\ tx[u] \in TxRecords /\ Control(tx[u]) /\ PlaceOf(tx[u])
                       /\ tx[u].lock \in 0..4
      /\ restaurants \in [Restaurants -> Row \cup {None, Gone}]
      /\ None \notin Row /\ Gone \notin Row
  BY DEF Typing, TypeOK, PlacesHeld, TxRecords
<1>t. ASSUME NEW t \in Tx, NEW x, Becomes(t, x), UNCHANGED restaurants, PlaceOf(x),
             \A u \in Tx : u # t /\ x.row \in Row /\ x.row.place # None /\ tx[u].row \in Row
                           => tx[u].row.place # x.row.place
      PROVE  Safe'
  <2>1. tx'[t] = x /\ \A u \in Tx : u # t => tx'[u] = tx[u]
    BY <1>0, <1>t, BecomesOf
  <2>2. \A p : Owners(p)' = Owners(p)
    BY <1>t DEF Owners, Live
  <2>3. ASSUME NEW u \in Tx PROVE PlaceOf(tx[u])'
    BY <1>0, <1>t, <2>1, <2>2 DEF PlaceOf
  <2>4. ASSUME NEW u \in Tx, NEW w \in Tx \ {u}, tx'[u].row \in Row, tx'[w].row \in Row,
               tx'[u].row.place # None
        PROVE  tx'[w].row.place # tx'[u].row.place
    BY <1>0, <1>t, <2>1, <2>4 DEF PlacesHeld
  <2> QED
    BY <2>2, <2>3, <2>4 DEF PlacesHeld, PlacesUnique
<1>s. ASSUME NEW t \in Tx, NEW x, Becomes(t, x), UNCHANGED restaurants,
             \/ x.row \notin Row
             \/ x.row = tx[t].row /\ x.rest = tx[t].rest
      PROVE  Safe'
  <2>1. PlaceOf(x)
    BY <1>0, <1>s DEF PlaceOf
  <2> QED
    BY <1>0, <1>s, <1>t, <2>1 DEF PlacesHeld
<1>e. ASSUME \A u \in Tx : tx'[u] = tx[u] \/ tx'[u].row = None,
             \A p \in Places : Owners(p)' \subseteq Owners(p)
      PROVE  Safe'
  <2>2. ASSUME NEW u \in Tx PROVE PlaceOf(tx[u])'
    <3>1. CASE tx'[u].row \in Row /\ tx'[u].row.place # None
      <4>1. tx'[u] = tx[u] /\ tx[u].row.place \in Places
        BY <1>0, <1>e, <3>1 DEF Row, OrNone
      <4> QED
        BY <1>0, <1>e, <4>1 DEF PlaceOf
    <3> QED
      BY <3>1 DEF PlaceOf
  <2>3. ASSUME NEW u \in Tx, NEW w \in Tx \ {u}, tx'[u].row \in Row, tx'[w].row \in Row,
               tx'[u].row.place # None
        PROVE  tx'[w].row.place # tx'[u].row.place
    <3>1. tx'[u] = tx[u] /\ tx'[w] = tx[w]
      BY <1>e, <2>3, <1>0
    <3> QED
      BY <2>3, <3>1 DEF PlacesHeld
  <2> QED
    BY <1>e, <2>2, <2>3 DEF PlacesHeld, PlacesUnique
<1> HIDE DEF Safe
<1>1. ASSUME NEW t \in Tx, ChosenExists(t) \/ CheckOwner(t) \/ LockChosen(t) PROVE Safe'
  BY <1>0, <1>1, <1>s DEF ChosenExists, CheckOwner, LockChosen, End, Idle, TxRecords
<1>2. ASSUME NEW t \in Tx, MatchPlace(t) \/ MatchName(t) PROVE Safe'
  <2>1. tx[t].row = None
    BY <1>0, <1>2 DEF MatchPlace, MatchName, Ready, Control, Resolving, Matching
  <2>2. PICK x : Becomes(t, x) /\ x.row = None /\ UNCHANGED restaurants
    <3>1. ASSUME NEW rest, NEW pc, Becomes(t, [tx[t] EXCEPT !.rest = rest, !.pc = pc])
          PROVE  \E x : Becomes(t, x) /\ x.row = None
      <4>1. [tx[t] EXCEPT !.rest = rest, !.pc = pc].row = None
        BY <1>0, <2>1 DEF TxRecords
      <4> QED
        BY <3>1, <4>1, Zenon
    <3>2. ASSUME NEW pc, Becomes(t, [tx[t] EXCEPT !.pc = pc])
          PROVE  \E x : Becomes(t, x) /\ x.row = None
      <4>1. [tx[t] EXCEPT !.pc = pc].row = None
        BY <1>0, <2>1 DEF TxRecords
      <4> QED
        BY <3>2, <4>1, Zenon
    <3>3. \E x : Becomes(t, x) /\ x.row = None
      BY <1>2, <3>1, <3>2, Zenon DEF MatchPlace, MatchName
    <3> QED
      BY <1>2, <3>3 DEF MatchPlace, MatchName, tables
  <2> QED
    BY <1>0, <1>s, <2>2
<1>r. ASSUME NEW t \in Tx, NEW r, NEW row \in Row, UNCHANGED restaurants, Resolved(t, r, row),
             row.place # None =>
                /\ Owners(row.place) \subseteq {r}
                /\ \A u \in Tx : u # t /\ tx[u].row \in Row => tx[u].row.place # row.place
      PROVE  Safe'
  <2>1. tx'[t].row = row /\ tx'[t].rest = r
    BY <1>r, ResolvedFields
  <2>2. Becomes(t, tx'[t])
    BY <1>0, <1>r DEF Resolved, Becomes
  <2>3. PlaceOf(tx'[t])
    BY <1>r, <2>1 DEF PlaceOf
  <2> DEFINE x == tx'[t]
  <2>4. \A u \in Tx : u # t /\ x.row \in Row /\ x.row.place # None /\ tx[u].row \in Row
                    => tx[u].row.place # x.row.place
    BY <1>r, <2>1
  <2>5. Becomes(t, x) /\ PlaceOf(x) /\ UNCHANGED restaurants
    BY <1>r, <2>2, <2>3
  <2> HIDE DEF x
  <2> QED
    BY <1>t, <2>4, <2>5
<1>3. ASSUME NEW t \in Tx, InsertRestaurant(t) PROVE Safe'
  <2> DEFINE p == tx[t].in.place
  <2>1. tx[t].in \in Row /\ tx[t].pc = "insert" /\ UNCHANGED restaurants
    BY <1>3, InsertResolves DEF InsertRestaurant, Ready
  <2>2. \A u \in Tx : u # t /\ p # None /\ tx[u].row \in Row => tx[u].row.place # p
    BY <1>0, <1>3, <2>1, Unblocked DEF InsertRestaurant, IndexBlocks, Links
  <2>3. CASE Resolved(t, tx[t].id, tx[t].in) /\ (p # None => Owners(p) = {})
    BY <1>r, <2>1, <2>2, <2>3
  <2>4. ASSUME NEW r \in Owners(p), Resolved(t, r, Fill(restaurants[r], tx[t].in)), p # None
        PROVE  Safe'
    <3>1. r \in Restaurants /\ restaurants[r] \in Row /\ restaurants[r].place = p
      BY <2>4, LiveRow DEF Owners, Typing
    <3>2. /\ Fill(restaurants[r], tx[t].in) \in Row
          /\ Fill(restaurants[r], tx[t].in).place = p
      BY <2>1, <2>4, <3>1, FillTyped DEF Coalesce
    <3>3. p \in Places
      BY <2>1, <2>4 DEF Row, OrNone
    <3>4. Owners(p) \subseteq {r}
      BY <2>4, <3>3 DEF PlacesUnique
    <3> QED
      BY <1>r, <2>1, <2>2, <2>4, <3>2, <3>4
  <2> QED
    BY <1>3, <2>3, <2>4, InsertResolves
<1>4. ASSUME NEW t \in Tx, FillRestaurant(t) PROVE Safe'
  <2> DEFINE r == tx[t].rest
             in == FillInput(t)
             row == Fill(restaurants[r], in)
  <2>1. /\ tx[t].pc = "fill" /\ tx[t].in \in Row /\ r \in Restaurants /\ tx[t].row = None
        /\ in \in Row /\ in.place = tx[t].in.place /\ UNCHANGED restaurants
    BY <1>0, <1>4, FillInputTyped
    DEF FillRestaurant, Ready, Control, TxRecords, OrNone, Steps, Resolving, Matching
  <2>2. CASE Live(r) /\ Resolved(t, r, row) /\ ~(Links(t) /\ Owners(tx[t].in.place) # {})
    <3>1. restaurants[r] \in Row
      BY <2>1, <2>2, LiveRow DEF Typing
    <3>2. row \in Row /\ row.place = Coalesce(restaurants[r].place, in.place)
      BY <2>1, <3>1, FillTyped
    <3>3. CASE restaurants[r].place # None
      <4> DEFINE p == restaurants[r].place
      <4>1. row.place = p /\ p \in Places /\ r \in Owners(p)
        BY <2>1, <2>2, <3>1, <3>2, <3>3 DEF Coalesce, Row, OrNone, Owners
      <4>2. Owners(p) \subseteq {r}
        BY <4>1 DEF PlacesUnique
      <4>3. ASSUME NEW u \in Tx, u # t, tx[u].row \in Row, tx[u].row.place = p PROVE FALSE
        <5>1. tx[u].rest = r
          BY <1>0, <3>3, <4>1, <4>3 DEF PlaceOf
        <5>2. tx[u].lock >= NoKeyUpdate
          BY <1>0, <4>3 DEF Control
        <5>3. ~Conflict(tx[u].lock, NoKeyUpdate)
          BY <1>4, <2>1, <4>3, <5>1, Unblocked
          DEF FillRestaurant, RowBlocks, AskedLock, AskedRows
        <5> QED
          BY <1>0, <5>2, <5>3 DEF Conflict, NoKeyUpdate
      <4> QED
        BY <1>r, <2>1, <2>2, <3>2, <4>1, <4>2, <4>3
    <3>4. CASE restaurants[r].place = None
      <4>1. row.place = tx[t].in.place
        BY <2>1, <3>2, <3>4 DEF Coalesce
      <4>2. row.place # None => Links(t)
        BY <2>1, <2>2, <3>4, <4>1 DEF Links
      <4>3. row.place # None => Owners(row.place) = {}
        BY <2>2, <4>1, <4>2
      <4>4. \A u \in Tx : u # t /\ row.place # None /\ tx[u].row \in Row
                          => tx[u].row.place # row.place
        BY <1>0, <1>4, <2>1, <4>1, <4>2, Unblocked DEF FillRestaurant, IndexBlocks
      <4> HIDE DEF row, r
      <4> QED
        BY <1>r, <2>1, <2>2, <3>2, <4>3, <4>4
    <3> QED
      BY <3>3, <3>4
  <2>3. CASE Becomes(t, [tx[t] EXCEPT !.id = None, !.pc = AfterResolve(tx[t].op)])
    BY <1>0, <1>s, <2>1, <2>3 DEF TxRecords
  <2>4. CASE End(t)
    BY <1>0, <1>s, <2>1, <2>4 DEF End, Idle
  <2> QED
    BY <1>4, <2>2, <2>3, <2>4 DEF FillRestaurant
<1>5. ASSUME NEW t \in Tx, InsertDine(t) \/ MarkDone(t) \/ UpsertWant(t) PROVE Safe'
  BY <1>0, <1>5, <1>s DEF InsertDine, MarkDone, UpsertWant, End, Idle, TxRecords
<1>6. ASSUME NEW t \in Tx, LockDine(t) \/ MoveDine(t) PROVE Safe'
  <2>1. tx[t].row = None
    BY <1>0, <1>6 DEF LockDine, MoveDine, Ready, Control, Moving
  <2>2. UNCHANGED restaurants /\ \E v : Becomes(t, v) /\ v.row = None
    <3>1. /\ Idle.row = None
          /\ [tx[t] EXCEPT !.dine = tx[t].target, !.pc = "move"].row = None
          /\ [tx[t] EXCEPT !.pc = WantStep(t)].row = None
          /\ [tx[t] EXCEPT !.lock = KeyShare, !.pc = WantStep(t)].row = None
      BY <1>0, <2>1 DEF Idle, TxRecords
    <3> QED
      BY <1>6, <3>1 DEF LockDine, MoveDine, End, tables
  <2> QED
    BY <1>s, <2>2
<1>7. ASSUME NEW t \in Tx, RemoveRow(t) PROVE Safe'
  <2> DEFINE x == [tx[t] EXCEPT !.lock = ForUpdate, !.row = Gone, !.pc = "cascade"]
  <2>1. x.row = Gone
    BY <1>0 DEF TxRecords
  <2>2. Becomes(t, x) \/ Becomes(t, Idle)
    BY <1>7 DEF RemoveRow, End
  <2>3. UNCHANGED restaurants /\ Idle.row = None
    BY <1>7 DEF RemoveRow, Idle
  <2> HIDE DEF x
  <2> QED
    BY <1>0, <1>s, <2>1, <2>2, <2>3
<1>8. ASSUME NEW t \in Tx, Cascade(t) PROVE Safe'
  <2>1. \A p \in Places : Owners(p)' \subseteq Owners(p)
    BY <1>0, <1>8 DEF Cascade, Owners, Live
  <2> QED
    BY <1>0, <1>8, <1>e, <2>1 DEF Cascade, End, Becomes, Idle
<1>9. ASSUME NEW t \in Tx, WriteRefresh(t) PROVE Safe'
  <2>1. \A p \in Places : Owners(p)' \subseteq Owners(p)
    BY <1>0, <1>9, RefreshFields DEF Owners, Live
  <2>2. \A u \in Tx : tx'[u] = tx[u] \/ tx'[u].row = None
    BY <1>0, <1>9 DEF WriteRefresh, End, Becomes, Idle
  <2> QED
    BY <1>e, <2>1, <2>2
<1>10. ASSUME NEW r \in Restaurants, NEW n \in Names, NEW a \in OrNone(Addresses),
              EditRestaurant(r, n, a)
       PROVE  Safe'
  <2>1. \A p \in Places : Owners(p)' \subseteq Owners(p)
    BY <1>0, <1>10, EditFields DEF Owners, Live
  <2>2. UNCHANGED tx
    BY <1>10 DEF EditRestaurant
  <2> QED
    BY <1>e, <2>1, <2>2
<1>11. ASSUME NEW t \in Tx, Commit(t) PROVE Safe'
  <2>1. /\ tx[t].row \in Row \cup {None} /\ tx[t].rest \in Restaurants
        /\ tx' = [tx EXCEPT ![t] = Idle]
    BY <1>0, <1>11 DEF Commit, Ready, Control, TxRecords, OrNone, Steps, Matching, End, Becomes
  <2>2. CASE tx[t].row = None
    BY <1>0, <1>11, <1>e, <2>1, <2>2 DEF Commit, Owners, Live, Idle
  <2>3. CASE tx[t].row \in Row
    <3> DEFINE r == tx[t].rest
               q == tx[t].row.place
    <3>1. restaurants'[r] = tx[t].row /\ \A s \in Restaurants : s # r => restaurants'[s] = restaurants[s]
      BY <1>0, <1>11, <2>1, <2>3 DEF Commit
    <3>2. \A p \in Places : p # q => Owners(p)' \subseteq Owners(p)
      BY <3>1 DEF Owners, Live
    <3>3. \A p \in Places : p = q => Owners(p) \subseteq {r} /\ Owners(p)' \subseteq {r}
      <4>1. \A p \in Places : p = q => p # None /\ Owners(p) \subseteq {r}
        BY <1>0, <2>3 DEF PlaceOf
      <4> QED
        BY <3>1, <4>1 DEF Owners, Live
    <3>4. \A u \in Tx : (u # t /\ tx'[u] = tx[u]) \/ tx'[u].row = None
      BY <1>0, <2>1 DEF Idle
    <3>5. PlacesUnique'
      BY <3>2, <3>3 DEF PlacesUnique
    <3>6. ASSUME NEW u \in Tx, tx'[u].row \in Row, tx'[u].row.place # None,
                 NEW s \in Restaurants, Live(s)', restaurants'[s].place = tx'[u].row.place
          PROVE  s = tx'[u].rest
      <4>1. u # t /\ tx'[u] = tx[u] /\ tx[u].row.place \in Places
        BY <1>0, <3>4, <3>6 DEF Row, OrNone
      <4>2. tx[u].row.place # q
        BY <2>3, <3>6, <4>1 DEF PlacesHeld
      <4>3. s # r
        BY <3>1, <3>6, <4>1, <4>2
      <4>4. s \in Owners(tx[u].row.place)
        BY <3>1, <3>6, <4>1, <4>3 DEF Owners, Live
      <4>5. Owners(tx[u].row.place) \subseteq {tx[u].rest}
        BY <1>0, <3>6, <4>1 DEF PlaceOf
      <4> QED
        BY <4>1, <4>4, <4>5
    <3>7. ASSUME NEW u \in Tx, NEW w \in Tx \ {u}, tx'[u].row \in Row, tx'[w].row \in Row,
                 tx'[u].row.place # None
          PROVE  tx'[w].row.place # tx'[u].row.place
      <4>1. tx'[u] = tx[u] /\ tx'[w] = tx[w]
        BY <1>0, <3>4, <3>7
      <4> QED
        BY <3>7, <4>1 DEF PlacesHeld
    <3>8. \A u \in Tx : PlaceOf(tx[u])'
      BY <3>6 DEF PlaceOf, Owners
    <3>9. PlacesHeld'
      BY <3>7, <3>8 DEF PlacesHeld
    <3> QED
      BY <3>5, <3>9 DEF Safe
  <2> QED
    BY <2>1, <2>2, <2>3
<1>12. ASSUME NEW t \in Tx, Abort(t) PROVE Safe'
  BY <1>0, <1>12, <1>e DEF Abort, End, Becomes, Owners, Live, Idle
<1>13. ASSUME NEW t \in Tx, Begin(t) PROVE Safe'
  <2> DEFINE x == tx'[t]
  <2>1. Becomes(t, x) /\ x.row \notin Row /\ UNCHANGED restaurants
    BY <1>0, <1>13, BeginFields
  <2> HIDE DEF x
  <2> QED
    BY <1>s, <2>1
<1>14. ASSUME UNCHANGED <<restaurants, tx>> PROVE Safe'
  BY <1>14, <1>e DEF Owners, Live
<1>15. ASSUME NEW t \in Tx, Step(t) PROVE Safe'
  BY <1>1, <1>2, <1>3, <1>4, <1>5, <1>6, <1>7, <1>8, <1>9, <1>11, <1>15 DEF Step
<1>16. ASSUME NEW v \in Dines, DeleteDine(v) PROVE Safe'
  BY <1>14, <1>16 DEF DeleteDine
<1>17. ASSUME NEW r \in Restaurants, DeleteWantToTry(r) PROVE Safe'
  BY <1>14, <1>17 DEF DeleteWantToTry
<1> QED
  BY <1>10, <1>12, <1>13, <1>15, <1>16, <1>17 DEF Next, Safe

-----------------------------------------------------------------------------
(* Who writes what *)

\* Only commits, cascades, metadata refreshes and edits write restaurants;
\* only commits, cascades and removals write the Want to Try list.
LEMMA OthersWriteNothing ==
  ASSUME Next
  PROVE  /\ \/ UNCHANGED restaurants
            \/ \E t \in Tx : Commit(t) \/ Cascade(t) \/ WriteRefresh(t)
            \/ \E r \in Restaurants, n \in Names, a \in OrNone(Addresses) :
                  EditRestaurant(r, n, a)
         /\ \/ UNCHANGED want
            \/ \E t \in Tx : Commit(t) \/ Cascade(t)
            \/ \E s \in Restaurants : DeleteWantToTry(s)
<1> USE DEF tables
<1>1. ASSUME NEW t \in Tx, Begin(t) PROVE UNCHANGED tables
  BY <1>1 DEF Begin, BeginSave, BeginChosen, BeginDescribed, BeginUpdate, BeginDelete, BeginRefresh
<1>2. ASSUME NEW t \in Tx, Step(t), ~Commit(t), ~Cascade(t), ~WriteRefresh(t)
      PROVE  UNCHANGED tables
  BY <1>2 DEF Step, ChosenExists, LockChosen, CheckOwner, MatchPlace, MatchName,
     InsertRestaurant, FillRestaurant, InsertDine, MarkDone, UpsertWant, LockDine,
     MoveDine, RemoveRow
<1>3. ASSUME NEW t \in Tx, Abort(t) PROVE UNCHANGED tables
  BY <1>3 DEF Abort
<1>4. ASSUME NEW t \in Tx, WriteRefresh(t) PROVE UNCHANGED want
  BY <1>4 DEF WriteRefresh
<1>5. ASSUME NEW v \in Dines, DeleteDine(v) PROVE UNCHANGED <<restaurants, want>>
  BY <1>5 DEF DeleteDine
<1>6. ASSUME NEW r \in Restaurants, DeleteWantToTry(r) PROVE UNCHANGED restaurants
  BY <1>6 DEF DeleteWantToTry
<1>7. ASSUME NEW r \in Restaurants, NEW n \in Names, NEW a \in OrNone(Addresses),
             EditRestaurant(r, n, a)
      PROVE  UNCHANGED want
  BY <1>7 DEF EditRestaurant
<1> QED
  BY <1>1, <1>2, <1>3, <1>4, <1>5, <1>6, <1>7 DEF Next

-----------------------------------------------------------------------------
(* The theorems *)

\* In the empty ledger with no request in flight there is nothing to violate.
LEMMA InvariantInit == Init => Invariant
<1> SUFFICES ASSUME Init PROVE Invariant
  OBVIOUS
<1> USE StoreAssumption
<1>1. Typing
  BY InitTyping
<1>2. \A t \in Tx : /\ tx[t].id = None /\ tx[t].rest = None /\ tx[t].lock = 0
                    /\ tx[t].row = None /\ tx[t].dine = None /\ tx[t].want = None
                    /\ tx[t].op = "idle" /\ tx[t].pc = "idle"
  BY DEF Init, Idle
<1>3. FreshIds
  BY <1>2 DEF Init, FreshIds, Restaurants
<1>4. LocksExclude
  BY <1>2 DEF LocksExclude, Conflict
<1>5. LockedStays
  <2>1. None \notin Row
    OBVIOUS
  <2>2. ASSUME NEW t \in Tx PROVE Held(tx[t])
    <3>1. tx[t].row \notin Row /\ ~ (tx[t].lock > 0)
      BY <1>2, <2>1
    <3> QED
      BY <3>1, Zenon DEF Held
  <2> QED
    BY <2>2, Zenon DEF LockedStays
<1>6. DinesApart /\ DinesHeld
  BY <1>2 DEF DinesApart, DinesHeld, DineOf
<1>7. PlacesHeld
  BY <1>2 DEF PlacesHeld, PlaceOf
<1>8. ReferencesHold
  BY DEF Init, ReferencesHold, Restaurants
<1>9. PlacesUnique
  BY DEF Init, PlacesUnique, Owners, Live
<1> QED
  BY <1>1, <1>3, <1>4, <1>5, <1>6, <1>7, <1>8, <1>9 DEF Invariant, Consistent, Typing

\* Every statement, commit, failure or request preserves the invariant.
LEMMA InvariantStep ==
  ASSUME Invariant, [Next]_vars
  PROVE  Invariant'
<1>1. Typing /\ Typing'
  BY TypingStep DEF Invariant, Consistent, Typing
<1>2. FreshIds' /\ LocksExclude' /\ LockedStays'
  BY <1>1, FreshIdsStep, LocksExcludeStep, LockedStaysStep DEF Invariant, Consistent
<1>3. DinesApart' /\ DinesHeld'
  BY <1>1, DinesApartStep, DinesHeldStep DEF Invariant, Consistent
<1>4. PlacesHeld' /\ PlacesUnique'
  BY <1>1, PlacesStep DEF Invariant, Consistent
<1>5. ReferencesHold'
  BY <1>1, ReferencesStep DEF Invariant, Consistent
<1> QED
  BY <1>1, <1>2, <1>3, <1>4, <1>5 DEF Invariant, Consistent, Typing

\* For any number of requests, restaurants and dines, every reachable state of
\* the ledger satisfies the invariant.
THEOREM InvariantCorrect == Spec => []Invariant
BY InvariantInit, InvariantStep, PTL DEF Spec

\* Whatever requests run together, no dine and no Want to Try item is left at
\* a restaurant that DeleteRestaurantIfUnvisited removed.
THEOREM ReferencesCorrect == Spec => []ReferencesHold
<1>1. Invariant => ReferencesHold
  BY DEF Invariant
<1> QED
  BY <1>1, InvariantCorrect, PTL

\* Whatever requests run together, two restaurants are never linked to one
\* Google place: the unique index and the FOR UPDATE read of resolveRestaurant
\* suffice for every interleaving.
THEOREM PlacesCorrect == Spec => []PlacesUnique
<1>1. Invariant => PlacesUnique
  BY DEF Invariant
<1> QED
  BY <1>1, InvariantCorrect, PTL

\* What the requests in flight have to themselves, in every reachable state of
\* every instance.
THEOREM ConsistentCorrect == Spec => []Consistent
<1>1. Invariant => Consistent
  BY DEF Invariant
<1> QED
  BY <1>1, InvariantCorrect, PTL

\* A restaurant's Google place never changes once it is set, because a
\* transaction that read the row before it was linked cannot write it after.
THEOREM PlaceKeptCorrect == Spec => PlaceKept
<1> DEFINE Kept == \A r \in Restaurants :
                     Live(r) /\ restaurants[r].place # None /\ Live(r)'
                     => restaurants'[r].place = restaurants[r].place
<1>1. ASSUME Invariant, Next PROVE Kept
  <2>0. Typing /\ restaurants \in [Restaurants -> Row \cup {None, Gone}] /\ LockedStays
    BY <1>1 DEF Invariant, Consistent, Typing, TypeOK
  <2>1. CASE UNCHANGED restaurants
    BY <2>1 DEF Live
  <2>2. ASSUME NEW t \in Tx, Commit(t) PROVE Kept
    <3>1. tx[t].row \in Row \cup {None} /\ Held(tx[t])
      BY <2>0, <2>2, StoreAssumption
      DEF Typing, TypeOK, TxRecords, LockedStays, Commit, Ready, Control
    <3>2. ASSUME NEW r \in Restaurants, Live(r), restaurants[r].place # None
          PROVE  restaurants'[r].place = restaurants[r].place
      BY <2>0, <2>2, <3>1, <3>2, StoreAssumption DEF Commit, Held
    <3> QED
      BY <3>2
  <2>3. ASSUME NEW t \in Tx, Cascade(t) PROVE Kept
    BY <2>0, <2>3 DEF Cascade, Live
  <2>4. ASSUME NEW t \in Tx, WriteRefresh(t) PROVE Kept
    BY <2>0, <2>4, RefreshFields
  <2>5. ASSUME NEW r \in Restaurants, NEW n \in Names, NEW a \in OrNone(Addresses),
               EditRestaurant(r, n, a)
        PROVE  Kept
    BY <2>0, <2>5, EditFields
  <2>6. \/ UNCHANGED restaurants
        \/ \E t \in Tx : Commit(t) \/ Cascade(t) \/ WriteRefresh(t)
        \/ \E r \in Restaurants, n \in Names, a \in OrNone(Addresses) : EditRestaurant(r, n, a)
    BY <1>1, OthersWriteNothing
  <2> QED
    BY <2>1, <2>2, <2>3, <2>4, <2>5, <2>6
<1>2. Invariant /\ [Next]_vars => [Kept]_vars
  BY <1>1
<1> QED
  BY <1>2, InvariantCorrect, PTL DEF Spec, PlaceKept

\* An open Want to Try item is only marked done together with a dine that
\* appears at its restaurant.
THEOREM OpenItemStaysCorrect == Spec => OpenItemStays
<1> DEFINE Stays == \A r \in Restaurants :
                      want[r] = "open" /\ want'[r] = "done"
                      => \E v \in Dines : dines[v] # r /\ dines'[v] = r
<1>1. ASSUME Invariant, Next PROVE Stays
  <2>0. Typing /\ TypeOK /\ DinesHeld
    BY <1>1 DEF Invariant, Consistent, Typing
  <2>1. ASSUME NEW t \in Tx, Commit(t), NEW r \in Restaurants, want[r] = "open", want'[r] = "done"
        PROVE  \E v \in Dines : dines[v] # r /\ dines'[v] = r
    <3>1. r = tx[t].rest /\ tx[t].want = "done"
      BY <2>0, <2>1 DEF Commit, TypeOK
    <3>2. tx[t].dine # None /\ dines[tx[t].dine] # r
      BY <2>0, <3>1 DEF DinesHeld, DineOf
    <3>3. tx[t].dine \in Dines
      BY <2>0, <3>2 DEF TypeOK, TxRecords, OrNone
    <3>4. dines'[tx[t].dine] = r
      BY <2>0, <2>1, <3>1, <3>2, <3>3 DEF Commit, TypeOK
    <3> QED
      BY <3>2, <3>3, <3>4
  <2>2. ASSUME NEW t \in Tx, Cascade(t) PROVE Stays
    BY <2>0, <2>2 DEF Cascade, TypeOK
  <2>3. ASSUME NEW s \in Restaurants, DeleteWantToTry(s) PROVE Stays
    BY <2>0, <2>3 DEF DeleteWantToTry, TypeOK
  <2>4. CASE UNCHANGED want
    BY <2>4
  <2>5. \/ UNCHANGED want
        \/ \E t \in Tx : Commit(t) \/ Cascade(t)
        \/ \E s \in Restaurants : DeleteWantToTry(s)
    BY <1>1, OthersWriteNothing
  <2> QED
    BY <2>1, <2>2, <2>3, <2>4, <2>5
<1>2. Invariant /\ [Next]_vars => [Stays]_vars
  BY <1>1
<1> QED
  BY <1>2, InvariantCorrect, PTL DEF Spec, OpenItemStays

-----------------------------------------------------------------------------
(* Google metadata follows the place *)

\* The details of a row a request is about to commit are the ones there before,
\* or its own; onto a restaurant it chose, only if the row links its own place.
Submitted(x, old, row) ==
    \/ row.coords = old.coords
    \/ row.coords = x.in.coords /\ (x.chosen # None => row.place = x.in.place)

\* What a request knows of the restaurant that it chose, or refreshes.
Follows(x) ==
    /\ x.row \in Row => restaurants[x.rest] # Gone
    /\ x.row \in Row /\ Live(x.rest) => Submitted(x, restaurants[x.rest], x.row)
    /\ x.chosen # None => x.rest \in Restaurants /\ restaurants[x.rest] # None
    /\ x.pc = "fill" /\ x.chosen # None /\ x.in.place # None =>
          \/ restaurants[x.rest] = Gone
          \/ /\ x.lock = ForUpdate /\ Live(x.rest)
             /\ restaurants[x.rest].place \in {None, x.in.place}
    /\ x.pc = "refresh" =>
          /\ x.in.place # None
          /\ \/ restaurants[x.rest] = Gone
             \/ Live(x.rest) /\ restaurants[x.rest].place = x.in.place

Following == \A t \in Tx : Follows(tx[t])

\* A restaurant that changes under a request keeps the place it had, and all
\* that is asked about here if the request has a lock on it.
Keeps(x) ==
    \/ restaurants'[x.rest] = restaurants[x.rest]
    \/ /\ restaurants[x.rest] \in Row /\ restaurants'[x.rest] \in Row
       /\ \/ restaurants[x.rest].place = None
          \/ restaurants'[x.rest].place = restaurants[x.rest].place
       /\ x.lock >= NoKeyUpdate =>
             /\ restaurants'[x.rest].place = restaurants[x.rest].place
             /\ restaurants'[x.rest].coords = restaurants[x.rest].coords
    \/ x.row \notin Row /\ restaurants'[x.rest] = Gone
    \/ /\ restaurants[x.rest] = None /\ restaurants'[x.rest] \in Row
       /\ x.lock < NoKeyUpdate

\* What a request knows of a restaurant's coordinates stays so while others
\* keep them.
LEMMA KeepsFollows ==
  ASSUME Typing, NEW u \in Tx, Follows(tx[u]), tx'[u] = tx[u],
         tx[u].rest \in Restaurants => Keeps(tx[u])
  PROVE  Follows(tx[u])'
<1> USE StoreAssumption
<1> DEFINE x == tx[u]
<1>1. x \in TxRecords /\ Control(x) /\ x.lock \in 0..4
  BY DEF Typing, TypeOK, TxRecords
<1>2. x.row \in Row => x.lock >= NoKeyUpdate
  BY <1>1 DEF Control
<1>3. x.row \in Row \/ x.pc \in {"fill", "refresh"} => x.rest \in Restaurants
  BY <1>1, <1>2 DEF Control, TxRecords, OrNone, NoKeyUpdate, Steps, Matching
<1>4. CASE x.rest \notin Restaurants
  BY <1>3, <1>4 DEF Follows
<1>5. CASE restaurants'[x.rest] = restaurants[x.rest]
  BY <1>5 DEF Follows, Submitted, Live
<1>6. CASE /\ restaurants[x.rest] \in Row /\ restaurants'[x.rest] \in Row
           /\ \/ restaurants[x.rest].place = None
              \/ restaurants'[x.rest].place = restaurants[x.rest].place
           /\ x.lock >= NoKeyUpdate =>
                 /\ restaurants'[x.rest].place = restaurants[x.rest].place
                 /\ restaurants'[x.rest].coords = restaurants[x.rest].coords
  BY <1>1, <1>2, <1>6 DEF Follows, Submitted, Live, ForUpdate, NoKeyUpdate
<1>7. CASE x.row \notin Row /\ restaurants'[x.rest] = Gone
  BY <1>7 DEF Follows, Live
<1>8. CASE /\ restaurants[x.rest] = None /\ restaurants'[x.rest] \in Row
           /\ x.lock < NoKeyUpdate
  <2>1. x.row \notin Row /\ x.chosen = None /\ x.pc # "refresh"
    BY <1>1, <1>2, <1>8 DEF Follows, Live, NoKeyUpdate
  <2> QED
    BY <2>1 DEF Follows
<1> QED
  BY <1>4, <1>5, <1>6, <1>7, <1>8 DEF Keeps

\* No other request holds a lock on a row that a statement writes.
LEMMA WriterAlone ==
  ASSUME Typing, LocksExclude, NEW t \in Tx, tx[t].lock >= NoKeyUpdate,
         NEW u \in Tx, u # t, tx[u].rest = tx[t].rest
  PROVE  tx[u].lock < NoKeyUpdate
BY DEF Typing, TypeOK, TxRecords, LocksExclude, Conflict, NoKeyUpdate

\* An edit of name and address leaves the coordinates.
LEMMA EditCoords ==
  ASSUME Typing, NEW r \in Restaurants, NEW n \in Names, NEW a \in OrNone(Addresses),
         EditRestaurant(r, n, a)
  PROVE  restaurants'[r].coords = restaurants[r].coords
<1> DEFINE row == [[restaurants[r] EXCEPT !.name = n] EXCEPT !.address = a]
<1>1. restaurants[r] \in Row
  BY LiveRow DEF EditRestaurant, Typing
<1>2. row.coords = restaurants[r].coords
  BY <1>1 DEF Row
<1>3. restaurants' = [restaurants EXCEPT ![r] = row]
  BY <1>1 DEF EditRestaurant
<1> QED
  BY <1>2, <1>3 DEF Typing, TypeOK

\* What a refresh writes is the metadata of the place it asked Google about.
LEMMA RefreshCoords ==
  ASSUME Typing, NEW t \in Tx, WriteRefresh(t)
  PROVE  UNCHANGED restaurants \/ restaurants'[tx[t].rest].coords = tx[t].in.place
<1> DEFINE r == tx[t].rest
<1>1. r \in Restaurants
  BY RefreshFields
<1>2. CASE Live(r) /\ restaurants' = [restaurants EXCEPT ![r].coords = tx[t].in.place]
  <2>1. restaurants[r] \in Row
    BY <1>1, <1>2, LiveRow DEF Typing
  <2>2. [restaurants[r] EXCEPT !.coords = tx[t].in.place].coords = tx[t].in.place
    BY <2>1 DEF Row
  <2>3. restaurants' = [restaurants EXCEPT ![r] = [restaurants[r] EXCEPT !.coords = tx[t].in.place]]
    BY <1>2
  <2> QED
    BY <1>1, <2>2, <2>3 DEF Typing, TypeOK
<1> QED
  BY <1>2 DEF WriteRefresh

\* Coalesce takes the submitted metadata only where there is none.
LEMMA FillCoords ==
  ASSUME NEW row \in Row, NEW in \in Row
  PROVE  Fill(row, in).coords = Coalesce(row.coords, in.coords)
BY DEF Fill, Row

\* A description without a place fills in no coordinates.
LEMMA FillInputCoords ==
  ASSUME NEW t \in Tx, tx[t].in \in Row, tx[t].chosen # None
  PROVE  FillInput(t).coords = IF tx[t].in.place = None THEN None ELSE tx[t].in.coords
BY DEF FillInput, WithoutPlaceDetails, Row

\* What is asked of a request goes through each of its statements.
LEMMA OwnStep ==
  ASSUME Invariant, Following, NEW t \in Tx, UNCHANGED restaurants,
         Begin(t) \/ Abort(t) \/ (Step(t) /\ ~Commit(t) /\ ~Cascade(t))
  PROVE  Following'
<1> USE StoreAssumption
<1>0. /\ Typing /\ FreshIds /\ PlacesHeld /\ tx \in [Tx -> TxRecords]
      /\ tx[t] \in TxRecords /\ Control(tx[t]) /\ Follows(tx[t])
      /\ \A u \in Tx : Follows(tx[u])
  BY DEF Invariant, Consistent, Typing, TypeOK, Following
<1>1. ASSUME NEW x, Becomes(t, x), Follows(x) PROVE Following'
  <2>1. SUFFICES ASSUME NEW u \in Tx PROVE Follows(tx[u])'
    BY DEF Following
  <2>2. tx'[t] = x /\ \A v \in Tx : v # t => tx'[v] = tx[v]
    BY <1>0, <1>1, BecomesOf
  <2>3. tx'[u] = x \/ tx'[u] = tx[u]
    BY <2>2
  <2>4. Follows(tx[u])
    BY <1>0
  <2> QED
    BY <1>1, <2>3, <2>4 DEF Follows, Live
<1>2. ASSUME NEW x, Becomes(t, x),
             x.row = tx[t].row /\ x.rest = tx[t].rest /\ x.chosen = tx[t].chosen
             /\ x.in = tx[t].in,
             x.pc = "fill" => x.chosen = None \/ x.in.place = None,
             x.pc # "refresh"
      PROVE  Following'
  <2>1. Follows(x)
    BY <1>0, <1>2 DEF Follows, Submitted
  <2> QED
    BY <1>1, <1>2, <2>1
<1>3. ASSUME End(t) PROVE Following'
  <2>1. Follows(Idle)
    BY DEF Follows, Idle, Resolving, Matching
  <2> QED
    BY <1>1, <1>3, <2>1 DEF End
<1>4. ASSUME Begin(t) PROVE Following'
  <2>1. ASSUME NEW op \in {"create", "save"}, NEW in \in Inputs, NEW v \in Targets(op),
               BeginDescribed(t, op, v, in)
        PROVE  Following'
    <3> DEFINE x == [Idle EXCEPT !.op = op, !.target = v, !.in = in, !.id = nextId,
                                 !.pc = FirstStep(op, None, in)]
    <3>1. Becomes(t, x)
      BY <2>1 DEF BeginDescribed
    <3>2. /\ x.row = None /\ x.chosen = None /\ x.in = in
          /\ x.pc \in Matching
      BY DEF Idle, FirstStep, MatchStep, Matching
    <3> HIDE DEF x
    <3>3. Follows(x)
      BY <3>2 DEF Follows, Matching
    <3> QED
      BY <1>1, <3>1, <3>3
  <2>2. ASSUME NEW op \in {"create", "save"}, NEW in \in Inputs, NEW v \in Targets(op),
               NEW r \in Known, BeginChosen(t, op, v, r, in)
        PROVE  Following'
    <3> DEFINE x == [Idle EXCEPT !.op = op, !.target = v, !.chosen = r, !.in = in,
                                 !.rest = r, !.pc = FirstStep(op, r, in)]
    <3>1. Becomes(t, x)
      BY <2>2 DEF BeginChosen
    <3>2. r \in Restaurants /\ restaurants[r] # None /\ r # None
      BY DEF Known, Restaurants
    <3>3. /\ x.row = None /\ x.chosen = r /\ x.rest = r /\ x.in = in
          /\ x.pc \in {"exists", "lockChosen", "fill"} /\ (x.pc = "fill" => in.place = None)
      BY <3>2 DEF Idle, FirstStep
    <3> HIDE DEF x
    <3>4. Follows(x)
      BY <3>2, <3>3 DEF Follows
    <3> QED
      BY <1>1, <3>1, <3>4
  <2>3. ASSUME NEW v \in Dines, NEW r \in Known, BeginUpdate(t, v, r) PROVE Following'
    <3> DEFINE x == [Idle EXCEPT !.op = "update", !.target = v, !.rest = r, !.pc = "lockDine"]
    <3>1. Becomes(t, x)
      BY <2>3 DEF BeginUpdate
    <3>2. x.row = None /\ x.chosen = None /\ x.pc = "lockDine"
      BY DEF Idle
    <3> HIDE DEF x
    <3>3. Follows(x)
      BY <3>2 DEF Follows, Resolving, Matching
    <3> QED
      BY <1>1, <3>1, <3>3
  <2>4. ASSUME NEW r \in Restaurants, BeginDelete(t, r) PROVE Following'
    <3> DEFINE x == [Idle EXCEPT !.op = "delete", !.rest = r, !.pc = "remove"]
    <3>1. Becomes(t, x)
      BY <2>4 DEF BeginDelete
    <3>2. x.row = None /\ x.chosen = None /\ x.pc = "remove"
      BY DEF Idle
    <3> HIDE DEF x
    <3>3. Follows(x)
      BY <3>2 DEF Follows, Resolving, Matching
    <3> QED
      BY <1>1, <3>1, <3>3
  <2>5. ASSUME NEW r \in Restaurants, BeginRefresh(t, r) PROVE Following'
    <3> DEFINE x == [Idle EXCEPT !.op = "refresh", !.rest = r, !.in = restaurants[r],
                                 !.pc = "refresh"]
    <3>1. Becomes(t, x) /\ Live(r) /\ restaurants[r].place # None
      BY <2>5 DEF BeginRefresh
    <3>2. x.row = None /\ x.chosen = None /\ x.pc = "refresh" /\ x.rest = r
          /\ x.in = restaurants[r]
      BY DEF Idle
    <3> HIDE DEF x
    <3>3. Follows(x)
      BY <3>1, <3>2 DEF Follows, Resolving, Matching
    <3> QED
      BY <1>1, <3>1, <3>3
  <2> QED
    BY <1>4, <2>1, <2>2, <2>3, <2>4, <2>5 DEF Begin, BeginSave
<1>5. ASSUME ChosenExists(t) PROVE Following'
  <2> DEFINE pc == FirstStep("create", tx[t].chosen, tx[t].in)
             x == [tx[t] EXCEPT !.pc = pc]
  <2>1. tx[t].pc = "exists" /\ tx[t].chosen # None
    BY <1>0, <1>5 DEF ChosenExists, Ready, Control, Chosen
  <2>2. pc \in {"lockChosen", "fill"} /\ (pc = "fill" => tx[t].in.place = None)
    BY <2>1 DEF FirstStep
  <2>3. /\ x.row = tx[t].row /\ x.rest = tx[t].rest /\ x.chosen = tx[t].chosen
        /\ x.in = tx[t].in /\ x.pc = pc
    BY <1>0 DEF TxRecords
  <2>4. Becomes(t, x) \/ End(t)
    BY <1>5 DEF ChosenExists
  <2> HIDE DEF x, pc
  <2> QED
    BY <1>2, <1>3, <2>1, <2>2, <2>3, <2>4 DEF Resolving
<1>6. ASSUME LockChosen(t) PROVE Following'
  <2>1. tx[t].pc = "lockChosen" /\ tx[t].chosen # None /\ tx[t].row = None
    BY <1>0, <1>6 DEF LockChosen, Ready, Control, Chosen, Resolving
  <2> DEFINE x == [tx[t] EXCEPT !.lock = ChosenLock, !.pc = "owner"]
             y == [tx[t] EXCEPT !.pc = "fill"]
  <2>2. /\ x.row = None /\ x.rest = tx[t].rest /\ x.chosen = tx[t].chosen
        /\ x.in = tx[t].in /\ x.pc = "owner"
    BY <1>0, <2>1 DEF TxRecords
  <2>3. /\ y.row = None /\ y.rest = tx[t].rest /\ y.chosen = tx[t].chosen
        /\ y.in = tx[t].in /\ y.pc = "fill"
    BY <1>0, <2>1 DEF TxRecords
  <2>4. Becomes(t, x) \/ (Becomes(t, y) /\ ~Live(tx[t].rest))
    BY <1>6 DEF LockChosen
  <2> HIDE DEF x, y
  <2>5. CASE Becomes(t, x)
    <3>1. Follows(x)
      BY <1>0, <2>1, <2>2 DEF Follows, Resolving
    <3> QED
      BY <1>1, <2>5, <3>1
  <2>6. CASE Becomes(t, y) /\ ~Live(tx[t].rest)
    <3>1. restaurants[tx[t].rest] = Gone
      BY <1>0, <2>1, <2>6 DEF Follows, Live
    <3>2. Follows(y)
      BY <1>0, <2>1, <2>3, <3>1 DEF Follows, Resolving
    <3> QED
      BY <1>1, <2>6, <3>2
  <2> QED
    BY <2>4, <2>5, <2>6
<1>7. ASSUME CheckOwner(t) PROVE Following'
  <2>1. tx[t].pc = "owner" /\ tx[t].lock = ForUpdate /\ tx[t].row = None
        /\ tx[t].chosen # None /\ tx[t].rest \in Restaurants
    BY <1>0, <1>7 DEF CheckOwner, Ready, Control, Chosen, Resolving, Follows
  <2>2. Live(tx[t].rest)
    BY <2>1 DEF Invariant, Consistent, LockedStays, Held, ForUpdate
  <2> DEFINE y == [tx[t] EXCEPT !.pc = "fill"]
  <2>3. /\ y.row = None /\ y.rest = tx[t].rest /\ y.chosen = tx[t].chosen
        /\ y.in = tx[t].in /\ y.pc = "fill" /\ y.lock = ForUpdate
    BY <1>0, <2>1 DEF TxRecords
  <2>4. End(t) \/ (Becomes(t, y) /\ ~PlaceConflict(tx[t].rest, tx[t].in.place))
    BY <1>7 DEF CheckOwner
  <2> HIDE DEF y
  <2>5. CASE Becomes(t, y) /\ ~PlaceConflict(tx[t].rest, tx[t].in.place)
    <3>1. restaurants[tx[t].rest].place \in {None, tx[t].in.place}
      BY <2>5 DEF PlaceConflict
    <3>2. Follows(y)
      BY <1>0, <2>1, <2>2, <2>3, <3>1 DEF Follows, Resolving
    <3> QED
      BY <1>1, <2>5, <3>2
  <2> QED
    BY <1>3, <2>4, <2>5
<1>8. ASSUME MatchPlace(t) \/ MatchName(t) PROVE Following'
  <2>1. tx[t].pc \in {"byPlace", "byName"} /\ tx[t].chosen = None /\ tx[t].row = None
    BY <1>0, <1>8 DEF MatchPlace, MatchName, Ready, Control, Resolving, Matching
  <2>2. PICK r, pc : Becomes(t, [tx[t] EXCEPT !.rest = r, !.pc = pc])
                     /\ pc \in {"fill", "byName", "insert"}
    <3>1. \A pc : [tx[t] EXCEPT !.pc = pc] = [tx[t] EXCEPT !.rest = tx[t].rest, !.pc = pc]
      BY <1>0 DEF TxRecords
    <3> QED
      BY <1>8, <3>1 DEF MatchPlace, MatchName, MatchStep
  <2> DEFINE x == [tx[t] EXCEPT !.rest = r, !.pc = pc]
  <2>3. x.row = None /\ x.chosen = None /\ x.in = tx[t].in /\ x.pc = pc
    BY <1>0, <2>1 DEF TxRecords
  <2>4. Becomes(t, x)
    BY <2>2
  <2> HIDE DEF x
  <2>5. Follows(x)
    BY <1>0, <2>1, <2>2, <2>3 DEF Follows, Resolving, Matching
  <2> QED
    BY <1>1, <2>4, <2>5
<1>9. ASSUME NEW r \in Restaurants, NEW row \in Row, Resolved(t, r, row), restaurants[r] # Gone,
             tx[t].chosen # None => restaurants[r] # None,
             Live(r) => Submitted(tx[t], restaurants[r], row)
      PROVE  Following'
  <2>1. /\ Becomes(t, tx'[t]) /\ tx'[t].rest = r /\ tx'[t].row = row
        /\ tx'[t].pc = AfterResolve(tx[t].op)
    BY <1>0, <1>9, ResolvedFields
  <2>2. tx'[t].chosen = tx[t].chosen /\ tx'[t].in = tx[t].in
    BY <1>0, <1>9 DEF Resolved, Becomes, TxRecords
  <2>3. Follows(tx'[t])
    BY <1>9, <2>1, <2>2 DEF Follows, Submitted, AfterResolve, Resolving, Matching
  <2> QED
    BY <1>1, <2>1, <2>3
<1>10. ASSUME InsertRestaurant(t) PROVE Following'
  <2>1. tx[t].chosen = None /\ tx[t].id # None
    BY <1>0, <1>10 DEF InsertRestaurant, Ready, Control, Matching
  <2>2. CASE Resolved(t, tx[t].id, tx[t].in)
    <3>1. restaurants[tx[t].id] = None /\ tx[t].id \in Restaurants /\ tx[t].in \in Row
      BY <1>0, <1>10, <2>1, InsertResolves DEF FreshIds
    <3> QED
      BY <1>9, <2>1, <2>2, <3>1 DEF Live
  <2>3. ASSUME NEW r \in Owners(tx[t].in.place), Resolved(t, r, Fill(restaurants[r], tx[t].in))
        PROVE  Following'
    <3>1. r \in Restaurants /\ Live(r) /\ restaurants[r] \in Row /\ restaurants[r] # Gone
      BY <1>0, LiveRow DEF Owners, Typing, Live
    <3>2. Fill(restaurants[r], tx[t].in) \in Row
      BY <1>0, <1>10, <3>1, FillTyped, InsertResolves
    <3>3. Fill(restaurants[r], tx[t].in).coords
             = Coalesce(restaurants[r].coords, tx[t].in.coords)
      BY <1>0, <1>10, <3>1, FillCoords, InsertResolves
    <3>4. Submitted(tx[t], restaurants[r], Fill(restaurants[r], tx[t].in))
      BY <2>1, <3>3 DEF Submitted, Coalesce
    <3> QED
      BY <1>9, <2>1, <2>3, <3>1, <3>2, <3>4
  <2> QED
    BY <1>0, <1>10, <2>2, <2>3, InsertResolves
<1>11. ASSUME FillRestaurant(t) PROVE Following'
  <2> DEFINE r == tx[t].rest
             x == [tx[t] EXCEPT !.id = None, !.pc = AfterResolve(tx[t].op)]
  <2>1. tx[t].pc = "fill" /\ r \in Restaurants /\ tx[t].in \in Row
    BY <1>0, <1>11 DEF FillRestaurant, Ready, Control, TxRecords, OrNone, Steps, Resolving, Matching
  <2>2. /\ x.row = tx[t].row /\ x.rest = tx[t].rest /\ x.chosen = tx[t].chosen
        /\ x.in = tx[t].in /\ x.pc = AfterResolve(tx[t].op)
    BY <1>0 DEF TxRecords
  <2>3. CASE Becomes(t, x)
    <3> HIDE DEF x
    <3> QED
      BY <1>2, <2>2, <2>3 DEF AfterResolve, Resolving, Matching
  <2>4. CASE Live(r) /\ Resolved(t, r, Fill(restaurants[r], FillInput(t)))
    <3> DEFINE row == Fill(restaurants[r], FillInput(t))
    <3>1. restaurants[r] \in Row /\ restaurants[r] # Gone /\ restaurants[r] # None
      BY <1>0, <2>1, <2>4, LiveRow DEF Typing, Live
    <3>2. /\ row \in Row
          /\ row.place = Coalesce(restaurants[r].place, tx[t].in.place)
          /\ row.coords = Coalesce(restaurants[r].coords, FillInput(t).coords)
      <4>1. FillInput(t) \in Row /\ FillInput(t).place = tx[t].in.place
        BY <2>1, FillInputTyped
      <4>2. row \in Row /\ row.place = Coalesce(restaurants[r].place, FillInput(t).place)
        BY <3>1, <4>1, FillTyped
      <4>3. row.coords = Coalesce(restaurants[r].coords, FillInput(t).coords)
        BY <3>1, <4>1, FillCoords
      <4> QED
        BY <4>1, <4>2, <4>3
    <3>3. CASE tx[t].chosen = None
      <4>1. FillInput(t).coords = tx[t].in.coords
        BY <3>3 DEF FillInput
      <4>2. Submitted(tx[t], restaurants[r], row)
        <5> HIDE DEF row
        <5> QED
          BY <3>2, <3>3, <4>1 DEF Submitted, Coalesce
      <4> QED
        BY <1>9, <2>1, <2>4, <3>1, <3>2, <4>2
    <3>4. CASE tx[t].chosen # None
      <4>1. FillInput(t).coords = IF tx[t].in.place = None THEN None ELSE tx[t].in.coords
        BY <2>1, <3>4, FillInputCoords
      <4>2. tx[t].in.place # None => restaurants[r].place \in {None, tx[t].in.place}
        BY <1>0, <2>1, <3>1, <3>4 DEF Follows
      <4>3. Submitted(tx[t], restaurants[r], row)
        <5> HIDE DEF row
        <5> QED
          BY <3>2, <4>1, <4>2 DEF Submitted, Coalesce
      <4> QED
        BY <1>9, <2>1, <2>4, <3>1, <3>2, <4>3
    <3> QED
      BY <3>3, <3>4
  <2> QED
    BY <1>3, <1>11, <2>3, <2>4 DEF FillRestaurant
<1>12. ASSUME InsertDine(t) PROVE Following'
  BY <1>0, <1>2, <1>3, <1>12 DEF InsertDine, TxRecords, Resolving, Matching
<1>13. ASSUME MarkDone(t) PROVE Following'
  BY <1>0, <1>2, <1>13 DEF MarkDone, TxRecords, Resolving, Matching
<1>14. ASSUME UpsertWant(t) PROVE Following'
  BY <1>0, <1>2, <1>3, <1>14 DEF UpsertWant, TxRecords, Resolving, Matching
<1>15. ASSUME LockDine(t) PROVE Following'
  BY <1>0, <1>2, <1>3, <1>15 DEF LockDine, TxRecords, Resolving, Matching
<1>16. ASSUME MoveDine(t) PROVE Following'
  <2> DEFINE x == [tx[t] EXCEPT !.lock = KeyShare, !.pc = WantStep(t)]
             y == [tx[t] EXCEPT !.pc = WantStep(t)]
  <2>1. /\ x.row = tx[t].row /\ x.rest = tx[t].rest /\ x.chosen = tx[t].chosen
        /\ x.in = tx[t].in /\ x.pc = WantStep(t)
    BY <1>0 DEF TxRecords
  <2>2. /\ y.row = tx[t].row /\ y.rest = tx[t].rest /\ y.chosen = tx[t].chosen
        /\ y.in = tx[t].in /\ y.pc = WantStep(t)
    BY <1>0 DEF TxRecords
  <2>3. WantStep(t) \in {"want", "commit"}
    BY DEF WantStep
  <2>4. Becomes(t, x) \/ Becomes(t, y) \/ End(t)
    BY <1>16 DEF MoveDine
  <2> HIDE DEF x, y
  <2> QED
    BY <1>2, <1>3, <2>1, <2>2, <2>3, <2>4 DEF Resolving, Matching
<1>17. ASSUME RemoveRow(t) PROVE Following'
  <2> DEFINE x == [tx[t] EXCEPT !.lock = ForUpdate, !.row = Gone, !.pc = "cascade"]
  <2>1. /\ x.row = Gone /\ x.rest = tx[t].rest /\ x.chosen = tx[t].chosen /\ x.pc = "cascade"
    BY <1>0 DEF TxRecords
  <2>2. Becomes(t, x) \/ End(t)
    BY <1>17 DEF RemoveRow
  <2> HIDE DEF x
  <2>3. Follows(x)
    BY <1>0, <2>1 DEF Follows, Resolving, Matching
  <2> QED
    BY <1>1, <1>3, <2>2, <2>3
<1>18. ASSUME Abort(t) \/ WriteRefresh(t) PROVE Following'
  BY <1>3, <1>18 DEF Abort, WriteRefresh
<1> QED
  BY <1>4, <1>5, <1>6, <1>7, <1>8, <1>10, <1>11, <1>12, <1>13, <1>14, <1>15, <1>16, <1>17, <1>18
  DEF Step

\* A statement that writes a restaurant leaves what others rely on.
LEMMA WriteStep ==
  ASSUME Invariant, Following, NEW t \in Tx, Commit(t) \/ Cascade(t) \/ WriteRefresh(t)
  PROVE  Following'
<1> USE StoreAssumption
<1>0. /\ Typing /\ LocksExclude /\ FreshIds /\ tx \in [Tx -> TxRecords]
      /\ tx[t] \in TxRecords /\ Control(tx[t]) /\ Held(tx[t]) /\ Follows(tx[t])
      /\ \A u \in Tx : Follows(tx[u]) /\ Control(tx[u]) /\ tx[u].lock \in 0..4
      /\ restaurants \in [Restaurants -> Row \cup {None, Gone}]
      /\ None \notin Row /\ Gone \notin Row
  BY DEF Invariant, Consistent, Typing, TypeOK, TxRecords, Following, LockedStays
<1>1. End(t)
  BY DEF Commit, Cascade, WriteRefresh
<1>2. ASSUME \A u \in Tx : u # t /\ tx[u].rest \in Restaurants => Keeps(tx[u])
      PROVE  Following'
  <2>1. SUFFICES ASSUME NEW u \in Tx PROVE Follows(tx[u])'
    BY DEF Following
  <2>2. tx'[t] = Idle /\ \A v \in Tx : v # t => tx'[v] = tx[v]
    BY <1>0, <1>1, BecomesOf DEF End
  <2>3. CASE u = t
    BY <2>2, <2>3 DEF Follows, Idle, Resolving, Matching
  <2>4. CASE u # t
    BY <1>0, <1>2, <2>2, <2>4, KeepsFollows
  <2> QED
    BY <2>3, <2>4
<1>3. \A u \in Tx : tx[u].row \in Row => tx[u].lock >= NoKeyUpdate
  BY <1>0 DEF Control
<1>4. CASE Commit(t)
  <2>1. CASE tx[t].row = None
    BY <1>2, <1>4, <2>1 DEF Commit, Keeps
  <2>2. CASE tx[t].row # None
    <3>1. tx[t].row \in Row /\ tx[t].lock >= NoKeyUpdate /\ tx[t].rest \in Restaurants
      BY <1>0, <1>4, <2>2 DEF Commit, Ready, Control, TxRecords, OrNone, Steps, Matching
    <3>2. /\ restaurants'[tx[t].rest] = tx[t].row
          /\ \A r \in Restaurants : r # tx[t].rest => restaurants'[r] = restaurants[r]
      BY <1>0, <1>4, <2>2, <3>1 DEF Commit
    <3>3. restaurants[tx[t].rest] \in Row \cup {None}
      BY <1>0, <3>1 DEF Follows
    <3>4. restaurants[tx[t].rest] \in Row =>
             \/ restaurants[tx[t].rest].place = None
             \/ tx[t].row.place = restaurants[tx[t].rest].place
      BY <1>0, <3>1 DEF Held, Live
    <3>5. ASSUME NEW u \in Tx, u # t, tx[u].rest \in Restaurants PROVE Keeps(tx[u])
      <4>1. CASE tx[u].rest # tx[t].rest
        BY <3>2, <3>5, <4>1 DEF Keeps
      <4>2. CASE tx[u].rest = tx[t].rest
        <5>1. tx[u].lock < NoKeyUpdate
          BY <1>0, <3>1, <3>5, <4>2, WriterAlone
        <5>2. ~ (tx[u].lock >= NoKeyUpdate)
          BY <1>0, <5>1 DEF NoKeyUpdate
        <5> QED
          BY <3>1, <3>2, <3>3, <3>4, <4>2, <5>1, <5>2 DEF Keeps
      <4> QED
        BY <4>1, <4>2
    <3> QED
      BY <1>2, <3>5
  <2> QED
    BY <2>1, <2>2
<1>5. CASE Cascade(t)
  <2>1. tx[t].lock >= NoKeyUpdate /\ tx[t].rest \in Restaurants
    BY <1>0, <1>5 DEF Cascade, Ready, Control, TxRecords, OrNone, Steps, Matching, ForUpdate, NoKeyUpdate
  <2>2. /\ restaurants'[tx[t].rest] = Gone
        /\ \A r \in Restaurants : r # tx[t].rest => restaurants'[r] = restaurants[r]
    BY <1>0, <1>5, <2>1 DEF Cascade
  <2>3. ASSUME NEW u \in Tx, u # t, tx[u].rest \in Restaurants PROVE Keeps(tx[u])
    <3>1. CASE tx[u].rest # tx[t].rest
      BY <2>2, <2>3, <3>1 DEF Keeps
    <3>2. CASE tx[u].rest = tx[t].rest
      <4>1. tx[u].lock < NoKeyUpdate
        BY <1>0, <2>1, <2>3, <3>2, WriterAlone
      <4>2. tx[u].row \notin Row
        BY <1>0, <1>3, <4>1 DEF NoKeyUpdate
      <4> QED
        BY <2>2, <3>2, <4>2 DEF Keeps
    <3> QED
      BY <3>1, <3>2
  <2> QED
    BY <1>2, <2>3
<1>6. CASE WriteRefresh(t)
  <2>1. CASE UNCHANGED restaurants
    BY <1>2, <2>1 DEF Keeps
  <2>2. CASE ~UNCHANGED restaurants
    <3>1. /\ tx[t].rest \in Restaurants
          /\ restaurants[tx[t].rest] \in Row /\ restaurants'[tx[t].rest] \in Row
          /\ restaurants'[tx[t].rest].place = restaurants[tx[t].rest].place
          /\ \A s \in Restaurants : s # tx[t].rest => restaurants'[s] = restaurants[s]
      BY <1>0, <1>6, <2>2, RefreshFields
    <3>2. tx[t].pc = "refresh"
      BY <1>6 DEF WriteRefresh, Ready
    <3>3. ASSUME NEW u \in Tx, u # t, tx[u].rest \in Restaurants PROVE Keeps(tx[u])
      <4>1. CASE tx[u].rest # tx[t].rest
        BY <3>1, <3>3, <4>1 DEF Keeps
      <4>2. CASE tx[u].rest = tx[t].rest
        <5>1. ~ (tx[u].lock >= NoKeyUpdate)
          <6>1. ~Conflict(tx[u].lock, NoKeyUpdate)
            BY <1>6, <3>2, <3>3, <4>2, Unblocked
            DEF WriteRefresh, RowBlocks, AskedLock, AskedRows
          <6> QED
            BY <1>0, <6>1 DEF Conflict, NoKeyUpdate
        <5> QED
          BY <3>1, <4>2, <5>1 DEF Keeps
      <4> QED
        BY <4>1, <4>2
    <3> QED
      BY <1>2, <3>3
  <2> QED
    BY <2>1, <2>2
<1> QED
  BY <1>4, <1>5, <1>6

\* No request runs at first.
LEMMA FollowingInit == Init => Following
<1> SUFFICES ASSUME Init, NEW t \in Tx PROVE Follows(tx[t])
  BY DEF Following
<1>1. tx[t] = Idle
  BY DEF Init
<1>2. Follows(Idle)
  BY StoreAssumption DEF Follows, Idle, Resolving, Matching
<1> QED
  BY <1>1, <1>2

\* Every step keeps what requests know of coordinates.
LEMMA FollowingStep ==
  ASSUME Invariant, Following, [Next]_vars
  PROVE  Following'
<1> USE StoreAssumption
<1>0. Typing /\ \A u \in Tx : Follows(tx[u])
  BY DEF Invariant, Consistent, Typing, Following
<1>1. ASSUME NEW t \in Tx, Begin(t) \/ Abort(t) \/ Step(t) PROVE Following'
  <2>1. CASE Commit(t) \/ Cascade(t) \/ WriteRefresh(t)
    BY <2>1, WriteStep
  <2>2. CASE ~ (Commit(t) \/ Cascade(t) \/ WriteRefresh(t))
    <3>1. UNCHANGED restaurants
      BY <1>0, <1>1, <2>2, BeginFields
      DEF tables, Abort, Step, ChosenExists, LockChosen, CheckOwner, MatchPlace, MatchName,
          InsertRestaurant, FillRestaurant, InsertDine, MarkDone, UpsertWant, LockDine,
          MoveDine, RemoveRow
    <3> QED
      BY <1>1, <2>2, <3>1, OwnStep
  <2> QED
    BY <2>1, <2>2
<1>2. CASE UNCHANGED <<restaurants, tx>>
  BY <1>0, <1>2 DEF Following, Follows, Live
<1>3. ASSUME NEW r \in Restaurants, NEW n \in Names, NEW a \in OrNone(Addresses),
             EditRestaurant(r, n, a)
      PROVE  Following'
  <2>1. UNCHANGED tx
    BY <1>3 DEF EditRestaurant
  <2>2. SUFFICES ASSUME NEW u \in Tx PROVE Follows(tx[u])'
    BY DEF Following
  <2>3. tx[u].rest \in Restaurants => Keeps(tx[u])
    BY <1>0, <1>3, EditFields, EditCoords DEF Keeps
  <2> QED
    BY <1>0, <2>1, <2>3, KeepsFollows
<1> QED
  BY <1>1, <1>2, <1>3 DEF Next, vars, DeleteDine, DeleteWantToTry

\* For any number of requests: details land on a restaurant only from a refresh,
\* which writes those of the place the restaurant is linked to, or from a request
\* that submitted them, and on one it chose only if the request submitted with
\* them the place ID the restaurant is linked to.
THEOREM DetailsFollowCorrect == Spec => DetailsFollowPlace
<1> DEFINE Source(r) ==
             \E t \in Tx :
                /\ tx[t].rest = r
                /\ \/ /\ tx[t].pc = "refresh"
                      /\ restaurants'[r].coords = restaurants'[r].place
                   \/ /\ tx[t].pc = "commit"
                      /\ restaurants'[r].coords = tx[t].in.coords
                      /\ tx[t].chosen # None => restaurants'[r].place = tx[t].in.place
           Right == \A r \in Restaurants :
                      /\ Live(r) /\ Live(r)'
                      /\ restaurants'[r].coords # restaurants[r].coords
                      => Source(r)
<1>1. ASSUME Invariant, Following, Next PROVE Right
  <2>0. /\ Typing /\ tx \in [Tx -> TxRecords]
        /\ restaurants \in [Restaurants -> Row \cup {None, Gone}]
        /\ None \notin Row /\ Gone \notin Row
    BY <1>1, StoreAssumption DEF Invariant, Consistent, Typing, TypeOK
  <2>1. CASE UNCHANGED restaurants
    BY <2>1
  <2>2. ASSUME NEW t \in Tx, Commit(t) PROVE Right
    <3>1. SUFFICES ASSUME NEW r \in Restaurants, Live(r), Live(r)',
                          restaurants'[r].coords # restaurants[r].coords
                   PROVE  Source(r)
      OBVIOUS
    <3>2. tx[t].pc = "commit" /\ tx[t].row \in Row \cup {None} /\ Follows(tx[t])
      BY <1>1, <2>0, <2>2, StoreAssumption
      DEF Commit, Ready, Typing, Control, TxRecords, Following
    <3>3. tx[t].row \in Row /\ r = tx[t].rest /\ restaurants'[r] = tx[t].row
      BY <2>0, <2>2, <3>1, <3>2 DEF Commit
    <3> QED
      BY <3>1, <3>2, <3>3 DEF Follows, Submitted
  <2>3. ASSUME NEW t \in Tx, Cascade(t) PROVE Right
    BY <2>0, <2>3 DEF Cascade, Live
  <2>4. ASSUME NEW t \in Tx, WriteRefresh(t) PROVE Right
    <3>1. tx[t].pc = "refresh" /\ Follows(tx[t])
      BY <1>1, <2>4 DEF WriteRefresh, Ready, Following
    <3>2. CASE ~UNCHANGED restaurants
      <4>1. /\ restaurants'[tx[t].rest].coords = tx[t].in.place
            /\ restaurants[tx[t].rest] \in Row
            /\ restaurants'[tx[t].rest].place = restaurants[tx[t].rest].place
            /\ \A s \in Restaurants : s # tx[t].rest => restaurants'[s] = restaurants[s]
        BY <2>0, <2>4, <3>2, RefreshFields, RefreshCoords
      <4>2. restaurants[tx[t].rest].place = tx[t].in.place
        BY <2>0, <3>1, <4>1 DEF Follows
      <4>3. ASSUME NEW r \in Restaurants, restaurants'[r].coords # restaurants[r].coords
            PROVE  Source(r)
        <5>1. r = tx[t].rest
          BY <4>1, <4>3
        <5>2. restaurants'[r].coords = restaurants'[r].place
          BY <4>1, <4>2, <5>1
        <5> QED
          BY <3>1, <5>1, <5>2
      <4> QED
        BY <4>3
    <3> QED
      BY <2>1, <3>2
  <2>5. ASSUME NEW r \in Restaurants, NEW n \in Names, NEW a \in OrNone(Addresses),
               EditRestaurant(r, n, a)
        PROVE  Right
    BY <2>0, <2>5, EditFields, EditCoords
  <2>6. \/ UNCHANGED restaurants
        \/ \E t \in Tx : Commit(t) \/ Cascade(t) \/ WriteRefresh(t)
        \/ \E r \in Restaurants, n \in Names, a \in OrNone(Addresses) : EditRestaurant(r, n, a)
    BY <1>1, OthersWriteNothing
  <2> QED
    BY <2>1, <2>2, <2>3, <2>4, <2>5, <2>6
<1>2. Invariant /\ Following /\ [Next]_vars => [Right]_vars
  BY <1>1
<1>3. Invariant /\ Following /\ [Next]_vars => Following'
  BY FollowingStep
<1> QED
  BY <1>2, <1>3, InvariantCorrect, FollowingInit, PTL DEF Spec, DetailsFollowPlace

-----------------------------------------------------------------------------
(* One operation of the ledger at a time *)

\* What a request in flight knows of the item of its restaurant, if requests
\* that move dines and requests that save items are not in flight together.
Listed(x) ==
    /\ x.op \in Ops \cup {"idle"} /\ x.pc \notin {"remove", "cascade"}
    /\ x.op = "update" => x.row = None
    /\ x.want = "open" => x.op = "save"
    /\ x.want = "done" => want[x.rest] = "open"
    /\ x.pc = "commit" /\ x.op = "save" => x.want = "open"
    /\ x.pc = "commit" /\ x.op = "create" /\ x.want = None => want[x.rest] # "open"

Serial ==
    /\ \A t \in Tx : Listed(tx[t])
    /\ \A r \in Restaurants : restaurants[r] # Gone
    /\ "update" \in Ops => \A r \in Restaurants : want[r] = "off"

\* Before its commit a request has nothing to say about the item.
LEMMA NotYet ==
  ASSUME NEW x, Control(x), x.op \in Ops \cup {"idle"},
         x.pc \notin {"commit", "remove", "cascade"}, x.op = "update" => x.row = None
  PROVE  Listed(x)
BY StoreAssumption DEF Control, Listed

\* A request that begins has not looked at the item.
LEMMA BeginsListed ==
  ASSUME Invariant, Invariant', "delete" \notin Ops, NEW t \in Tx, Begin(t)
  PROVE  Listed(tx[t])'
<1> USE StoreAssumption
<1> DEFINE y == tx'[t]
<1>1. Control(y) /\ y.row = None
  BY BeginFields DEF Invariant, Consistent, Typing
<1>2. y.op \in Ops /\ y.pc \notin {"commit", "remove", "cascade"}
  <2> USE DEF Invariant, TypeOK, Becomes, Idle
  <2>1. CASE \E op \in {"create", "save"}, in \in Inputs : \E v \in Targets(op) :
               BeginDescribed(t, op, v, in)
    BY <2>1 DEF BeginDescribed, FirstStep, MatchStep
  <2>2. CASE \E op \in {"create", "save"}, in \in Inputs : \E v \in Targets(op), r \in Known :
               BeginChosen(t, op, v, r, in)
    <3>1. PICK op \in {"create", "save"}, in \in Inputs, r \in Known :
            \E v \in Targets(op) : BeginChosen(t, op, v, r, in)
      BY <2>2
    <3>2. r # None
      BY DEF Known, Restaurants
    <3>3. FirstStep(op, r, in) \in {"exists", "lockChosen", "fill"}
      BY <3>2 DEF FirstStep
    <3>4. y.op = op /\ y.pc = FirstStep(op, r, in)
      BY <3>1 DEF BeginChosen
    <3> QED
      BY <3>1, <3>3, <3>4 DEF BeginChosen
  <2>3. CASE \E v \in Dines, r \in Known : BeginUpdate(t, v, r)
    BY <2>3 DEF BeginUpdate
  <2>4. CASE \E r \in Restaurants : BeginDelete(t, r)
    BY <2>4 DEF BeginDelete
  <2>5. CASE \E r \in Restaurants : BeginRefresh(t, r)
    BY <2>5 DEF BeginRefresh
  <2> QED
    BY <2>1, <2>2, <2>3, <2>4, <2>5 DEF Begin, BeginSave
<1> QED
  BY <1>1, <1>2 DEF Listed, Control

\* Every statement leaves a request that may commit in keeping with the list.
LEMMA StatementListed ==
  ASSUME Invariant, Invariant', Serial, NEW t \in Tx, Step(t) \/ Abort(t)
  PROVE  Listed(tx[t])' \/ Commit(t) \/ Cascade(t) \/ WriteRefresh(t)
<1> USE StoreAssumption
<1> DEFINE y == tx'[t]
<1>1. /\ tx[t] \in TxRecords /\ Control(tx[t]) /\ Listed(tx[t]) /\ Control(y)
      /\ tx \in [Tx -> TxRecords]
      /\ tx[t].op = "update" => tx[t].row = None
  BY DEF Invariant, TypeOK, Consistent, Serial, Listed
<1>2. \A z : Becomes(t, z) => y = z
  BY <1>1 DEF Becomes
<1>3. ASSUME End(t) PROVE Listed(tx[t])'
  BY <1>1, <1>2, <1>3 DEF End, Idle, Listed
<1>4. ASSUME y.op = tx[t].op, y.pc \notin {"commit", "remove", "cascade"},
             tx[t].op = "update" => y.row = None
      PROVE  Listed(tx[t])'
  BY <1>1, <1>4 DEF Control, Listed
<1>5. CASE \/ ChosenExists(t) \/ LockChosen(t) \/ CheckOwner(t)
           \/ MatchPlace(t) \/ MatchName(t)
  <2>1. tx[t].op # "update"
    BY <1>1, <1>5 DEF Control, Resolving, Matching, Ready, ChosenExists, LockChosen, CheckOwner,
       MatchPlace, MatchName
  <2>2. FirstStep("create", tx[t].chosen, tx[t].in)
           \notin {"commit", "remove", "cascade"}
    BY DEF FirstStep, MatchStep
  <2>3. \/ End(t)
        \/ y.op = tx[t].op /\ y.pc \notin {"commit", "remove", "cascade"}
    <3> DEFINE at(p) == [tx[t] EXCEPT !.pc = p]
               on(p, r) == [tx[t] EXCEPT !.rest = r, !.pc = p]
               locked == [tx[t] EXCEPT !.lock = ChosenLock, !.pc = "owner"]
    <3>1. /\ \A p : at(p).op = tx[t].op /\ at(p).pc = p
          /\ \A p, r : on(p, r).op = tx[t].op /\ on(p, r).pc = p
      BY <1>1 DEF TxRecords
    <3>2. locked.op = tx[t].op /\ locked.pc = "owner"
      BY <1>1 DEF TxRecords
    <3>3. \/ \E p \in {FirstStep("create", tx[t].chosen, tx[t].in), "fill", "byName", "insert"} :
                Becomes(t, at(p)) \/ \E r : p = "fill" /\ Becomes(t, on(p, r))
          \/ Becomes(t, locked) \/ End(t)
      BY <1>5 DEF ChosenExists, LockChosen, CheckOwner, MatchPlace, MatchName, MatchStep
    <3> HIDE DEF at, on, locked
    <3> QED
      BY <1>2, <2>2, <3>1, <3>2, <3>3
  <2> QED
    BY <1>3, <1>4, <2>1, <2>3
<1>6. CASE InsertRestaurant(t) \/ FillRestaurant(t)
  <2>1. tx[t].op # "update"
    BY <1>1, <1>6 DEF Control, Resolving, Matching, Ready, InsertRestaurant, FillRestaurant
  <2>2. AfterResolve(tx[t].op) \in {"dine", "want"}
    BY DEF AfterResolve
  <2>3. ASSUME NEW r, NEW row, Resolved(t, r, row)
        PROVE  y.op = tx[t].op /\ y.pc \in {"dine", "want"}
    BY <2>2, <2>3, ResolvedFields DEF Invariant, Consistent, Typing
  <2>4. \/ End(t)
        \/ y.op = tx[t].op /\ y.pc \in {"dine", "want"}
    BY <1>1, <1>2, <1>6, <2>2, <2>3 DEF TxRecords, InsertRestaurant, FillRestaurant
  <2> QED
    BY <1>3, <1>4, <2>1, <2>4
<1>7. CASE InsertDine(t) \/ LockDine(t)
  <2>1. \/ End(t)
        \/ y.op = tx[t].op /\ y.pc \in {"want", "move"} /\ y.row = tx[t].row
    <3> DEFINE a(p) == [tx[t] EXCEPT !.dine = tx[t].target, !.pc = p]
    <3>1. \A p : a(p).op = tx[t].op /\ a(p).pc = p /\ a(p).row = tx[t].row
      BY <1>1 DEF TxRecords
    <3>2. Becomes(t, a("want")) \/ Becomes(t, a("move")) \/ End(t)
      BY <1>7 DEF InsertDine, LockDine
    <3> HIDE DEF a
    <3> QED
      BY <1>2, <3>1, <3>2
  <2> QED
    BY <1>1, <1>3, <1>4, <2>1
<1>8. CASE MoveDine(t)
  <2>1. tx[t].op = "update" /\ tx[t].want = None
    BY <1>1, <1>8 DEF MoveDine, Ready, Control, Moving
  <2>2. WantStep(t) \in {"want", "commit"}
    BY DEF WantStep
  <2>3. \/ End(t)
        \/ y.op = "update" /\ y.pc \in {"want", "commit"} /\ y.want = None /\ y.row = tx[t].row
    <3> DEFINE a == [tx[t] EXCEPT !.lock = KeyShare, !.pc = WantStep(t)]
               b == [tx[t] EXCEPT !.pc = WantStep(t)]
    <3>1. a.op = tx[t].op /\ a.pc = WantStep(t) /\ a.want = tx[t].want /\ a.row = tx[t].row
      BY <1>1 DEF TxRecords
    <3>2. b.op = tx[t].op /\ b.pc = WantStep(t) /\ b.want = tx[t].want /\ b.row = tx[t].row
      BY <1>1 DEF TxRecords
    <3>3. Becomes(t, a) \/ Becomes(t, b) \/ End(t)
      BY <1>8 DEF MoveDine
    <3> HIDE DEF a, b
    <3> QED
      BY <1>2, <2>1, <2>2, <3>1, <3>2, <3>3
  <2> QED
    BY <1>1, <1>3, <2>1, <2>3 DEF Listed
<1>9. CASE MarkDone(t) \/ UpsertWant(t)
  <2>1. UNCHANGED want
    BY <1>9 DEF MarkDone, UpsertWant, tables
  <2>2. \/ End(t)
        \/ /\ y.op = tx[t].op /\ y.pc = "commit" /\ y.row = tx[t].row /\ y.rest = tx[t].rest
           /\ \/ tx[t].op = "save" /\ y.want = "open"
              \/ /\ tx[t].op # "save"
                 /\ y.want = IF want[tx[t].rest] = "open" THEN "done" ELSE None
    <3> DEFINE a == [tx[t] EXCEPT !.pc = "commit",
                                  !.want = IF want[tx[t].rest] = "open" THEN "done" ELSE None]
               b == [tx[t] EXCEPT !.pc = "commit", !.want = "open"]
    <3>1. /\ a.op = tx[t].op /\ a.pc = "commit" /\ a.row = tx[t].row /\ a.rest = tx[t].rest
          /\ a.want = IF want[tx[t].rest] = "open" THEN "done" ELSE None
      BY <1>1 DEF TxRecords
    <3>2. /\ b.op = tx[t].op /\ b.pc = "commit" /\ b.row = tx[t].row /\ b.rest = tx[t].rest
          /\ b.want = "open"
      BY <1>1 DEF TxRecords
    <3>3. \/ Becomes(t, a) /\ tx[t].op # "save"
          \/ Becomes(t, b) /\ tx[t].op = "save"
          \/ End(t)
      BY <1>9 DEF MarkDone, UpsertWant
    <3> HIDE DEF a, b
    <3> QED
      BY <1>2, <3>1, <3>2, <3>3
  <2> QED
    BY <1>1, <1>3, <2>1, <2>2 DEF Listed
<1>10. CASE RemoveRow(t)
  BY <1>1, <1>10 DEF RemoveRow, Ready, Listed
<1>11. CASE Abort(t)
  BY <1>3, <1>11 DEF Abort
<1> QED
  BY <1>5, <1>6, <1>7, <1>8, <1>9, <1>10, <1>11 DEF Step

\* What a request that commits does to the list: only a save opens an item,
\* only a logged dine closes one, and each has the restaurant to itself.
LEMMA CommitsItem ==
  ASSUME Invariant, Serial, ~({"update", "save"} \subseteq Ops),
         NEW t \in Tx, tx[t].want # None
  PROVE  tx[t].lock >= NoKeyUpdate /\ "update" \notin Ops
<1> USE StoreAssumption
<1> DEFINE x == tx[t]
<1>1. x \in TxRecords /\ Control(x) /\ Listed(x) /\ DineOf(x)
  BY DEF Invariant, TypeOK, Consistent, Serial, DinesHeld
<1>2. x.pc = "commit" /\ x.want \in {"open", "done"}
  BY <1>1 DEF Control, TxRecords
<1>3. "update" \notin Ops
  <2>1. CASE x.want = "open"
    BY <1>1, <2>1 DEF Listed
  <2>2. CASE x.want = "done"
    <3>1. x.rest \in Restaurants
      BY <1>1, <1>2 DEF Control, Steps, Matching, TxRecords, OrNone
    <3> QED
      BY <1>1, <2>2, <3>1 DEF Listed, Serial
  <2> QED
    BY <1>2, <2>1, <2>2
<1>4. x.row # None
  <2>1. CASE x.want = "open"
    BY <1>1, <2>1 DEF Control
  <2>2. CASE x.want = "done"
    BY <1>1, <1>2, <1>3, <2>2 DEF Control, DineOf, Listed
  <2> QED
    BY <1>2, <2>1, <2>2
<1> QED
  BY <1>1, <1>3, <1>4 DEF Control

\* No request takes an item from under another, and nothing is removed.
LEMMA SerialStep ==
  ASSUME Invariant, Serial, [Next]_vars,
         "delete" \notin Ops, ~({"update", "save"} \subseteq Ops)
  PROVE  Serial'
<1> USE StoreAssumption
<1>0. /\ Typing /\ TypeOK /\ LocksExclude /\ Invariant'
      /\ \A u \in Tx : tx[u] \in TxRecords /\ Control(tx[u]) /\ Listed(tx[u])
      /\ \A r \in Restaurants : restaurants[r] # Gone
  BY InvariantStep DEF Invariant, TypeOK, Consistent, Typing, Serial
<1>1. ASSUME NEW u \in Tx, tx'[u] = tx[u],
             tx[u].rest \in Restaurants => want'[tx[u].rest] = want[tx[u].rest]
      PROVE  Listed(tx[u])'
  <2>1. tx[u].want = "done" \/ tx[u].pc = "commit" => tx[u].rest \in Restaurants
    BY <1>0 DEF Control, Steps, Matching, TxRecords, OrNone
  <2> QED
    BY <1>0, <1>1, <2>1 DEF Listed
<1>2. ASSUME NEW t \in Tx, NEW u \in Tx, tx'[u] = Idle PROVE Listed(tx[u])'
  BY <1>2 DEF Idle, Listed
<1>3. ASSUME NEW t \in Tx, Begin(t) \/ Abort(t) \/ Step(t),
             ~Commit(t), ~Cascade(t), ~WriteRefresh(t)
      PROVE  Serial'
  <2>1. Listed(tx[t])'
    BY <1>0, <1>3, BeginsListed, StatementListed
  <2>2. UNCHANGED <<restaurants, want>> /\ \E y : Becomes(t, y)
    BY <1>0, <1>3, BeginFields
    DEF tables, Abort, End, Step, ChosenExists, LockChosen, CheckOwner, MatchPlace, MatchName,
        InsertRestaurant, FillRestaurant, Resolved, InsertDine, MarkDone, UpsertWant, LockDine,
        MoveDine, RemoveRow
  <2>3. \A u \in Tx : u # t => tx'[u] = tx[u]
    BY <1>0, <2>2 DEF TypeOK, Becomes
  <2> QED
    BY <1>1, <2>1, <2>2, <2>3 DEF Serial
<1>4. ASSUME NEW t \in Tx, Commit(t) PROVE Serial'
  <2>1. /\ \A u \in Tx : u # t => tx'[u] = tx[u]
        /\ tx'[t] = Idle /\ tx[t].pc = "commit"
    BY <1>0, <1>4 DEF TypeOK, Commit, End, Becomes, Ready
  <2>2. /\ tx[t].rest \in Restaurants /\ tx[t].row \in Row \cup {None}
        /\ tx[t].want \in {None, "open", "done"}
    BY <1>0, <2>1 DEF Control, Steps, Matching, TxRecords, OrNone
  <2>3. \A r \in Restaurants : restaurants'[r] # Gone
    BY <1>0, <1>4, <2>2 DEF TypeOK, Commit
  <2>4. CASE tx[t].want = None
    BY <1>1, <1>2, <1>4, <2>1, <2>3, <2>4 DEF Serial, Commit
  <2>5. CASE tx[t].want # None
    <3>1. tx[t].lock >= NoKeyUpdate /\ "update" \notin Ops
      BY <2>5, CommitsItem
    <3>2. ASSUME NEW u \in Tx, u # t PROVE Listed(tx[u])'
      <4>1. CASE tx[u].rest # tx[t].rest
        BY <1>0, <1>1, <1>4, <2>1, <2>2, <3>2, <4>1 DEF TypeOK, Commit
      <4>2. CASE tx[u].rest = tx[t].rest
        <5>1. tx[u].lock < NoKeyUpdate
          BY <1>0, <3>1, <3>2, <4>2, WriterAlone
        <5>2. tx[u].want = None
          BY <5>1, CommitsItem, <1>0 DEF TxRecords, NoKeyUpdate
        <5>3. ~(tx[u].pc = "commit" /\ tx[u].op = "create")
          BY <1>0, <5>1 DEF Control, TxRecords, NoKeyUpdate
        <5> QED
          BY <1>0, <2>1, <3>2, <5>2, <5>3 DEF Listed
      <4> QED
        BY <4>1, <4>2
    <3> QED
      BY <1>2, <2>1, <2>3, <3>1, <3>2 DEF Serial
  <2> QED
    BY <2>4, <2>5
<1>5. ASSUME NEW t \in Tx, Cascade(t) PROVE FALSE
  BY <1>0, <1>5 DEF Cascade, Ready, Listed
<1>6. ASSUME NEW t \in Tx, WriteRefresh(t) PROVE Serial'
  <2>1. /\ \A u \in Tx : u # t => tx'[u] = tx[u]
        /\ tx'[t] = Idle /\ UNCHANGED want
    BY <1>0, <1>6 DEF TypeOK, WriteRefresh, End, Becomes
  <2>2. \A r \in Restaurants : restaurants'[r] # Gone
    BY <1>0, <1>6, RefreshFields
  <2> QED
    BY <1>1, <1>2, <2>1, <2>2 DEF Serial
<1>7. ASSUME NEW r \in Restaurants, DeleteWantToTry(r) PROVE Serial'
  <2>1. ASSUME NEW u \in Tx PROVE Listed(tx[u])'
    <3>1. CASE tx[u].rest # r
      BY <1>0, <1>1, <1>7, <3>1 DEF TypeOK, DeleteWantToTry
    <3>2. CASE tx[u].rest = r
      BY <1>0, <1>7, <3>2 DEF TypeOK, DeleteWantToTry, Listed
    <3> QED
      BY <3>1, <3>2
  <2> QED
    BY <1>0, <1>7, <2>1 DEF TypeOK, Serial, DeleteWantToTry
<1>8. ASSUME NEW r \in Restaurants, NEW n \in Names, NEW a \in OrNone(Addresses),
             EditRestaurant(r, n, a)
      PROVE  Serial'
  <2>1. \A s \in Restaurants : restaurants'[s] # Gone
    BY <1>0, <1>8, EditFields
  <2> QED
    BY <1>1, <1>8, <2>1 DEF Serial, EditRestaurant
<1>9. CASE UNCHANGED <<restaurants, want, tx>>
  BY <1>1, <1>9 DEF Serial
<1> QED
  BY <1>3, <1>4, <1>5, <1>6, <1>7, <1>8, <1>9 DEF Next, vars, DeleteDine

\* A step that changes no dine, no item and no link is no operation.
LEMMA NoOperation ==
  ASSUME UNCHANGED <<dines, want>>,
         \A r \in Restaurants :
            /\ Live(r)' <=> Live(r)
            /\ restaurants'[r] = Gone <=> restaurants[r] = Gone
            /\ Live(r) => restaurants'[r].place = restaurants[r].place
  PROVE  UNCHANGED L!vars
BY DEF L!vars

\* A place is free in the ledger when no committed row has it.
LEMMA UnownedOwners ==
  ASSUME NEW p \in Places
  PROVE  L!Unowned(p) <=> Owners(p) = {}
BY DEF L!Unowned, Owners

\* A committed row is that of a restaurant the ledger has, with at most a link
\* to a place that was free, or of a new one.
LEMMA CommitResolves ==
  ASSUME Invariant, Serial, NEW t \in Tx, Commit(t), tx[t].row # None,
         NEW r \in Restaurants, r = tx[t].rest
  PROVE  L!Resolve(r)
<1> USE StoreAssumption
<1> DEFINE row == tx[t].row
<1>1. /\ row \in Row /\ row.place \in OrNone(Places)
      /\ Held(tx[t]) /\ PlaceOf(tx[t])
      /\ restaurants \in [Restaurants -> Row \cup {None, Gone}]
      /\ \A s \in Restaurants : restaurants[s] # Gone
  BY DEF Invariant, TypeOK, Consistent, Serial, LockedStays, PlacesHeld, Control, Steps, Matching,
     TxRecords, Row, OrNone, Commit, Ready
<1>2. None \notin Row /\ Gone \notin Row
  OBVIOUS
<1>3. /\ restaurants'[r] = row
      /\ \A s \in Restaurants : s # r => restaurants'[s] = restaurants[s]
  BY <1>1, <1>2 DEF Commit
<1>4. /\ r \notin {s \in Restaurants : restaurants[s] = Gone}
      /\ {s \in Restaurants : Live(s)}' = {s \in Restaurants : Live(s)} \cup {r}
      /\ {s \in Restaurants : restaurants[s] = Gone}' = {s \in Restaurants : restaurants[s] = Gone}
  BY <1>1, <1>2, <1>3 DEF Live
<1> DEFINE linked == [s \in Restaurants |-> IF Live(s) THEN restaurants[s].place ELSE None]
<1>5. [s \in Restaurants |-> IF Live(s) THEN restaurants[s].place ELSE None]'
        = [linked EXCEPT ![r] = row.place]
  BY <1>1, <1>2, <1>3 DEF Live
<1>6. CASE row.place = linked[r]
  <2>1. [linked EXCEPT ![r] = row.place] = linked
    BY <1>1, <1>6
  <2> QED
    BY <1>4, <1>5, <2>1 DEF L!Resolve
<1>7. CASE row.place # linked[r]
  <2>1. linked[r] = None /\ row.place \in Places
    BY <1>1, <1>2, <1>7 DEF Held, OrNone, Live
  <2>2. Owners(row.place) = {}
    BY <1>1, <1>7, <2>1 DEF PlaceOf, Owners
  <2> QED
    BY <1>4, <1>5, <2>1, <2>2, UnownedOwners DEF L!Resolve
<1> QED
  BY <1>6, <1>7

\* A commit is the operation its request asked for.
LEMMA CommitOperates ==
  ASSUME Invariant, Serial, ~({"update", "save"} \subseteq Ops), NEW t \in Tx, Commit(t)
  PROVE  L!Next \/ UNCHANGED L!vars
<1> USE StoreAssumption
<1> DEFINE x == tx[t]
<1>0. PICK r \in Restaurants, v \in OrNone(Dines) : r = x.rest /\ v = x.dine
  BY DEF Invariant, TypeOK, Consistent, Control, Steps, Matching, TxRecords, OrNone, Commit, Ready
<1>1. /\ x.pc = "commit" /\ x \in TxRecords /\ Control(x) /\ Listed(x) /\ Held(x) /\ DineOf(x)
      /\ x.op \in {"create", "save", "update"}
      /\ TypeOK /\ ReferencesHold
  BY DEF Invariant, TypeOK, Consistent, Serial, LockedStays, DinesHeld, Control, Steps, Matching,
     TxRecords, OrNone, Commit, Ready
<1>2. /\ v # None => dines' = [dines EXCEPT ![v] = r]
      /\ v = None => dines' = dines
      /\ x.want # None => want' = [want EXCEPT ![r] = x.want]
      /\ x.want = None => want' = want
  BY <1>0 DEF Commit
<1>3. CASE x.op = "create"
  <2>1. x.row # None /\ v \in Dines /\ dines[v] = None
    BY <1>0, <1>1, <1>3 DEF Control, DineOf, TxRecords, OrNone
  <2>2. L!ClearItem(r)
    BY <1>0, <1>1, <1>2, <1>3 DEF TypeOK, TxRecords, Listed, L!ClearItem
  <2>3. L!LogDine(v, r)
    BY <1>0, <1>2, <2>1, <2>2, CommitResolves DEF L!LogDine
  <2>4. L!Next
    BY <1>0, <1>1, <2>1, <2>3, Zenon DEF L!Next
  <2> QED
    BY <2>4
<1>4. CASE x.op = "save"
  <2>1. x.want = "open" /\ x.row # None /\ v = None
    BY <1>0, <1>1, <1>4 DEF Control, Listed
  <2>2. L!SaveItem(r)
    BY <1>0, <1>2, <2>1, CommitResolves DEF L!SaveItem
  <2>3. L!Next
    BY <2>2 DEF L!Next
  <2> QED
    BY <2>3
<1>5. CASE x.op = "update"
  <2>1. /\ v \in Dines /\ dines[v] \in Restaurants /\ Live(dines[v])
        /\ x.lock > 0 \/ dines[v] = r
    BY <1>0, <1>1, <1>5 DEF Control, DineOf, TxRecords, OrNone, ReferencesHold
  <2>2. x.row = None /\ x.want = None /\ want[r] = "off"
    BY <1>0, <1>1, <1>5, CommitsItem DEF Listed, Serial
  <2>3. UNCHANGED <<restaurants, want>>
    BY <1>0, <1>2, <2>2 DEF Commit
  <2>4. CASE dines[v] = r
    <3>1. dines' = dines
      BY <1>0, <1>1, <1>2, <2>1, <2>4 DEF TypeOK
    <3> QED
      BY <2>3, <3>1, NoOperation DEF Live
  <2>5. CASE dines[v] # r
    <3>1. Live(r)
      BY <1>0, <1>1, <2>1, <2>2, <2>5 DEF Held
    <3>2. L!ClearItem(r)
      BY <1>0, <1>1, <2>2, <2>3 DEF TypeOK, L!ClearItem
    <3>3. L!MoveDine(v, r)
      BY <1>0, <1>1, <1>2, <2>1, <2>3, <2>5, <3>1, <3>2 DEF L!MoveDine, Live
    <3> QED
      BY <1>0, <1>1, <2>1, <3>3 DEF L!Next
  <2> QED
    BY <2>4, <2>5
<1> QED
  BY <1>0, <1>1, <1>3, <1>4, <1>5

\* Every step is one operation of the ledger or none.
LEMMA StepOperates ==
  ASSUME Invariant, Serial, [Next]_vars, ~({"update", "save"} \subseteq Ops)
  PROVE  L!Next \/ UNCHANGED L!vars
<1> USE StoreAssumption
<1>0. /\ Typing /\ TypeOK /\ ReferencesHold
      /\ \A t \in Tx : Listed(tx[t])
      /\ None \notin Row /\ Gone \notin Row
  BY DEF Invariant, Consistent, Typing, Serial
<1>1. ASSUME NEW t \in Tx, Commit(t) PROVE L!Next \/ UNCHANGED L!vars
  BY <1>1, CommitOperates
<1>2. ASSUME NEW t \in Tx, Cascade(t) PROVE FALSE
  BY <1>0, <1>2 DEF Cascade, Ready, Listed
<1>3. ASSUME NEW t \in Tx, WriteRefresh(t) PROVE UNCHANGED L!vars
  <2>1. UNCHANGED <<dines, want>>
    BY <1>3 DEF WriteRefresh
  <2>2. \A s \in Restaurants :
            /\ \/ restaurants'[s] = restaurants[s]
               \/ restaurants'[s] \in Row /\ restaurants[s] \in Row
            /\ Live(s) => restaurants'[s].place = restaurants[s].place
    BY <1>0, <1>3, RefreshFields
  <2> QED
    BY <1>0, <2>1, <2>2, NoOperation DEF Live
<1>4. ASSUME NEW r \in Restaurants, NEW n \in Names, NEW a \in OrNone(Addresses),
             EditRestaurant(r, n, a)
      PROVE  UNCHANGED L!vars
  <2>1. UNCHANGED <<dines, want>>
    BY <1>4 DEF EditRestaurant
  <2>2. \A s \in Restaurants :
            /\ \/ restaurants'[s] = restaurants[s]
               \/ restaurants'[s] \in Row /\ restaurants[s] \in Row
            /\ Live(s) => restaurants'[s].place = restaurants[s].place
    BY <1>0, <1>4, EditFields
  <2> QED
    BY <1>0, <2>1, <2>2, NoOperation DEF Live
<1>5. ASSUME NEW v \in Dines, DeleteDine(v) PROVE L!Next
  <2>1. L!DeleteDine(v)
    BY <1>0, <1>5 DEF DeleteDine, ReferencesHold, Live, L!DeleteDine
  <2> QED
    BY <2>1 DEF L!Next
<1>6. ASSUME NEW r \in Restaurants, DeleteWantToTry(r) PROVE L!Next
  <2>1. L!RemoveItem(r)
    BY <1>6 DEF DeleteWantToTry, Live, L!RemoveItem
  <2> QED
    BY <2>1 DEF L!Next
<1>7. CASE UNCHANGED tables
  BY <1>7, NoOperation DEF tables, Live
<1>8. ASSUME NEW t \in Tx, Begin(t) \/ Abort(t) \/ Step(t),
             ~Commit(t), ~Cascade(t), ~WriteRefresh(t)
      PROVE  UNCHANGED tables
  BY <1>0, <1>8, BeginFields
  DEF Abort, Step, ChosenExists, LockChosen, CheckOwner, MatchPlace, MatchName,
      InsertRestaurant, FillRestaurant, InsertDine, MarkDone, UpsertWant, LockDine, MoveDine,
      RemoveRow
<1> QED
  BY <1>1, <1>2, <1>3, <1>4, <1>5, <1>6, <1>7, <1>8 DEF Next, vars, tables

\* Empty tables are an empty ledger.
LEMMA SerialInit == Init => Serial /\ L!Init
<1> SUFFICES ASSUME Init PROVE Serial /\ L!Init
  OBVIOUS
<1> USE StoreAssumption
<1>1. ASSUME NEW t \in Tx PROVE Listed(tx[t])
  BY DEF Init, Idle, Listed
<1> QED
  BY <1>1 DEF Init, Serial, Live, L!Init

\* Where restaurants are not removed, and dines are not moved while items are
\* saved, the store implements the ledger: whatever requests run together,
\* each that commits is one whole operation at that instant, and nothing else
\* changes what the ledger has.
THEOREM LedgerCorrect ==
  ASSUME "delete" \notin Ops, ~({"update", "save"} \subseteq Ops)
  PROVE  Spec => ImplementsLedger
<1>1. Init => Serial /\ L!Init
  BY SerialInit
<1>2. Invariant /\ Serial /\ [Next]_vars => Serial' /\ [L!Next]_(L!vars)
  BY SerialStep, StepOperates
<1> QED
  BY <1>1, <1>2, InvariantCorrect, PTL DEF Spec, ImplementsLedger, L!Spec


-----------------------------------------------------------------------------
(* No set of requests waits for one another *)

\* How far a request that removes nothing is from the end of its waits: each
\* waits only for requests of a smaller rank.
Rank(x) ==
    CASE x.pc = "commit" -> 0
      [] x.pc \in {"want", "dine", "owner"} -> 1
      [] x.pc = "fill" /\ x.lock = ForUpdate -> 2
      [] x.pc = "fill" /\ x.lock # ForUpdate -> 3
      [] x.pc = "lockDine" -> 4
      [] x.pc \notin Writing \cup {"owner", "fill", "lockDine"} -> 3

Removing(t) == tx[t].pc \in {"remove", "cascade"}

\* One of a set of requests can take its next statement.
OneProceeds(S) == \E t \in S : Blockers(t) \cap S = {}

\* What a request holds at each statement, as far as others wait for it.
LEMMA Holds ==
  ASSUME Typing, NEW u \in Tx
  PROVE  /\ tx[u].lock > 0 =>
               \/ tx[u].pc \in Writing \cup {"owner", "cascade"}
               \/ tx[u].pc = "fill" /\ tx[u].lock = ForUpdate
         /\ tx[u].row # None => tx[u].pc \in Writing \cup {"cascade"}
         /\ tx[u].dine # None => tx[u].pc \in {"move", "want", "commit"}
         /\ tx[u].want # None => tx[u].pc = "commit"
<1>1. Control(tx[u]) /\ tx[u].lock \in 0..4 /\ tx[u].pc \in {"idle"} \cup Steps
  BY DEF Typing, TypeOK, TxRecords
<1>2. tx[u].row # None => tx[u].pc \in Writing \cup {"cascade"}
  BY <1>1 DEF Control, Resolving, Matching, NoKeyUpdate
<1> QED
  BY <1>1, <1>2 DEF Control, ForUpdate

\* The rank falls along the waits of requests that remove nothing.
LEMMA WaitsDescend ==
  ASSUME Typing, LocksExclude, NEW t \in Tx, NEW u \in Blockers(t),
         ~Removing(t), ~Removing(u)
  PROVE  Rank(tx[u]) < Rank(tx[t])
<1>1. u \in Tx /\ u # t
  BY DEF Blockers
<1>2. CASE RowBlocks(u, t)
  <2>1. /\ tx[t].pc \in {"lockChosen", "fill", "insert", "refresh", "move"}
        /\ tx[u].lock > 0
    BY <1>2 DEF RowBlocks, Conflict, AskedLock, Removing
  <2>2. ~(tx[t].pc = "fill" /\ tx[t].lock = ForUpdate)
    <3> SUFFICES ASSUME tx[t].pc = "fill", tx[t].lock = ForUpdate PROVE FALSE
      OBVIOUS
    <3>1. tx[u].rest = tx[t].rest
      BY <1>2 DEF RowBlocks, AskedRows
    <3>2. Conflict(tx[t].lock, tx[u].lock)
      BY <1>1, <2>1 DEF Typing, TypeOK, TxRecords, Conflict, ForUpdate
    <3> QED
      BY <1>1, <3>1, <3>2 DEF LocksExclude
  <2>3. Rank(tx[t]) = 3
    BY <2>1, <2>2 DEF Rank, Writing
  <2>4. Rank(tx[u]) \in 0..2
    BY <1>1, <2>1, Holds DEF Rank, Writing, Removing
  <2> QED
    BY <2>3, <2>4
<1>3. CASE IndexBlocks(u, t)
  <2>1. Rank(tx[t]) \in 2..3
    BY <1>3 DEF IndexBlocks, Rank, Writing
  <2>2. Rank(tx[u]) \in 0..1
    BY <1>1, <1>3, Holds DEF IndexBlocks, Rank, Writing, Removing
  <2> QED
    BY <2>1, <2>2
<1>4. CASE DineBlocks(u, t)
  <2>1. Rank(tx[t]) = 4
    BY <1>4 DEF DineBlocks, Rank, Removing
  <2>2. Rank(tx[u]) \in 0..3
    BY <1>1, <1>4, Holds DEF DineBlocks, Rank, Writing
  <2> QED
    BY <2>1, <2>2
<1>5. CASE WantBlocks(u, t)
  <2>1. Rank(tx[t]) = 1
    BY <1>5 DEF WantBlocks, Rank, Writing
  <2>2. Rank(tx[u]) = 0
    BY <1>1, <1>5, Holds DEF WantBlocks, Rank, Writing
  <2> QED
    BY <2>1, <2>2
<1> QED
  BY <1>2, <1>3, <1>4, <1>5 DEF Blockers

\* A request that removes a restaurant holds no dine and no item, and one that
\* waits for the row holds nothing.
LEMMA RemovalHolds ==
  ASSUME Typing, NEW u \in Tx, NEW t \in Tx, Removing(u), u \in Blockers(t)
  PROVE  /\ tx[u].pc = "cascade"
         /\ tx[t].pc \in {"lockChosen", "remove", "fill", "insert", "refresh", "move"}
         /\ tx[t].pc = "move" => tx[u].rest = tx[t].rest /\ dines[tx[t].dine] # tx[t].rest
<1>1. tx[u].dine = None /\ tx[u].want = None
  BY Holds DEF Removing
<1>2. RowBlocks(u, t) \/ IndexBlocks(u, t)
  BY <1>1 DEF Blockers, DineBlocks, WantBlocks
<1>3. tx[u].lock > 0 \/ tx[u].row # None
  BY <1>2 DEF RowBlocks, Conflict, IndexBlocks
<1>4. tx[u].pc = "cascade"
  BY <1>3, Holds DEF Removing, Writing
<1>5. CASE RowBlocks(u, t)
  BY <1>4, <1>5 DEF RowBlocks, Conflict, AskedLock, AskedRows
<1>6. CASE IndexBlocks(u, t)
  BY <1>4, <1>6 DEF IndexBlocks
<1> QED
  BY <1>2, <1>4, <1>5, <1>6

\* No two requests wait for each other, removals included.
LEMMA NoPairWaits ==
  ASSUME Typing, LocksExclude, NEW t \in Tx, NEW u \in Tx,
         u \in Blockers(t), t \in Blockers(u)
  PROVE  FALSE
<1>1. ASSUME NEW a \in Tx, NEW b \in Tx, a \in Blockers(b), b \in Blockers(a), Removing(a)
      PROVE  FALSE
  <2>1. /\ tx[a].pc = "cascade"
        /\ tx[b].pc \in {"lockChosen", "remove", "fill", "insert", "refresh", "move"}
        /\ tx[b].pc = "move" => tx[a].rest = tx[b].rest /\ dines[tx[b].dine] # tx[b].rest
    BY <1>1, RemovalHolds
  <2>2. tx[b].dine # None /\ dines[tx[b].dine] = tx[a].rest
    BY <1>1, <2>1 DEF Blockers, RowBlocks, Conflict, AskedLock, IndexBlocks, DineBlocks,
                      WantBlocks
  <2>3. tx[b].pc = "move"
    BY <2>1, <2>2, Holds
  <2> QED
    BY <2>1, <2>2, <2>3
<1>2. ~Removing(t) /\ ~Removing(u)
  BY <1>1
<1>3. Rank(tx[u]) < Rank(tx[t]) /\ Rank(tx[t]) < Rank(tx[u])
  BY <1>2, WaitsDescend
<1>4. \A v \in Tx : ~Removing(v) => Rank(tx[v]) \in 0..4
  BY DEF Rank, Writing
<1> QED
  BY <1>2, <1>3, <1>4

\* Among requests that remove nothing one has the smallest rank.
LEMMA SmallestRank ==
  ASSUME NEW S \in SUBSET Tx, S # {}
  PROVE  \E t \in S : \A u \in S : ~(Rank(tx[u]) < Rank(tx[t]))
<1>1. \A v \in S : Rank(tx[v]) \in 0..4
  BY DEF Rank, Writing
<1>2. CASE \E v \in S : Rank(tx[v]) = 0
  BY <1>1, <1>2
<1>3. CASE (\A v \in S : Rank(tx[v]) > 0) /\ \E v \in S : Rank(tx[v]) = 1
  BY <1>1, <1>3
<1>4. CASE (\A v \in S : Rank(tx[v]) > 1) /\ \E v \in S : Rank(tx[v]) = 2
  BY <1>1, <1>4
<1>5. CASE (\A v \in S : Rank(tx[v]) > 2) /\ \E v \in S : Rank(tx[v]) = 3
  BY <1>1, <1>5
<1>6. CASE \A v \in S : Rank(tx[v]) > 3
  BY <1>1, <1>6
<1> QED
  BY <1>1, <1>2, <1>3, <1>4, <1>5, <1>6

\* Of requests that remove nothing, or of two of any kind, one proceeds.
LEMMA SomeProceeds ==
  ASSUME Typing, LocksExclude, NEW S \in (SUBSET Tx) \ {{}},
         (\A t \in S : ~Removing(t)) \/ \E a, b \in Tx : S \subseteq {a, b}
  PROVE  OneProceeds(S)
<1>1. CASE \A t \in S : ~Removing(t)
  <2>1. PICK t \in S : \A u \in S : ~(Rank(tx[u]) < Rank(tx[t]))
    BY SmallestRank
  <2>2. Blockers(t) \cap S = {}
    BY <1>1, <2>1, WaitsDescend
  <2> QED
    BY <2>2 DEF OneProceeds
<1>2. CASE \E a, b \in Tx : S \subseteq {a, b}
  <2>1. PICK a, b \in Tx : S \subseteq {a, b}
    BY <1>2
  <2>2. ~(a \in Blockers(b) /\ b \in Blockers(a)) /\ a \notin Blockers(a) /\ b \notin Blockers(b)
    BY NoPairWaits DEF Blockers
  <2> QED
    BY <2>1, <2>2 DEF OneProceeds
<1> QED
  BY <1>1, <1>2

\* Requests that remove no restaurant, and any two requests, never wait for
\* one another for ever, whatever else is in flight: a circle of waits takes
\* a removal and at least three requests.
THEOREM WaitsCorrect ==
  Spec => [](\A S \in (SUBSET Tx) \ {{}} :
                (\A t \in S : ~Removing(t)) \/ (\E a, b \in Tx : S \subseteq {a, b})
                => OneProceeds(S))
<1>1. Invariant => \A S \in (SUBSET Tx) \ {{}} :
                (\A t \in S : ~Removing(t)) \/ (\E a, b \in Tx : S \subseteq {a, b})
                => OneProceeds(S)
  BY SomeProceeds DEF Invariant, Consistent, Typing
<1> QED
  BY <1>1, InvariantCorrect, PTL

\* Where users remove no restaurant no request ever does.
NoneRemoves == \A t \in Tx : ~Removing(t)

\* Without removals among the operations no request comes to remove one.
LEMMA NoneRemovesStep ==
  ASSUME "delete" \notin Ops, Typing, NoneRemoves, [Next]_vars
  PROVE  NoneRemoves'
<1>1. ASSUME NEW t \in Tx, Begin(t) \/ Step(t) \/ Abort(t) PROVE NoneRemoves'
  <2> DEFINE OnlyPc == /\ tx'[t].pc \notin {"remove", "cascade"}
                       /\ \A u \in Tx : u # t => tx'[u] = tx[u]
  <2>0. tx[t].pc \notin {"remove", "cascade"}
    BY DEF NoneRemoves, Removing
  <2> SUFFICES OnlyPc
    BY DEF NoneRemoves, Removing
  <2> USE DEF Typing, TypeOK, TxRecords, Becomes, End, Idle
  <2>1. CASE Abort(t)
    BY <2>1 DEF Abort
  <2>2. ASSUME NEW op \in {"create", "save"}, NEW in, NEW v, NEW r,
               BeginDescribed(t, op, v, in) \/ BeginChosen(t, op, v, r, in)
        PROVE  OnlyPc
    <3>1. FirstStep(op, None, in) \notin {"remove", "cascade"}
      BY DEF FirstStep, MatchStep
    <3>2. FirstStep(op, r, in) \notin {"remove", "cascade"}
      BY DEF FirstStep, MatchStep
    <3>3. CASE BeginDescribed(t, op, v, in)
      BY <3>1, <3>3 DEF BeginDescribed
    <3>4. CASE BeginChosen(t, op, v, r, in)
      BY <3>2, <3>4 DEF BeginChosen
    <3> QED
      BY <2>2, <3>3, <3>4
  <2>3. ASSUME NEW v, NEW r, BeginUpdate(t, v, r) \/ BeginDelete(t, r) \/ BeginRefresh(t, r)
        PROVE  OnlyPc
    <3>1. CASE BeginUpdate(t, v, r)
      BY <3>1 DEF BeginUpdate
    <3>2. CASE BeginDelete(t, r)
      BY <3>2 DEF BeginDelete
    <3>3. CASE BeginRefresh(t, r)
      BY <3>3 DEF BeginRefresh
    <3> QED
      BY <2>3, <3>1, <3>2, <3>3
  <2>4. CASE Begin(t)
    BY <2>2, <2>3, <2>4 DEF Begin, BeginSave
  <2>5. CASE ChosenExists(t)
    BY <2>5 DEF ChosenExists, FirstStep, MatchStep
  <2>6. CASE LockChosen(t)
    BY <2>6 DEF LockChosen
  <2>7. CASE CheckOwner(t)
    BY <2>7 DEF CheckOwner
  <2>8. CASE MatchPlace(t)
    <3>1. CASE Owners(tx[t].in.place) = {}
      BY <2>8, <3>1 DEF MatchPlace, MatchStep
    <3>2. CASE ~(Owners(tx[t].in.place) = {})
      <4>1. tx' = [tx EXCEPT ![t] = [tx[t] EXCEPT !.rest = Oldest(Owners(tx[t].in.place)), !.pc = "fill"]]
        BY <2>8, <3>2 DEF MatchPlace
      <4>2. tx'[t].pc = "fill" /\ \A u \in Tx : u # t => tx'[u] = tx[u]
        BY <4>1
      <4> QED
        BY <4>2
    <3> QED
      BY <3>1, <3>2
  <2>9. CASE MatchName(t)
    BY <2>9 DEF MatchName
  <2>10. CASE InsertDine(t)
    <3>1. CASE tx[t].row = None
      BY <2>10, <3>1 DEF InsertDine
    <3>2. CASE ~(tx[t].row = None)
      <4>1. tx' = [tx EXCEPT ![t] = [tx[t] EXCEPT !.dine = tx[t].target, !.pc = "want"]]
        BY <2>10, <3>2 DEF InsertDine
      <4>2. tx'[t].pc = "want" /\ \A u \in Tx : u # t => tx'[u] = tx[u]
        BY <4>1
      <4> QED
        BY <4>2
    <3> QED
      BY <3>1, <3>2
  <2>11. CASE MarkDone(t)
    BY <2>11 DEF MarkDone
  <2>12. CASE UpsertWant(t)
    <3>1. CASE tx[t].row = None
      BY <2>12, <3>1 DEF UpsertWant
    <3>2. CASE ~(tx[t].row = None)
      BY <2>12, <3>2 DEF UpsertWant
    <3> QED
      BY <3>1, <3>2
  <2>13. CASE LockDine(t)
    <3>1. CASE dines[tx[t].target] \in Restaurants
      BY <2>13, <3>1 DEF LockDine
    <3>2. CASE ~(dines[tx[t].target] \in Restaurants)
      BY <2>13, <3>2 DEF LockDine
    <3> QED
      BY <3>1, <3>2
  <2>14. CASE MoveDine(t)
    <3>1. WantStep(t) \notin {"remove", "cascade"}
      BY DEF WantStep
    <3>2. CASE dines[tx[t].dine] = tx[t].rest
      BY <2>14, <3>1, <3>2 DEF MoveDine
    <3>3. CASE dines[tx[t].dine] # tx[t].rest /\ Live(tx[t].rest)
      BY <2>14, <3>1, <3>3 DEF MoveDine
    <3>4. CASE dines[tx[t].dine] # tx[t].rest /\ ~Live(tx[t].rest)
      BY <2>14, <3>4 DEF MoveDine
    <3> QED
      BY <3>2, <3>3, <3>4
  <2>15. CASE RemoveRow(t)
    BY <2>0, <2>15 DEF RemoveRow, Ready
  <2>16. CASE Cascade(t)
    BY <2>0, <2>16 DEF Cascade, Ready
  <2>17. CASE WriteRefresh(t)
    BY <2>17 DEF WriteRefresh
  <2>18. CASE Commit(t)
    BY <2>18 DEF Commit
  <2>19. AfterResolve(tx[t].op) \notin {"remove", "cascade"}
    BY DEF AfterResolve
  <2>20. CASE InsertRestaurant(t)
    <3> HIDE DEF TxRecords
    <3>1. ASSUME NEW r, NEW row, Resolved(t, r, row) PROVE OnlyPc
      BY <2>19, <3>1, ResolvedFields
    <3> QED
      BY <2>20, <3>1 DEF InsertRestaurant
  <2>21. CASE FillRestaurant(t)
    <3> HIDE DEF TxRecords
    <3>1. ASSUME NEW r, NEW row, Resolved(t, r, row) PROVE OnlyPc
      BY <2>19, <3>1, ResolvedFields
    <3>2. CASE Becomes(t, [tx[t] EXCEPT !.id = None, !.pc = AfterResolve(tx[t].op)])
      BY <2>19, <3>2 DEF TxRecords
    <3> QED
      BY <2>21, <3>1, <3>2 DEF FillRestaurant
  <2> QED
    BY <1>1, <2>1, <2>4, <2>5, <2>6, <2>7, <2>8, <2>9, <2>10, <2>11,
       <2>12, <2>13, <2>14, <2>15, <2>16, <2>17, <2>18, <2>20, <2>21 DEF Step
<1>2. ASSUME UNCHANGED tx PROVE NoneRemoves'
  BY <1>2 DEF NoneRemoves, Removing
<1> QED
  BY <1>1, <1>2 DEF Next, vars, DeleteDine, DeleteWantToTry, EditRestaurant

\* Where users remove no restaurant, or two requests at most run at once, no
\* set of requests waits for one another for ever.
THEOREM NoDeadlockCorrect ==
  ASSUME "delete" \notin Ops \/ \E a, b \in Tx : Tx = {a, b}
  PROVE  Spec => []NoDeadlock
<1>1. CASE \E a, b \in Tx : Tx = {a, b}
  <2>1. Invariant => NoDeadlock
    <3> SUFFICES ASSUME Invariant, NEW S \in (SUBSET Tx) \ {{}} PROVE OneProceeds(S)
      BY DEF NoDeadlock, OneProceeds
    <3> QED
      BY <1>1, SomeProceeds DEF Invariant, Consistent, Typing
  <2> QED
    BY <2>1, InvariantCorrect, PTL
<1>2. CASE "delete" \notin Ops
  <2>1. Init => NoneRemoves
    <3> SUFFICES ASSUME Init, NEW t \in Tx PROVE tx[t].pc = "idle"
      BY DEF NoneRemoves, Removing
    <3> QED
      BY DEF Init, Idle
  <2>2. Invariant /\ NoneRemoves /\ [Next]_vars => NoneRemoves'
    BY <1>2, NoneRemovesStep DEF Invariant, Consistent, Typing
  <2>3. Invariant /\ NoneRemoves => NoDeadlock
    <3> SUFFICES ASSUME Invariant, NoneRemoves, NEW S \in (SUBSET Tx) \ {{}}
                 PROVE  OneProceeds(S)
      BY DEF NoDeadlock, OneProceeds
    <3> QED
      BY SomeProceeds DEF Invariant, Consistent, Typing, NoneRemoves
  <2> QED
    BY <2>1, <2>2, <2>3, InvariantCorrect, PTL DEF Spec
<1> QED
  BY <1>1, <1>2
=============================================================================
