------------------------------- MODULE Memory -------------------------------
(***************************************************************************)
(* The in-memory ledger store (internal/repository/memory.go and           *)
(* memory_want_to_try.go): slices behind one mutex, so an operation is one *)
(* action.  Three things keep it from being trivial.  A dine embeds a copy *)
(* of its restaurant, and every write must keep the copies current.  The   *)
(* Want to Try list is a slice whose elements move when one is deleted,    *)
(* while a handler still holds a pointer into it.  And a metadata refresh  *)
(* is two operations with a call to Google between them.                   *)
(***************************************************************************)
EXTENDS Naturals, Sequences, FiniteSets

CONSTANTS
    MaxRestaurants,  \* bound: restaurants that may ever be added
    Dines,           \* bound: dines that may ever be logged
    MaxAnswers,      \* bound: saves whose handler has not answered yet
    Names, Addresses, Places,
    Inputs,          \* what the forms of this instance may submit
    Ops,             \* the operations users run in this instance
    None,            \* a nil pointer, and "no such element yet"
    Gone             \* an element that was deleted: its id is never used again

AllOps == {"create", "save", "update", "delete", "refresh",
           "edit", "chain", "deleteDine", "deleteWant"}

OrNone(S) == S \cup {None}

Row == [name : Names, address : OrNone(Addresses), place : OrNone(Places),
        coords : OrNone(Places), chain : BOOLEAN]

\* A restaurant is named by the order in which the slice got it: the slice
\* only grows at its end, and deleting an element keeps the order of the rest.
Restaurants == 1..MaxRestaurants

\* What m.wantToTry and m.visits keep of an item and of a dine; times, notes,
\* ratings and photos are left out, and so is updated_at of a restaurant.
Item == [rest : Restaurants, done : BOOLEAN]
Stored == [rest : Restaurants, copy : Row]

ASSUME MemoryAssumption ==
    /\ MaxRestaurants \in Nat /\ MaxAnswers \in Nat
    /\ Ops \subseteq AllOps
    /\ Inputs \subseteq Row
    /\ None # Gone
    /\ {None, Gone} \cap (Row \cup Stored \cup Item \cup Places \cup Restaurants) = {}

VARIABLES
    restaurants,  \* m.restaurants, by id
    visits,       \* m.visits, by id: the restaurant of each and the copy of it
    array,        \* the array behind m.wantToTry: length is its capacity
    size,         \* len(m.wantToTry); the cells behind it are left over
    answers,      \* saves whose handler has yet to read the id it was given
    refreshing    \* refreshes waiting for Google: the restaurant and its place

vars == <<restaurants, visits, array, size, answers, refreshing>>

\* The id a save returned: a pointer to a cell of the array or, with cell 0,
\* to memory no later operation writes.
Answer == [saved : Restaurants, cell : Nat, id : Restaurants]

TypeOK ==
    /\ restaurants \in [Restaurants -> Row \cup {None, Gone}]
    /\ visits \in [Dines -> Stored \cup {None, Gone}]
    /\ array \in Seq(Item \cup {None})
    /\ size \in 0..Len(array)
    /\ \A i \in 1..size : array[i] # None
    /\ answers \subseteq Answer
    /\ \A a \in answers : a.cell # 0 => a.cell \in DOMAIN array /\ array[a.cell] # None
    /\ refreshing \subseteq [rest : Restaurants, place : Places]

\* The demo data NewMemoryStore seeds can all be deleted; this is what is left.
Init ==
    /\ restaurants = [r \in Restaurants |-> None]
    /\ visits = [v \in Dines |-> None]
    /\ array = <<>> /\ size = 0
    /\ answers = {} /\ refreshing = {}

-----------------------------------------------------------------------------
(* Finding and filling restaurants *)

Live(r) == restaurants[r] \notin {None, Gone}
Unused == {r \in Restaurants : restaurants[r] = None}
Known == Restaurants \ Unused
First(S) == CHOOSE r \in S : \A s \in S : r <= s
LiveVisit(v) == visits[v] \notin {None, Gone}
VisitsAt(r) == {v \in Dines : LiveVisit(v) /\ visits[v].rest = r}

Owners(p) == {r \in Restaurants : Live(r) /\ restaurants[r].place = p}
Namesakes(in) == {r \in Restaurants : /\ Live(r) /\ in.address # None
                                      /\ restaurants[r].name = in.name
                                      /\ restaurants[r].address = in.address}

\* Mutant: a submitted place ID is looked up by place alone.
FoundByPlaceAlone(in) ==
    IF in.place # None THEN Owners(in.place) ELSE Namesakes(in)

Found(in) ==
    IF in.place # None /\ Owners(in.place) # {} THEN Owners(in.place) ELSE Namesakes(in)

Coalesce(a, b) == IF a = None THEN b ELSE a

\* Unlike Postgres, an address is never filled in.
Fill(row, in) ==
    [row EXCEPT !.place = Coalesce(@, in.place), !.coords = Coalesce(@, in.coords)]

WithoutPlaceDetails(in) ==
    IF in.place = None THEN [in EXCEPT !.coords = None] ELSE in

PlaceConflict(r, p) ==
    /\ p # None /\ restaurants[r].place # p
    /\ Owners(p) \ {r} # {} \/ restaurants[r].place # None

\* Mutant: the dines keep the copies they have.
StoreRowUnsynced(r, row) ==
    /\ restaurants' = [restaurants EXCEPT ![r] = row]
    /\ UNCHANGED visits

\* syncRestaurant: a row that is written is written over every copy of it.
Synced(r, row) ==
    [v \in Dines |-> IF v \in VisitsAt(r) THEN [rest |-> r, copy |-> row] ELSE visits[v]]

StoreRow(r, row) ==
    /\ restaurants' = [restaurants EXCEPT ![r] = row]
    /\ visits' = Synced(r, row)

\* resolveRestaurant: the restaurant it finds or adds, none if it refuses, and
\* what it leaves there.
Resolved(chosen, in) ==
    IF chosen # None /\ Live(chosen)
    THEN {r \in {chosen} : ~PlaceConflict(r, in.place)}
    ELSE IF Found(in) # {} THEN {First(Found(in))}
    ELSE {r \in Unused : r = First(Unused)}

NewRow(chosen, in, r) ==
    IF ~Live(r) THEN in
    ELSE Fill(restaurants[r], IF r = chosen THEN WithoutPlaceDetails(in) ELSE in)

-----------------------------------------------------------------------------
(* The Want to Try slice *)

Cells(r) == {i \in 1..size : array[i].rest = r}

\* markWantToTryDone
Marked(r) ==
    [i \in DOMAIN array |-> IF i \in Cells(r) THEN [array[i] EXCEPT !.done = TRUE]
                                              ELSE array[i]]

\* The restaurant whose item a pending answer names when the handler reads it.
Named(a) == IF a.cell = 0 THEN a.id ELSE array[a.cell].rest

\* append works in place while the capacity lasts, else in a copy twice as long.
Full == size = Len(array)
Capacity == IF ~Full THEN Len(array) ELSE IF size = 0 THEN 1 ELSE 2 * size
Appended(item) ==
    [j \in 1..Capacity |-> IF j = size + 1 THEN item
                           ELSE IF j <= Len(array) THEN array[j] ELSE None]

\* After a copy, ids handed out before point to the old array, which nobody
\* writes again.
StillPending ==
    IF Full THEN {[a EXCEPT !.cell = 0, !.id = Named(a)] : a \in answers} ELSE answers

\* append(s[:i], s[i+1:]...): later elements move up, the last cell keeps
\* its value.
Cut(i) ==
    [j \in DOMAIN array |-> IF i <= j /\ j < size THEN array[j + 1] ELSE array[j]]

-----------------------------------------------------------------------------
(* Dines *)

StoreVisit(v, r, row) ==
    /\ restaurants' = [restaurants EXCEPT ![r] = row]
    /\ visits' = [Synced(r, row) EXCEPT ![v] = [rest |-> r, copy |-> row]]

CreateVisit(v, chosen, in) ==
    /\ "create" \in Ops
    /\ visits[v] = None
    /\ \E r \in Resolved(chosen, in) :
          StoreVisit(v, r, NewRow(chosen, in, r)) /\ array' = Marked(r)
    /\ UNCHANGED <<size, answers, refreshing>>

\* Mutant: every edit of a dine clears the item of its restaurant.
ClearedAlways(v, r) == Marked(r)

\* Only a dine moved to another restaurant clears that one's item.
Cleared(v, r) == IF visits[v].rest # r THEN Marked(r) ELSE array

UpdateVisit(v, r) ==
    /\ "update" \in Ops
    /\ LiveVisit(v) /\ Live(r)
    /\ array' = Cleared(v, r)
    /\ visits' = [visits EXCEPT ![v] = [rest |-> r, copy |-> restaurants[r]]]
    /\ UNCHANGED <<restaurants, size, answers, refreshing>>

DeleteVisit(v) ==
    /\ "deleteDine" \in Ops
    /\ LiveVisit(v)
    /\ visits' = [visits EXCEPT ![v] = Gone]
    /\ UNCHANGED <<restaurants, array, size, answers, refreshing>>

-----------------------------------------------------------------------------
(* The Want to Try list *)

\* An id the handler will read: in the element found, or in a copy of a new one.
Pending(r, i) == [saved |-> r, cell |-> i, id |-> r]

\* Mutant: an item taken off the list by a dine is left there and added again.
ListedOpen(r) == {i \in Cells(r) : ~array[i].done}

Listed(r) == Cells(r)

\* The form of an item has no chain switch.
SaveWantToTry(chosen, form) ==
    LET in == [form EXCEPT !.chain = FALSE] IN
    /\ "save" \in Ops
    /\ Cardinality(answers) < MaxAnswers
    /\ chosen # None => Live(chosen)
    /\ \E r \in Resolved(chosen, in) :
          /\ StoreRow(r, NewRow(chosen, in, r))
          /\ \/ \E i \in Listed(r) :
                   /\ array' = [array EXCEPT ![i].done = FALSE]
                   /\ answers' = answers \cup {Pending(r, i)}
                   /\ UNCHANGED size
             \/ /\ Listed(r) = {}
                /\ array' = Appended([rest |-> r, done |-> FALSE])
                /\ answers' = StillPending \cup {Pending(r, 0)}
                /\ size' = size + 1
    /\ UNCHANGED refreshing

\* The handler puts the id it was given into its redirect.
Redirect(a) ==
    /\ a \in answers
    /\ answers' = answers \ {a}
    /\ UNCHANGED <<restaurants, visits, array, size, refreshing>>

DeleteWantToTry(i) ==
    /\ "deleteWant" \in Ops
    /\ i \in 1..size
    /\ array' = Cut(i) /\ size' = size - 1
    /\ UNCHANGED <<restaurants, visits, answers, refreshing>>

-----------------------------------------------------------------------------
(* Restaurants *)

\* deleteRestaurantWantToTry filters in place; a restaurant has one item at most.
DropItems(r) ==
    \/ Cells(r) = {} /\ UNCHANGED <<array, size>>
    \/ \E i \in Cells(r) : array' = Cut(i) /\ size' = size - 1

DeleteRestaurantIfUnvisited(r) ==
    /\ "delete" \in Ops
    /\ Live(r) /\ VisitsAt(r) = {}
    /\ restaurants' = [restaurants EXCEPT ![r] = Gone]
    /\ DropItems(r)
    /\ UNCHANGED <<visits, answers, refreshing>>

\* The edit form shows everything but the place ID and the coordinates.
UpdateRestaurant(r, name, address, chain) ==
    /\ "edit" \in Ops
    /\ Live(r)
    /\ StoreRow(r, [restaurants[r] EXCEPT !.name = name, !.address = address,
                                          !.chain = chain])
    /\ UNCHANGED <<array, size, answers, refreshing>>

ToggleChain(r, chain) ==
    /\ "chain" \in Ops
    /\ Live(r)
    /\ restaurants' = [restaurants EXCEPT ![r].chain = chain]
    /\ visits' = [v \in Dines |-> IF v \in VisitsAt(r)
                                  THEN [visits[v] EXCEPT !.copy.chain = chain]
                                  ELSE visits[v]]
    /\ UNCHANGED <<array, size, answers, refreshing>>

\* RefreshRestaurantGoogle reads the place ID and asks Google ...
BeginRefresh(r) ==
    /\ "refresh" \in Ops
    /\ Live(r) /\ restaurants[r].place # None
    /\ refreshing' = refreshing \cup {[rest |-> r, place |-> restaurants[r].place]}
    /\ UNCHANGED <<restaurants, visits, array, size, answers>>

\* ... and writes what it answered, if the restaurant is still there.
EndRefresh(f) ==
    /\ f \in refreshing
    /\ refreshing' = refreshing \ {f}
    /\ \/ UNCHANGED <<restaurants, visits>>
       \/ /\ Live(f.rest)
          /\ StoreRow(f.rest, [restaurants[f.rest] EXCEPT !.coords = f.place])
    /\ UNCHANGED <<array, size, answers>>

-----------------------------------------------------------------------------
Next ==
    \/ \E v \in Dines, c \in OrNone(Known), in \in Inputs : CreateVisit(v, c, in)
    \/ \E v \in Dines, r \in Restaurants : UpdateVisit(v, r)
    \/ \E v \in Dines : DeleteVisit(v)
    \/ \E c \in OrNone(Known), in \in Inputs : SaveWantToTry(c, in)
    \/ \E a \in answers : Redirect(a)
    \/ \E i \in 1..size : DeleteWantToTry(i)
    \/ \E r \in Restaurants : DeleteRestaurantIfUnvisited(r)
    \/ \E r \in Restaurants, n \in Names, a \in OrNone(Addresses), c \in BOOLEAN :
          UpdateRestaurant(r, n, a, c)
    \/ \E r \in Restaurants, c \in BOOLEAN : ToggleChain(r, c)
    \/ \E r \in Restaurants : BeginRefresh(r)
    \/ \E f \in refreshing : EndRefresh(f)

Spec == Init /\ [][Next]_vars

-----------------------------------------------------------------------------
(* Properties *)

\* The copy of a restaurant that a dine carries is the restaurant as it is:
\* a fill, an edit, the chain switch and a late refresh reach every copy.
CopiesCurrent ==
    \A v \in Dines : LiveVisit(v) =>
        Live(visits[v].rest) /\ visits[v].copy = restaurants[visits[v].rest]

\* A restaurant is on the Want to Try list at most once, and a removed one is
\* not: what Postgres' unique restaurant_id and cascade give its list.
ListedOnce ==
    \A i \in 1..size : Live(array[i].rest) /\ Cells(array[i].rest) = {i}

\* No two restaurants are linked to one Google place, or have one name and address.
Distinct ==
    \A r, s \in Restaurants : Live(r) /\ Live(s) /\ r # s =>
        /\ restaurants[r].place # None => restaurants[r].place # restaurants[s].place
        /\ restaurants[r].address # None =>
              \/ restaurants[r].name # restaurants[s].name
              \/ restaurants[r].address # restaurants[s].address

Called(r) == <<restaurants[r].name, restaurants[r].address>>

\* Whatever was saved, linked and removed before, only an edit that renames a
\* restaurant makes two of one name and address, and nothing makes two of one
\* place: under the mutex, unlike in Postgres, a match and the insertion that
\* follows from it are one step.
OneOfEach ==
    [][/\ Distinct
       /\ \A r \in Restaurants : Live(r) /\ Live(r)' => Called(r)' = Called(r)
       => Distinct']_vars

\* Every operation is one operation of the ledger, which Store implements too.
Saved == {r \in Restaurants : Live(r)}
Removed == {r \in Restaurants : restaurants[r] = Gone}
LinkedTo == [r \in Restaurants |-> IF Live(r) THEN restaurants[r].place ELSE None]
DineAt == [v \in Dines |-> IF LiveVisit(v) THEN visits[v].rest ELSE visits[v]]
OnList == [r \in Restaurants |->
              IF Cells(r) = {} THEN "off"
              ELSE IF \E i \in Cells(r) : array[i].done THEN "done" ELSE "open"]

L == INSTANCE Ledger WITH
        saved <- Saved, removed <- Removed, linked <- LinkedTo,
        dines <- DineAt, want <- OnList
ImplementsLedger == L!Spec

\* The redirect after a save names the item that was saved ("wantToTryNotice
\* confirms the save or dine that led back to the list",
\* internal/handler/want_to_try.go:39).
SaveConfirmed == \A a \in answers : Named(a) = a.saved
=============================================================================
