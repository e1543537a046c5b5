------------------------------- MODULE Store -------------------------------
(***************************************************************************)
(* The Postgres ledger store (internal/repository/store.go and             *)
(* store_want_to_try.go) as requests of concurrent users run it: each      *)
(* request is one READ COMMITTED transaction of several SQL statements,    *)
(* and one action is one statement that reads or writes the ledger.        *)
(*                                                                         *)
(* A transaction touches at most one restaurant row, one dine and one Want *)
(* to Try item, so it carries its own uncommitted versions of them and the *)
(* lock it holds on the restaurant.  A statement reads the committed       *)
(* tables overlaid by its own versions; it waits while another transaction *)
(* holds a conflicting row lock or an uncommitted entry of the unique      *)
(* index it needs (Blockers).                                              *)
(***************************************************************************)
EXTENDS Naturals

CONSTANTS
    Tx,              \* requests that may be in flight at once
    MaxRestaurants,  \* bound: transactions that may insert a restaurant
    Dines,           \* bound: ids of dines that may ever be logged
    Names, Addresses, Places,
    Inputs,          \* what the forms of this instance may submit
    Ops,             \* the operations users run in this instance
    None,            \* SQL NULL, and "no such row yet"
    Gone             \* a row that was deleted: its id is never used again

AllOps == {"create", "save", "update", "delete", "refresh",
           "edit", "deleteDine", "deleteWant"}

OrNone(S) == S \cup {None}

Row == [name : Names, address : OrNone(Addresses),
        place : OrNone(Places), coords : OrNone(Places)]

\* The place ID and the metadata of one submission need not belong together:
\* the form lets a user type the ID beside the hidden metadata of a place picked
\* before (ui/templates/log.html:14-23), and the handler keeps what was
\* submitted wherever Google gives nothing (internal/handler/visits.go:149-154).
ASSUME StoreAssumption ==
    /\ MaxRestaurants \in Nat
    /\ Ops \subseteq AllOps
    /\ Inputs \subseteq Row
    /\ None # Gone
    /\ {None, Gone} \cap (Dines \cup Names \cup Addresses \cup Places) = {}
    /\ {None, Gone} \cap (1..MaxRestaurants) = {}
    /\ {None, Gone} \cap (Row \cup {"off", "open", "done"}) = {}

(***************************************************************************)
(* A restaurant is named by the start order of the transaction that        *)
(* inserts it.  created_at is NOW(), the start of that transaction, so the *)
(* order of the names is the order of created_at.  coords stands for the   *)
(* Google metadata a user cannot type over (latitude and longitude): it    *)
(* names the place the values came from.                                   *)
(***************************************************************************)
Restaurants == 1..MaxRestaurants

\* The four row locks of Postgres, weakest first, and which of them conflict.
KeyShare == 1
Share == 2
NoKeyUpdate == 3
ForUpdate == 4
Conflict(held, asked) == held > 0 /\ asked > 0 /\ held + asked >= 5

Steps == {"exists", "lockChosen", "owner", "byPlace", "byName", "insert",
          "fill", "dine", "want", "lockDine", "move", "commit",
          "remove", "cascade", "refresh"}

VARIABLES
    restaurants,  \* committed rows of restaurants
    dines,        \* committed rows of dining_visits: the restaurant of each
    want,         \* committed rows of want_to_try, by restaurant
    nextId,       \* name of the next restaurant a transaction may insert
    tx            \* the transactions in flight

tables == <<restaurants, dines, want>>
vars == <<restaurants, dines, want, nextId, tx>>

Idle == [op |-> "idle", pc |-> "idle", chosen |-> None, in |-> None,
         target |-> None, id |-> None, rest |-> None, lock |-> 0,
         row |-> None, dine |-> None, want |-> None]

TxRecords ==
    [op : {"idle", "create", "save", "update", "delete", "refresh"},
     pc : {"idle"} \cup Steps,
     chosen : OrNone(Restaurants),  \* the restaurant ID the request names
     in : OrNone(Row),              \* what the request submits of a restaurant
     target : OrNone(Dines),        \* the dine the request edits or will log
     id : OrNone(Restaurants),      \* the name of the row it may insert
     rest : OrNone(Restaurants),    \* the restaurant it works on
     lock : 0..4,                   \* the lock it holds on that row
     row : Row \cup {None, Gone},   \* its uncommitted version of that row
     dine : OrNone(Dines),          \* the dine it wrote or locked
     want : {None, "open", "done"}] \* its uncommitted version of the item

TypeOK ==
    /\ restaurants \in [Restaurants -> Row \cup {None, Gone}]
    /\ dines \in [Dines -> Restaurants \cup {None, Gone}]
    /\ want \in [Restaurants -> {"off", "open", "done"}]
    /\ nextId \in 1..(MaxRestaurants + 1)
    /\ tx \in [Tx -> TxRecords]

Init ==
    /\ restaurants = [r \in Restaurants |-> None]
    /\ dines = [v \in Dines |-> None]
    /\ want = [r \in Restaurants |-> "off"]
    /\ nextId = 1
    /\ tx = [t \in Tx |-> Idle]

-----------------------------------------------------------------------------
(* What statements read and compute *)

Live(r) == restaurants[r] \notin {None, Gone}
Known == {r \in Restaurants : restaurants[r] # None}
Owners(p) == {r \in Restaurants : Live(r) /\ restaurants[r].place = p}
Namesakes(in) == {r \in Restaurants : /\ Live(r)
                                      /\ restaurants[r].name = in.name
                                      /\ restaurants[r].address = in.address}
Oldest(S) == CHOOSE r \in S : \A s \in S : r <= s
DinesAt(r) == {v \in Dines : dines[v] = r}

Coalesce(a, b) == IF a = None THEN b ELSE a

WithoutPlaceDetails(in) ==
    IF in.place = None THEN [in EXCEPT !.coords = None] ELSE in

\* Mutant: the submitted place ID wins over the stored one.
FillRelinks(row, in) ==
    [row EXCEPT !.address = Coalesce(@, in.address),
                !.place = Coalesce(in.place, @),
                !.coords = Coalesce(@, in.coords)]

Fill(row, in) ==
    [row EXCEPT !.address = Coalesce(@, in.address),
                !.place = Coalesce(@, in.place),
                !.coords = Coalesce(@, in.coords)]

\* The input a transaction fills onto the restaurant it resolved to.
FillInput(t) ==
    IF tx[t].chosen # None THEN WithoutPlaceDetails(tx[t].in) ELSE tx[t].in

\* Mutant: no unique index on the place ID.
LinksUnindexed(t) == FALSE

Links(t) == /\ tx[t].in.place # None
            /\ \/ tx[t].pc = "insert"
               \/ /\ tx[t].pc = "fill"
                  /\ Live(tx[t].rest)
                  /\ restaurants[tx[t].rest].place = None

-----------------------------------------------------------------------------
(* Waiting *)

\* Mutants: the chosen restaurant is read without a lock, or FOR SHARE.
ChosenUnlocked == 0
ChosenShared == Share

\* The check of a chosen restaurant reads it FOR UPDATE.
ChosenLock == ForUpdate

\* The row lock the next statement of a transaction asks for, and on which row.
AskedLock(t) ==
    CASE tx[t].pc = "lockChosen" -> ChosenLock
      [] tx[t].pc = "remove" -> ForUpdate
      [] tx[t].pc \in {"fill", "insert", "refresh"} -> NoKeyUpdate
      [] tx[t].pc = "move" /\ dines[tx[t].dine] # tx[t].rest -> KeyShare
      [] OTHER -> 0

AskedRows(t) ==
    IF tx[t].pc = "insert"
    THEN IF tx[t].in.place = None THEN {} ELSE Owners(tx[t].in.place)
    ELSE {tx[t].rest}

RowBlocks(u, t) ==
    /\ tx[u].rest \in AskedRows(t)
    /\ Conflict(tx[u].lock, AskedLock(t))

\* Another transaction wrote a row that has, or had, the place this one links.
IndexBlocks(u, t) ==
    /\ tx[t].pc \in {"fill", "insert"}
    /\ Links(t)
    /\ tx[u].row # None
    /\ \/ tx[u].row # Gone /\ tx[u].row.place = tx[t].in.place
       \/ tx[u].rest \in Owners(tx[t].in.place)

DineBlocks(u, t) ==
    /\ tx[u].dine # None
    /\ \/ tx[t].pc = "lockDine" /\ tx[u].dine = tx[t].target
       \/ tx[t].pc = "cascade" /\ dines[tx[u].dine] = tx[t].rest

WantBlocks(u, t) ==
    /\ tx[t].pc = "want"
    /\ tx[u].want # None
    /\ tx[u].rest = tx[t].rest
    /\ tx[t].op = "save" \/ want[tx[t].rest] = "open"

Blockers(t) ==
    {u \in Tx \ {t} : \/ RowBlocks(u, t) \/ IndexBlocks(u, t)
                      \/ DineBlocks(u, t) \/ WantBlocks(u, t)}

Ready(t, pc) == tx[t].pc = pc /\ Blockers(t) = {}

\* A statement changes its own transaction only; the last one ends it.
Becomes(t, x) == tx' = [tx EXCEPT ![t] = x]
End(t) == Becomes(t, Idle)

-----------------------------------------------------------------------------
(* Creating a dine, saving a Want to Try item: resolveRestaurant *)

MatchStep(in) == IF in.address # None THEN "byName" ELSE "insert"

FirstStep(op, chosen, in) ==
    CASE chosen = None -> IF in.place # None THEN "byPlace" ELSE MatchStep(in)
      [] chosen # None /\ op = "save" -> "exists"
      [] chosen # None /\ op # "save" ->
            IF in.place # None THEN "lockChosen" ELSE "fill"

\* The ids a new dine may get; a saved item needs none.
Targets(op) ==
    IF op = "save" THEN {None}
    ELSE {v \in Dines : dines[v] = None /\ \A u \in Tx : tx[u].target # v}

\* A request that names a restaurant ID, and one that only describes a place.
BeginChosen(t, op, v, r, in) ==
    /\ op \in Ops /\ tx[t].pc = "idle"
    /\ Becomes(t, [Idle EXCEPT !.op = op, !.target = v, !.chosen = r, !.in = in,
                               !.rest = r, !.pc = FirstStep(op, r, in)])
    /\ UNCHANGED <<tables, nextId>>

BeginDescribed(t, op, v, in) ==
    /\ op \in Ops /\ tx[t].pc = "idle"
    /\ nextId <= MaxRestaurants
    /\ Becomes(t, [Idle EXCEPT !.op = op, !.target = v, !.in = in, !.id = nextId,
                               !.pc = FirstStep(op, None, in)])
    /\ nextId' = nextId + 1
    /\ UNCHANGED tables

\* SaveWantToTry refuses a restaurant that does not exist.
ChosenExists(t) ==
    /\ Ready(t, "exists")
    /\ IF Live(tx[t].rest)
       THEN Becomes(t, [tx[t] EXCEPT !.pc = FirstStep("create", tx[t].chosen, tx[t].in)])
       ELSE End(t)
    /\ UNCHANGED <<tables, nextId>>

LockChosen(t) ==
    /\ Ready(t, "lockChosen")
    /\ IF Live(tx[t].rest)
       THEN Becomes(t, [tx[t] EXCEPT !.lock = ChosenLock, !.pc = "owner"])
       ELSE Becomes(t, [tx[t] EXCEPT !.pc = "fill"])
    /\ UNCHANGED <<tables, nextId>>

\* The two ways a submitted place is not the chosen restaurant's own.
PlaceConflict(r, p) ==
    /\ restaurants[r].place # p
    /\ Owners(p) \ {r} # {} \/ restaurants[r].place # None

CheckOwner(t) ==
    /\ Ready(t, "owner")
    /\ IF PlaceConflict(tx[t].rest, tx[t].in.place)
       THEN End(t)
       ELSE Becomes(t, [tx[t] EXCEPT !.pc = "fill"])
    /\ UNCHANGED <<tables, nextId>>

MatchPlace(t) ==
    /\ Ready(t, "byPlace")
    /\ LET found == Owners(tx[t].in.place) IN
       IF found # {}
       THEN Becomes(t, [tx[t] EXCEPT !.rest = Oldest(found), !.pc = "fill"])
       ELSE Becomes(t, [tx[t] EXCEPT !.pc = MatchStep(tx[t].in)])
    /\ UNCHANGED <<tables, nextId>>

MatchName(t) ==
    /\ Ready(t, "byName")
    /\ LET found == Namesakes(tx[t].in) IN
       IF found # {}
       THEN Becomes(t, [tx[t] EXCEPT !.rest = Oldest(found), !.pc = "fill"])
       ELSE Becomes(t, [tx[t] EXCEPT !.pc = "insert"])
    /\ UNCHANGED <<tables, nextId>>

\* What follows once the restaurant is resolved.
AfterResolve(op) == IF op = "create" THEN "dine" ELSE "want"

Resolved(t, r, row) ==
    Becomes(t, [tx[t] EXCEPT !.rest = r, !.row = row, !.id = None,
                             !.lock = IF @ > NoKeyUpdate THEN @ ELSE NoKeyUpdate,
                             !.pc = AfterResolve(tx[t].op)])

\* INSERT ... ON CONFLICT (google_place_id) DO UPDATE
InsertRestaurant(t) ==
    /\ Ready(t, "insert")
    /\ LET in == tx[t].in
           owner == IF in.place = None THEN {} ELSE Owners(in.place)
       IN IF owner = {}
          THEN Resolved(t, tx[t].id, in)
          ELSE LET r == Oldest(owner) IN Resolved(t, r, Fill(restaurants[r], in))
    /\ UNCHANGED <<tables, nextId>>

\* UPDATE restaurants ... COALESCE: no row if it is gone, an error if another
\* restaurant took the place meanwhile (the unique index).
FillRestaurant(t) ==
    /\ Ready(t, "fill")
    /\ LET r == tx[t].rest IN
       \/ /\ ~Live(r)
          /\ Becomes(t, [tx[t] EXCEPT !.id = None, !.pc = AfterResolve(tx[t].op)])
       \/ /\ Live(r)
          /\ IF Links(t) /\ Owners(tx[t].in.place) # {}
             THEN End(t)
             ELSE Resolved(t, r, Fill(restaurants[r], FillInput(t)))
    /\ UNCHANGED <<tables, nextId>>

-----------------------------------------------------------------------------
(* The dine and the Want to Try item *)

\* INSERT INTO dining_visits: the foreign key fails if the restaurant is gone.
InsertDine(t) ==
    /\ Ready(t, "dine")
    /\ IF tx[t].row = None
       THEN End(t)
       ELSE Becomes(t, [tx[t] EXCEPT !.dine = tx[t].target, !.pc = "want"])
    /\ UNCHANGED <<tables, nextId>>

\* Mutant: a logged dine leaves the list alone.
MarkDoneMissing(t) ==
    /\ Ready(t, "want") /\ tx[t].op # "save"
    /\ Becomes(t, [tx[t] EXCEPT !.pc = "commit"])
    /\ UNCHANGED <<tables, nextId>>

\* markWantToTryDone updates the item its statement sees open.
MarkDone(t) ==
    /\ Ready(t, "want") /\ tx[t].op # "save"
    /\ Becomes(t, [tx[t] EXCEPT !.pc = "commit",
                               !.want = IF want[tx[t].rest] = "open" THEN "done" ELSE None])
    /\ UNCHANGED <<tables, nextId>>

UpsertWant(t) ==
    /\ Ready(t, "want") /\ tx[t].op = "save"
    /\ IF tx[t].row = None
       THEN End(t)
       ELSE Becomes(t, [tx[t] EXCEPT !.pc = "commit", !.want = "open"])
    /\ UNCHANGED <<tables, nextId>>

Commit(t) ==
    /\ Ready(t, "commit")
    /\ restaurants' = IF tx[t].row = None THEN restaurants
                      ELSE [restaurants EXCEPT ![tx[t].rest] = tx[t].row]
    /\ dines' = IF tx[t].dine = None THEN dines
                ELSE [dines EXCEPT ![tx[t].dine] = tx[t].rest]
    /\ want' = IF tx[t].want = None THEN want
               ELSE [want EXCEPT ![tx[t].rest] = tx[t].want]
    /\ End(t)
    /\ UNCHANGED nextId

\* A request may fail at any statement: its context is cancelled, the
\* connection drops, the process dies.  Postgres rolls the transaction back.
Abort(t) ==
    /\ tx[t].pc # "idle"
    /\ End(t)
    /\ UNCHANGED <<tables, nextId>>

-----------------------------------------------------------------------------
(* Editing and moving a dine: UpdateVisit *)

BeginUpdate(t, v, r) ==
    /\ "update" \in Ops /\ tx[t].pc = "idle"
    /\ dines[v] # None
    /\ Becomes(t, [Idle EXCEPT !.op = "update", !.target = v, !.rest = r, !.pc = "lockDine"])
    /\ UNCHANGED <<tables, nextId>>

LockDine(t) ==
    /\ Ready(t, "lockDine")
    /\ IF dines[tx[t].target] \in Restaurants
       THEN Becomes(t, [tx[t] EXCEPT !.dine = tx[t].target, !.pc = "move"])
       ELSE End(t)
    /\ UNCHANGED <<tables, nextId>>

\* Mutant: every edit of a dine clears the item of its restaurant.
WantStepAlways(t) == "want"

\* Only a changed restaurant_id is checked against restaurants, and only then
\* is the Want to Try list updated.
WantStep(t) == IF dines[tx[t].dine] # tx[t].rest THEN "want" ELSE "commit"

\* Mutant: the new restaurant_id is not held by a foreign key.
MoveDineUnchecked(t) ==
    /\ Ready(t, "move")
    /\ Becomes(t, [tx[t] EXCEPT !.pc = WantStep(t)])
    /\ UNCHANGED <<tables, nextId>>

MoveDine(t) ==
    /\ Ready(t, "move")
    /\ IF dines[tx[t].dine] = tx[t].rest
       THEN Becomes(t, [tx[t] EXCEPT !.pc = WantStep(t)])
       ELSE IF Live(tx[t].rest)
            THEN Becomes(t, [tx[t] EXCEPT !.lock = KeyShare, !.pc = WantStep(t)])
            ELSE End(t)
    /\ UNCHANGED <<tables, nextId>>

-----------------------------------------------------------------------------
(* Removing a saved spot: DeleteRestaurantIfUnvisited *)

\* The statement takes its snapshot, in which NOT EXISTS is decided, before it
\* waits for the row; a restaurant with dines is refused here.
BeginDelete(t, r) ==
    /\ "delete" \in Ops /\ tx[t].pc = "idle"
    /\ Live(r) /\ DinesAt(r) = {}
    /\ Becomes(t, [Idle EXCEPT !.op = "delete", !.rest = r, !.pc = "remove"])
    /\ UNCHANGED <<tables, nextId>>

RemoveRow(t) ==
    /\ Ready(t, "remove")
    /\ IF Live(tx[t].rest)
       THEN Becomes(t, [tx[t] EXCEPT !.lock = ForUpdate, !.row = Gone, !.pc = "cascade"])
       ELSE End(t)
    /\ UNCHANGED <<tables, nextId>>

\* ON DELETE CASCADE reads the dines and the item as they are now; the
\* statement then commits.
Cascade(t) ==
    /\ Ready(t, "cascade")
    /\ restaurants' = [restaurants EXCEPT ![tx[t].rest] = Gone]
    /\ dines' = [v \in Dines |-> IF dines[v] = tx[t].rest THEN Gone ELSE dines[v]]
    /\ want' = [want EXCEPT ![tx[t].rest] = "off"]
    /\ End(t)
    /\ UNCHANGED nextId

-----------------------------------------------------------------------------
(* Requests of a single statement *)

DeleteDine(v) ==
    /\ "deleteDine" \in Ops
    /\ dines[v] \in Restaurants
    /\ \A u \in Tx : tx[u].dine # v
    /\ dines' = [dines EXCEPT ![v] = Gone]
    /\ UNCHANGED <<restaurants, want, nextId, tx>>

DeleteWantToTry(r) ==
    /\ "deleteWant" \in Ops
    /\ want[r] # "off"
    /\ \A u \in Tx : tx[u].rest = r => tx[u].want = None /\ tx[u].row # Gone
    /\ want' = [want EXCEPT ![r] = "off"]
    /\ UNCHANGED <<restaurants, dines, nextId, tx>>

\* UpdateRestaurant overwrites what the edit form shows; the place ID and the
\* coordinates are not on it.
EditRestaurant(r, name, address) ==
    /\ "edit" \in Ops
    /\ Live(r)
    /\ \A u \in Tx : tx[u].rest = r => ~Conflict(tx[u].lock, NoKeyUpdate)
    /\ restaurants' = [restaurants EXCEPT ![r].name = name, ![r].address = address]
    /\ UNCHANGED <<dines, want, nextId, tx>>

-----------------------------------------------------------------------------
(* Refreshing Google metadata: read the place ID, ask Google, write *)

BeginRefresh(t, r) ==
    /\ "refresh" \in Ops /\ tx[t].pc = "idle"
    /\ Live(r) /\ restaurants[r].place # None
    /\ Becomes(t, [Idle EXCEPT !.op = "refresh", !.rest = r, !.in = restaurants[r],
                               !.pc = "refresh"])
    /\ UNCHANGED <<tables, nextId>>

\* UpdateRestaurantGoogleMetadata prefers Google's value, if it has one.
WriteRefresh(t) ==
    /\ Ready(t, "refresh")
    /\ \/ UNCHANGED restaurants
       \/ /\ Live(tx[t].rest)
          /\ restaurants' = [restaurants EXCEPT ![tx[t].rest].coords = tx[t].in.place]
    /\ End(t)
    /\ UNCHANGED <<dines, want, nextId>>

-----------------------------------------------------------------------------
BeginSave(t) ==
    \E op \in {"create", "save"}, in \in Inputs : \E v \in Targets(op) :
        \/ BeginDescribed(t, op, v, in)
        \/ \E r \in Known : BeginChosen(t, op, v, r, in)

Begin(t) ==
    \/ BeginSave(t)
    \/ \E v \in Dines, r \in Known : BeginUpdate(t, v, r)
    \/ \E r \in Restaurants : BeginDelete(t, r) \/ BeginRefresh(t, r)

\* The next statement of a transaction in flight.
Step(t) ==
    \/ ChosenExists(t) \/ LockChosen(t) \/ CheckOwner(t)
    \/ MatchPlace(t) \/ MatchName(t) \/ InsertRestaurant(t) \/ FillRestaurant(t)
    \/ InsertDine(t) \/ MarkDone(t) \/ UpsertWant(t)
    \/ LockDine(t) \/ MoveDine(t)
    \/ RemoveRow(t) \/ Cascade(t) \/ WriteRefresh(t)
    \/ Commit(t)

Next ==
    \/ \E t \in Tx : Begin(t) \/ Step(t) \/ Abort(t)
    \/ \E v \in Dines : DeleteDine(v)
    \/ \E r \in Restaurants : DeleteWantToTry(r)
    \/ \E r \in Restaurants, n \in Names, a \in OrNone(Addresses) : EditRestaurant(r, n, a)

Spec == Init /\ [][Next]_vars

-----------------------------------------------------------------------------
(* Properties *)

\* No two restaurants are linked to one Google place, whatever order
\* concurrent requests link them in (idx_restaurants_google_place_id).
PlacesUnique ==
    \A p \in Places : \A r, s \in Owners(p) : r = s

\* Every dine and every Want to Try item is at a restaurant the ledger has,
\* although restaurants are removed while requests that name them are in flight.
ReferencesHold ==
    /\ \A v \in Dines : dines[v] \in Restaurants => Live(dines[v])
    /\ \A r \in Restaurants : want[r] # "off" => Live(r)

\* A restaurant once linked to a Google place stays linked to that place for
\* as long as it exists: every write fills the place ID with COALESCE, and the
\* stale place ID a metadata refresh read is therefore never out of date.
PlaceKept ==
    [][\A r \in Restaurants :
          Live(r) /\ restaurants[r].place # None /\ Live(r)'
          => restaurants'[r].place = restaurants[r].place]_vars

\* Google metadata lands on a restaurant in two ways, also when requests link
\* it at the same time.  A refresh writes that of the place the restaurant is
\* linked to when it writes.  A request writes what it submitted itself, and onto
\* a restaurant it chose only if the restaurant ends up linked to the very place
\* ID the request submitted with it: a chosen restaurant never takes on details
\* that came without a place ID, or with one it is not linked to.  (What a user
\* submits together need not belong together: see StoreAssumption.)
DetailsFollowPlace ==
    [][\A r \in Restaurants :
          /\ Live(r) /\ Live(r)'
          /\ restaurants'[r].coords # restaurants[r].coords
          => \E t \in Tx :
                /\ tx[t].rest = r
                /\ \/ /\ tx[t].pc = "refresh"
                      /\ restaurants'[r].coords = restaurants'[r].place
                   \/ /\ tx[t].pc = "commit"
                      /\ restaurants'[r].coords = tx[t].in.coords
                      /\ tx[t].chosen # None => restaurants'[r].place = tx[t].in.place]_vars

\* An open item leaves the list only with a dine that is logged at or moved to
\* its restaurant, or by being removed: editing an older dine in place, or a
\* dine whose request failed, does not clear a place put back on the list.
OpenItemStays ==
    [][\A r \in Restaurants :
          want[r] = "open" /\ want'[r] = "done"
          => \E v \in Dines : dines[v] # r /\ dines'[v] = r]_vars

\* No set of requests waits for one another for ever.
NoDeadlock ==
    \A S \in (SUBSET Tx) \ {{}} : \E t \in S : Blockers(t) \cap S = {}

\* A statement that waits for a lock is queued, so a request whose next
\* statement keeps becoming possible takes it; users owe nothing.
Fairness == \A t \in Tx : SF_vars(Step(t))
FairSpec == Spec /\ Fairness

\* Every request is answered.
EveryRequestEnds == \A t \in Tx : tx[t].pc # "idle" ~> tx[t].pc = "idle"

\* Each request that commits is one operation of the ledger at the instant it
\* commits, and one that fails leaves no trace.
L == INSTANCE Ledger WITH
        saved <- {r \in Restaurants : Live(r)},
        removed <- {r \in Restaurants : restaurants[r] = Gone},
        linked <- [r \in Restaurants |->
                      IF Live(r) THEN restaurants[r].place ELSE None]
ImplementsLedger == L!Spec

\* A restaurant with dines is never removed ("Restaurant has visits and cannot
\* be removed from saved spots", internal/handler/restaurants.go:77).
VisitedStays ==
    [][\A r \in Restaurants : Live(r) /\ DinesAt(r) # {} => Live(r)']_vars

=============================================================================
