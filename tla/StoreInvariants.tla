-------------------------- MODULE StoreInvariants --------------------------
(***************************************************************************)
(* Why the properties of Store hold: what a transaction in flight has done *)
(* so far, which ids, locks, dines and places it therefore has to itself.  *)
(***************************************************************************)
EXTENDS Store

Matching == {"byPlace", "byName", "insert"}
Resolving == {"exists", "lockChosen", "owner", "fill"} \cup Matching
Chosen == {"exists", "lockChosen", "owner"}
Moving == {"lockDine", "move"}
Writing == {"dine", "want", "commit"}

\* Control: what each field of a transaction holds at each of its statements.
Control(x) ==
    /\ x.pc \in Resolving => /\ x.op \in {"create", "save"} /\ x.in \in Row
                             /\ x.dine = None /\ x.want = None /\ x.row = None
    /\ x.pc \in Matching => x.rest = None /\ x.id # None /\ x.chosen = None
    /\ x.pc \in Chosen => x.chosen # None
    /\ x.pc \in {"byPlace", "lockChosen", "owner"} => x.in.place # None
    /\ x.pc \in Steps \ Matching => x.rest # None
    /\ x.lock > 0 => x.rest # None /\ x.pc \in {"owner", "fill", "cascade"} \cup Writing
    /\ x.pc \in {"owner", "cascade"} => x.lock = ForUpdate
    /\ x.pc \in {"owner", "fill"} => x.lock \in {0, ForUpdate}
    /\ x.row # None => x.lock >= NoKeyUpdate
    /\ x.row = Gone <=> x.pc = "cascade"
    /\ x.op \in {"create", "update"} => x.target # None
    /\ x.pc = "dine" => x.op = "create" /\ x.dine = None /\ x.want = None
    /\ x.pc = "want" => x.want = None
    /\ x.pc \in Moving => x.op = "update" /\ x.row = None /\ x.want = None
    /\ x.dine # None => /\ x.dine = x.target /\ x.op \in {"create", "update"}
                        /\ x.pc \in {"move", "want", "commit"}
    /\ x.pc \in {"move", "want", "commit"} /\ x.op # "save" => x.dine # None
    /\ x.pc \in {"want", "commit"} => x.op \in {"create", "save", "update"}
    /\ x.pc \in {"want", "commit"} /\ x.op = "create" => x.row # None
    /\ x.want # None => x.pc = "commit"
    /\ x.pc \in {"idle", "cascade", "remove", "refresh"} => x.dine = None
    /\ x.want = "open" => x.row # None
    /\ x.pc = "remove" => x.op = "delete"
    /\ x.pc = "refresh" => x.in \in Row

\* The name a transaction has for a restaurant it may insert is its own.
FreshIds ==
    /\ \A r \in Restaurants : restaurants[r] # None => r < nextId
    /\ \A t \in Tx : tx[t].rest # None => tx[t].rest < nextId
    /\ \A t \in Tx : tx[t].id # None =>
          /\ tx[t].id < nextId
          /\ restaurants[tx[t].id] = None
          /\ \A u \in Tx : tx[u].rest # tx[t].id /\ (u # t => tx[u].id # tx[t].id)

\* No two transactions hold locks of one row that exclude each other.
LocksExclude ==
    \A t, u \in Tx : t # u /\ tx[t].rest = tx[u].rest => ~Conflict(tx[t].lock, tx[u].lock)

\* A restaurant cannot disappear under a transaction that locked it, nor be
\* linked to another place under one that wrote it.
Held(x) ==
    /\ x.lock > 0 /\ x.row \notin Row => Live(x.rest)
    /\ x.row \in Row /\ Live(x.rest) /\ restaurants[x.rest].place # None
          => x.row.place = restaurants[x.rest].place

LockedStays == \A t \in Tx : Held(tx[t])

\* A new dine's id is unused, and a dine is written by one transaction at most.
DinesApart ==
    \A t, u \in Tx : t # u =>
        /\ tx[t].op = "create" => tx[u].target # tx[t].target
        /\ tx[t].dine # None => tx[u].dine # tx[t].dine

\* A transaction that moves a dine to another restaurant holds both; one that
\* updates the Want to Try list logs a dine where it was not.
DineOf(x) ==
    /\ x.op = "create" => dines[x.target] = None
    /\ x.op = "update" /\ x.dine # None => dines[x.dine] \in Restaurants
    /\ x.op = "update" /\ x.pc \in {"want", "commit"} =>
          x.lock > 0 \/ dines[x.dine] = x.rest
    /\ (x.pc = "want" /\ x.op # "save") \/ x.want = "done" =>
          x.dine # None /\ dines[x.dine] # x.rest

DinesHeld == \A t \in Tx : DineOf(tx[t])

\* A place a transaction is about to write is on no other restaurant,
\* committed or not.
PlaceOf(x) == x.row \in Row /\ x.row.place # None => Owners(x.row.place) \subseteq {x.rest}

PlacesHeld ==
    \A t \in Tx :
        /\ PlaceOf(tx[t])
        /\ \A u \in Tx \ {t} :
              tx[t].row \in Row /\ tx[u].row \in Row /\ tx[t].row.place # None
              => tx[u].row.place # tx[t].row.place

\* What the requests in flight have, and keep, to themselves.
Consistent ==
    /\ \A t \in Tx : Control(tx[t])
    /\ FreshIds /\ LocksExclude /\ LockedStays
    /\ DinesApart /\ DinesHeld /\ PlacesHeld

\* What every reachable state satisfies and every step preserves.
Invariant == TypeOK /\ Consistent /\ ReferencesHold /\ PlacesUnique
=============================================================================
