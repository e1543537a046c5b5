# A verification development for Dined

Dined is a family's restaurant ledger: a server-rendered Go program over Postgres (or an
in-memory preview) that records dines, photos, ratings and a shared Want to Try list. This
directory holds TLA+ models of the parts whose correctness depends on the order of concurrent
steps, the TLC runs that check them, and TLAPS proofs about them.

    tlc -workers 2 -config StorePlaces.cfg MCStore      # one run of the table below
    tlapm StoreProofs.tla          # and every other module named ...Proofs

`PROJECT.json` lists components, runs, mutants (a wrong version of a definition that each
property rejects), the source lines of every definition, hazards, findings and theorems.

## The system

| Component | State | Operations | What makes it hard |
| --- | --- | --- | --- |
| Ledger store (`internal/repository/store.go`, `store_want_to_try.go`, `migrations/`) | `restaurants`, `dining_visits`, `want_to_try` | log, edit, move, delete a dine; save, remove an item; edit, refresh, remove a restaurant | READ COMMITTED transactions of up to a dozen statements; row locks, a partial unique index, cascades; requests that fail half-way |
| Ratings and tags (`replaceVisitRatingsAndTags`) | `visit_participant_ratings`, `tags`, `visit_tags` | replaced as a set with each dine | locks on shared tags, in the order the form lists them |
| Photos (`reconcileVisitPhotos`, `photo_storage.go`) | `visit_photos` | add, keep, reorder; backfill and audit of binary forms | a rollout during which old replicas still write |
| Memory store (`memory.go`) | slices behind one mutex | the same as the ledger store | embedded copies of restaurants, pointers into slices |
| Accounts and sessions (`internal/auth`) | `users`, `user_sessions`, the allowlist | login, validate, logout, cleanup | check-then-act over several statements; e-mail changes; restarts with another allowlist |
| Migrations and lifecycle (`internal/migrate`, `cmd/dined`) | `goose_db_version`, the advisory lock | lock, apply, unlock, serve, drain, stop | replicas that start together, three nested timeouts |
| Handlers (`internal/handler`) | the map image cache | one store call per request, after Google's answer | data read before a call to Google and used after it |
| Browser (`static/app.js`) | sheet and form state | open, choose a place, save, navigate | late answers to a sheet that was closed |
| Spinner, statistics, history pages | none of their own | weighted choice, aggregates, page of a dine | read-only; pure functions |
| Config, metrics, middleware, templates | none shared | parsing, counting, rendering | covered by unit tests |

Handlers call one method of the store (the interface `DinerStore`) per change; a request runs
in its own goroutine and its method in one transaction or one statement. Requests meet only in
the database. Google's answers enter before the store call (`placesync.EnrichVisitInput`) or
between a read and a write (`RefreshRestaurantGoogle`).

What has to hold, by component:

* **Ledger store.** One restaurant per Google place; a chosen restaurant takes on details only with
  the place ID they were submitted with, a refreshed one those of its place; no dine or item at a removed restaurant; an open item leaves the list only with
  a dine or by removal; every request is one operation at one instant or nothing; no deadlock;
  every request ends.
* **Tags, photos.** A dine's ratings, tags and photos are one of the submitted sets, never a mix;
  at most four photos, in the submitted order; the backfill never changes a picture.
* **Memory store.** The same ledger as Postgres; embedded copies agree with their restaurant.
* **Accounts and sessions.** No page is served to an account that has a user of its own and whose
  last known address is off the allowlist; an account is one user however many sign-ins run at once; the stored address is the
  last one Google reported; expired sessions go.
* **Startup and shutdown.** Each migration is applied once; nobody serves before the last one;
  startup fits the healthcheck's period; what was accepted is answered; the store outlives its
  users; every start and every stop ends.
* **History, statistics, spinner.** Pages hold each dine once; a link after a save finds its dine;
  every choice of a filter leads back to itself; both stores answer alike, but for how a cuisine is spelled
  and which of several that tie comes first; the spinner moves on and turns are fair.
* **Browser.** A picked restaurant never goes with another place's details; un-picking restores
  what was there; an answer to a save marks its own link, and only what was saved is marked.

## Modules

| Module | Models |
| --- | --- |
| `Store` | the Postgres ledger store, one action per SQL statement, with the row locks and index entries statements wait for |
| `Ledger` | what both stores promise: whole operations, each at one instant |
| `Memory` | the in-memory store: one action per method, with the slice of the list and the pointers into it |
| `Details` | ratings, tags and photos of a dine, the photo maintenance job and replicas of the previous release |
| `Accounts` | sign-in with Google, sessions, logout, cleanup, restarts with another allowlist |
| `Lifecycle` | replicas that start, migrate, serve, drain and stop |
| `Sorting` | ORDER BY where no two rows tie, for `Details` and `Queries` |
| `Queries`, `MemoryQueries` | what the two stores answer about the dines, as operators |
| `Loops` | the loops over a slice that `MemoryQueries` is made of, as recursive functions |
| `History` | /dines, the link after a save and the spinner, beside other writers; uses both of the above |
| `Browser` | `static/app.js`: the log form and the Want to Try sheet |
| `StoreInvariants` | the inductive invariant of `Store` |
| `StoreProofs`, `DetailsProofs`, `SortingProofs`, `HistoryProofs`, `MemoryProofs`, `AccountsProofs`, `LifecycleProofs`, `BrowserProofs` | the theorems, for TLAPS |
| `MC...` | small inputs and the symmetry of the TLC runs |

`Store` and `Memory` both implement `Ledger`; `History` composes the queries of both stores with the
handlers that use them. `Details` takes up where `Store` leaves a dine: the row lock of the dine
(`holds`) is what the two have in common, and the restaurant's part of a request is over before.

### Store

`tx[t]` is a request in flight: `pc` is its next statement, `rest`, `row`, `dine`, `want` its own
uncommitted versions, `lock` the lock it holds on its restaurant. `restaurants`, `dines`, `want`
are what is committed. A statement reads the committed tables as they are when it runs
(READ COMMITTED) and is enabled once nobody blocks it (`Blockers`): a conflicting row lock, an
uncommitted entry of `idx_restaurants_google_place_id`, a dine or an item another transaction
wrote. An UPDATE takes `NoKeyUpdate`, since the place index is partial and so not one a foreign
key can refer to; a foreign key check takes `KeyShare`; `FOR UPDATE` and DELETE take `ForUpdate`.

| Code | Actions |
| --- | --- |
| `CreateVisit`, `SaveWantToTry`, `resolveRestaurant` | `BeginChosen`, `BeginDescribed`, `ChosenExists`, `LockChosen`, `CheckOwner`, `MatchPlace`, `MatchName`, `InsertRestaurant`, `FillRestaurant`, `InsertDine`, `MarkDone`, `UpsertWant`, `Commit` |
| `UpdateVisit` | `BeginUpdate`, `LockDine`, `MoveDine`, `MarkDone`, `Commit` |
| `DeleteRestaurantIfUnvisited` | `BeginDelete` (snapshot), `RemoveRow` (after the wait), `Cascade` |
| `RefreshRestaurantGoogle` | `BeginRefresh` (read), `WriteRefresh` (after Google answered) |
| `DeleteVisit`, `DeleteWantToTry`, `UpdateRestaurant` | `DeleteDine`, `DeleteWantToTry`, `EditRestaurant` |
| a failed request: cancelled context, lost connection, crash | `Abort` at any statement |

What is abstracted: name and address are model values, compared for equality (the SQL lowers
them); `coords` stands for all Google metadata and names the place it came from; notes, prices
and pickers are left out. `checkPicker` reads a table nothing writes. Ratings, tags and photos
of a dine are written between the dine and the item, and tags lock rows of their own: that part
is `Details`, so `NoDeadlock` is about the rows `Store` has.

### Ledger

The abstract specification has five variables and six operations. `Store` implements it
(`ImplementsLedger`) under the mapping: saved are the live committed restaurants, removed the
gone ones, linked their places. `Commit`, `DeleteDine` and `DeleteWantToTry` map to operations;
every other action, and `Abort` in particular, maps to a stutter.

It does so where users do not remove restaurants, and do not move dines while others save items; the
run and the theorem have this as a condition on `Ops`. Both limits are the code's. A removal can take
a dine with it that was logged while it waited (`store_delete`), and a dine moved to a restaurant
leaves an item open that is saved there at the same moment (see below); `Ledger` allows neither.
`Memory` implements it with every operation.

### Memory

Every method of `MemoryStore` runs under one mutex, so a method is one action; what remains hard
is what the methods share. `restaurants` and `visits` are the slices of these names, by id; a dine
is `[rest, copy]`, the id and the embedded copy of its restaurant, and `StoreRow` is a write of a
restaurant together with `syncRestaurant`. `wantToTry` is kept as the runtime keeps it: `array` is
the array behind the slice and `size` its length, `Cut` is the `append(s[:i], s[i+1:]...)` of a
deletion, which moves later items up in place and leaves the last cell as it was, and `Appended`
writes in place or, when the array is full, into a copy. `answers` are the saves whose handler
still holds the `*uuid.UUID` it was given: a pointer to a cell, or to memory nobody writes again.

| Code | Actions |
| --- | --- |
| `CreateVisit`, `UpdateVisit`, `DeleteVisit` | the same names |
| `SaveWantToTry`; the handler's redirect | `SaveWantToTry`; `Redirect`, after the mutex is released |
| `DeleteWantToTry` | `DeleteWantToTry` |
| `DeleteRestaurantIfUnvisited`, `UpdateRestaurant`, `ToggleChain` | the same names |
| `RefreshRestaurantGoogle`, `UpdateRestaurantGoogleMetadata` | `BeginRefresh` (read), `EndRefresh` (write, or nothing if Google fails) |

What is abstracted: as in `Store`, names and addresses are compared for equality and `coords`
stands for all Google metadata; ids are the order of insertion, which deletions keep. Ratings,
tags, photos and timestamps are left out. Unlike Postgres, this store never fills in an address.
The mapping to `Ledger` is by the operators `Saved`, `Removed`, `LinkedTo`, `DineAt`, `OnList`;
`Redirect`, the refresh and the edits of a restaurant map to stutters.

### Details

`dines`, `ratings`, `tagged` and `photos` are committed rows; `req[r]` is a request that logs, edits
or deletes a dine, and what it has written and not committed is in its fields (`cleared`, `attached`,
`drop`, `placed`). A score names the edit it is from, so a mixture of two forms shows. `job` is the
maintenance job of `cmd/photo-storage`, one action per statement; a photo is `bytes` or not, which is
what the new columns being filled means to the job.

| Code | Actions |
| --- | --- |
| `CreateVisit`, `UpdateVisit`, `DeleteVisit`, the part after the restaurant | `BeginCreate`, `BeginUpdate`, `BeginDelete`, `LockDine`, `Cascade`, `Commit`, `Fail` |
| `replaceVisitRatingsAndTags` | `Replace` (up to the loop over tags), `AttachTag` |
| `reconcileVisitPhotos` | `DropPhotos`, `OrderPhoto`, and the inserts in `Commit` |
| `BackfillPhotos`, `backfillPhoto`, `AuditPhotos`, `run` of the command | `JobStart`, `JobBatch`, `JobRow`, `JobFill`, `JobCount`, `JobAudit`, `JobTimeout`, `JobFail` |
| replicas of the previous release, as the storage tests reproduce them (external) | `OldRewrite`, `OldStop` |

A form that ticks several tags attaches them in any order: the form's order is the browser's. Image
decoding and the hashes of the audit are left out.

### Accounts

An action is one SQL statement with the decisions up to the next. `flow[f]` is a sign-in from the
first click to the cookie; `users` and `sessions` are the tables with their unique indexes (`Taken`),
`jar` the cookies of a browser, `page` a page that needs its user. `mail` is the address Google has
for each account, which changes and may pass to another account. Two history variables serve the
properties: `seen`, the address Google last reported at a sign-in, and `unsettled`, the accounts whose
last sign-in overlapped another or failed half-way.

| Code | Actions |
| --- | --- |
| `StartGoogleLogin`, `GoogleCallback` | `StartGoogleLogin`, `CallbackRejected`, `CallbackRefused`, `CallbackAllowed`, `SetSessionCookie` |
| `CreateOrUpdateUser`, `CreateSession` | `FindUserByOAuth`, `FindUserByEmail`, `UpdateUserLogin`, `CreateUser`, `TurnedDown`, `CreateSession`, `LoginFails` |
| `ValidateSession`, `Auth`, `CurrentUser` | `ValidateSession`, `SessionUnread`, `DropSession`, `PageAnswered` |
| `Logout`; `ScheduleSessionCleanup` | `Logout`; `CleanupExpiredSessions`, `CleanupFails` |
| time, a restart, Google | `Expire`, `Restart`, `ChangeMail` |

### Lifecycle

`pc[r]` is where `run` and `openStores` of replica r are. Startup has four deadlines, kept as ticks
since the start: `due` is when the context of the current step ends, `total` when that of all
migrations does; `Tick` lets time pass for all replicas, and not past a deadline before its context
has ended. `schema` is `goose_db_version`, in order of application, `lock` the advisory lock of a
session. A failed commit may have gone through (`MigrationFails`).

| Code | Actions |
| --- | --- |
| `openStores`, `migrate.Apply`, `deadlineLocker` | `Start`, `Connected`, `LockTaken`, `ApplyMigration`, `AllApplied`, `MigrationFails`, `Unlocked`, `VersionRead`, `StepFails` |
| `run` up to the select | `GoogleAnswers`, `Bind`, `ServeFails`, `Shutdown` |
| the deferred calls, last first | `Drained`, `MetricsStopped`, `StopScheduler`, `JobStopped`, `Close`, `Exit` |
| requests; the cleanup goroutine; the environment | `Arrive`, `Query`, `QueryEnds`, `Answer`; `JobStarts`, `JobEnds`, `JobStops`; `SigTerm`, `Kill`, `Tick` |

### Queries, MemoryQueries and History

Each operator of `Queries` is one SELECT over the set of committed dines; where ORDER BY leaves ties
it is the set of the answers Postgres may give. `MemoryQueries` has the loops of the in-memory store,
over the slice of dines in the order they were logged (`Kept`, `Joined`, `Total`, `BestOf` of `Loops`).
One over a Go map has an answer for every order of its keys (`RangeBest`), and so has a sort of what a
map held, where its order leaves ties (`OrderBy`). Averages are a sum and a count, so that no rounding decides a tie. Where Go and
Postgres may round a sum of ratings differently is therefore not seen.

A text is its rank in byte order, which is how Go compares strings; 0 is NULL or blank. `Lower` says which
texts differ only in case. PostgreSQL's `lower` and Go's `ToLower` and `EqualFold` are taken to agree on
that, though outside ASCII they need not. ORDER BY and MIN sort names and categories in the order of the
database's collation, which is the one the server was set up with: `postgres:17` of the repository's
`README.md:75` creates a database whose collation is not that of the bytes, and only
`visitedRestaurantValues` (`store.go:247-252`) asks for COLLATE "C". `Collated` ranks the texts in that
order, any order in which no two are equal. A query that sorts texts takes the ranks as its parameter, and
is compared with the in-memory store under `Bytes` and under `Collated`.

`History` follows one request of /dines through its three statements (`CountAll`, `CountMatched`,
`ListPage`), and one save through its position and its link (`Save`, `ReadPosition`), while others
log, edit and delete dines (`OthersWrite`). The spinner's functions (`SpinChoices`, `SpinPage`,
`PickSpinChoice`, `WhoseTurn`) are operators, checked in every history that is reached.

### Browser

A tab shows the log page or pages with Want to Try links. Typing is an action per input event
(`TypeName`, `TypeAddress`, `TypePlace`); `SyncRestaurantSelection` and the operators it uses are the
functions of these names in app.js. The details that come with a place are one value, the place they
came from. `asked` are the saves that are sent: the server decides (`ServerSaves`) and the answer
arrives at any later time (`AnswerSaved`, `AnswerFailed`), on whichever page the tab then shows.
`Navigate` is a boosted link: the body is replaced and app.js, in it, runs once more.

## Runs

| Run | Bounds | Shows |
| --- | --- | --- |
| `store_places` | 2 requests, 2 restaurants, 2 places, 1 dine | `PlacesUnique`, `PlaceKept`, `DetailsFollowPlace` and `ImplementsLedger` (without removals and moves), with descriptions that match by place, by name and address, or not, and place IDs typed beside the metadata of the other place |
| `store_ends` | 2 requests, 2 restaurants, 1 place, 1 dine | `ReferencesHold`, `NoDeadlock`, `OpenItemStays`, and `EveryRequestEnds` under `Fairness`, with removals, moves and edits |
| `store_delete` | 2 requests, 1 restaurant | `VisitedStays` violated, see below |
| `memory_ledger` | 2 restaurants, 2 dines, 1 place | `CopiesCurrent`, `ListedOnce`, `ImplementsLedger`, `OneOfEach`, with every operation |
| `memory_saved` | 3 restaurants | `SaveConfirmed` violated |
| `details` | 2 requests, 2 dines, 2 people, 2 tags, 2 photos, 2 edits, 1 run of the job beside old replicas | `SetsAsSubmitted`, `PhotosAsSubmitted`, `OnlyNewTagsDeadlock`, `FinalRunHolds`, `RunEnds` |
| `accounts` | 1 browser, 2 sign-ins, 2 accounts, 3 addresses, 1 restart | `OneUserPerAccount`, `EmailCurrent`, `ServedIsAllowed`, `ExpiredGoes` |
| `accounts_linked` | 1 browser, 3 sign-ins, 2 accounts, 1 user, 1 session, 1 restart | `RemovalRevokes` violated |
| `lifecycle` | 2 replicas with 1 and 2 migrations, 1 request | `MigratedOnce`, `ServesMigrated`, `WithinStartPeriod`, `JobHasPool`, `AnsweredFirst`, `EveryPhaseEnds` |
| `history` | 3 restaurants, 2 people, up to 3 dines, pages of 2, 2 changes by others | `LinkFindsDine`, `PageAsCounted`, `PagesPartition`, `ChoicesLeadBack`, `MirrorsPostgres`, `SpinMovesOn`, `TurnIsFair` |
| `browser` | 3 listed restaurants, 2 names, 1 address, 2 places; 2 links, 2 pages, 2 openings of the sheet on each | `PlaceFits`, `UnpickRestores`, `MarkedWasSaved`, `ButtonComesBack` |
| `browser_answer` | 1 listed restaurant, 2 links, 2 pages | `AnswersItsOpening` violated |

Why these bounds suffice:

* **Store.** `MaxRestaurants` bounds the transactions that may ever insert a restaurant and `Dines`
  the dines ever logged. Two requests suffice for the races listed under hazards, each between a
  reader and a writer of one row, and two restaurants for one place and for a move; an id that an
  aborted request took is used up, so runs also reach the end of the supply. The runs split the
  operations so that each finishes in minutes; every action of `Store` occurs in one of them.
  `store_places` leaves out removals, moves and edits, which choose no place; its forms that bring metadata
  without a place ID, and two places in a run with moves, are left to the theorems, which take any row.
  `store_ends` has circles of two requests. That there is none of three or more without a removal, and the
  one with a removal that is described below, is `NoDeadlockCorrect` and `WaitsCorrect`.
* **Memory.** `MaxAnswers` bounds the saves whose handler has not answered: one, since a pointer goes
  stale by what other requests write, not by other pointers. The array has up to two (three) cells,
  enough to be full, to be copied and to have items move.
* **Details.** Two requests can edit one dine or type each other's tag. The batch is smaller than the
  photos and `MaxRows` not larger, so a run meets both limits. One run beside old replicas and one
  edit of another request during it are the steps that could undo what a run reported.
* **Accounts.** Two sign-ins race for one account or for two, in one browser's cookies. The first
  account has two addresses, the second takes over the first's. Three allowlists, that admit both
  addresses of the first, its old one and the second's, or its new one and the second's. What only a
  third sign-in shows, the first account's return to the row the second has signed in on, is the
  subject of `accounts_linked`; for `EmailCurrent` and `ServedIsAllowed` the theorems cover it.
* **Lifecycle.** A tick is ten seconds: the budgets of 10, 60, 30 and 5 seconds (the last rounded up)
  and the start period of 90 are 1, 6, 3, 1 and 9 ticks. One binary is older than the other.
* **History.** Three dines on pages of two give a full page, a page of one and the shift of a dine
  over the edge of a page. The forms have equal times, equal averages and names that differ only in
  case; two namesakes spell their cuisine differently; the collation has two names and two spellings the other
  way round than the bytes. A tie between two restaurants of two dines each (most loyal) would need a fourth dine.
* **Browser.** Three listed restaurants over two names: namesakes, with the same, another or no place.

Deadlock checking is off where the system may stop: users may stop asking, a process may have exited,
and bounded supplies are used up. In `history` it is on.

`Store`'s `Fairness` is strong fairness of each request's next statement: a statement that waits for
a lock sits in Postgres' lock queue and gets the lock when it has been free often enough, and the
server's goroutine then goes on. `Details` assumes weak fairness of the job's next step, no matter
whether old replicas or requests go on. `Accounts` assumes that the cleanup's ticker fires again and
that its DELETE does not fail each time. `Lifecycle` assumes that clocks run and a context that is due
ends its step, that after startup the process goes on, Google answers or refuses and a query ends, and
strong fairness of `JobStops`, as Go's select takes each of two ready cases again and again. Nothing is
assumed of users, of requests that abort, of migrations (a statement may hang until its deadline), or
of old replicas.

### What the code does not do

* `store_delete`: `DeleteRestaurantIfUnvisited` decides NOT EXISTS before it waits for the row. A
  dine committed during the wait is removed by the cascade, which "Restaurant has visits and
  cannot be removed" denies. (`ReferencesHold` still holds, and is proved.)
* `memory_saved`: saving a listed restaurant returns a pointer into the slice, which the handler
  reads after the mutex is released; a deletion in between moves another item into the cell, and
  the redirect confirms that one.
* `accounts_linked`: an account without a user is signed in as the user who has its email
  (`service.go:44`), and that user keeps its own account. Once the first account has signed in with a
  new address, the session of the second is judged by it: taking the address of the second off the
  allowlist does not end that session, though `NewService`'s comment and `README.md:44` of the
  repository say so. It takes three sign-ins, and an address that passes from one account to the other.
* `browser_answer`: app.js is run again by every boosted page, so the counter of openings is 0 again.
  The answer to a save of the page before, arriving while the first sheet of this page is open, counts
  as this sheet's: it closes, unsaved. (The link it marks is still the right one: `MarkedWasSaved`.)

### Known behaviours no run is about

* What a form submits as one place need not be one: the place ID is a field a user may type in beside
  the hidden details of a place picked before (`log.html:14-23`; `app.js:435` clears those when the name
  or the address changes, not the ID), and where Google gives nothing the handler keeps what was
  submitted (`visits.go:149-154`). The details of one place are then stored under the ID of another.
  `Store` and `Memory` take any such input; `DetailsFollowPlace` says what still holds.
* Two requests that describe the same new restaurant by name and address insert it twice
  (`store.go:489`): no index covers the two columns.
* A dine moved to a restaurant holds only the foreign key's lock on it, so an item saved at the same
  moment stays open next to the dine (`store.go:747`).
* Of the restaurants of a cuisine the in-memory store lists the same winner as Postgres, but it looks the
  cuisine's spelling up by the winner's name, in the order of a map (`memory.go:1140`). A namesake in that
  cuisine may lend its spelling, and with it the place in the list; Postgres returns the winner's own
  (`store.go:1036`). `SameCuisines` says exactly this, and that the lists agree while no namesakes spell a
  cuisine differently.
* Where restaurants, people or categories tie in all else, SQL takes them by name in the database's
  collation (`store.go:380`, `store.go:864-1039`, `store_spinner.go:37`), the in-memory store by their
  bytes. Under a collation other than "C" another one may come first, and another spelling of a favorite
  cuisine be shown. `OnlyTextsDiffer` says that nothing else differs.
* A dine that chooses a removed restaurant is logged at another or a new one by the in-memory store
  (`memory.go:450`), where Postgres refuses it; `Memory` models this.
* With removals among three requests there is one more cycle: a request that links a place waits
  for the removal of the restaurant that had it, the removal's cascade waits for a dine that is
  being moved away, and the move waits for the row the first request holds `FOR UPDATE`. Postgres
  detects it and aborts one of them, which is `Abort`. The same is true of two forms that each type
  a tag the other ticks; `OnlyNewTagsDeadlock` says that every circle in `Details` is one of such forms.
* Of two overlapping sign-ins of one account, the older may write the address last, and the next
  sign-in sets it right; `EmailCurrent` and `ServedIsAllowed` are stated for settled accounts.
* The answer that clears a session or state cookie may clear a newer one: the user signs in again.
* Google's configuration is fetched under `context.Background()`: SIGTERM does not interrupt it.

## Proofs

Each proof module proves its theorems for every value of the constants that meets the named
assumptions of the component's module; nothing else is assumed but what is said below of `LedgerCorrect`
and `NoDeadlockCorrect`. Each follows one argument: a conjunction is shown to hold initially and to be
preserved by every action (one lemma or step per action, under it one per conjunct it can disturb), and
the theorems follow from it.

| Module | Theorems |
| --- | --- |
| `StoreProofs` | `TypeCorrect`, `ConsistentCorrect`, `ReferencesCorrect`, `PlacesCorrect`, `PlaceKeptCorrect`, `OpenItemStaysCorrect`, `DetailsFollowCorrect`, `LedgerCorrect` (the refinement, with the condition on `Ops` above), `WaitsCorrect`, `NoDeadlockCorrect` |
| `DetailsProofs` | `DetailsTypeCorrect`, `SetsCorrect`, `PhotosCorrect`, `NewTagsCorrect`, `FinalRunCorrect` |
| `SortingProofs` | lemmas only: every row of a finite set has a rank of its own (`Ranks`), and `Sorted` puts it there (`Positions`); what the loops of `Loops` return (`KeptLists`, `JoinedLists`, `TotalIsSum`, `BestIs`) |
| `HistoryProofs` | `HistoryInvariant`, `HistoryTypeCorrect`, `PageCorrect`, `LinkCorrect`, `PagesCorrect`, `ChoicesCorrect`, `SpinCorrect`, `TurnCorrect`, `StoresListAlike`, `StoresCountAlike`, `StoresTieAlike`, `StoresMirror` |
| `MemoryProofs` | `TypeCorrect`, `LedgerCorrect` (the refinement), `CopiesCorrect`, `ListCorrect`, `OneOfEachCorrect` |
| `AccountsProofs` | `TypeCorrect`, `OneUserCorrect`, `EmailCorrect`, `ServedCorrect` |
| `LifecycleProofs` | `TypeCorrect`, `MigratedCorrect`, `ServesCorrect`, `PeriodCorrect`, `JobCorrect`, `AnsweredCorrect` |
| `BrowserProofs` | `TypeCorrect`, `PlaceFitsCorrect`, `UnpickCorrect`, `MarkedCorrect`, `ButtonCorrect` |

**Store** (`StoreAssumption`: the bound is a natural number, NULL and the mark of a removed row differ
from every value; what a form submits is any row at all). None
of its properties is inductive. A commit keeps `ReferencesHold` only because the request still holds a
lock on its restaurant and a removal waits for that lock (`LockedStays`, `LocksExclude`), or because
the dine it edits has not moved (`DinesHeld`, `DinesApart`); it keeps `PlacesUnique` only because no
other request is about to commit the same place (`PlacesHeld`), for which a fill must not find the row
it read changed (`LockedStays`) and a new row must not be somebody else's (`FreshIds`). What a field
holds at each statement is `Control`. `PlaceKept` and `OpenItemStays` are action properties and follow
from the invariant for each action that writes the table (`OthersWriteNothing` deals with the rest).

`DetailsFollowPlace` and `ImplementsLedger` need one more invariant each, on top of this one.
`Follows` says what a request knows of the restaurant it works on: the coordinates it will commit are
the ones there now or those it submitted, on a restaurant it chose the latter only together with the
place ID it submitted, and while it fills such a restaurant, its lock keeps the place unset or its own. `Serial` says what it knows of the item: "done" is committed over an open item only, and a
dine that found none open will find none, because the row lock of the restaurant keeps every save out
(`CommitsItem`, `WriterAlone`). A dine that is moved has no such lock, which is why moves and saves
together are excluded.

`NoDeadlock` has a rank: `Rank` says how far a request that removes nothing is from the end of its
waits, and it falls along every wait (`WaitsDescend`), so the request of least rank in a set waits for
none of them. What makes it fall is that a request holds its locks only at certain statements (`Holds`),
and that one that asks to strengthen a lock it has finds nobody with a conflicting one (`LocksExclude`).
A removal has no rank: its cascade waits for dines that are being edited. `NoDeadlockCorrect` is
therefore for any number of requests and `Ops` without removals, or for two requests with every operation,
as in the run;
`WaitsCorrect` says the same of every set of requests that holds no removal or at most two members,
whatever else runs beside it. The cycle described above has a removal and three requests.

**Details** (`DetailsAssumption`: bounds are natural numbers, NULL is no edit, forms are what the page
submits). The lock of the dine carries `SetsAsSubmitted`: requests that hold it are apart (`Apart`), so
what one read of its dine is still there when it deletes it (`Snapshots`), and what it then inserts is
the whole of its form. A request that waits for a dine waits for one that is past its dine, one that
types a tag for one that attaches tags, and one that attaches tags for one that typed a tag and now
attaches too; so every circle has requests that typed a tag, and they wait for each other. `FinalRunHolds` rests on `Locked`: nobody
removes or rewrites the row the job is filling.

`PhotosAsSubmitted` rests on `Numbered`: the photos of a dine are those of the strip its last edit
submitted, each with its index there. An edit rewrites the numbers one by one and commits them at once;
until it has, what it keeps is what is there (`Reconciled`), since it holds the dine. `Sorted` by those
numbers is then the strip again (`Positions`), and what the job and old replicas write keeps both ids
and numbers.

**Memory** (`MemoryAssumption`: the bounds are natural numbers, nil and the mark of a deleted element
differ from every value, inputs are rows as the forms submit them). The invariant is `TypeOK`,
`CopiesCurrent` and `ListedOnce`. `ListedOnce` is needed for the refinement, since a deletion removes
one cell and the ledger's item is gone only if there was no second; `CopiesCurrent` makes every dine's
restaurant a saved one and the chain switch, which patches each copy, a write of the whole row;
`TypeOK` bounds the pointers. The lemmas go by what an operation does to its data: a restaurant
resolved to and written, an item marked, reopened, added or cut out. `OneOfEach`, an action property,
follows for each action from what it resolved to.

**Accounts** (`AccountsAssumption`, `RowAssumption`). `OneUserPerAccount` is inductive because of the
unique indexes (`Taken`). `EmailCurrent` is not: the UPDATE at the end of a sign-in is right only if
the address Google reported is still the last one (`Reported`), the user it found is its account's or
has its address (`Found`), and an account it did not find still has no user (`Missing`). Each of these
can be broken by another sign-in between the statements, and then `Overlap` says that the account is
unsettled. `ServedIsAllowed` is about the account that signed in for the session (`SignIns`; that there
is one is `Sessions`), where the user of the session is its own, and follows from `EmailCurrent` at the
step that reads the session. Without that condition it is false: `accounts_linked`.

**Lifecycle** (`LifecycleAssumption`; the budgets' sum fits the start period). `MigratedOnce` rests on
`Locked`, that a replica which migrates holds the lock, and `Pending`, that what it still has to apply
is exactly what is not recorded, which nobody else can change meanwhile. `ServesMigrated` rests on
`Upgraded`, that a replica leaves Up without an error only when all of its versions are recorded.
`WithinStartPeriod` rests on `Timing`, how the four deadlines nest. `Using` says which steps have the
pool open, the job stopped and the requests answered.

**Browser** (`BrowserAssumption`, `ReplacedAssumption`). `UnpickRestores` rests on `Kept`: what a pick
replaced is what the page brought, and the form shows what the last pick applied; `PlaceFits` on what a
pick leaves (`Fits`). `MarkedWasSaved` rests on `Accepted`: what the server accepted is listed.

**History** (`HistoryAssumption`: bounds are natural numbers, a page holds at least one dine, people and
tags have names that differ, which the seeded `people` and the UNIQUE of `tags.name` give, nobody is
called like the choice for everybody, an aggregate counts a dine only with at least one rater, a ranking
lists at least one restaurant, a form has a date and scores, each by one of the people, a Want to Try
list has a restaurant once, and texts have ranks: of `Lower` nothing is assumed but that a text that is not
blank is not blank in lower case, of `Collated` that no two texts have one rank). A dine stands on
the list as far down as there are dines ahead of it (`PlaceOf`), a page holds those whose places it
covers (`PageIs`), and the pages of a list are therefore disjoint and leave nothing out (`PagesAre`,
`PagesCorrect`). The invariant compares what a request read with what is there now: `CountedFor` for its
counts and `Linked` for the page of a save, each off by at most the changes since it was read. It is
preserved because one change (`Changed`) moves each count and each place by at most one
(`ChangedCounts`, `ChangedPlaces`). That needs `Stored`: every dine has an id of its own, which breaks
the last ties. `made` is the rank of `created_at` among the dines that are stored; a deletion closes the
gap in the ranks and keeps their order (`Recounted`). `ChoicesCorrect` follows from how names are found:
an exact match goes before one that differs only in case (`NameFound`), so a choice comes back to whom
it names, and a choice is offered only where a dine has it (`ValuesOffered`).

The loops of `spinChoices` and `whoseTurn` are recursive functions of the number of passes. That such a
function exists (`Iterated`) and what its last pass leaves (`Upwards`) are proved without an induction
rule: of the passes at which the claim would fail, the least one contradicts the one before it. After
each pass `spinChoices` has every place so far once (`MergedIs`, `ChoicesMerged`), hence equal odds for
places (`NumbersPlaces`); and `whoseTurn` holds somebody who comes before everybody so far (`TurnIs`).
A turn passes on because a pick counts as one more and as later than every dine (`GreatestOf`).

`StoresMirror` says how far the in-memory store mirrors Postgres, for any dines. It has three parts:
`StoresListAlike` for pages, counts, positions, choices and a restaurant's dines, and for the map under the
collation "C"; `StoresCountAlike` for the Trophy Case, taste profiles, favorites and pick counts under that
collation, but for the spelling of a cuisine that namesakes share (`CuisinesAlike`); `StoresTieAlike` for
any other collation. Where Postgres leaves no tie the answers are equal; where
either may give several, there is one (`TrophiesSome`, `MapSome`), and each of the in-memory store's is one
of Postgres' (`Among`). The proof goes question by question, in four steps.

1. *What a loop has seen.* Each loop is a recursive function of the number of passes, followed as above.
   A sequence that goes once through each element of a set `Lists` it; filtering keeps that
   (`KeptLists`), so does going through the ratings of each dine (`RatingsListed`). Counts, sums, records
   per restaurant, spellings and picks after each pass are those of the set seen so far (`RecordsAre`,
   `SpellingsAre`, `PicksAlike`). A sum over a set is a recursive function of the set, which does not
   depend on the order of its elements (`SumExists`, `SumAdds`); so a loop over a list of the set finds it
   (`TotalIsSum`, `AverageIs`).
2. *Which rows.* What the loops collect and what a GROUP BY does are then the same sets of rows
   (`RestaurantsRated`, `RestaurantsAlike`, `PickersAlike`, `RecordsAlike`, `TastesAlike`).
3. *Which row first.* Both compare two rows alike (`RanksAlike`, `PairPrecedes`, `TriplePrecedes`). Of rows
   in any order, a loop that keeps the better keeps one that none is better than (`BestIs`, `RangeBestIs`),
   since better is irreflexive and transitive: that is where averages compared by cross-multiplication
   have to be ordered (`CrossOrder`, `AveragesOrdered`). With ratings that count there is no denominator 0
   (`Averages`). Pages need more, a total order: `SortedPlaces` puts each dine where SQL's OFFSET finds it.
4. *What ties.* A row that beats another before texts are compared comes before it in any collation
   (`Beats`, `BeatsRanks`), so two first rows in two collations tie (`FirstRowsTie`, `SplitTie`, `RecordsTie`,
   `TasteTie`). For whole lists it takes more: two lists of one set that both keep a weak order tie at each
   place (`ListsTie`). If at some place one were ahead, everything up to there in the one list would stand
   before that place in the other, too many for it (`NeverAhead`, by the pigeonhole principle).

Only model-checked: all liveness (`EveryRequestEnds`, `RunEnds`, `ExpiredGoes`, `EveryPhaseEnds`), which is
beyond the prover, as ENABLED is. Every invariant and every action property of the passing runs is proved.

## Not modelled

* Rendering, configuration, metrics, logging and the HTTP calls to Google: no state that requests
  share.
* The in-memory repository of accounts: one mutex, for the preview; it has no unique indexes.
* The cache of the trophy map's image; the photo uploader, delete dialog, location lookup and reel of
  the browser; decoding and scaling of images.
* `ToggleChain` on Postgres, one UPDATE of a flag that no other statement reads.
* Ratings, tags and photos in the in-memory store, which writes them under its mutex with the dine.

## What could follow

The photo uploader and the delete dialog of app.js, and the image cache of the trophy map.
