------------------------------- MODULE Browser -------------------------------
(***************************************************************************)
(* static/app.js in one tab: the log form, which follows the restaurant    *)
(* the user picks from the list, and the Want to Try sheet, whose saves    *)
(* are answered while the user goes on. A tab shows one of the two; links  *)
(* and forms replace the body of the page (hx-boost), which runs app.js    *)
(* once more, while answers to the previous page are still due.            *)
(*                                                                         *)
(* The details a form carries with a place (coordinates, phone, website,   *)
(* Google's rating and price) are the place they came from. City and       *)
(* category are left out, and fields have no blanks around them.           *)
(***************************************************************************)
EXTENDS Integers, FiniteSets

CONSTANTS
    Options,        \* positions in the list of restaurants, in its order
    Names,
    Addresses,
    Places,
    Other,          \* what no listed restaurant is called, and where none is
    Links,          \* "+ Want to Try" links of a page
    MaxOpenings,    \* bound: openings of the sheet on one page
    MaxPages,       \* bound: pages the tab shows
    None

ASSUME BrowserAssumption ==
    /\ Options \subseteq Nat
    /\ {MaxOpenings, MaxPages} \subseteq Nat /\ MaxPages > 0
    /\ None \notin Names \cup Addresses \cup Places \cup Links \cup Options
    /\ Other \notin Names \cup Addresses \cup Places \cup {None}

VARIABLES
    view,       \* which of the two the tab shows
    options,    \* the restaurants the log page was rendered with
    form,       \* the log form
    brought,    \* the place and details the page brought
    typed,      \* the place ID was typed since a restaurant was picked
    touched,    \* it was typed at all
    page,       \* pages shown so far
    opening,    \* dinedWantToTryOpening
    source,     \* dinedWantToTrySource
    sheet,      \* the sheet of this page
    marked,     \* links this page shows as saved
    asked,      \* saves that are not answered
    listed      \* places the server has put on the list

logVars == <<options, form, brought, typed, touched>>
sheetVars == <<page, opening, source, sheet, marked, asked, listed>>
vars == <<view, logVars, sheetVars>>

OrNone(S) == S \cup {None}
First(S) == CHOOSE o \in S : \A p \in S : o <= p

Restaurant == [name : Names, address : OrNone(Addresses), place : OrNone(Places)]
Carried == [place : OrNone(Places \cup {Other}), details : OrNone(Places)]
Replaced == [place : OrNone(Places \cup {Other}), details : OrNone(Places),
             applied : OrNone(Places)]
ASSUME ReplacedAssumption == None \notin Replaced

Form == [name : OrNone(Names \cup {Other}), address : OrNone(Addresses \cup {Other}),
         id : OrNone(Options), place : OrNone(Places \cup {Other}),
         details : OrNone(Places), replaced : OrNone(Replaced)]
Save == [page : 1..MaxPages, opening : 1..MaxOpenings, link : Links,
         status : {"sent", "accepted", "refused"}]
Result == [name : Names \cup {Other}, address : Addresses \cup {Other}, place : Places]
NoList == [o \in {} |-> None]
ClosedSheet == [open |-> FALSE, link |-> None, saving |-> FALSE, error |-> FALSE]

TypeOK ==
    /\ view \in {"log", "sheet"}
    /\ options \in IF view = "log" THEN [Options -> Restaurant] ELSE {NoList}
    /\ form \in Form
    /\ brought \in Carried
    /\ typed \in BOOLEAN /\ touched \in BOOLEAN
    /\ page \in 1..MaxPages
    /\ opening \in 0..MaxOpenings
    /\ source \in OrNone(Links)
    /\ sheet \in [open : BOOLEAN, link : OrNone(Links), saving : BOOLEAN, error : BOOLEAN]
    /\ marked \subseteq Links
    /\ asked \subseteq Save
    /\ listed \subseteq Links

(***************************************************************************)
(* The log form.                                                           *)
(***************************************************************************)

\* The listed restaurant a name and an address pick: with an address typed,
\* one of that name and address; without, the only one of that name.
Fitting(f) ==
    LET namesakes == {o \in Options : options[o].name = f.name} IN
    IF f.address # None THEN {o \in namesakes : options[o].address = f.address}
    ELSE IF Cardinality(namesakes) = 1 THEN namesakes ELSE {}

Owner(p) == {o \in Options : p # None /\ options[o].place = p}

\* Mutant: a restaurant without a place takes the one in the form.
KeepsPlaceAlways(f, o) == options[o].place \in {None, f.place}

\* The place in the form may stay when o is picked.
KeepsPlace(f, o) ==
    \/ f.place = options[o].place
    \/ options[o].place = None /\ Owner(f.place) \subseteq {o}

\* Mutant: each pick remembers what it replaced.
LastReplaced(f) == [place |-> f.place, details |-> f.details]

\* What comes back when the restaurant is un-picked: the first values that
\* were replaced.
FirstReplaced(f) ==
    IF f.replaced # None THEN [place |-> f.replaced.place, details |-> f.replaced.details]
    ELSE [place |-> f.place, details |-> f.details]

UseRestaurantPlace(f, o) ==
    IF KeepsPlace(f, o) THEN f
    ELSE LET first == FirstReplaced(f) IN
         [f EXCEPT !.place = options[o].place, !.details = None,
                   !.replaced = [place |-> first.place, details |-> first.details,
                                 applied |-> options[o].place]]

ReleaseRestaurantPlace(f) ==
    IF f.replaced = None THEN f
    ELSE IF f.place # f.replaced.applied THEN [f EXCEPT !.replaced = None]
    ELSE [f EXCEPT !.place = f.replaced.place, !.details = f.replaced.details,
                   !.replaced = None]

Pick(f, o) ==
    LET g == [f EXCEPT !.id = o, !.address = IF @ = None THEN options[o].address ELSE @]
    IN  IF o # f.id THEN UseRestaurantPlace(g, o) ELSE g

Unpick(f) ==
    LET g == [f EXCEPT !.id = None]
    IN  IF f.id # None THEN ReleaseRestaurantPlace(g) ELSE g

SyncRestaurantSelection(f) ==
    IF Fitting(f) = {} THEN Unpick(f) ELSE Pick(f, First(Fitting(f)))

EmptyForm == [name |-> None, address |-> None, id |-> None, place |-> None,
              details |-> None, replaced |-> None]

\* /log by itself, from a search result with all its details, or from an
\* item of the list with its restaurant.
Brought ==
    {EmptyForm}
    \cup {[EmptyForm EXCEPT !.name = r.name, !.address = r.address, !.place = r.place,
                            !.details = r.place] : r \in Result}
    \cup {[EmptyForm EXCEPT !.name = options[o].name, !.address = options[o].address,
                            !.id = o] : o \in Options}

\* An input event of the name or of the address.
TypeName(n) ==
    /\ view = "log"
    /\ form' = SyncRestaurantSelection([form EXCEPT !.name = n])
    /\ typed' = (typed /\ form'.id \in {None, form.id})
    /\ UNCHANGED <<view, options, brought, touched, sheetVars>>

TypeAddress(a) ==
    /\ view = "log"
    /\ form' = SyncRestaurantSelection([form EXCEPT !.address = a])
    /\ typed' = (typed /\ form'.id \in {None, form.id})
    /\ UNCHANGED <<view, options, brought, touched, sheetVars>>

TypePlace(p) ==
    /\ view = "log" /\ p # form.place
    /\ form' = [form EXCEPT !.place = p]
    /\ typed' = TRUE /\ touched' = TRUE
    /\ UNCHANGED <<view, options, brought, sheetVars>>

\* The server turns the dine down and renders the form as it was submitted,
\* in a page of its own.
RenderLogError ==
    /\ view = "log" /\ form.name # None
    /\ form' = [form EXCEPT !.replaced = None]
    /\ brought' = [place |-> form.place, details |-> form.details]
    /\ UNCHANGED <<view, options, typed, touched, sheetVars>>

(***************************************************************************)
(* The Want to Try sheet.                                                  *)
(***************************************************************************)

\* While the sheet is open the page behind it takes no clicks.
OpenWantToTrySheet(l) ==
    /\ view = "sheet" /\ ~sheet.open
    /\ l \notin marked
    /\ opening < MaxOpenings
    /\ sheet' = [open |-> TRUE, link |-> l, saving |-> FALSE, error |-> FALSE]
    /\ source' = l
    /\ opening' = opening + 1
    /\ UNCHANGED <<view, logVars, page, marked, asked, listed>>

\* Cancel, or a click beside the sheet.
CloseWantToTrySheet ==
    /\ sheet.open
    /\ sheet' = [sheet EXCEPT !.open = FALSE]
    /\ source' = None
    /\ UNCHANGED <<view, logVars, page, opening, marked, asked, listed>>

\* The Escape key closes a dialog without app.js.
EscapeWantToTrySheet ==
    /\ sheet.open
    /\ sheet' = [sheet EXCEPT !.open = FALSE]
    /\ UNCHANGED <<view, logVars, page, opening, source, marked, asked, listed>>

SubmitWantToTry ==
    /\ sheet.open /\ ~sheet.saving
    /\ sheet' = [sheet EXCEPT !.saving = TRUE, !.error = FALSE]
    /\ asked' = asked \cup
          {[page |-> page, opening |-> opening, link |-> source, status |-> "sent"]}
    /\ UNCHANGED <<view, logVars, page, opening, source, marked, listed>>

\* The server puts the place that the form names on the list, or does not.
ServerSaves(r) ==
    /\ r.status = "sent"
    /\ \/ /\ asked' = (asked \ {r}) \cup {[r EXCEPT !.status = "accepted"]}
          /\ listed' = listed \cup {r.link}
       \/ /\ asked' = (asked \ {r}) \cup {[r EXCEPT !.status = "refused"]}
          /\ UNCHANGED listed
    /\ UNCHANGED <<view, logVars, page, opening, source, sheet, marked>>

\* current(): app.js compares the counter it captured with the counter of the
\* script that runs now, and looks the sheet up in the page that is shown now.
Current(r) == r.opening = opening /\ sheet.open

\* Mutant: the link of the sheet that is open, instead of the one captured.
SourceOfNow(r) == IF source = None THEN {} ELSE {source}

\* The links of this page that an accepted save marks; a link of an earlier
\* page is no longer shown.
SourceOf(r) == IF r.page = page THEN {r.link} ELSE {}

\* Mutant: the button is enabled again after an accepted save only.
ButtonAfterSaved(r) == sheet.saving /\ ~(r.page = page /\ r.opening = opening /\ r.status = "accepted")

\* The button of the sheet after the answer; an earlier page's has another one.
ButtonAfter(r) == sheet.saving /\ ~(r.page = page /\ r.opening = opening)

\* An accepted save is answered: the link is marked and the sheet closed.
AnswerSaved(r) ==
    /\ r.status = "accepted"
    /\ asked' = asked \ {r}
    /\ marked' = marked \cup SourceOf(r)
    /\ sheet' = [sheet EXCEPT !.open = @ /\ ~Current(r), !.saving = ButtonAfter(r)]
    /\ source' = IF Current(r) THEN None ELSE source
    /\ UNCHANGED <<view, logVars, page, opening, listed>>

\* The save was refused, or the connection failed at any moment.
AnswerFailed(r) ==
    /\ asked' = asked \ {r}
    /\ sheet' = [sheet EXCEPT !.error = @ \/ (Current(r) /\ r.page = page),
                              !.saving = ButtonAfter(r)]
    /\ UNCHANGED <<view, logVars, page, opening, source, marked, listed>>

\* A boosted link replaces the body: the new page shows what the server had
\* listed when it rendered it, and its script sets the counter and the source
\* back.
Navigate ==
    /\ view = "sheet" /\ ~sheet.open
    /\ page < MaxPages
    /\ page' = page + 1
    /\ opening' = 0
    /\ source' = None
    /\ sheet' = ClosedSheet
    /\ marked' \in SUBSET listed
    /\ UNCHANGED <<view, logVars, asked, listed>>

Init ==
    /\ \/ /\ view = "log"
          /\ options \in [Options -> Restaurant]
          /\ \A p \in Places : Cardinality(Owner(p)) <= 1
          /\ form \in Brought
       \/ view = "sheet" /\ options = NoList /\ form = EmptyForm
    /\ brought = [place |-> form.place, details |-> form.details]
    /\ typed = FALSE /\ touched = FALSE
    /\ page = 1 /\ opening = 0 /\ source = None /\ sheet = ClosedSheet
    /\ marked = {} /\ asked = {} /\ listed = {}

Next ==
    \/ \E n \in OrNone(Names \cup {Other}) : TypeName(n)
    \/ \E a \in OrNone(Addresses \cup {Other}) : TypeAddress(a)
    \/ \E p \in OrNone(Places \cup {Other}) : TypePlace(p)
    \/ RenderLogError
    \/ \E l \in Links : OpenWantToTrySheet(l)
    \/ CloseWantToTrySheet
    \/ EscapeWantToTrySheet
    \/ SubmitWantToTry
    \/ \E r \in asked : ServerSaves(r) \/ AnswerSaved(r) \/ AnswerFailed(r)
    \/ Navigate

Spec == Init /\ [][Next]_vars

(***************************************************************************)
(* Properties.                                                             *)
(***************************************************************************)

\* Whatever restaurants were picked one after the other and whatever the link
\* brought, a form with a restaurant chosen carries no place of another one
\* and, unless the user typed a place ID, no details of another place:
\* "so they cannot be saved onto it" (static/app.js:48-53).
PlaceFits ==
    form.id # None =>
        /\ ~typed => \/ form.place \in {None, options[form.id].place}
                     \/ options[form.id].place = None /\ Owner(form.place) \subseteq {form.id}
        /\ ~touched => form.details \in {None, form.place}

\* A user who picks restaurants and then types a new name is back with the
\* place and the details the link brought: "the replaced values come back if
\* the user un-picks it" (static/app.js:53-54).
UnpickRestores ==
    form.id = None /\ ~touched => form.place = brought.place /\ form.details = brought.details

\* A link turns into "On Want to Try" only when the server has that link's
\* place, whichever sheets were opened, closed and answered in between.
MarkedWasSaved == marked \subseteq listed

\* An open sheet has its button disabled only while a save sent from this
\* very opening is due, so no late or lost answer leaves it without one.
ButtonComesBack ==
    sheet.open /\ sheet.saving => \E r \in asked : r.page = page /\ r.opening = opening

\* "A save answers only the opening it was sent from and cannot close or flag
\* a later one" (static/app.js:661-662).
AnswersItsOpening ==
    [][\A r \in asked :
          \/ <<r.page, r.opening>> = <<page, opening>>
          \/ \E s \in asked' : <<s.page, s.opening>> = <<r.page, r.opening>>
          \/ sheet' = sheet]_vars
=============================================================================
