---------------------------- MODULE BrowserProofs ----------------------------
(***************************************************************************)
(* The log form and the Want to Try sheet keep their promises for any list *)
(* of restaurants, any links and any number of pages.  The form keeps, with *)
(* what a pick replaced, what the page brought (Kept); each pick leaves a  *)
(* place that fits (UseOK), and un-picking gives back what was kept        *)
(* (ReleaseOK).  The sheet keeps that a save which the server accepted is  *)
(* of a listed place (Accepted).                                           *)
(***************************************************************************)
EXTENDS Browser, TLAPS, WellFoundedInduction

\* Until the user types a place ID, the form has what the page brought, or
\* has it put aside and shows what the last pick applied.
Kept(f, b) ==
    /\ f.details \in {None, f.place} /\ b.details \in {None, b.place}
    /\ f.replaced = None => f.place = b.place /\ f.details = b.details
    /\ f.replaced # None => /\ f.place = f.replaced.applied
                            /\ f.replaced.place = b.place
                            /\ f.replaced.details = b.details

Fits(p, o) ==
    \/ p \in {None, options[o].place}
    \/ options[o].place = None /\ Owner(p) \subseteq {o}

FormOK ==
    /\ form.id = None => form.replaced = None
    /\ ~touched => Kept(form, brought)
    /\ form.id # None /\ ~typed => Fits(form.place, form.id)

Accepted == \A r \in asked : r.status = "accepted" => r.link \in listed

\* An open sheet was opened from a link.
Sourced == sheet.open => source \in Links /\ opening > 0

Inv == TypeOK /\ FormOK /\ Accepted /\ Sourced /\ MarkedWasSaved /\ ButtonComesBack

Listed == options \in [Options -> Restaurant]

-----------------------------------------------------------------------------
(* The log form *)

\* The first of several listed restaurants is one of them.
LEMMA FirstIn ==
  ASSUME NEW S \in SUBSET Nat, S # {}
  PROVE  First(S) \in S
<1>1. PICK R : R = OpToRel(<, Nat)
  OBVIOUS
<1>2. \A a, b \in Nat : a < b => <<a, b>> \in R
  BY <1>1, Zenon DEF OpToRel
<1>3. IsWellFoundedOn(R, Nat)
  BY <1>1, NatLessThanWellFounded, Zenon
<1>4. PICK m \in S : \A k \in S : ~ (<<k, m>> \in R)
  BY <1>3, WFMin
<1>5. \A k \in S : m <= k
  <2>1. SUFFICES ASSUME NEW k \in S, k < m PROVE FALSE
    OBVIOUS
  <2>2. <<k, m>> \in R
    BY <1>2, <2>1, Zenon
  <2> QED
    BY <1>4, <2>2, Zenon
<1> QED
  BY <1>5 DEF First

\* The place after a pick is the restaurant's own or nobody's, and what it
\* replaced is kept.
LEMMA UseOK ==
  ASSUME Listed, NEW f \in Form, NEW o \in Options
  PROVE  LET g == UseRestaurantPlace(f, o) IN
         /\ g \in Form /\ g.id = f.id
         /\ Fits(g.place, o)
         /\ \A b \in Carried : Kept(f, b) => Kept(g, b)
<1> DEFINE g == UseRestaurantPlace(f, o)
           first == FirstReplaced(f)
           new == [place |-> first.place, details |-> first.details, applied |-> options[o].place]
<1>1. options[o].place \in OrNone(Places)
  BY DEF Listed, Restaurant
<1>2. CASE KeepsPlace(f, o)
  <2>1. g = f
    BY <1>2 DEF UseRestaurantPlace
  <2> QED
    BY <1>2, <2>1 DEF KeepsPlace, Fits
<1>3. CASE ~KeepsPlace(f, o)
  <2>1. first.place \in OrNone(Places \cup {Other}) /\ first.details \in OrNone(Places)
    BY DEF Form, Replaced, OrNone, FirstReplaced
  <2>2. new \in Replaced /\ new # None
    BY <1>1, <2>1, ReplacedAssumption DEF Replaced
  <2>3. g = [f EXCEPT !.place = options[o].place, !.details = None, !.replaced = new]
    BY <1>3 DEF UseRestaurantPlace
  <2>4. /\ g.name = f.name /\ g.address = f.address /\ g.id = f.id
        /\ g.place = options[o].place /\ g.details = None /\ g.replaced = new
    BY <2>3 DEF Form
  <2>5. g \in Form
    BY <1>1, <2>2, <2>3 DEF Form, OrNone
  <2>6. ASSUME NEW b \in Carried, Kept(f, b) PROVE Kept(g, b)
    BY <2>2, <2>4, <2>6 DEF Kept, FirstReplaced
  <2> HIDE DEF g, new
  <2> QED
    BY <2>4, <2>5, <2>6 DEF Fits, g
<1> QED
  BY <1>2, <1>3

\* Un-picking gives back what the page brought.
LEMMA ReleaseOK ==
  ASSUME NEW f \in Form
  PROVE  LET g == ReleaseRestaurantPlace(f) IN
         /\ g \in Form /\ g.id = f.id /\ g.replaced = None
         /\ \A b \in Carried : Kept(f, b) => Kept(g, b)
<1> DEFINE g == ReleaseRestaurantPlace(f)
<1>1. CASE f.replaced = None
  BY <1>1 DEF ReleaseRestaurantPlace
<1>2. CASE f.replaced # None /\ f.place # f.replaced.applied
  <2>1. g = [f EXCEPT !.replaced = None]
    BY <1>2 DEF ReleaseRestaurantPlace
  <2> QED
    BY <1>2, <2>1 DEF Form, OrNone, Kept
<1>3. CASE f.replaced # None /\ f.place = f.replaced.applied
  <2>1. g = [f EXCEPT !.place = f.replaced.place, !.details = f.replaced.details,
                      !.replaced = None]
    BY <1>3 DEF ReleaseRestaurantPlace
  <2>2. f.replaced \in Replaced
    BY <1>3 DEF Form, OrNone
  <2> QED
    BY <1>3, <2>1, <2>2 DEF Form, Replaced, OrNone, Kept
<1> QED
  BY <1>1, <1>2, <1>3

\* After an input event the form is a form, keeps what it kept, and carries a
\* place that fits if another restaurant was picked.
LEMMA SyncOK ==
  ASSUME Listed, NEW f \in Form, f.id = None => f.replaced = None
  PROVE  LET g == SyncRestaurantSelection(f) IN
         /\ g \in Form
         /\ g.id = None => g.replaced = None
         /\ \A b \in Carried : Kept(f, b) => Kept(g, b)
         /\ g.id # None /\ g.id # f.id => Fits(g.place, g.id)
         /\ g.id = f.id => g.place = f.place
<1> DEFINE g == SyncRestaurantSelection(f)
<1>1. CASE Fitting(f) = {}
  <2> DEFINE h == [f EXCEPT !.id = None]
  <2>1. h \in Form /\ h.id = None /\ h.replaced = f.replaced /\ h.place = f.place
        /\ \A b \in Carried : Kept(f, b) => Kept(h, b)
    BY DEF Form, OrNone, Kept
  <2>2. g = IF f.id # None THEN ReleaseRestaurantPlace(h) ELSE h
    BY <1>1 DEF SyncRestaurantSelection, Unpick
  <2> HIDE DEF g, h
  <2>3. CASE f.id # None
    BY <2>1, <2>2, <2>3, ReleaseOK DEF g
  <2>4. CASE f.id = None
    BY <2>1, <2>2, <2>4 DEF g
  <2> QED
    BY <2>3, <2>4
<1>2. CASE Fitting(f) # {}
  <2> DEFINE o == First(Fitting(f))
             h == [f EXCEPT !.id = o, !.address = IF @ = None THEN options[o].address ELSE @]
  <2>1. Fitting(f) \in SUBSET Options /\ Options \subseteq Nat
    BY BrowserAssumption DEF Fitting
  <2>2. o \in Options /\ o # None
    BY <1>2, <2>1, FirstIn, BrowserAssumption
  <2> HIDE DEF o
  <2>3. options[o].address \in OrNone(Addresses)
    BY <2>2 DEF Listed, Restaurant
  <2>4. /\ h \in Form /\ h.id = o /\ h.place = f.place /\ h.replaced = f.replaced
        /\ h.details = f.details
    BY <2>2, <2>3 DEF Form, OrNone
  <2>5. \A b \in Carried : Kept(f, b) => Kept(h, b)
    BY <2>4 DEF Kept
  <2>6. g = IF o # f.id THEN UseRestaurantPlace(h, o) ELSE h
    BY <1>2 DEF SyncRestaurantSelection, Pick, o
  <2> HIDE DEF g, h
  <2>7. CASE o # f.id
    BY <2>2, <2>4, <2>5, <2>6, <2>7, UseOK DEF g
  <2>8. CASE o = f.id
    BY <2>2, <2>4, <2>5, <2>6, <2>8 DEF g
  <2> QED
    BY <2>7, <2>8
<1> QED
  BY <1>1, <1>2

-----------------------------------------------------------------------------
(* Every state *)

\* The forms a page can bring are forms, with the details of their place.
LEMMA BroughtOK ==
  ASSUME Listed, NEW f \in Brought
  PROVE  /\ f \in Form /\ f.replaced = None
         /\ f.details \in {None, f.place}
         /\ f.id # None => f.place = None
<1>1. CASE f = EmptyForm
  BY <1>1 DEF EmptyForm, Form, OrNone
<1>2. CASE \E r \in Result :
              f = [EmptyForm EXCEPT !.name = r.name, !.address = r.address,
                                    !.place = r.place, !.details = r.place]
  BY <1>2 DEF Result, EmptyForm, Form, OrNone
<1>3. CASE \E o \in Options :
              f = [EmptyForm EXCEPT !.name = options[o].name, !.address = options[o].address,
                                    !.id = o]
  <2>1. PICK o \in Options :
           f = [EmptyForm EXCEPT !.name = options[o].name, !.address = options[o].address,
                                 !.id = o]
    BY <1>3
  <2>2. options[o].name \in Names /\ options[o].address \in OrNone(Addresses)
    BY DEF Listed, Restaurant
  <2>3. /\ f = [name |-> options[o].name, address |-> options[o].address, id |-> o,
                place |-> None, details |-> None, replaced |-> None]
    BY <2>1 DEF EmptyForm
  <2>4. f \in Form
    <3>1. /\ options[o].name \in OrNone(Names \cup {Other})
          /\ options[o].address \in OrNone(Addresses \cup {Other})
          /\ o \in OrNone(Options)
          /\ None \in OrNone(Places \cup {Other}) /\ None \in OrNone(Places)
          /\ None \in OrNone(Replaced)
      BY <2>2 DEF OrNone
    <3> QED
      BY <2>3, <3>1, Zenon DEF Form
  <2> QED
    BY <2>3, <2>4
<1> QED
  BY <1>1, <1>2, <1>3 DEF Brought

\* The first page has nothing picked and no save on its way.
LEMMA InitOK == Init => Inv
<1> SUFFICES ASSUME Init PROVE Inv
  OBVIOUS
<1>1. /\ page = 1 /\ opening = 0 /\ source = None /\ sheet = ClosedSheet
      /\ marked = {} /\ asked = {} /\ listed = {} /\ typed = FALSE /\ touched = FALSE
      /\ brought = [place |-> form.place, details |-> form.details]
  BY DEF Init
<1>2. /\ form \in Form /\ form.replaced = None
      /\ form.details \in {None, form.place}
      /\ form.id # None => form.place = None
      /\ view \in {"log", "sheet"}
      /\ options \in IF view = "log" THEN [Options -> Restaurant] ELSE {NoList}
  <2>1. CASE view = "log" /\ Listed /\ form \in Brought
    BY <2>1, BroughtOK DEF Listed
  <2>2. CASE view = "sheet" /\ options = NoList /\ form = EmptyForm
    BY <2>2 DEF EmptyForm, Form, OrNone
  <2> QED
    BY <2>1, <2>2 DEF Init, Listed
<1>3. brought \in Carried
  BY <1>1, <1>2 DEF Carried, Form
<1>4. TypeOK
  <2>1. page \in 1..MaxPages /\ opening \in 0..MaxOpenings
    BY <1>1, BrowserAssumption
  <2>2. sheet \in [open : BOOLEAN, link : OrNone(Links), saving : BOOLEAN, error : BOOLEAN]
    BY <1>1 DEF ClosedSheet, OrNone
  <2> QED
    BY <1>1, <1>2, <1>3, <2>1, <2>2 DEF TypeOK, OrNone
<1>5. FormOK
  BY <1>1, <1>2 DEF FormOK, Kept, Fits
<1>6. Accepted /\ Sourced /\ MarkedWasSaved /\ ButtonComesBack
  BY <1>1 DEF Accepted, Sourced, MarkedWasSaved, ButtonComesBack, ClosedSheet
<1> QED
  BY <1>4, <1>5, <1>6 DEF Inv

\* A step of the form that keeps what the page brought and the place's fit.
LEMMA FormStep ==
  ASSUME Inv, view' = view, options' = options, UNCHANGED sheetVars,
         form' \in Form, brought' \in Carried,
         typed' \in BOOLEAN, touched' \in BOOLEAN, FormOK'
  PROVE  Inv'
<1>1. TypeOK'
  BY DEF Inv, TypeOK, sheetVars
<1>2. Accepted' /\ Sourced' /\ MarkedWasSaved' /\ ButtonComesBack'
  BY DEF Inv, Accepted, Sourced, MarkedWasSaved, ButtonComesBack, sheetVars
<1> QED
  BY <1>1, <1>2 DEF Inv

\* An input event of the name or the address.
LEMMA Typed ==
  ASSUME Inv, view = "log", NEW f \in Form,
         f.id = form.id, f.place = form.place, f.details = form.details,
         f.replaced = form.replaced,
         form' = SyncRestaurantSelection(f),
         typed' = (typed /\ form'.id \in {None, form.id}),
         UNCHANGED <<view, options, brought, touched, sheetVars>>
  PROVE  Inv'
<1>1. Listed /\ brought \in Carried /\ typed \in BOOLEAN /\ touched \in BOOLEAN
  BY DEF Inv, TypeOK, Listed
<1>2. f.id = None => f.replaced = None
  BY DEF Inv, FormOK
<1> DEFINE g == SyncRestaurantSelection(f)
<1>3. /\ g \in Form
      /\ g.id = None => g.replaced = None
      /\ \A b \in Carried : Kept(f, b) => Kept(g, b)
      /\ g.id # None /\ g.id # f.id => Fits(g.place, g.id)
      /\ g.id = f.id => g.place = f.place
  BY <1>1, <1>2, SyncOK
<1> HIDE DEF g
<1>4. form' = g
  BY DEF g
<1>5. ~touched => Kept(g, brought)
  <2>1. Kept(form, brought) => Kept(f, brought)
    BY DEF Kept
  <2> QED
    BY <1>1, <1>3, <2>1 DEF Inv, FormOK
<1>6. g.id # None /\ ~typed' => Fits(g.place, g.id)
  <2>1. CASE g.id = f.id
    BY <1>3, <1>4, <2>1 DEF Inv, FormOK
  <2>2. CASE g.id # f.id
    BY <1>3, <2>2
  <2> QED
    BY <2>1, <2>2
<1>7. FormOK'
  <2>1. form'.id # None /\ ~typed' => Fits(form.place, form.id)'
    BY <1>4, <1>6 DEF Fits, Owner
  <2>2. ~touched' => Kept(form, brought)'
    BY <1>4, <1>5 DEF Kept
  <2> QED
    BY <1>3, <1>4, <2>1, <2>2 DEF FormOK
<1> QED
  BY <1>1, <1>3, <1>4, <1>7, FormStep

\* One step per action.
LEMMA NextOK == Inv /\ [Next]_vars => Inv'
<1> SUFFICES ASSUME Inv, [Next]_vars PROVE Inv'
  OBVIOUS
<1> USE DEF sheetVars, logVars
<1>1. ASSUME NEW n \in OrNone(Names \cup {Other}), TypeName(n) PROVE Inv'
  <2> DEFINE f == [form EXCEPT !.name = n]
  <2>1. form \in Form
    BY DEF Inv, TypeOK
  <2>2. f \in Form /\ f.id = form.id /\ f.place = form.place /\ f.details = form.details
        /\ f.replaced = form.replaced
    BY <2>1 DEF Form
  <2>3. /\ view = "log" /\ form' = SyncRestaurantSelection(f)
        /\ typed' = (typed /\ form'.id \in {None, form.id})
        /\ UNCHANGED <<view, options, brought, touched, sheetVars>>
    BY <1>1 DEF TypeName
  <2> HIDE DEF f
  <2> QED
    BY <2>2, <2>3, Typed
<1>2. ASSUME NEW a \in OrNone(Addresses \cup {Other}), TypeAddress(a) PROVE Inv'
  <2> DEFINE f == [form EXCEPT !.address = a]
  <2>1. form \in Form
    BY DEF Inv, TypeOK
  <2>2. f \in Form /\ f.id = form.id /\ f.place = form.place /\ f.details = form.details
        /\ f.replaced = form.replaced
    BY <2>1 DEF Form
  <2>3. /\ view = "log" /\ form' = SyncRestaurantSelection(f)
        /\ typed' = (typed /\ form'.id \in {None, form.id})
        /\ UNCHANGED <<view, options, brought, touched, sheetVars>>
    BY <1>2 DEF TypeAddress
  <2> HIDE DEF f
  <2> QED
    BY <2>2, <2>3, Typed
<1>3. ASSUME NEW p \in OrNone(Places \cup {Other}), TypePlace(p) PROVE Inv'
  <2>1. /\ form' = [form EXCEPT !.place = p] /\ typed' = TRUE /\ touched' = TRUE
        /\ UNCHANGED <<view, options, brought, sheetVars>>
    BY <1>3 DEF TypePlace
  <2>2. form \in Form /\ brought \in Carried
    BY DEF Inv, TypeOK
  <2>3. form' \in Form /\ form'.id = form.id /\ form'.replaced = form.replaced
    BY <2>1, <2>2 DEF Form
  <2>4. FormOK'
    BY <2>1, <2>3 DEF Inv, FormOK
  <2> QED
    BY <2>1, <2>2, <2>3, <2>4, FormStep
<1>4. ASSUME RenderLogError PROVE Inv'
  <2>1. /\ form' = [form EXCEPT !.replaced = None]
        /\ brought' = [place |-> form.place, details |-> form.details]
        /\ UNCHANGED <<view, options, typed, touched, sheetVars>>
    BY <1>4 DEF RenderLogError
  <2>2. form \in Form /\ typed \in BOOLEAN /\ touched \in BOOLEAN
    BY DEF Inv, TypeOK
  <2>3. /\ form' \in Form /\ form'.id = form.id /\ form'.replaced = None
        /\ form'.place = form.place /\ form'.details = form.details
    BY <2>1, <2>2 DEF Form, OrNone
  <2>4. brought' \in Carried
    BY <2>1, <2>2 DEF Form, Carried
  <2>5. ~touched' => Kept(form, brought)'
    BY <2>1, <2>3 DEF Inv, FormOK, Kept
  <2>6. form'.id # None /\ ~typed' => Fits(form.place, form.id)'
    BY <2>1, <2>3 DEF Inv, FormOK, Fits, Owner
  <2>7. FormOK'
    BY <2>3, <2>5, <2>6 DEF FormOK
  <2> QED
    BY <2>1, <2>2, <2>3, <2>4, <2>7, FormStep
<1>5. ASSUME UNCHANGED <<view, logVars>>, TypeOK', Accepted', Sourced', MarkedWasSaved',
             ButtonComesBack'
      PROVE  Inv'
  BY <1>5 DEF Inv, FormOK, Kept, Fits, Owner
<1>6. ASSUME NEW l \in Links, OpenWantToTrySheet(l) PROVE Inv'
  <2>1. TypeOK'
    BY <1>6, BrowserAssumption DEF Inv, TypeOK, OpenWantToTrySheet, OrNone
  <2>2. Accepted' /\ Sourced' /\ MarkedWasSaved' /\ ButtonComesBack'
    BY <1>6 DEF Inv, TypeOK, OpenWantToTrySheet, Accepted, Sourced, MarkedWasSaved,
                ButtonComesBack
  <2> QED
    BY <1>5, <1>6, <2>1, <2>2 DEF OpenWantToTrySheet
<1>7. ASSUME CloseWantToTrySheet PROVE Inv'
  <2>1. TypeOK'
    BY <1>7 DEF Inv, TypeOK, CloseWantToTrySheet, OrNone
  <2>2. Accepted' /\ Sourced' /\ MarkedWasSaved' /\ ButtonComesBack'
    BY <1>7 DEF Inv, TypeOK, CloseWantToTrySheet, Accepted, Sourced, MarkedWasSaved,
                ButtonComesBack
  <2> QED
    BY <1>5, <1>7, <2>1, <2>2 DEF CloseWantToTrySheet
<1>8. ASSUME EscapeWantToTrySheet PROVE Inv'
  <2>1. TypeOK'
    BY <1>8 DEF Inv, TypeOK, EscapeWantToTrySheet
  <2>2. Accepted' /\ Sourced' /\ MarkedWasSaved' /\ ButtonComesBack'
    BY <1>8 DEF Inv, TypeOK, EscapeWantToTrySheet, Accepted, Sourced, MarkedWasSaved,
                ButtonComesBack
  <2> QED
    BY <1>5, <1>8, <2>1, <2>2 DEF EscapeWantToTrySheet
<1>9. ASSUME SubmitWantToTry PROVE Inv'
  <2> DEFINE r == [page |-> page, opening |-> opening, link |-> source, status |-> "sent"]
  <2>1. source \in Links /\ opening \in 1..MaxOpenings /\ page \in 1..MaxPages
    BY <1>9, BrowserAssumption DEF Inv, TypeOK, Sourced, SubmitWantToTry
  <2>2. r \in Save
    BY <2>1 DEF Save
  <2>3. asked' = asked \cup {r} /\ sheet' = [sheet EXCEPT !.saving = TRUE, !.error = FALSE]
        /\ sheet.open /\ UNCHANGED <<view, logVars, page, opening, source, marked, listed>>
    BY <1>9 DEF SubmitWantToTry
  <2>4. r.status = "sent" /\ r.page = page /\ r.opening = opening
    OBVIOUS
  <2> HIDE DEF r
  <2>5. TypeOK'
    BY <2>2, <2>3 DEF Inv, TypeOK
  <2>6. Accepted' /\ Sourced' /\ MarkedWasSaved' /\ ButtonComesBack'
    BY <2>3, <2>4 DEF Inv, TypeOK, Accepted, Sourced, MarkedWasSaved, ButtonComesBack
  <2> QED
    BY <1>5, <2>3, <2>5, <2>6
<1>10. ASSUME NEW r \in asked, ServerSaves(r) PROVE Inv'
  <2>1. r \in Save
    BY DEF Inv, TypeOK
  <2>2. PICK t \in {"accepted", "refused"} :
          /\ asked' = (asked \ {r}) \cup {[r EXCEPT !.status = t]}
          /\ listed' = IF t = "accepted" THEN listed \cup {r.link} ELSE listed
    BY <1>10 DEF ServerSaves
  <2>3. UNCHANGED <<view, logVars, page, opening, source, sheet, marked>>
    BY <1>10 DEF ServerSaves
  <2> DEFINE n == [r EXCEPT !.status = t]
  <2>4. n \in Save /\ n.page = r.page /\ n.opening = r.opening /\ n.link = r.link /\ n.status = t
    BY <2>1 DEF Save
  <2>5. asked' = (asked \ {r}) \cup {n}
    BY <2>2
  <2> HIDE DEF n
  <2>6. listed' \subseteq Links /\ listed \subseteq listed'
        /\ (t = "accepted" => r.link \in listed')
    BY <2>1, <2>2 DEF Inv, TypeOK, Save
  <2>7. TypeOK'
    BY <2>3, <2>4, <2>5, <2>6 DEF Inv, TypeOK
  <2>8. Accepted' /\ Sourced' /\ MarkedWasSaved'
    BY <2>3, <2>4, <2>5, <2>6 DEF Inv, Accepted, Sourced, MarkedWasSaved
  <2>9. ButtonComesBack'
    BY <2>3, <2>4, <2>5 DEF Inv, ButtonComesBack
  <2> QED
    BY <1>5, <2>3, <2>7, <2>8, <2>9
<1>11. ASSUME NEW r \in asked, AnswerSaved(r) PROVE Inv'
  <2>1. r \in Save /\ r.link \in listed /\ r.link \in Links
    BY <1>11 DEF Inv, TypeOK, Accepted, AnswerSaved, Save
  <2>2. /\ sheet'.open = (sheet.open /\ ~Current(r))
        /\ sheet'.saving = ButtonAfter(r)
        /\ sheet' \in [open : BOOLEAN, link : OrNone(Links), saving : BOOLEAN, error : BOOLEAN]
    BY <1>11 DEF Inv, TypeOK, AnswerSaved, Current, ButtonAfter
  <2>3. /\ asked' = asked \ {r}
        /\ marked' = marked \cup SourceOf(r)
        /\ source' = IF Current(r) THEN None ELSE source
        /\ UNCHANGED <<view, logVars, page, opening, listed>>
    BY <1>11 DEF AnswerSaved
  <2>4. TypeOK'
    BY <2>1, <2>2, <2>3 DEF Inv, TypeOK, SourceOf, OrNone
  <2>5. Accepted' /\ Sourced' /\ MarkedWasSaved'
    BY <2>1, <2>2, <2>3 DEF Inv, Accepted, Sourced, MarkedWasSaved, SourceOf
  <2>6. ButtonComesBack'
    BY <2>2, <2>3 DEF Inv, ButtonComesBack, ButtonAfter
  <2> QED
    BY <1>5, <2>3, <2>4, <2>5, <2>6
<1>12. ASSUME NEW r \in asked, AnswerFailed(r) PROVE Inv'
  <2>1. /\ sheet'.open = sheet.open
        /\ sheet'.saving = ButtonAfter(r)
        /\ sheet' \in [open : BOOLEAN, link : OrNone(Links), saving : BOOLEAN, error : BOOLEAN]
    BY <1>12 DEF Inv, TypeOK, AnswerFailed, Current, ButtonAfter
  <2>2. /\ asked' = asked \ {r}
        /\ UNCHANGED <<view, logVars, page, opening, source, marked, listed>>
    BY <1>12 DEF AnswerFailed
  <2>3. TypeOK'
    BY <2>1, <2>2 DEF Inv, TypeOK
  <2>4. Accepted' /\ Sourced' /\ MarkedWasSaved'
    BY <2>1, <2>2 DEF Inv, Accepted, Sourced, MarkedWasSaved
  <2>5. ButtonComesBack'
    BY <2>1, <2>2 DEF Inv, ButtonComesBack, ButtonAfter
  <2> QED
    BY <1>5, <2>2, <2>3, <2>4, <2>5
<1>13. ASSUME Navigate PROVE Inv'
  <2>1. /\ page' \in 1..MaxPages /\ opening' = 0 /\ source' = None /\ sheet' = ClosedSheet
        /\ marked' \subseteq listed
        /\ UNCHANGED <<view, logVars, asked, listed>>
    BY <1>13, BrowserAssumption DEF Inv, TypeOK, Navigate
  <2>2. sheet' \in [open : BOOLEAN, link : OrNone(Links), saving : BOOLEAN, error : BOOLEAN]
        /\ ~sheet'.open
    BY <2>1 DEF ClosedSheet, OrNone
  <2>3. TypeOK'
    BY <2>1, <2>2, BrowserAssumption DEF Inv, TypeOK, OrNone
  <2>4. Accepted' /\ Sourced' /\ MarkedWasSaved' /\ ButtonComesBack'
    BY <2>1, <2>2 DEF Inv, Accepted, Sourced, MarkedWasSaved, ButtonComesBack
  <2> QED
    BY <1>5, <2>1, <2>3, <2>4
<1>14. CASE UNCHANGED vars
  BY <1>14 DEF vars, Inv, TypeOK, FormOK, Kept, Fits, Owner, Accepted, Sourced,
               MarkedWasSaved, ButtonComesBack
<1> QED
  BY <1>1, <1>2, <1>3, <1>4, <1>6, <1>7, <1>8, <1>9, <1>10, <1>11, <1>12, <1>13, <1>14
     DEF Next

\* The invariant holds in every reachable state.
LEMMA Invariant == Spec => []Inv
<1>1. Init => Inv
  BY InitOK
<1>2. Inv /\ [Next]_vars => Inv'
  BY NextOK
<1> QED
  BY <1>1, <1>2, PTL DEF Spec

-----------------------------------------------------------------------------
(* Theorems *)

\* The variables keep their types.
THEOREM TypeCorrect == Spec => []TypeOK
<1>1. Inv => TypeOK
  BY DEF Inv
<1> QED
  BY <1>1, Invariant, PTL

\* A form with a restaurant chosen carries no place of another one, and no
\* details of another place (static/app.js:48-53).
THEOREM PlaceFitsCorrect == Spec => []PlaceFits
<1>1. Inv => PlaceFits
  BY DEF Inv, FormOK, Fits, Kept, PlaceFits
<1> QED
  BY <1>1, Invariant, PTL

\* Un-picking gives back what the page brought (static/app.js:53-54).
THEOREM UnpickCorrect == Spec => []UnpickRestores
<1>1. Inv => UnpickRestores
  BY DEF Inv, FormOK, Kept, UnpickRestores
<1> QED
  BY <1>1, Invariant, PTL

\* A link is marked only for a place that the server listed, whichever sheets
\* were opened and answered in between (static/app.js:716-751).
THEOREM MarkedCorrect == Spec => []MarkedWasSaved
<1>1. Inv => MarkedWasSaved
  BY DEF Inv
<1> QED
  BY <1>1, Invariant, PTL

\* An open sheet is never left with its button disabled (static/app.js:696-751).
THEOREM ButtonCorrect == Spec => []ButtonComesBack
<1>1. Inv => ButtonComesBack
  BY DEF Inv
<1> QED
  BY <1>1, Invariant, PTL
=============================================================================
