---------------------------- MODULE DetailsProofs ----------------------------
(***************************************************************************)
(* What a dine carries keeps its promises for any requests, dines, tags and *)
(* photos.  The row lock of the dine carries the proof: those who hold it  *)
(* are apart (Apart), so what a request read of its dine is still true     *)
(* (Snapshots), and what it inserts next to it is its own form.  The job's *)
(* photo is one that nobody removes (Locked).  The photos of a dine are    *)
(* numbered by their places (Numbered), which a commit restores because    *)
(* those it keeps and those it drops are all there are (Reconciled), and   *)
(* then reading them by number gives the form's sequence (StripSaved).     *)
(***************************************************************************)
EXTENDS Details, SortingProofs, TLAPS

Steps == {"idle", "lockDine", "cascade", "newTag", "tags", "photos", "order", "commit"}
Editing == {"newTag", "tags", "photos", "order", "commit"}
Replaced == Editing \ {"newTag"}

\* A request, with what it has written and not committed.
InFlight == [pc : Steps, dine : OrNone(Dines), edit : OrNone(Edits),
             form : Forms \cup {NoForm}, keep : Seq(PhotoIds), holds : BOOLEAN,
             newTag : OrNone(Tags), attached : SUBSET Tags,
             cleared : SUBSET Score, untagged : SUBSET Tags,
             drop : SUBSET PhotoIds, placed : Nat]

Typed ==
    /\ dines \in [Dines -> Edits \cup {None, Gone}]
    /\ ratings \in [Dines -> SUBSET Score]
    /\ tagged \in [Dines -> SUBSET Tags]
    /\ edits \in 0..MaxEdits
    /\ req \in [Requests -> InFlight]
    /\ shown \in [Dines -> Pages]

\* What a request may have done by its next statement.
Control(q) ==
    /\ q.pc # "idle" => q.dine \in Dines
    /\ q.pc \in Editing \cup {"cascade"} <=> q.holds
    /\ q.pc \in Editing => q.edit \in Edits
    /\ q.pc = "lockDine" /\ q.edit # None => q.edit \in Edits
    /\ q.newTag # None \/ q.attached # {} => q.pc \in Replaced
    /\ Len(q.keep) + q.form.added <= MaxVisitPhotos

Controlled == \A r \in Requests : Control(req[r])

\* Two requests never hold the lock of one dine.
Apart ==
    \A q, r \in Requests :
        req[q].holds /\ req[r].holds /\ req[q].dine = req[r].dine => q = r

\* The ratings and tags a request deletes are all there are.
Snapshots ==
    \A r \in Requests : req[r].pc \in Replaced =>
        /\ req[r].cleared = ratings[req[r].dine]
        /\ req[r].untagged = tagged[req[r].dine]

Inv == Typed /\ Controlled /\ Apart /\ Snapshots /\ SetsAsSubmitted

-----------------------------------------------------------------------------
(* Requests *)

\* A request that is not there has written nothing.
LEMMA IdleOK == Idle \in InFlight /\ Control(Idle)
BY DetailsAssumption DEF Idle, NoForm, InFlight, Control, Steps, OrNone, Editing, Replaced

\* A request's step leaves the others as they were.
LEMMA Put ==
  ASSUME req \in [Requests -> InFlight], Controlled,
         NEW r \in Requests, NEW q \in InFlight, Control(q), Becomes(r, q)
  PROVE  /\ req' \in [Requests -> InFlight] /\ Controlled'
         /\ req'[r] = q
         /\ \A o \in Requests \ {r} : req'[o] = req[o]
<1>1. req' = [req EXCEPT ![r] = q]
  BY DEF Becomes
<1>2. req' \in [Requests -> InFlight]
  BY <1>1, Zenon
<1>3. req'[r] = q /\ \A o \in Requests \ {r} : req'[o] = req[o]
  BY <1>1
<1>4. Controlled'
  <2>1. SUFFICES ASSUME NEW o \in Requests PROVE Control(req'[o])
    BY DEF Controlled, Control
  <2> QED
    BY <1>3 DEF Controlled
<1> QED
  BY <1>2, <1>3, <1>4

\* The number of the next edit is one within the bound.
LEMMA NextEdit ==
  ASSUME edits \in 0..MaxEdits, edits < MaxEdits
  PROVE  edits + 1 \in Edits
<1>1. MaxEdits \in Nat
  BY DetailsAssumption
<1> QED
  BY <1>1 DEF Edits

\* What a form holds, from the assumption on forms.
LEMMA FormOK ==
  ASSUME NEW f \in Forms
  PROVE  /\ f.people \in SUBSET People /\ f.tags \in SUBSET Tags
         /\ f.newTag \in OrNone(Tags) /\ f.added \in Nat
BY DetailsAssumption

\* A form keeps at most as many photos as leave room for the new ones.
LEMMA KeepsOK ==
  ASSUME NEW v \in Dines, NEW n \in Int, NEW k \in Keeps(v, n)
  PROVE  k \in Seq(PhotoIds) /\ Len(k) <= n
<1>1. PICK m \in 0..n : k \in [1..m -> MayKeep(v)]
  BY DEF Keeps
<1>2. k \in [1..m -> PhotoIds]
  BY <1>1 DEF MayKeep, PhotosOf
<1> QED
  BY <1>1, <1>2

\* What a request's step may make of it.
Continues(p, q) ==
    /\ q.holds = p.holds /\ q.dine = p.dine
    /\ p.pc \in Replaced => q.pc \in Replaced /\ q.cleared = p.cleared
                                              /\ q.untagged = p.untagged

\* The statements that only write what is not committed: what becomes of the
\* request, and that it takes the dine's lock only if nobody has it.
LEMMA Moves ==
  ASSUME Typed, Controlled, NEW r \in Requests,
         \/ \E v \in Dines : BeginCreate(r, v) \/ BeginUpdate(r, v) \/ BeginDelete(r, v)
         \/ LockDine(r) \/ Replace(r) \/ AttachTag(r)
         \/ DropPhotos(r) \/ OrderPhoto(r) \/ Fail(r)
  PROVE  \E q \in InFlight :
           /\ Control(q) /\ Becomes(r, q)
           /\ UNCHANGED rows /\ UNCHANGED <<old, job, shown>> /\ edits' \in 0..MaxEdits
           /\ \/ q = Idle
              \/ /\ q.holds = FALSE /\ q.pc = "lockDine"
              \/ /\ q.holds /\ q.pc \notin Replaced /\ q.dine \in Dines
                 /\ \A o \in Requests \ {r} : ~ (req[o].holds /\ req[o].dine = q.dine)
              \/ /\ req[r].pc = "newTag"
                 /\ q.holds = req[r].holds /\ q.dine = req[r].dine
                 /\ q.cleared = ratings[q.dine] /\ q.untagged = tagged[q.dine]
              \/ req[r].pc \in Replaced /\ Continues(req[r], q)
<1>0. req[r] \in InFlight /\ Control(req[r]) /\ Idle \in InFlight /\ Control(Idle)
  BY IdleOK DEF Typed, Controlled
<1>1. ASSUME NEW v \in Dines, BeginCreate(r, v)
      PROVE  \E q \in InFlight :
               /\ Control(q) /\ Becomes(r, q)
               /\ UNCHANGED rows /\ UNCHANGED <<old, job, shown>> /\ edits' \in 0..MaxEdits
               /\ q.holds /\ q.pc \notin Replaced /\ q.dine \in Dines
               /\ \A o \in Requests \ {r} : ~ (req[o].holds /\ req[o].dine = q.dine)
  <2>1. PICK f \in Forms :
           Becomes(r, [Idle EXCEPT !.pc = "newTag", !.dine = v, !.edit = edits + 1,
                                   !.form = f, !.holds = TRUE])
    BY <1>1 DEF BeginCreate
  <2> DEFINE q == [Idle EXCEPT !.pc = "newTag", !.dine = v, !.edit = edits + 1,
                               !.form = f, !.holds = TRUE]
  <2>2. edits + 1 \in Edits /\ edits' \in 0..MaxEdits /\ UNCHANGED rows
        /\ UNCHANGED <<old, job, shown>> /\ \A o \in Requests : req[o].dine # v
    <3>1. edits < MaxEdits /\ edits' = edits + 1
      BY <1>1 DEF BeginCreate
    <3>2. edits + 1 \in Edits
      BY <3>1, NextEdit DEF Typed
    <3> QED
      BY <1>1, <3>1, <3>2 DEF BeginCreate, Edits
  <2>3. /\ q.pc = "newTag" /\ q.dine = v /\ q.edit = edits + 1 /\ q.form = f /\ q.holds
        /\ q.keep = <<>> /\ q.newTag = None /\ q.attached = {}
    BY DEF Idle
  <2>4. q \in InFlight
    BY <2>2, IdleOK DEF Idle, InFlight, Steps, OrNone
  <2>5. Control(q)
    <3>1. Len(q.keep) + q.form.added <= MaxVisitPhotos
      BY <2>3, FormOK, DetailsAssumption
    <3> HIDE DEF q
    <3> QED
      BY <2>2, <2>3, <3>1 DEF Control, Editing, Replaced
  <2>6. Becomes(r, q)
    BY <2>1
  <2> HIDE DEF q
  <2>7. q.pc \notin Replaced /\ \A o \in Requests \ {r} : ~ (req[o].holds /\ req[o].dine = q.dine)
    BY <2>2, <2>3 DEF Replaced, Editing
  <2> QED
    BY <2>2, <2>3, <2>4, <2>5, <2>6, <2>7
<1>2. ASSUME NEW v \in Dines, BeginUpdate(r, v)
      PROVE  \E q \in InFlight :
               /\ Control(q) /\ Becomes(r, q)
               /\ UNCHANGED rows /\ UNCHANGED <<old, job, shown>> /\ edits' \in 0..MaxEdits
               /\ q.holds = FALSE /\ q.pc = "lockDine"
  <2>0. PICK f \in Forms : \E k \in Keeps(v, MaxVisitPhotos - f.added) :
           Becomes(r, [Idle EXCEPT !.pc = "lockDine", !.dine = v, !.edit = edits + 1,
                                   !.form = f, !.keep = k])
    BY <1>2 DEF BeginUpdate
  <2>1. PICK k \in Keeps(v, MaxVisitPhotos - f.added) :
           Becomes(r, [Idle EXCEPT !.pc = "lockDine", !.dine = v, !.edit = edits + 1,
                                   !.form = f, !.keep = k])
    BY <2>0
  <2> DEFINE q == [Idle EXCEPT !.pc = "lockDine", !.dine = v, !.edit = edits + 1,
                               !.form = f, !.keep = k]
  <2>2. edits + 1 \in Edits /\ edits' \in 0..MaxEdits /\ UNCHANGED rows
        /\ UNCHANGED <<old, job, shown>>
    <3>1. edits < MaxEdits /\ edits' = edits + 1
      BY <1>2 DEF BeginUpdate
    <3>2. edits + 1 \in Edits
      BY <3>1, NextEdit DEF Typed
    <3> QED
      BY <1>2, <3>1, <3>2 DEF BeginUpdate, Edits
  <2>3. /\ q.pc = "lockDine" /\ q.dine = v /\ q.edit = edits + 1 /\ q.form = f
        /\ q.holds = FALSE /\ q.keep = k /\ q.newTag = None /\ q.attached = {}
    BY DEF Idle
  <2>4. k \in Seq(PhotoIds) /\ Len(k) + f.added <= MaxVisitPhotos
    <3>1. f.added \in Nat /\ MaxVisitPhotos - f.added \in Int
      BY FormOK, DetailsAssumption
    <3>2. k \in Seq(PhotoIds) /\ Len(k) <= MaxVisitPhotos - f.added
      BY <3>1, KeepsOK
    <3> QED
      BY <3>1, <3>2, DetailsAssumption
  <2>5. q \in InFlight
    BY <2>2, <2>4, IdleOK DEF Idle, InFlight, Steps, OrNone
  <2> HIDE DEF q
  <2>6. Control(q)
    BY <2>2, <2>3, <2>4 DEF Control, Editing, Replaced
  <2> QED
    BY <2>1, <2>2, <2>3, <2>5, <2>6 DEF q
<1>3. ASSUME NEW v \in Dines, BeginDelete(r, v)
      PROVE  \E q \in InFlight :
               /\ Control(q) /\ Becomes(r, q)
               /\ UNCHANGED rows /\ UNCHANGED <<old, job, shown>> /\ edits' \in 0..MaxEdits
               /\ q.holds = FALSE /\ q.pc = "lockDine"
  <2> DEFINE q == [Idle EXCEPT !.pc = "lockDine", !.dine = v]
  <2>1. Becomes(r, q) /\ UNCHANGED rows /\ UNCHANGED <<old, job, shown>>
        /\ edits' \in 0..MaxEdits
    BY <1>3 DEF BeginDelete, Typed
  <2>2. /\ q.pc = "lockDine" /\ q.dine = v /\ q.edit = None /\ q.form = NoForm
        /\ q.holds = FALSE /\ q.keep = <<>> /\ q.newTag = None /\ q.attached = {}
    BY DEF Idle
  <2>3. q \in InFlight
    BY IdleOK DEF Idle, InFlight, Steps, OrNone
  <2> HIDE DEF q
  <2>4. Control(q)
    BY <2>2, DetailsAssumption DEF Control, Editing, Replaced, NoForm
  <2> QED
    BY <2>1, <2>2, <2>3, <2>4
<1>4. ASSUME LockDine(r)
      PROVE  \E q \in InFlight :
               /\ Control(q) /\ Becomes(r, q)
               /\ UNCHANGED rows /\ UNCHANGED <<old, job, shown>> /\ edits' \in 0..MaxEdits
               /\ \/ q = Idle
                  \/ /\ q.holds /\ q.pc \notin Replaced /\ q.dine \in Dines
                     /\ \A o \in Requests \ {r} : ~ (req[o].holds /\ req[o].dine = q.dine)
  <2>1. UNCHANGED rows /\ UNCHANGED <<old, job, shown>> /\ edits' \in 0..MaxEdits
    BY <1>4 DEF LockDine, Typed
  <2>2. req[r].pc = "lockDine" /\ req[r].dine \in Dines
        /\ \A o \in Requests \ {r} : ~ (req[o].holds /\ req[o].dine = req[r].dine)
    BY <1>0, <1>4 DEF LockDine, At, Blockers, HeldBy, Control
  <2>3. CASE End(r)
    BY <1>0, <2>1, <2>3 DEF End
  <2>4. CASE ~End(r)
    <3> DEFINE next == IF req[r].edit = None THEN "cascade" ELSE "newTag"
               q == [req[r] EXCEPT !.holds = TRUE, !.pc = next]
    <3>1. Becomes(r, q)
      BY <1>4, <2>4 DEF LockDine
    <3>2. q.holds /\ q.pc = next /\ q.dine = req[r].dine /\ q.edit = req[r].edit
          /\ q.keep = req[r].keep /\ q.form = req[r].form
          /\ q.newTag = req[r].newTag /\ q.attached = req[r].attached
      BY <1>0 DEF InFlight
    <3>3. q \in InFlight
      BY <1>0 DEF InFlight, Steps
    <3> HIDE DEF q
    <3>4. Control(q)
      BY <1>0, <2>2, <3>2 DEF Control, Editing, Replaced
    <3> QED
      BY <2>1, <2>2, <3>1, <3>2, <3>3, <3>4 DEF Replaced, Editing
  <2> QED
    BY <2>3, <2>4
<1>5. ASSUME Replace(r)
      PROVE  \E q \in InFlight :
               /\ Control(q) /\ Becomes(r, q)
               /\ UNCHANGED rows /\ UNCHANGED <<old, job, shown>> /\ edits' \in 0..MaxEdits
               /\ req[r].pc = "newTag"
               /\ q.holds = req[r].holds /\ q.dine = req[r].dine
               /\ q.cleared = ratings[q.dine] /\ q.untagged = tagged[q.dine]
  <2>1. UNCHANGED rows /\ UNCHANGED <<old, job, shown>> /\ edits' \in 0..MaxEdits
        /\ req[r].pc = "newTag" /\ req[r].dine \in Dines
    BY <1>0, <1>5 DEF Replace, Typed, At, Control
  <2> DEFINE pc == IF req[r].form.tags = {} /\ req[r].form.newTag = None
                   THEN "photos" ELSE "tags"
             q == [req[r] EXCEPT !.newTag = req[r].form.newTag,
                                 !.cleared = ratings[req[r].dine],
                                 !.untagged = tagged[req[r].dine],
                                 !.pc = pc]
  <2>2. Becomes(r, q)
    BY <1>0, <1>5 DEF Replace, InFlight
  <2>3. /\ q.pc = pc /\ q.dine = req[r].dine /\ q.edit = req[r].edit /\ q.form = req[r].form
        /\ q.holds = req[r].holds /\ q.keep = req[r].keep
        /\ q.cleared = ratings[req[r].dine] /\ q.untagged = tagged[req[r].dine]
    BY <1>0 DEF InFlight
  <2>4. q \in InFlight
    <3>1. req[r].form.newTag \in OrNone(Tags)
      BY <1>0, FormOK DEF InFlight, NoForm, OrNone
    <3>2. ratings[req[r].dine] \in SUBSET Score /\ tagged[req[r].dine] \in SUBSET Tags
      BY <2>1 DEF Typed
    <3> QED
      BY <1>0, <3>1, <3>2 DEF InFlight, Steps
  <2> HIDE DEF q
  <2>5. Control(q)
    BY <1>0, <2>1, <2>3 DEF Control, Editing, Replaced
  <2> QED
    BY <2>1, <2>2, <2>3, <2>4, <2>5
<1>6. ASSUME AttachTag(r)
      PROVE  \E q \in InFlight :
               /\ Control(q) /\ Becomes(r, q)
               /\ UNCHANGED rows /\ UNCHANGED <<old, job, shown>> /\ edits' \in 0..MaxEdits
               /\ req[r].pc \in Replaced /\ Continues(req[r], q)
  <2>1. UNCHANGED rows /\ UNCHANGED <<old, job, shown>> /\ edits' \in 0..MaxEdits
        /\ req[r].pc = "tags"
    BY <1>6 DEF AttachTag, Typed
  <2>2. PICK g \in NextTags(r) :
           Becomes(r, [req[r] EXCEPT !.attached = @ \cup {g},
                    !.pc = IF ToAttach(r) = {g} THEN "photos" ELSE "tags"])
    BY <1>6 DEF AttachTag
  <2>3. g \in Tags
    <3>1. g \in req[r].form.tags \cup {req[r].newTag} /\ g # None
      BY <2>2 DEF NextTags, ToAttach
    <3>2. req[r].form.tags \in SUBSET Tags
      BY <1>0, FormOK DEF InFlight, NoForm
    <3> QED
      BY <1>0, <3>1, <3>2 DEF InFlight, OrNone
  <2> DEFINE pc == IF ToAttach(r) = {g} THEN "photos" ELSE "tags"
             q == [req[r] EXCEPT !.attached = @ \cup {g}, !.pc = pc]
  <2>4. /\ q.pc = pc /\ q.dine = req[r].dine /\ q.edit = req[r].edit /\ q.form = req[r].form
        /\ q.holds = req[r].holds /\ q.keep = req[r].keep
        /\ q.cleared = req[r].cleared /\ q.untagged = req[r].untagged
    BY <1>0 DEF InFlight
  <2>5. q \in InFlight
    BY <1>0, <2>3 DEF InFlight, Steps
  <2>6. Becomes(r, q)
    BY <2>2
  <2> HIDE DEF q
  <2>7. Control(q) /\ Continues(req[r], q)
    BY <1>0, <2>1, <2>4 DEF Control, Editing, Replaced, Continues
  <2> QED
    BY <2>1, <2>5, <2>6, <2>7 DEF Replaced, Editing
<1>7. ASSUME DropPhotos(r)
      PROVE  \E q \in InFlight :
               /\ Control(q) /\ Becomes(r, q)
               /\ UNCHANGED rows /\ UNCHANGED <<old, job, shown>> /\ edits' \in 0..MaxEdits
               /\ q = Idle \/ (req[r].pc \in Replaced /\ Continues(req[r], q))
  <2>1. UNCHANGED rows /\ UNCHANGED <<old, job, shown>> /\ edits' \in 0..MaxEdits
        /\ req[r].pc = "photos"
    BY <1>7 DEF DropPhotos, Typed, At
  <2>2. CASE End(r)
    BY <1>0, <2>1, <2>2 DEF End
  <2>3. CASE ~End(r)
    <3> DEFINE drop == PhotosOf(req[r].dine) \ ToSet(req[r].keep)
               pc == IF req[r].keep = <<>> THEN "commit" ELSE "order"
               q == [req[r] EXCEPT !.drop = drop, !.pc = pc]
    <3>1. Becomes(r, q)
      BY <1>7, <2>3 DEF DropPhotos
    <3>2. /\ q.pc = pc /\ q.dine = req[r].dine /\ q.edit = req[r].edit /\ q.form = req[r].form
          /\ q.holds = req[r].holds /\ q.keep = req[r].keep
          /\ q.cleared = req[r].cleared /\ q.untagged = req[r].untagged
      BY <1>0 DEF InFlight
    <3>3. drop \in SUBSET PhotoIds
      BY DEF PhotosOf
    <3>4. q \in InFlight
      BY <1>0, <3>3 DEF InFlight, Steps
    <3> HIDE DEF q
    <3>5. Control(q) /\ Continues(req[r], q)
      BY <1>0, <2>1, <3>2 DEF Control, Editing, Replaced, Continues
    <3> QED
      BY <2>1, <3>1, <3>4, <3>5 DEF Replaced, Editing
  <2> QED
    BY <2>2, <2>3
<1>8. ASSUME OrderPhoto(r)
      PROVE  \E q \in InFlight :
               /\ Control(q) /\ Becomes(r, q)
               /\ UNCHANGED rows /\ UNCHANGED <<old, job, shown>> /\ edits' \in 0..MaxEdits
               /\ req[r].pc \in Replaced /\ Continues(req[r], q)
  <2>1. UNCHANGED rows /\ UNCHANGED <<old, job, shown>> /\ edits' \in 0..MaxEdits
        /\ req[r].pc = "order"
    BY <1>8 DEF OrderPhoto, Typed, At
  <2> DEFINE k == req[r].placed + 1
             pc == IF k = Len(req[r].keep) THEN "commit" ELSE "order"
             q == [req[r] EXCEPT !.placed = k, !.pc = pc]
  <2>2. Becomes(r, q)
    BY <1>8 DEF OrderPhoto
  <2>3. /\ q.pc = pc /\ q.dine = req[r].dine /\ q.edit = req[r].edit /\ q.form = req[r].form
        /\ q.holds = req[r].holds /\ q.keep = req[r].keep
        /\ q.cleared = req[r].cleared /\ q.untagged = req[r].untagged
    BY <1>0 DEF InFlight
  <2>4. k \in Nat
    BY <1>0 DEF InFlight
  <2>5. q \in InFlight
    BY <1>0, <2>4 DEF InFlight, Steps
  <2> HIDE DEF q
  <2>6. Control(q) /\ Continues(req[r], q)
    BY <1>0, <2>1, <2>3 DEF Control, Editing, Replaced, Continues
  <2> QED
    BY <2>1, <2>2, <2>5, <2>6 DEF Replaced, Editing
<1>9. ASSUME Fail(r)
      PROVE  \E q \in InFlight :
               /\ Control(q) /\ Becomes(r, q)
               /\ UNCHANGED rows /\ UNCHANGED <<old, job, shown>> /\ edits' \in 0..MaxEdits
               /\ q = Idle
  BY <1>0, <1>9 DEF Fail, End, Typed
<1> QED
  BY <1>1, <1>2, <1>3, <1>4, <1>5, <1>6, <1>7, <1>8, <1>9

\* Every statement but the commit and the cascade leaves the tables alone.
LEMMA MovesKeep ==
  ASSUME Inv, NEW r \in Requests,
         \/ \E v \in Dines : BeginCreate(r, v) \/ BeginUpdate(r, v) \/ BeginDelete(r, v)
         \/ LockDine(r) \/ Replace(r) \/ AttachTag(r)
         \/ DropPhotos(r) \/ OrderPhoto(r) \/ Fail(r)
  PROVE  Inv'
<1>1. PICK q \in InFlight :
           /\ Control(q) /\ Becomes(r, q)
           /\ UNCHANGED rows /\ UNCHANGED <<old, job, shown>> /\ edits' \in 0..MaxEdits
           /\ \/ q = Idle
              \/ /\ q.holds = FALSE /\ q.pc = "lockDine"
              \/ /\ q.holds /\ q.pc \notin Replaced /\ q.dine \in Dines
                 /\ \A o \in Requests \ {r} : ~ (req[o].holds /\ req[o].dine = q.dine)
              \/ /\ req[r].pc = "newTag"
                 /\ q.holds = req[r].holds /\ q.dine = req[r].dine
                 /\ q.cleared = ratings[q.dine] /\ q.untagged = tagged[q.dine]
              \/ req[r].pc \in Replaced /\ Continues(req[r], q)
  BY Moves, Zenon DEF Inv
<1>2. Typed /\ Controlled /\ Apart /\ Snapshots /\ SetsAsSubmitted
  BY DEF Inv
<1>3. /\ req' \in [Requests -> InFlight] /\ Controlled' /\ req'[r] = q
      /\ \A o \in Requests \ {r} : req'[o] = req[o]
  BY <1>1, <1>2, Put DEF Typed
<1>4. /\ dines' = dines /\ ratings' = ratings /\ tagged' = tagged /\ shown' = shown
  BY <1>1 DEF rows
<1>5. Typed'
  BY <1>1, <1>2, <1>3, <1>4 DEF Typed
<1>6. ~ Idle.holds /\ Idle.pc = "idle"
  BY DEF Idle
<1>7. Apart'
  <2>1. ASSUME NEW o \in Requests \ {r}, req[o].holds, q.holds, req[o].dine = q.dine
        PROVE  FALSE
    BY <1>1, <1>2, <1>6, <2>1 DEF Apart, Continues
  <2>2. SUFFICES ASSUME NEW a \in Requests, NEW b \in Requests,
                        req'[a].holds, req'[b].holds, req'[a].dine = req'[b].dine
                 PROVE  a = b
    BY DEF Apart
  <2> QED
    BY <1>2, <1>3, <2>1, <2>2 DEF Apart
<1>8. Snapshots'
  <2>1. SUFFICES ASSUME NEW o \in Requests, req'[o].pc \in Replaced
                 PROVE  /\ req'[o].cleared = ratings[req'[o].dine]
                        /\ req'[o].untagged = tagged[req'[o].dine]
    BY <1>4 DEF Snapshots
  <2>2. CASE o # r
    BY <1>2, <1>3, <2>1, <2>2 DEF Snapshots
  <2>3. CASE o = r
    BY <1>1, <1>2, <1>3, <1>6, <2>1, <2>3 DEF Snapshots, Continues, Replaced, Editing
  <2> QED
    BY <2>2, <2>3
<1>9. SetsAsSubmitted'
  BY <1>2, <1>4 DEF SetsAsSubmitted
<1> QED
  BY <1>3, <1>5, <1>7, <1>8, <1>9 DEF Inv

\* A request that ends leaves the dines of those that hold one to them.
LEMMA EndKeeps ==
  ASSUME Inv, NEW r \in Requests, req[r].holds, End(r),
         \A v \in Dines \ {req[r].dine} :
             ratings'[v] = ratings[v] /\ tagged'[v] = tagged[v]
  PROVE  req' \in [Requests -> InFlight] /\ Controlled' /\ Apart' /\ Snapshots'
<1>1. Typed /\ Controlled /\ Apart /\ Snapshots
  BY DEF Inv
<1>2. /\ req' \in [Requests -> InFlight] /\ Controlled' /\ req'[r] = Idle
      /\ \A o \in Requests \ {r} : req'[o] = req[o]
  BY <1>1, IdleOK, Put DEF Typed, End
<1>3. ~ Idle.holds /\ Idle.pc \notin Replaced
  BY DEF Idle, Replaced, Editing
<1>4. Apart'
  BY <1>1, <1>2, <1>3 DEF Apart
<1>5. Snapshots'
  <2>1. SUFFICES ASSUME NEW o \in Requests, req'[o].pc \in Replaced
                 PROVE  /\ req'[o].cleared = ratings'[req'[o].dine]
                        /\ req'[o].untagged = tagged'[req'[o].dine]
    BY DEF Snapshots
  <2>2. o # r /\ req'[o] = req[o]
    BY <1>2, <1>3, <2>1
  <2>3. req[o].holds /\ req[o].dine \in Dines
    BY <1>1, <2>1, <2>2 DEF Controlled, Control, Replaced, Editing
  <2>4. req[o].dine # req[r].dine
    BY <1>1, <2>2, <2>3 DEF Apart
  <2> QED
    BY <1>1, <2>1, <2>2, <2>3, <2>4 DEF Snapshots
<1> QED
  BY <1>2, <1>4, <1>5

\* A commit puts its whole form in the place of all that was there.
LEMMA CommitKeeps ==
  ASSUME Inv, NEW r \in Requests, Commit(r)
  PROVE  Inv'
<1> DEFINE v == req[r].dine
<1>1. Typed /\ Controlled /\ Apart /\ Snapshots /\ SetsAsSubmitted
  BY DEF Inv
<1>2. req[r] \in InFlight /\ req[r].pc = "commit" /\ req[r].holds
      /\ v \in Dines /\ req[r].edit \in Edits
  BY <1>1 DEF Commit, At, Typed, Controlled, Control, Editing
<1>3. req[r].cleared = ratings[v] /\ req[r].untagged = tagged[v]
  BY <1>1, <1>2 DEF Snapshots, Replaced, Editing
<1>4. PICK made \in FreshIds(req[r].form.added) :
         shown' = [shown EXCEPT ![v] = [ratings |-> NewRatings(r), tags |-> req[r].attached,
                                        strip |-> req[r].keep \o made]]
  BY DEF Commit
<1>5. /\ dines' = [dines EXCEPT ![v] = req[r].edit]
      /\ ratings' = [ratings EXCEPT ![v] = NewRatings(r)]
      /\ tagged' = [tagged EXCEPT ![v] = req[r].attached]
      /\ End(r) /\ edits' = edits
  BY <1>1, <1>2, <1>3 DEF Commit, Typed
<1>6. NewRatings(r) \in SUBSET Score
  <2>1. req[r].form.people \subseteq People
    BY <1>2, FormOK DEF InFlight, NoForm
  <2> QED
    BY <1>2, <2>1 DEF NewRatings, Score
<1>7. \A s \in NewRatings(r) : s.score = req[r].edit
  BY DEF NewRatings
<1>8. made \in Seq(PhotoIds)
  <2>1. req[r].form.added \in Nat
    BY <1>2, FormOK DEF InFlight, NoForm
  <2>2. made \in [1..req[r].form.added -> PhotoIds]
    BY <1>4 DEF FreshIds
  <2> QED
    BY <2>1, <2>2
<1>9. req' \in [Requests -> InFlight] /\ Controlled' /\ Apart' /\ Snapshots'
  <2>1. \A w \in Dines \ {v} : ratings'[w] = ratings[w] /\ tagged'[w] = tagged[w]
    BY <1>1, <1>5 DEF Typed
  <2> QED
    BY <1>2, <1>5, <2>1, EndKeeps
<1> DEFINE page == [ratings |-> NewRatings(r), tags |-> req[r].attached,
                    strip |-> req[r].keep \o made]
<1>10. page \in Pages
  BY <1>2, <1>6, <1>8 DEF Pages, InFlight
<1>11. /\ page.ratings = NewRatings(r) /\ page.tags = req[r].attached
       /\ shown' = [shown EXCEPT ![v] = page]
  BY <1>4
<1>12. Typed'
  <2>1. req[r].attached \in SUBSET Tags
    BY <1>2 DEF InFlight
  <2> HIDE DEF page
  <2> QED
    BY <1>1, <1>2, <1>5, <1>6, <1>9, <1>10, <1>11, <2>1 DEF Typed
<1>13. SetsAsSubmitted'
  <2> HIDE DEF page
  <2>1. SUFFICES ASSUME NEW w \in Dines, dines'[w] \in Edits
                 PROVE  /\ ratings'[w] = shown'[w].ratings
                        /\ tagged'[w] = shown'[w].tags
                        /\ \A s \in ratings'[w] : s.score = dines'[w]
    BY DEF SetsAsSubmitted
  <2>2. CASE w = v
    BY <1>1, <1>2, <1>5, <1>7, <1>11, <2>2 DEF Typed
  <2>3. CASE w # v
    BY <1>1, <1>5, <1>11, <2>1, <2>3 DEF Typed, SetsAsSubmitted
  <2> QED
    BY <2>2, <2>3
<1> QED
  BY <1>9, <1>12, <1>13 DEF Inv

\* A deletion leaves nothing of the dine.
LEMMA CascadeKeeps ==
  ASSUME Inv, NEW r \in Requests, Cascade(r)
  PROVE  Inv'
<1> DEFINE v == req[r].dine
<1>1. Typed /\ Controlled /\ SetsAsSubmitted
  BY DEF Inv
<1>2. req[r].holds /\ v \in Dines
  BY <1>1 DEF Cascade, At, Controlled, Control
<1>3. /\ dines' = [dines EXCEPT ![v] = Gone]
      /\ ratings' = [ratings EXCEPT ![v] = {}]
      /\ tagged' = [tagged EXCEPT ![v] = {}]
      /\ shown' = [shown EXCEPT ![v] = Blank]
      /\ End(r) /\ edits' = edits
  BY DEF Cascade
<1>4. req' \in [Requests -> InFlight] /\ Controlled' /\ Apart' /\ Snapshots'
  <2>1. \A w \in Dines \ {v} : ratings'[w] = ratings[w] /\ tagged'[w] = tagged[w]
    BY <1>1, <1>3 DEF Typed
  <2> QED
    BY <1>2, <1>3, <2>1, EndKeeps
<1>5. Blank \in Pages /\ Blank.ratings = {} /\ Blank.tags = {}
  BY DEF Blank, Pages
<1>6. Typed'
  BY <1>1, <1>2, <1>3, <1>4, <1>5 DEF Typed
<1>7. SetsAsSubmitted'
  BY <1>1, <1>2, <1>3, <1>5 DEF Typed, SetsAsSubmitted
<1> QED
  BY <1>4, <1>6, <1>7 DEF Inv

\* At first there is one dine, of the previous release, and no request.
LEMMA InvInit == Init => Inv
<1> SUFFICES ASSUME Init PROVE Inv
  OBVIOUS
<1>1. OldDine \in Dines
  BY DetailsAssumption DEF OldDine
<1>2. MaxEdits \in Nat /\ 0 \in Edits
  BY DetailsAssumption DEF Edits
<1>3. OldRatings \in SUBSET Score /\ \A s \in OldRatings : s.score = 0
  BY <1>2 DEF OldRatings, Score
<1>4. OldStrip \in Seq(PhotoIds)
  <2>1. Legacy \in Nat /\ Legacy <= MaxPhotos /\ MaxPhotos \in Nat
    BY DetailsAssumption
  <2> QED
    BY <2>1 DEF OldStrip, PhotoIds
<1>5. Blank \in Pages /\ [ratings |-> OldRatings, tags |-> {}, strip |-> OldStrip] \in Pages
  BY <1>3, <1>4 DEF Blank, Pages
<1>6. Typed
  BY <1>2, <1>3, <1>5, IdleOK DEF Init, Typed
<1>7. Controlled /\ Apart /\ Snapshots
  <2>1. \A r \in Requests : req[r] = Idle
    BY DEF Init
  <2>2. ~ Idle.holds /\ Idle.pc \notin Replaced
    BY DEF Idle, Replaced, Editing
  <2> QED
    BY <2>1, <2>2, IdleOK DEF Controlled, Apart, Snapshots
<1>8. SetsAsSubmitted
  BY <1>1, <1>2, <1>3 DEF Init, SetsAsSubmitted, Blank
<1> QED
  BY <1>6, <1>7, <1>8 DEF Inv

\* Every step of requests, job and old replicas keeps the invariant.
LEMMA InvStep == Inv /\ [Next]_vars => Inv'
<1> SUFFICES ASSUME Inv, [Next]_vars PROVE Inv'
  OBVIOUS
<1>1. ASSUME NEW r \in Requests, Request(r) PROVE Inv'
  BY <1>1, MovesKeep, CommitKeeps, CascadeKeeps, Zenon DEF Request
<1>2. CASE UNCHANGED <<dines, ratings, tagged, edits, req, shown>>
  BY <1>2 DEF Inv, Typed, Controlled, Control, Apart, Snapshots, SetsAsSubmitted
<1>3. \/ \E r \in Requests : Request(r)
      \/ UNCHANGED <<dines, ratings, tagged, edits, req, shown>>
  BY DEF Next, vars, rows, OldRewrite, OldStop, JobStart, JobStep, JobBatch, JobRow, JobFill,
         JobCount, JobAudit, JobTimeout, JobFail, JobBecomes
<1> QED
  BY <1>1, <1>2, <1>3

\* For any number of requests, dines and forms: what is stored of a dine's
\* ratings and tags is what the form that wrote its row last submitted, since
\* replaceVisitRatingsAndTags deletes under the lock of the dine.
THEOREM SetsCorrect == Spec => []SetsAsSubmitted
<1>1. Inv => SetsAsSubmitted
  BY DEF Inv
<1> QED
  BY <1>1, InvInit, InvStep, PTL DEF Spec

\* A request that waits for the lock of a tag waits for one that typed it.
LEMMA TagsWait ==
  ASSUME Controlled, NEW r \in Requests, req[r].pc = "tags", NEW q \in Blockers(r)
  PROVE  q \in Requests /\ req[q].newTag # None
<1>1. PICK g \in NextTags(r) : q \in Typing(g)
  BY DEF Blockers, AttachWaits
<1>2. g # None
  BY <1>1 DEF NextTags, ToAttach
<1> QED
  BY <1>1, <1>2 DEF Typing

\* Any number of requests: a circle of waiting ones runs among those that typed
\* a tag, so forms that only tick tags never wait for one another in a circle.
THEOREM NewTagsCorrect == Spec => []OnlyNewTagsDeadlock
<1>1. ASSUME Inv, NEW C \in (SUBSET Requests) \ {{}}, \A r \in C : Blockers(r) \cap C # {}
      PROVE  LET typed == {r \in C : req[r].newTag # None}
             IN  typed # {} /\ \A r \in typed : Blockers(r) \cap typed # {}
  <2> DEFINE typed == {r \in C : req[r].newTag # None}
  <2>1. \A r \in C : Control(req[r])
    BY <1>1 DEF Inv, Controlled
  <2>2. \A r \in C : req[r].pc \in {"lockDine", "newTag", "tags"}
    BY <1>1 DEF Blockers
  <2>3. \A r \in typed : req[r].pc = "tags"
    BY <2>1, <2>2 DEF Control, Replaced, Editing
  <2>4. \A r \in C : req[r].pc = "tags" => Blockers(r) \cap typed # {}
    BY <1>1, TagsWait DEF Inv
  <2>5. \A r \in C : req[r].pc = "newTag" => \E q \in C : req[q].pc = "tags"
    <3>1. SUFFICES ASSUME NEW r \in C, req[r].pc = "newTag"
                   PROVE  \E q \in C : req[q].pc = "tags"
      OBVIOUS
    <3>2. PICK q \in C : q \in Blockers(r)
      BY <1>1, <3>1
    <3>3. req[q].newTag # None \/ req[q].attached # {}
      BY <3>1, <3>2 DEF Blockers, Typing, Attaching
    <3> QED
      BY <2>1, <2>2, <3>2, <3>3 DEF Control, Replaced, Editing
  <2>6. \A r \in C : req[r].pc = "lockDine" => \E q \in C : req[q].pc \in {"newTag", "tags"}
    <3>1. SUFFICES ASSUME NEW r \in C, req[r].pc = "lockDine"
                   PROVE  \E q \in C : req[q].pc \in {"newTag", "tags"}
      OBVIOUS
    <3>2. PICK q \in C : q \in Blockers(r)
      BY <1>1, <3>1
    <3>3. req[q].holds
      BY <3>1, <3>2 DEF Blockers, HeldBy
    <3> QED
      BY <2>1, <2>2, <3>2, <3>3 DEF Control, Editing
  <2>7. \E r \in C : req[r].pc = "tags"
    <3>1. PICK r \in C : TRUE
      BY <1>1
    <3>2. PICK q \in C : req[q].pc \in {"newTag", "tags"}
      BY <2>2, <2>6, <3>1
    <3> QED
      BY <2>5, <3>2
  <2> QED
    BY <2>3, <2>4, <2>7
<1>2. Inv => OnlyNewTagsDeadlock
  BY <1>1 DEF OnlyNewTagsDeadlock
<1> QED
  BY <1>2, InvInit, InvStep, PTL DEF Spec

-----------------------------------------------------------------------------
(* The job *)

PhotosTyped == photos \in [PhotoIds -> PhotoRow \cup {None, Gone}]

\* The job's state has its fields, and a run is final only without old replicas.
JobTyped ==
    /\ job = [pc |-> job.pc, ids |-> job.ids, processed |-> job.processed,
              lock |-> job.lock, final |-> job.final, runs |-> job.runs]
    /\ job.final => ~old

\* The photo the job is filling is stored, and no request removes it.
Locked == job.pc = "fill" =>
    /\ job.lock \in PhotoIds /\ photos[job.lock] \in PhotoRow
    /\ \A r \in Requests : job.lock \notin req[r].drop

JobInv == PhotosTyped /\ JobTyped /\ Locked /\ FinalRunHolds

\* What a request is about to remove the job does not have.
LEMMA DropsFree ==
  ASSUME Typed, NEW r \in Requests, Request(r)
  PROVE  \A o \in Requests : \/ req'[o].drop \in {{}, req[o].drop}
                             \/ job.lock \notin req'[o].drop
<1>1. req \in [Requests -> InFlight] /\ Idle.drop = {}
  BY DEF Typed, Idle
<1>2. ASSUME NEW q, Becomes(r, q), q.drop \in {{}, req[r].drop} \/ job.lock \notin q.drop
      PROVE  \A o \in Requests : \/ req'[o].drop \in {{}, req[o].drop}
                                 \/ job.lock \notin req'[o].drop
  BY <1>1, <1>2 DEF Becomes
<1>3. CASE End(r)
  BY <1>1, <1>2, <1>3 DEF End
<1>4. CASE \E v \in Dines : BeginCreate(r, v) \/ BeginUpdate(r, v) \/ BeginDelete(r, v)
  <2>1. PICK q : Becomes(r, q) /\ q.drop = {}
    <3>1. ASSUME NEW v \in Dines, BeginCreate(r, v) PROVE \E q : Becomes(r, q) /\ q.drop = {}
      <4>1. PICK f \in Forms :
               Becomes(r, [Idle EXCEPT !.pc = "newTag", !.dine = v, !.edit = edits + 1,
                                       !.form = f, !.holds = TRUE])
        BY <3>1 DEF BeginCreate
      <4>2. [Idle EXCEPT !.pc = "newTag", !.dine = v, !.edit = edits + 1,
                         !.form = f, !.holds = TRUE].drop = {}
        BY DEF Idle
      <4> QED
        BY <4>1, <4>2
    <3>2. ASSUME NEW v \in Dines, BeginUpdate(r, v) PROVE \E q : Becomes(r, q) /\ q.drop = {}
      <4>1. \E f \in Forms : \E k \in Keeps(v, MaxVisitPhotos - f.added) :
               Becomes(r, [Idle EXCEPT !.pc = "lockDine", !.dine = v, !.edit = edits + 1,
                                       !.form = f, !.keep = k])
        BY <3>2 DEF BeginUpdate
      <4>2. \A f, k : [Idle EXCEPT !.pc = "lockDine", !.dine = v, !.edit = edits + 1,
                                   !.form = f, !.keep = k].drop = {}
        BY DEF Idle
      <4> QED
        BY <4>1, <4>2
    <3>3. ASSUME NEW v \in Dines, BeginDelete(r, v) PROVE \E q : Becomes(r, q) /\ q.drop = {}
      <4>1. Becomes(r, [Idle EXCEPT !.pc = "lockDine", !.dine = v])
        BY <3>3 DEF BeginDelete
      <4>2. [Idle EXCEPT !.pc = "lockDine", !.dine = v].drop = {}
        BY DEF Idle
      <4> QED
        BY <4>1, <4>2
    <3> QED
      BY <1>4, <3>1, <3>2, <3>3
  <2> QED
    BY <1>2, <2>1
<1>5. CASE LockDine(r) /\ ~End(r)
  BY <1>1, <1>2, <1>5 DEF LockDine, InFlight
<1>6. CASE Replace(r)
  BY <1>1, <1>2, <1>6 DEF Replace, InFlight
<1>7. CASE AttachTag(r)
  BY <1>1, <1>2, <1>7 DEF AttachTag, InFlight
<1>8. CASE DropPhotos(r) /\ ~End(r)
  <2> DEFINE drop == PhotosOf(req[r].dine) \ ToSet(req[r].keep)
             q == [req[r] EXCEPT !.drop = drop,
                          !.pc = IF req[r].keep = <<>> THEN "commit" ELSE "order"]
  <2>1. job.lock \notin drop /\ Becomes(r, q)
    BY <1>8 DEF DropPhotos, Free
  <2>2. q.drop = drop
    BY <1>1 DEF InFlight
  <2> HIDE DEF q, drop
  <2> QED
    BY <1>2, <2>1, <2>2
<1>9. CASE OrderPhoto(r)
  BY <1>1, <1>2, <1>9 DEF OrderPhoto, InFlight
<1> QED
  BY <1>3, <1>4, <1>5, <1>6, <1>7, <1>8, <1>9 DEF Request, Cascade, Commit, Fail

\* The numbers of k kept and n new photos are within the limit.
LEMMA OrdersIn ==
  ASSUME NEW k \in Nat, NEW n \in Nat, NEW m \in Nat, k + n <= m
  PROVE  /\ \A i \in 1..k : i - 1 \in 0..(m - 1)
         /\ \A i \in 1..n : k + i - 1 \in 0..(m - 1)
OBVIOUS

\* Each row after a commit: removed, with the same bytes, or a new one with bytes.
LEMMA RowAfter ==
  ASSUME PhotosTyped, Typed, Controlled, NEW r \in Requests, req[r].dine \in Dines,
         NEW made \in FreshIds(req[r].form.added), NEW p \in PhotoIds
  PROVE  LET row == PhotosAfter(r, made)[p] IN
         \/ p \in req[r].drop /\ row = Gone
         \/ Stored(p) /\ row \in PhotoRow /\ row.bytes = photos[p].bytes
         \/ row \in PhotoRow /\ row.bytes
         \/ row = photos[p]
<1> DEFINE keep == req[r].keep
           orders == [q \in ToSet(keep) |-> CHOOSE i \in DOMAIN keep : keep[i] = q]
           added == [q \in ToSet(made) |-> CHOOSE i \in DOMAIN made : made[i] = q]
           row == PhotosAfter(r, made)[p]
<1>1. /\ req[r] \in InFlight /\ keep \in Seq(PhotoIds)
      /\ Len(keep) + req[r].form.added <= MaxVisitPhotos
      /\ MaxVisitPhotos \in Nat
  BY DetailsAssumption DEF Typed, Controlled, Control, InFlight
<1>2. req[r].form.added \in Nat
  BY <1>1, FormOK DEF InFlight, NoForm
<1>3. PhotosAfter(r, made) =
        [q \in PhotoIds |->
           CASE q \in req[r].drop -> Gone
             [] q \in DOMAIN orders /\ q \in PhotosOf(req[r].dine) ->
                  [photos[q] EXCEPT !.order = orders[q] - 1]
             [] q \in DOMAIN added ->
                  [dine |-> req[r].dine, bytes |-> TRUE, order |-> Len(keep) + added[q] - 1]
             [] OTHER -> photos[q]]
  BY DEF PhotosAfter
<1>4. DOMAIN orders = ToSet(keep) /\ DOMAIN added = ToSet(made)
  OBVIOUS
<1>5. row =
        CASE p \in req[r].drop -> Gone
          [] p \in ToSet(keep) /\ p \in PhotosOf(req[r].dine) ->
               [photos[p] EXCEPT !.order = orders[p] - 1]
          [] p \in ToSet(made) ->
               [dine |-> req[r].dine, bytes |-> TRUE, order |-> Len(keep) + added[p] - 1]
          [] OTHER -> photos[p]
  <2> HIDE DEF orders, added
  <2> QED
    BY <1>3, <1>4
<1>6. \/ p \in req[r].drop /\ row = Gone
      \/ /\ p \in ToSet(keep) /\ p \in PhotosOf(req[r].dine)
         /\ row = [photos[p] EXCEPT !.order = orders[p] - 1]
      \/ /\ p \in ToSet(made)
         /\ row = [dine |-> req[r].dine, bytes |-> TRUE, order |-> Len(keep) + added[p] - 1]
      \/ row = photos[p]
  <2> HIDE DEF row, orders, added
  <2> QED
    BY <1>5
<1>7. CASE /\ p \in ToSet(keep) /\ p \in PhotosOf(req[r].dine)
           /\ row = [photos[p] EXCEPT !.order = orders[p] - 1]
  <2>1. \E i \in DOMAIN keep : keep[i] = p
    BY <1>7 DEF ToSet
  <2>2. orders[p] \in DOMAIN keep
    BY <1>7, <2>1
  <2>3. orders[p] - 1 \in 0..(MaxVisitPhotos - 1)
    <3>1. orders[p] \in 1..Len(keep) /\ Len(keep) \in Nat
      BY <1>1, <2>2
    <3> HIDE DEF orders
    <3> QED
      BY <1>1, <1>2, <3>1, OrdersIn
  <2>4. Stored(p) /\ photos[p] \in PhotoRow
    BY <1>7 DEF PhotosOf, Stored, PhotosTyped
  <2> HIDE DEF orders, row
  <2>5. row \in PhotoRow /\ row.bytes = photos[p].bytes
    BY <1>7, <2>3, <2>4 DEF PhotoRow
  <2> QED
    BY <2>4, <2>5 DEF row
<1>8. CASE /\ p \in ToSet(made)
           /\ row = [dine |-> req[r].dine, bytes |-> TRUE, order |-> Len(keep) + added[p] - 1]
  <2>1. \E i \in DOMAIN made : made[i] = p
    BY <1>8 DEF ToSet
  <2>2. added[p] \in DOMAIN made
    BY <1>8, <2>1
  <2>3. Len(keep) + added[p] - 1 \in 0..(MaxVisitPhotos - 1)
    <3>1. added[p] \in 1..req[r].form.added
      BY <2>2 DEF FreshIds
    <3>2. Len(keep) \in Nat
      BY <1>1
    <3> HIDE DEF added
    <3> QED
      BY <1>1, <1>2, <3>1, <3>2, OrdersIn
  <2> HIDE DEF added, keep, row
  <2>4. row \in PhotoRow /\ row.bytes
    BY <1>8, <2>3 DEF PhotoRow
  <2> QED
    BY <2>4 DEF row
<1> HIDE DEF row
<1> QED
  BY <1>7, <1>8, <1>6 DEF row

\* What counting a row of the batch changes of the job.
LEMMA RowDoneIs ==
  ASSUME JobTyped, NEW p
  PROVE  /\ RowDone(p) = [pc |-> RowDone(p).pc, ids |-> RowDone(p).ids,
                          processed |-> RowDone(p).processed, lock |-> RowDone(p).lock,
                          final |-> RowDone(p).final, runs |-> RowDone(p).runs]
         /\ RowDone(p).pc \in {"batch", "row"} /\ RowDone(p).final = job.final
<1> DEFINE ids == Tail(job.ids)
           processed == job.processed + 1
           pc == IF Len(job.ids) = 1 THEN "batch" ELSE "row"
<1>1. job = [pc |-> job.pc, ids |-> job.ids, processed |-> job.processed,
             lock |-> job.lock, final |-> job.final, runs |-> job.runs]
  BY DEF JobTyped
<1>2. RowDone(p) = [job EXCEPT !.ids = ids, !.processed = processed, !.lock = None, !.pc = pc]
  BY <1>1 DEF RowDone
<1>3. pc \in {"batch", "row"}
  OBVIOUS
<1> HIDE DEF ids, processed, pc
<1> QED
  BY <1>1, <1>2, <1>3

\* The job is off at first.
LEMMA JobInit == Init => JobInv
<1> SUFFICES ASSUME Init PROVE JobInv
  OBVIOUS
<1>1. /\ OldDine \in Dines /\ Legacy \in Nat /\ Legacy <= MaxVisitPhotos
      /\ MaxVisitPhotos \in Nat
  BY DetailsAssumption DEF OldDine
<1>2. \A p \in PhotoIds : p <= Legacy =>
         [dine |-> OldDine, order |-> p - 1, bytes |-> FALSE] \in PhotoRow
  BY <1>1, DetailsAssumption DEF PhotoRow, PhotoIds
<1>3. PhotosTyped
  BY <1>2 DEF Init, PhotosTyped
<1> QED
  BY <1>3 DEF Init, JobInv, JobTyped, Locked, FinalRunHolds, Resting

\* A request's step takes no bytes from a photo that stays.
LEMMA RequestKeepsJob ==
  ASSUME Inv, JobInv, NEW r \in Requests, Request(r)
  PROVE  JobInv'
<1>1. Typed /\ Controlled /\ PhotosTyped /\ JobTyped /\ Locked /\ FinalRunHolds
  BY DEF Inv, JobInv
<1>2. UNCHANGED <<job, old>>
  BY DEF Request, BeginCreate, BeginUpdate, BeginDelete, LockDine, Cascade, Replace, AttachTag,
         DropPhotos, OrderPhoto, Commit, Fail
<1>3. JobTyped'
  BY <1>1, <1>2 DEF JobTyped
<1>4. \A p \in PhotoIds :
        \/ photos'[p] = Gone /\ (job.pc = "fill" => p # job.lock)
        \/ Stored(p) /\ photos'[p] \in PhotoRow /\ photos'[p].bytes = photos[p].bytes
        \/ photos'[p] \in PhotoRow /\ photos'[p].bytes
        \/ photos'[p] = photos[p]
  <2>1. CASE UNCHANGED photos
    BY <2>1
  <2>2. CASE Cascade(r)
    BY <2>2 DEF Cascade, Free
  <2>3. CASE Commit(r)
    <3>1. PICK made \in FreshIds(req[r].form.added) : photos' = PhotosAfter(r, made)
      BY <2>3 DEF Commit
    <3>2. \A p \in req[r].drop : job.pc = "fill" => p # job.lock
      BY <1>1 DEF Locked
    <3>3. req[r].dine \in Dines
      BY <1>1, <2>3 DEF Commit, At, Controlled, Control
    <3> QED
      BY <1>1, <3>1, <3>2, <3>3, RowAfter
  <2>4. UNCHANGED photos \/ Cascade(r) \/ Commit(r)
    BY DEF Request, rows, BeginCreate, BeginUpdate, BeginDelete, LockDine, Replace, AttachTag,
           DropPhotos, OrderPhoto, Fail
  <2> QED
    BY <2>1, <2>2, <2>3, <2>4
<1>5. PhotosTyped'
  <2>1. photos' = [p \in PhotoIds |-> photos'[p]]
    BY <1>1 DEF PhotosTyped, Request, rows, BeginCreate, BeginUpdate, BeginDelete, LockDine,
                Cascade, Replace, AttachTag, DropPhotos, OrderPhoto, Commit, Fail, PhotosAfter
  <2> QED
    BY <1>1, <1>4, <2>1 DEF PhotosTyped
<1>6. Locked'
  BY <1>1, <1>2, <1>4, DropsFree DEF Locked
<1>7. FinalRunHolds'
  BY <1>1, <1>2, <1>4 DEF FinalRunHolds, Stored, PhotosTyped
<1> QED
  BY <1>3, <1>5, <1>6, <1>7 DEF JobInv

\* Every statement of the job keeps what is known of the job and the photos.
LEMMA JobKeepsJob ==
  ASSUME Inv, JobInv, JobStart \/ JobStep \/ JobFail
  PROVE  JobInv'
<1>1. PhotosTyped /\ JobTyped /\ Locked /\ FinalRunHolds
  BY DEF JobInv
<1>2. UNCHANGED <<req, old>>
  BY DEF JobStart, JobStep, JobBatch, JobRow, JobFill, JobCount, JobAudit, JobTimeout, JobFail,
         JobBecomes
<1>3. CASE JobFill
  <2>1. /\ photos' = [photos EXCEPT ![job.lock].bytes = TRUE]
        /\ job.lock \in PhotoIds /\ photos[job.lock] \in PhotoRow
    BY <1>1, <1>3 DEF JobFill, Locked
  <2>2. PhotosTyped'
    <3>1. [photos[job.lock] EXCEPT !.bytes = TRUE] \in PhotoRow
      BY <2>1 DEF PhotoRow
    <3>2. photos' = [photos EXCEPT ![job.lock] = [photos[job.lock] EXCEPT !.bytes = TRUE]]
      BY <2>1
    <3> HIDE <2>1
    <3> QED
      BY <1>1, <2>1, <3>1, <3>2 DEF PhotosTyped
  <2>3. job'.pc \in {"batch", "row"} /\ JobTyped'
    <3>1. job' = RowDone(job.lock)
      BY <1>3 DEF JobFill
    <3> QED
      BY <1>1, <1>2, <3>1, RowDoneIs DEF JobTyped
  <2> QED
    BY <2>2, <2>3 DEF JobInv, Locked, FinalRunHolds
<1>4. CASE UNCHANGED photos
  <2>1. PhotosTyped'
    BY <1>1, <1>4 DEF PhotosTyped
  <2>2. CASE JobStart
    <3>1. /\ job'.pc = "batch" /\ job'.final = ~old
          /\ job' = [Resting EXCEPT !.pc = "batch", !.runs = job.runs + 1, !.final = ~old]
      BY <2>2 DEF JobStart, JobBecomes, Resting
    <3>2. JobTyped'
      BY <1>2, <3>1 DEF JobTyped, Resting
    <3> QED
      BY <2>1, <3>1, <3>2 DEF JobInv, Locked, FinalRunHolds
  <2>3. CASE JobBatch
    <3> DEFINE ids == FirstOf(Sorted(Missing, <), BatchLimit)
               pc == IF ids = <<>> THEN "count" ELSE "row"
    <3>1. job' = [job EXCEPT !.ids = ids, !.pc = pc] /\ pc \in {"count", "row"}
      BY <2>3, Zenon DEF JobBatch, JobBecomes
    <3> HIDE DEF ids, pc
    <3>2. job'.pc = pc /\ JobTyped'
      BY <1>1, <1>2, <3>1 DEF JobTyped
    <3> QED
      BY <2>1, <3>1, <3>2 DEF JobInv, Locked, FinalRunHolds
  <2>4. CASE JobRow
    <3> DEFINE p == Head(job.ids)
    <3>1. CASE p \in Missing /\ JobBecomes([job EXCEPT !.pc = "fill", !.lock = p])
      <4>1. job' = [job EXCEPT !.pc = "fill", !.lock = p]
        BY <3>1 DEF JobBecomes
      <4>2. job'.pc = "fill" /\ job'.lock = p /\ JobTyped'
        BY <1>1, <1>2, <4>1 DEF JobTyped
      <4>3. p \in PhotoIds /\ photos[p] \in PhotoRow
        BY <1>1, <3>1 DEF Missing, Stored, PhotosTyped
      <4>4. \A r \in Requests : p \notin req[r].drop
        BY <2>4 DEF JobRow, PhotoLocked
      <4> QED
        BY <1>2, <1>4, <2>1, <4>2, <4>3, <4>4 DEF JobInv, Locked, FinalRunHolds
    <3>2. CASE JobBecomes(RowDone(p))
      <4>1. job'.pc \in {"batch", "row"} /\ JobTyped'
        <5>1. job' = RowDone(p)
          BY <3>2 DEF JobBecomes
        <5> QED
          BY <1>1, <1>2, <5>1, RowDoneIs DEF JobTyped
      <4> QED
        BY <2>1, <4>1 DEF JobInv, Locked, FinalRunHolds
    <3> QED
      BY <2>4, <3>1, <3>2 DEF JobRow
  <2>5. CASE JobCount
    BY <1>1, <1>2, <2>1, <2>5 DEF JobCount, JobBecomes, JobInv, JobTyped, Locked, FinalRunHolds
  <2>6. CASE JobAudit
    <3>1. job'.pc \in {"done", "off"} /\ JobTyped' /\ (job'.pc = "done" => Missing = {})
      BY <1>1, <1>2, <2>6 DEF JobAudit, JobBecomes, JobTyped
    <3>2. Missing = {} => \A p \in PhotoIds : Stored(p) => photos[p].bytes
      BY DEF Missing
    <3> QED
      BY <1>4, <2>1, <3>1, <3>2 DEF JobInv, Locked, FinalRunHolds, Stored
  <2>7. CASE JobTimeout \/ JobFail
    BY <1>1, <1>2, <2>1, <2>7
    DEF JobTimeout, JobFail, JobBecomes, Stopped, Resting, JobInv, JobTyped, Locked, FinalRunHolds
  <2> QED
    BY <1>3, <2>2, <2>3, <2>4, <2>5, <2>6, <2>7 DEF JobStep, JobInv
<1> QED
  BY <1>3, <1>4
  DEF JobStart, JobStep, JobBatch, JobRow, JobCount, JobAudit, JobTimeout, JobFail, JobBecomes, rows

\* Every step keeps it.
LEMMA JobInvStep == Inv /\ JobInv /\ [Next]_vars => JobInv'
<1> SUFFICES ASSUME Inv, JobInv, [Next]_vars PROVE JobInv'
  OBVIOUS
<1>1. PhotosTyped /\ JobTyped /\ Locked /\ FinalRunHolds
  BY DEF JobInv
<1>2. ASSUME NEW v \in Dines, OldRewrite(v) PROVE JobInv'
  <2>1. UNCHANGED <<req, old, job>> /\ ~job.final
    BY <1>1, <1>2 DEF OldRewrite, JobTyped
  <2>2. photos' = [p \in PhotoIds |-> IF p \in PhotosOf(v)
                                     THEN [photos[p] EXCEPT !.bytes = FALSE] ELSE photos[p]]
    BY <1>2 DEF OldRewrite
  <2>3. \A p \in PhotosOf(v) : photos[p] \in PhotoRow
    BY <1>1 DEF PhotosOf, Stored, PhotosTyped
  <2>4. \A p \in PhotosOf(v) : [photos[p] EXCEPT !.bytes = FALSE] \in PhotoRow
    BY <2>3 DEF PhotoRow
  <2>5. PhotosTyped' /\ \A p \in PhotoIds : photos[p] \in PhotoRow => photos'[p] \in PhotoRow
    BY <1>1, <2>2, <2>4 DEF PhotosTyped
  <2> QED
    BY <1>1, <2>1, <2>5 DEF JobInv, JobTyped, Locked, FinalRunHolds
<1>3. CASE OldStop
  BY <1>1, <1>3 DEF OldStop, rows, JobInv, PhotosTyped, JobTyped, Locked, FinalRunHolds, Stored
<1>4. CASE UNCHANGED vars
  BY <1>1, <1>4 DEF vars, JobInv, PhotosTyped, JobTyped, Locked, FinalRunHolds, Stored
<1> QED
  BY <1>2, <1>3, <1>4, RequestKeepsJob, JobKeepsJob, Zenon DEF Next

\* For any photos, requests and old replicas: when a run that began after the
\* last old replica stopped reports success, no photo lacks its bytes, and no
\* edit takes them away again.
THEOREM FinalRunCorrect == Spec => []FinalRunHolds
<1>1. JobInv => FinalRunHolds
  BY DEF JobInv
<1> QED
  BY <1>1, InvInit, InvStep, JobInit, JobInvStep, PTL DEF Spec


-----------------------------------------------------------------------------
(* The photos a dine shows *)

\* A form names each photo it keeps once; once the dine's photos are reconciled
\* they are those it keeps and those it drops.
Reconciled(q) ==
    /\ IsInjective(q.keep)
    /\ q.pc \in {"order", "commit"} =>
          /\ ToSet(q.keep) \subseteq PhotosOf(q.dine)
          /\ q.drop = PhotosOf(q.dine) \ ToSet(q.keep)

\* The photos of a dine are those last saved, each numbered by its place.
Numbered(v) ==
    LET strip == shown[v].strip IN
    /\ Len(strip) <= MaxVisitPhotos /\ IsInjective(strip)
    /\ PhotosOf(v) = ToSet(strip)
    /\ \A i \in DOMAIN strip : photos[strip[i]].order = i - 1

PhotosKept == (\A r \in Requests : Reconciled(req[r])) /\ \A v \in Dines : Numbered(v)

\* What the job has yet to do, and the row it has locked.
Working ==
    /\ job.pc \in {"off", "batch", "row", "fill", "count", "audit", "done"}
    /\ job.ids \in Seq(PhotoIds) /\ job.lock \in OrNone(PhotoIds) /\ job.processed \in Nat
    /\ job.pc \in {"row", "fill"} => job.ids # <<>>

\* A strip that numbers the photos of a dine is the order Postgres lists them
\* in.
LEMMA StripSaved ==
  ASSUME Typed, NEW v \in Dines, Numbered(v)
  PROVE  Strip(v) = shown[v].strip
<1> DEFINE s == shown[v].strip
           n == Len(s)
           P == PhotosOf(v)
           Earlier(x) == {y \in P : \/ photos[y].order < photos[x].order
                                    \/ photos[y].order = photos[x].order /\ y < x}
           below == [x \in P |-> Earlier(x)]
<1>1. s \in Seq(PhotoIds) /\ n \in Nat /\ DOMAIN s = 1..n
  BY DEF Typed, Pages
<1>2. /\ P = {s[i] : i \in 1..n}
      /\ \A i, j \in 1..n : s[i] = s[j] => i = j
      /\ \A i \in 1..n : s[i] \in P /\ photos[s[i]].order = i - 1
  BY <1>1 DEF Numbered, IsInjective, ToSet
<1>3. s \in Bijection(1..n, P)
  <2>1. s \in [1..n -> P]
    <3>1. s = [i \in 1..n |-> s[i]]
      BY <1>1
    <3> HIDE DEF s, P
    <3> QED
      BY <1>2, <3>1
  <2> HIDE DEF s, P, n
  <2>2. s \in Injection(1..n, P)
    BY <1>2, <2>1 DEF Injection, IsInjective
  <2>3. s \in Surjection(1..n, P)
    BY <1>2, <2>1 DEF Surjection
  <2> QED
    BY <2>2, <2>3 DEF Bijection
<1>4. \A i, j \in 1..n : s[j] \in Earlier(s[i]) <=> j < i
  <2> SUFFICES ASSUME NEW i \in 1..n, NEW j \in 1..n PROVE s[j] \in Earlier(s[i]) <=> j < i
    OBVIOUS
  <2>1. /\ s[i] \in PhotoIds /\ s[j] \in PhotoIds /\ s[j] \in P
        /\ photos[s[i]].order = i - 1 /\ photos[s[j]].order = j - 1
    BY <1>1, <1>2
  <2>2. i = j => s[j] = s[i] /\ ~(s[j] < s[i])
    BY <2>1, DetailsAssumption DEF PhotoIds
  <2> QED
    BY <2>1, <2>2
<1>5. below \in [P -> SUBSET P]
  OBVIOUS
<1>6. \A i, j \in 1..n : s[j] \in below[s[i]] <=> j < i
  BY <1>2, <1>4
<1>7. /\ Cardinality(P) = n
      /\ \A x \in P, i \in 1..n : Cardinality(below[x]) = i - 1 <=> x = s[i]
  <2> HIDE DEF below, P, s, n
  <2> QED
    BY <1>1, <1>3, <1>5, <1>6, Positions
<1>8. Strip(v) = [i \in 1..n |-> CHOOSE x \in P : Cardinality(Earlier(x)) = i - 1]
  BY <1>7, Zenon DEF Strip, Sorted
<1>9. \A x \in P, i \in 1..n : Cardinality(Earlier(x)) = i - 1 <=> x = s[i]
  BY <1>7
<1> HIDE DEF Earlier, P, s, n
<1>10. ASSUME NEW i \in 1..n PROVE (CHOOSE x \in P : Cardinality(Earlier(x)) = i - 1) = s[i]
  BY <1>2, <1>9
<1>11. s = [i \in 1..n |-> s[i]]
  BY <1>1
<1> QED
  BY <1>8, <1>10, <1>11 DEF s

\* What the dine's page shows follows from how its photos are numbered.
LEMMA NumberedShows ==
  ASSUME Typed, PhotosKept
  PROVE  PhotosAsSubmitted
<1> SUFFICES ASSUME NEW v \in Dines
             PROVE  /\ Strip(v) = shown[v].strip
                    /\ Len(Strip(v)) <= MaxVisitPhotos
                    /\ \A i \in DOMAIN Strip(v) : photos[Strip(v)[i]].order = i - 1
  BY DEF PhotosAsSubmitted
<1>1. Numbered(v)
  BY DEF PhotosKept
<1>2. Strip(v) = shown[v].strip
  BY <1>1, StripSaved
<1> QED
  BY <1>1, <1>2 DEF Numbered

\* A dine whose photos keep their places stays numbered.
LEMMA NumberedStays ==
  ASSUME NEW v \in Dines, Numbered(v), PhotosOf(v)' = PhotosOf(v), shown'[v] = shown[v],
         \A p \in PhotosOf(v) : photos'[p].order = photos[p].order
  PROVE  Numbered(v)'
BY DEF Numbered, ToSet

\* A request that names the photos it keeps once, and has reconciled them if it
\* is past that, leaves all requests so.
LEMMA ReconciledStays ==
  ASSUME Typed, PhotosKept, NEW r \in Requests, NEW q, Becomes(r, q), UNCHANGED photos,
         Reconciled(q)
  PROVE  \A o \in Requests : Reconciled(req[o])'
<1>1. req \in [Requests -> InFlight] /\ req' = [req EXCEPT ![r] = q]
  BY DEF Typed, Becomes
<1>2. \A w : PhotosOf(w)' = PhotosOf(w)
  BY DEF PhotosOf, Stored
<1>3. ASSUME NEW o \in Requests PROVE Reconciled(req'[o])
  BY <1>1 DEF PhotosKept
<1> QED
  BY <1>2, <1>3 DEF Reconciled

\* The statements that write no photos yet: only reconciling the photos of the
\* dine sets apart those that go.
LEMMA MovesReconciled ==
  ASSUME Typed, Controlled, PhotosKept, NEW r \in Requests,
         \/ \E v \in Dines : BeginCreate(r, v) \/ BeginUpdate(r, v) \/ BeginDelete(r, v)
         \/ LockDine(r) \/ Replace(r) \/ AttachTag(r)
         \/ DropPhotos(r) \/ OrderPhoto(r) \/ Fail(r)
  PROVE  \E q : Becomes(r, q) /\ Reconciled(q)
<1>1. req[r] \in InFlight /\ Reconciled(req[r])
  BY DEF Typed, PhotosKept
<1>2. ASSUME NEW q, q.keep = req[r].keep, q.pc \notin {"order", "commit"} PROVE Reconciled(q)
  BY <1>1, <1>2 DEF Reconciled
<1>3. Reconciled(Idle)
  BY DEF Idle, Reconciled, IsInjective
<1>4. ASSUME NEW v \in Dines, BeginCreate(r, v) PROVE \E q : Becomes(r, q) /\ Reconciled(q)
  <2>1. PICK f \in Forms :
           Becomes(r, [Idle EXCEPT !.pc = "newTag", !.dine = v, !.edit = edits + 1,
                                   !.form = f, !.holds = TRUE])
    BY <1>4 DEF BeginCreate
  <2>2. Reconciled([Idle EXCEPT !.pc = "newTag", !.dine = v, !.edit = edits + 1,
                                !.form = f, !.holds = TRUE])
    BY DEF Idle, Reconciled, IsInjective
  <2> QED
    BY <2>1, <2>2
<1>5. ASSUME NEW v \in Dines, BeginUpdate(r, v) PROVE \E q : Becomes(r, q) /\ Reconciled(q)
  <2>1. PICK f \in Forms : \E k \in Keeps(v, MaxVisitPhotos - f.added) :
           Becomes(r, [Idle EXCEPT !.pc = "lockDine", !.dine = v, !.edit = edits + 1,
                                   !.form = f, !.keep = k])
    BY <1>5 DEF BeginUpdate
  <2>2. PICK k \in Keeps(v, MaxVisitPhotos - f.added) :
           Becomes(r, [Idle EXCEPT !.pc = "lockDine", !.dine = v, !.edit = edits + 1,
                                   !.form = f, !.keep = k])
    BY <2>1
  <2>3. IsInjective(k)
    BY <2>2 DEF Keeps, IsInjective
  <2>4. Reconciled([Idle EXCEPT !.pc = "lockDine", !.dine = v, !.edit = edits + 1,
                                !.form = f, !.keep = k])
    BY <2>3 DEF Idle, Reconciled
  <2> QED
    BY <2>2, <2>4
<1>6. ASSUME NEW v \in Dines, BeginDelete(r, v) PROVE \E q : Becomes(r, q) /\ Reconciled(q)
  <2>1. Reconciled([Idle EXCEPT !.pc = "lockDine", !.dine = v])
    BY DEF Idle, Reconciled, IsInjective
  <2> QED
    BY <1>6, <2>1 DEF BeginDelete
<1>7. CASE LockDine(r)
  <2> DEFINE pc == IF req[r].edit = None THEN "cascade" ELSE "newTag"
  <2>1. [req[r] EXCEPT !.holds = TRUE, !.pc = pc].keep = req[r].keep
        /\ [req[r] EXCEPT !.holds = TRUE, !.pc = pc].pc = pc
    BY <1>1 DEF InFlight
  <2>2. Reconciled([req[r] EXCEPT !.holds = TRUE, !.pc = pc])
    <3>1. pc \notin {"order", "commit"}
      OBVIOUS
    <3> HIDE DEF pc
    <3> QED
      BY <1>2, <2>1, <3>1
  <2> QED
    BY <1>3, <1>7, <2>2 DEF LockDine, End
<1>8. CASE Replace(r)
  <2> DEFINE next == [req[r] EXCEPT !.newTag = req[r].form.newTag,
                                    !.cleared = ratings[req[r].dine],
                                    !.untagged = tagged[req[r].dine]]
             pc == IF req[r].form.tags = {} /\ next.newTag = None THEN "photos" ELSE "tags"
  <2>1. [next EXCEPT !.pc = pc].keep = req[r].keep /\ [next EXCEPT !.pc = pc].pc = pc
    BY <1>1 DEF InFlight
  <2>2. Reconciled([next EXCEPT !.pc = pc])
    <3>1. pc \notin {"order", "commit"}
      OBVIOUS
    <3> HIDE DEF next, pc
    <3> QED
      BY <1>2, <2>1, <3>1
  <2>3. Becomes(r, [next EXCEPT !.pc = pc])
    BY <1>8 DEF Replace
  <2> QED
    BY <2>2, <2>3
<1>9. CASE AttachTag(r)
  <2>1. PICK g \in NextTags(r) :
           Becomes(r, [req[r] EXCEPT !.attached = @ \cup {g},
                                     !.pc = IF ToAttach(r) = {g} THEN "photos" ELSE "tags"])
    BY <1>9 DEF AttachTag
  <2> DEFINE pc == IF ToAttach(r) = {g} THEN "photos" ELSE "tags"
             q == [req[r] EXCEPT !.attached = @ \cup {g}, !.pc = pc]
  <2>2. q.keep = req[r].keep /\ q.pc = pc /\ pc \notin {"order", "commit"}
    BY <1>1 DEF InFlight
  <2>3. Becomes(r, q)
    BY <2>1
  <2> HIDE DEF q, pc
  <2> QED
    BY <1>2, <2>2, <2>3
<1>10. CASE DropPhotos(r)
  <2> DEFINE drop == PhotosOf(req[r].dine) \ ToSet(req[r].keep)
             pc == IF req[r].keep = <<>> THEN "commit" ELSE "order"
             q == [req[r] EXCEPT !.drop = drop, !.pc = pc]
  <2>1. CASE ToSet(req[r].keep) \subseteq PhotosOf(req[r].dine)
    <3>1. Becomes(r, q)
      BY <1>10, <2>1 DEF DropPhotos
    <3>2. q.keep = req[r].keep /\ q.dine = req[r].dine /\ q.drop = drop
      BY <1>1 DEF InFlight
    <3> HIDE DEF q
    <3>3. Reconciled(q)
      BY <1>1, <2>1, <3>2 DEF Reconciled
    <3> QED
      BY <3>1, <3>3
  <2>2. CASE ~(ToSet(req[r].keep) \subseteq PhotosOf(req[r].dine))
    BY <1>3, <1>10, <2>2 DEF DropPhotos, End
  <2> QED
    BY <2>1, <2>2
<1>11. CASE OrderPhoto(r)
  <2> DEFINE k == req[r].placed + 1
             pc == IF k = Len(req[r].keep) THEN "commit" ELSE "order"
             q == [req[r] EXCEPT !.placed = k, !.pc = pc]
  <2>1. Becomes(r, q) /\ req[r].pc = "order"
    BY <1>11 DEF OrderPhoto, At
  <2>2. q.keep = req[r].keep /\ q.dine = req[r].dine /\ q.drop = req[r].drop
    BY <1>1 DEF InFlight
  <2> HIDE DEF q
  <2>3. Reconciled(q)
    BY <1>1, <2>1, <2>2 DEF Reconciled
  <2> QED
    BY <2>1, <2>3
<1>12. CASE Fail(r)
  BY <1>3, <1>12 DEF Fail, End
<1> QED
  BY <1>4, <1>5, <1>6, <1>7, <1>8, <1>9, <1>10, <1>11, <1>12

\* What a commit makes of photo row p: it goes, or is numbered by its place
\* among those kept, or by its place after them, or is another dine's.
Placed(p, v, keep, made) ==
    \/ p \in PhotosOf(v) /\ p \notin ToSet(keep) /\ photos'[p] = Gone
    \/ \E i \in DOMAIN keep : /\ keep[i] = p /\ Stored(p)' /\ photos'[p].dine = v
                              /\ photos'[p].order = i - 1
    \/ \E i \in DOMAIN made : /\ made[i] = p /\ Stored(p)' /\ photos'[p].dine = v
                              /\ photos'[p].order = Len(keep) + i - 1
    \/ p \notin PhotosOf(v) /\ p \notin ToSet(made) /\ photos'[p] = photos[p]

\* A commit puts every photo where its form has it.
LEMMA RowPlaced ==
  ASSUME PhotosTyped, Typed, Controlled, NEW r \in Requests, Reconciled(req[r]),
         req[r].pc = "commit", NEW made \in FreshIds(req[r].form.added),
         photos' = PhotosAfter(r, made), NEW p \in PhotoIds,
         NEW keep, keep = req[r].keep, NEW v, v = req[r].dine
  PROVE  Placed(p, v, keep, made)
<1> DEFINE orders == [q \in ToSet(keep) |-> CHOOSE i \in DOMAIN keep : keep[i] = q]
           added == [q \in ToSet(made) |-> CHOOSE i \in DOMAIN made : made[i] = q]
<1>1. /\ req[r] \in InFlight /\ keep \in Seq(PhotoIds) /\ v \in Dines
      /\ req[r].drop = PhotosOf(v) \ ToSet(keep) /\ ToSet(keep) \subseteq PhotosOf(v)
      /\ Len(keep) + req[r].form.added <= MaxVisitPhotos /\ Len(keep) \in Nat
      /\ MaxVisitPhotos \in Nat
  BY DetailsAssumption DEF Typed, Controlled, Control, InFlight, Reconciled
<1>2. req[r].form.added \in Nat
  BY <1>1, FormOK DEF InFlight, NoForm
<1>3. photos'[p] =
        CASE p \in req[r].drop -> Gone
          [] p \in ToSet(keep) /\ p \in PhotosOf(v) -> [photos[p] EXCEPT !.order = orders[p] - 1]
          [] p \in ToSet(made) ->
               [dine |-> v, bytes |-> TRUE, order |-> Len(keep) + added[p] - 1]
          [] OTHER -> photos[p]
  <2>1. photos' = [q \in PhotoIds |->
           CASE q \in req[r].drop -> Gone
             [] q \in DOMAIN orders /\ q \in PhotosOf(v) ->
                  [photos[q] EXCEPT !.order = orders[q] - 1]
             [] q \in DOMAIN added ->
                  [dine |-> v, bytes |-> TRUE, order |-> Len(keep) + added[q] - 1]
             [] OTHER -> photos[q]]
    BY DEF PhotosAfter
  <2>2. DOMAIN orders = ToSet(keep) /\ DOMAIN added = ToSet(made)
    OBVIOUS
  <2> HIDE DEF orders, added
  <2> QED
    BY <2>1, <2>2
<1>4. p \in ToSet(made) => p \notin PhotosOf(v)
  BY DEF FreshIds, ToSet, PhotosOf, Stored
<1>5. CASE p \in PhotosOf(v) /\ p \notin ToSet(keep)
  <2> HIDE DEF orders, added
  <2>1. photos'[p] = Gone
    BY <1>1, <1>3, <1>4, <1>5
  <2> QED
    BY <1>5, <2>1 DEF Placed
<1>6. CASE p \in ToSet(keep)
  <2>1. \E i \in DOMAIN keep : keep[i] = p
    BY <1>6 DEF ToSet
  <2>2. orders[p] \in DOMAIN keep /\ keep[orders[p]] = p
    BY <1>6, <2>1
  <2> HIDE DEF orders, added
  <2>3. orders[p] - 1 \in 0..(MaxVisitPhotos - 1)
    <3>1. orders[p] \in 1..Len(keep)
      BY <1>1, <2>2
    <3> QED
      BY <1>1, <1>2, <3>1, OrdersIn
  <2>4. photos[p] \in PhotoRow /\ photos[p].dine = v
    BY <1>1, <1>6 DEF PhotosOf, Stored, PhotosTyped
  <2>5. photos'[p] = [photos[p] EXCEPT !.order = orders[p] - 1]
    <3>1. p \notin req[r].drop /\ p \in PhotosOf(v) /\ p \notin ToSet(made)
      BY <1>1, <1>4, <1>6
    <3> QED
      BY <1>3, <1>6, <3>1
  <2>6. photos'[p] \in PhotoRow /\ photos'[p].dine = v /\ photos'[p].order = orders[p] - 1
    BY <2>3, <2>4, <2>5 DEF PhotoRow
  <2>7. Stored(p)'
    BY <2>6, DetailsAssumption DEF Stored
  <2> QED
    BY <2>2, <2>6, <2>7 DEF Placed
<1>7. CASE p \in ToSet(made)
  <2>1. \E i \in DOMAIN made : made[i] = p
    BY <1>7 DEF ToSet
  <2>2. added[p] \in DOMAIN made /\ made[added[p]] = p
    BY <1>7, <2>1
  <2> HIDE DEF orders, added
  <2>3. Len(keep) + added[p] - 1 \in 0..(MaxVisitPhotos - 1)
    <3>1. added[p] \in 1..req[r].form.added
      BY <2>2 DEF FreshIds
    <3> QED
      BY <1>1, <1>2, <3>1, OrdersIn
  <2>4. photos'[p] = [dine |-> v, bytes |-> TRUE, order |-> Len(keep) + added[p] - 1]
    <3>1. p \notin req[r].drop /\ ~(p \in ToSet(keep) /\ p \in PhotosOf(v))
      BY <1>1, <1>4, <1>7
    <3> QED
      BY <1>3, <1>7, <3>1
  <2>5. photos'[p] \in PhotoRow
    BY <1>1, <2>3, <2>4 DEF PhotoRow
  <2>6. photos'[p].dine = v /\ photos'[p].order = Len(keep) + added[p] - 1
    BY <2>4
  <2>7. Stored(p)'
    BY <2>5, DetailsAssumption DEF Stored
  <2> QED
    BY <2>2, <2>6, <2>7 DEF Placed
<1>8. CASE p \notin PhotosOf(v) /\ p \notin ToSet(made)
  <2> HIDE DEF orders, added
  <2>1. p \notin req[r].drop /\ ~(p \in ToSet(keep) /\ p \in PhotosOf(v))
    BY <1>1, <1>8
  <2>2. photos'[p] = photos[p]
    BY <1>3, <1>8, <2>1
  <2> QED
    BY <1>8, <2>2 DEF Placed
<1> QED
  BY <1>5, <1>6, <1>7, <1>8

\* A function on 1..n is a sequence of that length.
LEMMA OfLength ==
  ASSUME NEW S, NEW n \in Nat, NEW s \in [1..n -> S]
  PROVE  s \in Seq(S) /\ Len(s) = n
OBVIOUS

\* s is a and then b.
Joins(a, b, s) ==
    /\ Len(a) \in Nat /\ Len(b) \in Nat /\ Len(s) = Len(a) + Len(b)
    /\ DOMAIN a = 1..Len(a) /\ DOMAIN b = 1..Len(b) /\ DOMAIN s = 1..Len(s)
    /\ \A i \in DOMAIN a : i \in DOMAIN s /\ s[i] = a[i]
    /\ \A i \in DOMAIN b : Len(a) + i \in DOMAIN s /\ s[Len(a) + i] = b[i]
    /\ \A i \in DOMAIN s : \/ i \in DOMAIN a /\ s[i] = a[i]
                           \/ \E j \in DOMAIN b : i = Len(a) + j /\ s[i] = b[j]

\* What \o joins.
LEMMA Appended ==
  ASSUME NEW S, NEW a \in Seq(S), NEW b \in Seq(S)
  PROVE  a \o b \in Seq(S) /\ Joins(a, b, a \o b)
<1> DEFINE s == a \o b
<1>1. /\ s \in Seq(S) /\ Len(a) \in Nat /\ Len(b) \in Nat /\ Len(s) = Len(a) + Len(b)
      /\ DOMAIN a = 1..Len(a) /\ DOMAIN b = 1..Len(b) /\ DOMAIN s = 1..Len(s)
  OBVIOUS
<1>2. \A i \in 1..Len(s) : s[i] = IF i <= Len(a) THEN a[i] ELSE b[i - Len(a)]
  OBVIOUS
<1> HIDE DEF s
<1>3. ASSUME NEW i \in DOMAIN a PROVE i \in DOMAIN s /\ s[i] = a[i]
  BY <1>1, <1>2
<1>4. ASSUME NEW i \in DOMAIN b PROVE Len(a) + i \in DOMAIN s /\ s[Len(a) + i] = b[i]
  <2>1. i \in 1..Len(b) /\ Len(a) + i \in 1..Len(s) /\ ~(Len(a) + i <= Len(a))
        /\ Len(a) + i - Len(a) = i
    BY <1>1
  <2> QED
    BY <1>1, <1>2, <2>1
<1>5. ASSUME NEW i \in DOMAIN s
      PROVE  \/ i \in DOMAIN a /\ s[i] = a[i]
             \/ \E j \in DOMAIN b : i = Len(a) + j /\ s[i] = b[j]
  <2>1. CASE i <= Len(a)
    BY <1>1, <1>2, <2>1
  <2>2. CASE ~(i <= Len(a))
    <3>1. i - Len(a) \in DOMAIN b /\ i = Len(a) + (i - Len(a)) /\ s[i] = b[i - Len(a)]
      BY <1>1, <1>2, <2>2
    <3> QED
      BY <3>1
  <2> QED
    BY <2>1, <2>2
<1> QED
  BY <1>1, <1>3, <1>4, <1>5 DEF s, Joins

\* The dine now has the photos s, numbered by their places, and the others have
\* theirs as before.
Renumbered(v, s) ==
    /\ IsInjective(s) /\ PhotosOf(v)' = ToSet(s)
    /\ \A i \in DOMAIN s : photos'[s[i]].order = i - 1
    /\ \A w \in Dines \ {v} : /\ PhotosOf(w)' = PhotosOf(w)
                              /\ \A p \in PhotosOf(w) : photos'[p].order = photos[p].order

\* Once photos are so placed, those of the dine are those kept and then the new
\* ones, numbered by their places; the other dines' are as they were.
LEMMA PlacesNumber ==
  ASSUME NEW v, NEW keep \in Seq(PhotoIds), NEW made \in Seq(PhotoIds), NEW s, Joins(keep, made, s),
         ToSet(keep) \subseteq PhotosOf(v),
         \A i, j \in DOMAIN keep : keep[i] = keep[j] => i = j,
         \A i \in DOMAIN made : photos[made[i]] = None,
         \A i, j \in DOMAIN made : made[i] = made[j] => i = j,
         \A p \in PhotoIds : Placed(p, v, keep, made)
  PROVE  Renumbered(v, s)
<1>1. /\ DOMAIN keep = 1..Len(keep) /\ DOMAIN made = 1..Len(made)
      /\ \A i \in DOMAIN keep : i \in DOMAIN s /\ s[i] = keep[i]
      /\ \A i \in DOMAIN made : Len(keep) + i \in DOMAIN s /\ s[Len(keep) + i] = made[i]
      /\ \A i \in DOMAIN s : \/ i \in DOMAIN keep /\ s[i] = keep[i]
                             \/ \E j \in DOMAIN made : i = Len(keep) + j /\ s[i] = made[j]
  BY DEF Joins
<1>2. \A i \in DOMAIN keep, j \in DOMAIN made : keep[i] # made[j]
  BY DEF ToSet, PhotosOf, Stored
<1>3. IsInjective(s)
  <2> SUFFICES ASSUME NEW i \in DOMAIN s, NEW j \in DOMAIN s, s[i] = s[j] PROVE i = j
    BY DEF IsInjective
  <2>1. \/ i \in DOMAIN keep /\ s[i] = keep[i]
        \/ \E k \in DOMAIN made : i = Len(keep) + k /\ s[i] = made[k]
    BY <1>1
  <2>2. \/ j \in DOMAIN keep /\ s[j] = keep[j]
        \/ \E k \in DOMAIN made : j = Len(keep) + k /\ s[j] = made[k]
    BY <1>1
  <2> QED
    BY <1>2, <2>1, <2>2
<1>4. ASSUME NEW i \in DOMAIN keep
      PROVE  /\ keep[i] \in PhotoIds /\ Stored(keep[i])'
             /\ photos'[keep[i]].dine = v /\ photos'[keep[i]].order = i - 1
  <2>1. keep[i] \in PhotoIds /\ keep[i] \in ToSet(keep) /\ keep[i] \in PhotosOf(v)
    BY DEF ToSet
  <2> QED
    BY <1>2, <2>1 DEF Placed
<1>5. ASSUME NEW i \in DOMAIN made
       PROVE  /\ made[i] \in PhotoIds /\ Stored(made[i])'
              /\ photos'[made[i]].dine = v /\ photos'[made[i]].order = Len(keep) + i - 1
  <2>1. made[i] \in PhotoIds /\ made[i] \in ToSet(made) /\ made[i] \notin PhotosOf(v)
    BY DEF ToSet, PhotosOf, Stored
  <2> QED
    BY <1>2, <2>1 DEF Placed
<1>6. ASSUME NEW i \in DOMAIN s
       PROVE  /\ s[i] \in PhotoIds /\ Stored(s[i])'
              /\ photos'[s[i]].dine = v /\ photos'[s[i]].order = i - 1
  <2>1. CASE i \in DOMAIN keep /\ s[i] = keep[i]
    BY <1>4, <2>1
  <2>2. CASE \E j \in DOMAIN made : i = Len(keep) + j /\ s[i] = made[j]
    BY <1>5, <2>2
  <2> QED
    BY <1>1, <2>1, <2>2
<1>7. PhotosOf(v)' = ToSet(s)
  <2>1. ASSUME NEW p \in PhotoIds, Stored(p)', photos'[p].dine = v
        PROVE  \E i \in DOMAIN s : s[i] = p
    <3>1. photos'[p] # Gone
      BY <2>1 DEF Stored
    <3>2. ~(p \notin PhotosOf(v) /\ photos'[p] = photos[p])
      BY <2>1 DEF PhotosOf, Stored
    <3>3. (\E i \in DOMAIN keep : keep[i] = p) \/ (\E i \in DOMAIN made : made[i] = p)
      BY <3>1, <3>2 DEF Placed
    <3>4. CASE \E i \in DOMAIN keep : keep[i] = p
      BY <1>1, <3>4
    <3>5. CASE \E i \in DOMAIN made : made[i] = p
      BY <1>1, <3>5
    <3> QED
      BY <3>3, <3>4, <3>5
  <2>2. PhotosOf(v)' = {p \in PhotoIds : Stored(p)' /\ photos'[p].dine = v}
    BY DEF PhotosOf
  <2>3. ToSet(s) = {s[i] : i \in DOMAIN s}
    BY DEF ToSet
  <2> QED
    BY <1>6, <2>1, <2>2, <2>3
<1>8. ASSUME NEW w \in Dines \ {v}
       PROVE  /\ PhotosOf(w)' = PhotosOf(w)
              /\ \A p \in PhotosOf(w) : photos'[p].order = photos[p].order
  <2>1. PhotosOf(w)' = {p \in PhotoIds : Stored(p)' /\ photos'[p].dine = w}
    BY DEF PhotosOf
  <2>2. ASSUME NEW p \in PhotoIds, photos'[p] = photos[p]
        PROVE  p \in PhotosOf(w)' <=> p \in PhotosOf(w)
    BY <2>1, <2>2 DEF PhotosOf, Stored
  <2>3. ASSUME NEW p \in PhotosOf(w) PROVE photos'[p] = photos[p]
    <3>1. p \in PhotoIds /\ Stored(p) /\ p \notin PhotosOf(v) /\ photos[p] # None
      BY DEF PhotosOf, Stored
    <3>2. ~(\E i \in DOMAIN keep : keep[i] = p) /\ ~(\E i \in DOMAIN made : made[i] = p)
      BY <3>1 DEF ToSet
    <3> QED
      BY <3>1, <3>2 DEF Placed
  <2>4. ASSUME NEW p \in PhotosOf(w)' PROVE photos'[p] = photos[p] /\ p \in PhotoIds
    <3>1. p \in PhotoIds /\ photos'[p] # Gone /\ photos'[p].dine # v
      BY <2>1, <2>4 DEF Stored
    <3> QED
      BY <3>1 DEF Placed
  <2>5. \A p \in PhotosOf(w) : p \in PhotoIds
    BY DEF PhotosOf
  <2>6. \A p : p \in PhotosOf(w)' <=> p \in PhotosOf(w)
    BY <2>2, <2>3, <2>4, <2>5
  <2> QED
    BY <2>3, <2>6
<1> QED
  BY <1>3, <1>6, <1>7, <1>8 DEF Renumbered

\* A commit numbers the photos it keeps and then the new ones, and leaves the
\* other dines' as they were.
LEMMA CommitNumbers ==
  ASSUME PhotosTyped, Typed, Controlled, NEW r \in Requests, Reconciled(req[r]),
         req[r].pc = "commit", NEW made \in FreshIds(req[r].form.added),
         photos' = PhotosAfter(r, made)
  PROVE  \E v, s : /\ v = req[r].dine /\ s = req[r].keep \o made /\ s \in Seq(PhotoIds)
                   /\ Len(s) <= MaxVisitPhotos /\ Renumbered(v, s)
<1>1. PICK keep, v, s : keep = req[r].keep /\ v = req[r].dine /\ s = keep \o made
  OBVIOUS
<1>2. /\ req[r] \in InFlight /\ keep \in Seq(PhotoIds) /\ v \in Dines
      /\ ToSet(keep) \subseteq PhotosOf(v)
      /\ \A i, j \in DOMAIN keep : keep[i] = keep[j] => i = j
      /\ Len(keep) + req[r].form.added <= MaxVisitPhotos
  BY <1>1 DEF Typed, Controlled, Control, InFlight, Reconciled, IsInjective
<1>3. req[r].form.added \in Nat
  BY <1>2, FormOK DEF InFlight, NoForm
<1>4. /\ made \in [1..req[r].form.added -> PhotoIds]
      /\ \A i \in DOMAIN made : photos[made[i]] = None
      /\ \A i, j \in DOMAIN made : made[i] = made[j] => i = j
  BY DEF FreshIds
<1>5. made \in Seq(PhotoIds) /\ Len(made) = req[r].form.added
  BY <1>3, <1>4, OfLength
<1>6. \A p \in PhotoIds : Placed(p, v, keep, made)
  BY <1>1, RowPlaced
<1>7. s \in Seq(PhotoIds) /\ Joins(keep, made, s)
  BY <1>1, <1>2, <1>5, Appended
<1>8. Renumbered(v, s)
  BY <1>2, <1>4, <1>5, <1>6, <1>7, PlacesNumber
<1>9. Len(s) <= MaxVisitPhotos
  BY <1>2, <1>5, <1>7 DEF Joins
<1> QED
  BY <1>1, <1>7, <1>8, <1>9

\* Whoever ends with a dine's lock and its photos renumbered leaves all photos
\* and requests in order: nobody else has reconciled photos of that dine.
LEMMA EndNumbers ==
  ASSUME Inv, PhotosKept, NEW r \in Requests, End(r), req[r].holds,
         NEW v \in Dines, v = req[r].dine, NEW s, Len(s) <= MaxVisitPhotos, Renumbered(v, s),
         shown'[v].strip = s, \A w \in Dines \ {v} : shown'[w] = shown[w]
  PROVE  PhotosKept'
<1>1. Typed /\ Controlled /\ Apart
  BY DEF Inv
<1>2. ASSUME NEW w \in Dines PROVE Numbered(w)'
  <2>1. CASE w = v
    BY <2>1 DEF Numbered, Renumbered
  <2>2. CASE w # v
    BY <2>2, NumberedStays DEF PhotosKept, Renumbered
  <2> QED
    BY <2>1, <2>2
<1>3. req' = [req EXCEPT ![r] = Idle]
  BY DEF End, Becomes
<1>4. ASSUME NEW o \in Requests PROVE Reconciled(req[o])'
  <2>1. CASE o = r
    <3>1. req'[o] = Idle
      BY <1>1, <1>3, <2>1 DEF Typed
    <3> QED
      BY <3>1 DEF Idle, Reconciled, IsInjective
  <2>2. CASE o # r
    <3>1. req'[o] = req[o] /\ Reconciled(req[o]) /\ Control(req[o])
      BY <1>1, <1>3, <2>2 DEF Typed, PhotosKept, Controlled
    <3>2. CASE req[o].pc \in {"order", "commit"}
      <4>1. req[o].dine \in Dines \ {v}
        BY <1>1, <2>2, <3>1, <3>2 DEF Control, Editing, Apart
      <4>2. PhotosOf(req[o].dine)' = PhotosOf(req[o].dine)
        <5>1. PICK w \in Dines \ {v} : w = req[o].dine
          BY <4>1
        <5>2. PhotosOf(w)' = PhotosOf(w)
          BY DEF Renumbered
        <5> QED
          BY <3>1, <5>1, <5>2
      <4> QED
        BY <3>1, <4>2 DEF Reconciled
    <3>3. CASE req[o].pc \notin {"order", "commit"}
      BY <3>1, <3>3 DEF Reconciled
    <3> QED
      BY <3>2, <3>3
  <2> QED
    BY <2>1, <2>2
<1> QED
  BY <1>2, <1>4 DEF PhotosKept

\* A commit numbers the photos of its dine anew, and of no other.
LEMMA CommitKeepsPhotos ==
  ASSUME Inv, PhotosTyped, PhotosKept, NEW r \in Requests, Commit(r)
  PROVE  PhotosKept'
<1>1. Typed /\ Controlled /\ Reconciled(req[r])
  BY DEF Inv, PhotosKept
<1>2. req[r].pc = "commit" /\ req[r].holds /\ req[r].dine \in Dines /\ End(r)
  BY <1>1 DEF Commit, At, Controlled, Control, Editing
<1>3. PICK made \in FreshIds(req[r].form.added) :
         /\ photos' = PhotosAfter(r, made)
         /\ shown' = [shown EXCEPT ![req[r].dine] =
                        [ratings |-> NewRatings(r), tags |-> req[r].attached,
                         strip |-> req[r].keep \o made]]
  BY DEF Commit
<1>4. PICK v, s : /\ v = req[r].dine /\ s = req[r].keep \o made /\ s \in Seq(PhotoIds)
                  /\ Len(s) <= MaxVisitPhotos /\ Renumbered(v, s)
  BY <1>1, <1>2, <1>3, CommitNumbers
<1>5. shown'[v].strip = s /\ \A w \in Dines \ {v} : shown'[w] = shown[w]
  <2> DEFINE page == [ratings |-> NewRatings(r), tags |-> req[r].attached, strip |-> s]
  <2>1. shown' = [shown EXCEPT ![v] = page] /\ v \in Dines /\ page.strip = s
    BY <1>2, <1>3, <1>4
  <2> HIDE DEF page
  <2> QED
    BY <1>1, <2>1 DEF Typed
<1> QED
  BY <1>2, <1>4, <1>5, EndNumbers

\* A deletion removes the photos of its dine, and of no other.
LEMMA CascadeKeepsPhotos ==
  ASSUME Inv, PhotosTyped, PhotosKept, NEW r \in Requests, Cascade(r)
  PROVE  PhotosKept'
<1>1. Typed /\ Controlled
  BY DEF Inv
<1>2. req[r].holds /\ req[r].dine \in Dines /\ End(r)
  BY <1>1 DEF Cascade, At, Controlled, Control
<1>3. PICK v \in Dines : v = req[r].dine
  BY <1>2
<1>4. /\ photos' = [p \in PhotoIds |-> IF p \in PhotosOf(v) THEN Gone ELSE photos[p]]
      /\ shown' = [shown EXCEPT ![v] = Blank]
  BY <1>3 DEF Cascade
<1>5. /\ \A p \in PhotosOf(v) : p \in PhotoIds /\ photos'[p] = Gone
      /\ \A p \in PhotoIds : p \notin PhotosOf(v) => photos'[p] = photos[p]
  BY <1>4 DEF PhotosOf
<1>6. Renumbered(v, <<>>)
  <2>1. PhotosOf(v)' = {p \in PhotoIds : Stored(p)' /\ photos'[p].dine = v}
    BY DEF PhotosOf
  <2>2. PhotosOf(v)' = {}
    <3> SUFFICES ASSUME NEW p \in PhotoIds, Stored(p)', photos'[p].dine = v PROVE FALSE
      BY <2>1
    <3> QED
      BY <1>5 DEF PhotosOf, Stored
  <2>3. ASSUME NEW w \in Dines \ {v}
        PROVE  /\ PhotosOf(w)' = PhotosOf(w)
               /\ \A p \in PhotosOf(w) : photos'[p].order = photos[p].order
    <3>1. PhotosOf(w)' = {p \in PhotoIds : Stored(p)' /\ photos'[p].dine = w}
      BY DEF PhotosOf
    <3>2. ASSUME NEW p \in PhotosOf(w) PROVE photos'[p] = photos[p] /\ p \in PhotoIds
      BY <1>5 DEF PhotosOf
    <3>3. ASSUME NEW p \in PhotoIds PROVE p \in PhotosOf(w)' <=> p \in PhotosOf(w)
      <4>1. CASE p \in PhotosOf(v)
        BY <1>5, <3>1, <4>1 DEF PhotosOf, Stored
      <4>2. CASE p \notin PhotosOf(v)
        BY <1>5, <3>1, <4>2 DEF PhotosOf, Stored
      <4> QED
        BY <4>1, <4>2
    <3>4. \A p \in PhotosOf(w)' : p \in PhotoIds
      BY <3>1
    <3>5. PhotosOf(w)' = PhotosOf(w)
      BY <3>2, <3>3, <3>4
    <3> QED
      BY <3>2, <3>5
  <2> QED
    BY <2>2, <2>3 DEF Renumbered, IsInjective, ToSet
<1>7. shown'[v].strip = <<>> /\ \A w \in Dines \ {v} : shown'[w] = shown[w]
  BY <1>1, <1>4 DEF Typed, Blank
<1>8. Len(<<>>) <= MaxVisitPhotos
  BY DetailsAssumption
<1> QED
  BY <1>2, <1>3, <1>6, <1>7, <1>8, EndNumbers

\* Rows that only lose or gain their bytes keep their dine and their place.
LEMMA BytesKeepPhotos ==
  ASSUME PhotosKept, UNCHANGED <<req, shown>>,
         \A p \in PhotoIds : /\ Stored(p)' <=> Stored(p)
                             /\ Stored(p) => /\ photos'[p].dine = photos[p].dine
                                             /\ photos'[p].order = photos[p].order
  PROVE  PhotosKept'
<1>1. ASSUME NEW w
      PROVE  /\ PhotosOf(w)' = PhotosOf(w)
             /\ \A p \in PhotosOf(w) : photos'[p].order = photos[p].order
  <2>1. PhotosOf(w)' = {p \in PhotoIds : Stored(p)' /\ photos'[p].dine = w}
    BY DEF PhotosOf
  <2>2. PhotosOf(w) = {p \in PhotoIds : Stored(p) /\ photos[p].dine = w}
    BY DEF PhotosOf
  <2> QED
    BY <2>1, <2>2
<1>2. ASSUME NEW w \in Dines PROVE Numbered(w)'
  BY <1>1, NumberedStays DEF PhotosKept
<1>3. ASSUME NEW o \in Requests PROVE Reconciled(req[o])'
  <2>1. PICK q, w : q = req[o] /\ w = q.dine
    OBVIOUS
  <2>2. PhotosOf(w)' = PhotosOf(w)
    BY <1>1
  <2>3. Reconciled(q)'
    BY <2>1, <2>2 DEF PhotosKept, Reconciled
  <2> QED
    BY <2>1, <2>3
<1> QED
  BY <1>2, <1>3 DEF PhotosKept

\* At first the only photos are that dine's, numbered as they were saved.
LEMMA PhotosInit == Init => PhotosKept
<1> SUFFICES ASSUME Init PROVE PhotosKept
  OBVIOUS
<1>1. /\ OldDine \in Dines /\ Legacy \in Nat /\ Legacy <= MaxVisitPhotos
      /\ MaxVisitPhotos \in Nat /\ MaxPhotos \in Nat /\ MaxVisitPhotos <= MaxPhotos
      /\ None \notin PhotoRow /\ Gone \notin PhotoRow
  BY DetailsAssumption DEF OldDine
<1>2. ASSUME NEW r \in Requests PROVE Reconciled(req[r])
  BY DEF Init, Idle, Reconciled, IsInjective
<1>3. ASSUME NEW p \in PhotoIds
      PROVE  /\ p <= Legacy => /\ Stored(p)
                               /\ photos[p].dine = OldDine /\ photos[p].order = p - 1
             /\ ~(p <= Legacy) => ~Stored(p)
  <2>1. p <= Legacy => [dine |-> OldDine, order |-> p - 1, bytes |-> FALSE] \in PhotoRow
    BY <1>1 DEF PhotoRow, PhotoIds
  <2>2. CASE p <= Legacy
    <3>1. photos[p] = [dine |-> OldDine, order |-> p - 1, bytes |-> FALSE]
      BY <2>2 DEF Init
    <3>2. Stored(p)
      BY <1>1, <2>1, <2>2, <3>1 DEF Stored
    <3>3. photos[p].dine = OldDine /\ photos[p].order = p - 1
      BY <3>1
    <3> QED
      BY <2>2, <3>2, <3>3
  <2>3. CASE ~(p <= Legacy)
    BY <2>3 DEF Init, Stored
  <2> QED
    BY <2>2, <2>3
<1>4. 1..Legacy \subseteq PhotoIds /\ \A p \in PhotoIds : p <= Legacy => p \in 1..Legacy
  BY <1>1 DEF PhotoIds
<1>5. Numbered(OldDine)
  <2>1. shown[OldDine].strip = OldStrip
    BY <1>1 DEF Init
  <2>2. /\ OldStrip \in [1..Legacy -> 1..Legacy] /\ DOMAIN OldStrip = 1..Legacy
        /\ Len(OldStrip) = Legacy /\ \A i \in 1..Legacy : OldStrip[i] = i
    BY <1>1 DEF OldStrip
  <2>3. PhotosOf(OldDine) = 1..Legacy
    BY <1>3, <1>4 DEF PhotosOf
  <2>4. ToSet(OldStrip) = 1..Legacy
    BY <2>2 DEF ToSet
  <2> QED
    BY <1>1, <1>3, <1>4, <2>1, <2>2, <2>3, <2>4 DEF Numbered, IsInjective
<1>6. ASSUME NEW v \in Dines, v # OldDine PROVE Numbered(v)
  <2>1. shown[v].strip = <<>>
    BY <1>6 DEF Init, Blank
  <2>2. PhotosOf(v) = {}
    BY <1>3, <1>6 DEF PhotosOf
  <2> QED
    BY <1>1, <2>1, <2>2 DEF Numbered, IsInjective, ToSet
<1> QED
  BY <1>2, <1>5, <1>6 DEF PhotosKept

\* Every step keeps each dine's photos numbered by their places.
LEMMA PhotosStep == Inv /\ JobInv /\ PhotosKept /\ [Next]_vars => PhotosKept'
<1> SUFFICES ASSUME Inv, JobInv, PhotosKept, [Next]_vars PROVE PhotosKept'
  OBVIOUS
<1>1. Typed /\ Controlled /\ PhotosTyped /\ Locked
  BY DEF Inv, JobInv
<1>2. CASE UNCHANGED <<photos, req, shown>>
  BY <1>2, BytesKeepPhotos DEF Stored
<1>3. ASSUME NEW r \in Requests, Request(r) PROVE PhotosKept'
  <2>1. CASE Commit(r)
    BY <1>1, <2>1, CommitKeepsPhotos
  <2>2. CASE Cascade(r)
    BY <1>1, <2>2, CascadeKeepsPhotos
  <2>3. CASE ~Commit(r) /\ ~Cascade(r)
    <3>1. \/ \E v \in Dines : BeginCreate(r, v) \/ BeginUpdate(r, v) \/ BeginDelete(r, v)
          \/ LockDine(r) \/ Replace(r) \/ AttachTag(r)
          \/ DropPhotos(r) \/ OrderPhoto(r) \/ Fail(r)
      BY <1>3, <2>3 DEF Request
    <3>2. UNCHANGED <<photos, shown>>
      BY <3>1 DEF rows, BeginCreate, BeginUpdate, BeginDelete, LockDine, Replace, AttachTag,
             DropPhotos, OrderPhoto, Fail
    <3>3. PICK q : Becomes(r, q) /\ Reconciled(q)
      BY <1>1, <3>1, MovesReconciled
    <3>4. \A o \in Requests : Reconciled(req[o])'
      BY <1>1, <3>2, <3>3, ReconciledStays
    <3>5. ASSUME NEW v \in Dines PROVE Numbered(v)'
      <4>1. PhotosOf(v)' = PhotosOf(v)
        BY <3>2 DEF PhotosOf, Stored
      <4> QED
        BY <3>2, <4>1, NumberedStays DEF PhotosKept
    <3> QED
      BY <3>4, <3>5 DEF PhotosKept
  <2> QED
    BY <2>1, <2>2, <2>3
<1>4. ASSUME NEW v \in Dines, OldRewrite(v) PROVE PhotosKept'
  <2>1. /\ UNCHANGED <<req, shown>>
        /\ photos' = [p \in PhotoIds |-> IF p \in PhotosOf(v)
                                        THEN [photos[p] EXCEPT !.bytes = FALSE] ELSE photos[p]]
    BY <1>4 DEF OldRewrite
  <2>2. ASSUME NEW p \in PhotoIds
        PROVE  /\ Stored(p)' <=> Stored(p)
               /\ Stored(p) => /\ photos'[p].dine = photos[p].dine
                               /\ photos'[p].order = photos[p].order
    <3>1. CASE p \in PhotosOf(v)
      <4>1. photos'[p] = [photos[p] EXCEPT !.bytes = FALSE]
        BY <2>1, <3>1
      <4>2. Stored(p) /\ photos[p] \in PhotoRow
        BY <1>1, <3>1 DEF PhotosOf, Stored, PhotosTyped
      <4>3. /\ photos'[p] \in PhotoRow /\ photos'[p].dine = photos[p].dine
            /\ photos'[p].order = photos[p].order
        BY <4>1, <4>2 DEF PhotoRow
      <4> QED
        BY <4>2, <4>3, DetailsAssumption DEF Stored
    <3>2. CASE p \notin PhotosOf(v)
      BY <2>1, <3>2 DEF Stored
    <3> QED
      BY <3>1, <3>2
  <2> QED
    BY <2>1, <2>2, BytesKeepPhotos
<1>5. CASE JobFill
  <2>1. /\ UNCHANGED <<req, shown>> /\ job.lock \in PhotoIds /\ photos[job.lock] \in PhotoRow
        /\ photos' = [photos EXCEPT ![job.lock].bytes = TRUE]
    BY <1>1, <1>5 DEF JobFill, Locked
  <2>2. ASSUME NEW p \in PhotoIds
        PROVE  /\ Stored(p)' <=> Stored(p)
               /\ Stored(p) => /\ photos'[p].dine = photos[p].dine
                               /\ photos'[p].order = photos[p].order
    <3>1. CASE p = job.lock
      <4>1. photos'[p] = [photos[p] EXCEPT !.bytes = TRUE]
        BY <1>1, <2>1, <3>1 DEF PhotosTyped
      <4>2. photos[p] \in PhotoRow
        BY <2>1, <3>1
      <4>3. /\ photos'[p] \in PhotoRow /\ photos'[p].dine = photos[p].dine
            /\ photos'[p].order = photos[p].order
        BY <4>1, <4>2 DEF PhotoRow
      <4> QED
        BY <4>2, <4>3, DetailsAssumption DEF Stored
    <3>2. CASE p # job.lock
      BY <1>1, <2>1, <3>2 DEF Stored, PhotosTyped
    <3> QED
      BY <3>1, <3>2
  <2> QED
    BY <2>1, <2>2, BytesKeepPhotos
<1>6. \/ \E r \in Requests : Request(r)
      \/ \E v \in Dines : OldRewrite(v)
      \/ JobFill \/ UNCHANGED <<photos, req, shown>>
  BY DEF Next, vars, rows, OldStop, JobStart, JobStep, JobBatch, JobRow,
         JobCount, JobAudit, JobTimeout, JobFail, JobBecomes
<1> QED
  BY <1>2, <1>3, <1>4, <1>5, <1>6

\* For any requests, forms and photos: a dine shows the photos of its last
\* edit, the kept ones in the order of the form and then the new ones, without
\* gaps and never too many, whatever the job and old replicas write meanwhile.
THEOREM PhotosCorrect == Spec => []PhotosAsSubmitted
<1>1. Inv /\ PhotosKept => PhotosAsSubmitted
  BY NumberedShows DEF Inv
<1> QED
  BY <1>1, InvInit, InvStep, JobInit, JobInvStep, PhotosInit, PhotosStep, PTL DEF Spec

-----------------------------------------------------------------------------
(* Types *)

\* The batch a run works on: photos that lack their bytes, in order of ids.
LEMMA BatchOK ==
  ASSUME Missing \subseteq PhotoIds, NEW n \in Int
  PROVE  FirstOf(Sorted(Missing, <), n) \in Seq(PhotoIds)
<1> DEFINE S == Missing
           m == Cardinality(S)
           below == [x \in S |-> {y \in S : y < x}]
           s == Sorted(S, <)
<1>1. PhotoIds \subseteq Nat /\ IsFiniteSet(PhotoIds)
  <2>1. MaxPhotos \in Nat
    BY DetailsAssumption
  <2>2. IsFiniteSet(1..MaxPhotos)
    BY <2>1, FS_Interval
  <2> QED
    BY <2>1, <2>2 DEF PhotoIds
<1>2. S \subseteq Nat /\ IsFiniteSet(S)
  BY <1>1, FS_Subset
<1>3. /\ below \in [S -> SUBSET S]
      /\ \A x, y \in S : x \in below[y] <=> x < y
  OBVIOUS
<1>4. /\ \A x \in S : x \notin below[x]
      /\ \A x, y \in S : x # y => x \in below[y] \/ y \in below[x]
      /\ \A x, y \in S : x \in below[y] => below[x] \subseteq below[y]
  <2> HIDE DEF S, below
  <2>1. \A x, y \in S : x \in Nat /\ y \in Nat
    BY <1>2
  <2>2. \A x \in S : x \notin below[x]
    BY <1>3, <2>1
  <2>3. \A x, y \in S : x # y => x \in below[y] \/ y \in below[x]
    BY <1>3, <2>1
  <2>4. ASSUME NEW x \in S, NEW y \in S, x \in below[y], NEW z \in below[x] PROVE z \in below[y]
    BY <1>3, <2>1, <2>4
  <2> QED
    BY <2>2, <2>3, <2>4
<1>5. m \in Nat /\ \A k \in 1..m : \E x \in S : Cardinality(below[x]) = k - 1
  <2> HIDE DEF S, below
  <2> QED
    BY <1>2, <1>3, <1>4, Ranks
<1>6. s = [i \in 1..m |-> CHOOSE x \in S : Cardinality({y \in S : y < x}) = i - 1]
  BY Zenon DEF Sorted
<1>7. \A k \in 1..m : \E x \in S : Cardinality({y \in S : y < x}) = k - 1
  <2> SUFFICES ASSUME NEW k \in 1..m
               PROVE  \E x \in S : Cardinality({y \in S : y < x}) = k - 1
    OBVIOUS
  <2>1. PICK x \in S : Cardinality(below[x]) = k - 1
    BY <1>5
  <2>2. below[x] = {y \in S : y < x}
    OBVIOUS
  <2> QED
    BY <2>1, <2>2
<1> HIDE DEF S, m, s
<1>8. s \in [1..m -> PhotoIds]
  <2>1. \A i \in 1..m : (CHOOSE x \in S : Cardinality({y \in S : y < x}) = i - 1) \in S
    BY <1>7
  <2> QED
    BY <1>6, <2>1 DEF S
<1>9. s \in Seq(PhotoIds)
  BY <1>5, <1>8
<1>10. FirstOf(s, n) \in Seq(PhotoIds)
  <2> DEFINE k == IF Len(s) < n THEN Len(s) ELSE n
  <2>1. k \in Int /\ k <= Len(s) /\ Len(s) \in Nat
    BY <1>9
  <2>2. FirstOf(s, n) = SubSeq(s, 1, k)
    BY DEF FirstOf
  <2> HIDE DEF k
  <2>3. SubSeq(s, 1, k) \in Seq(PhotoIds)
    BY <1>9, <2>1
  <2> QED
    BY <2>2, <2>3
<1> QED
  BY <1>10 DEF s, S

\* The job has no batch at first.
LEMMA WorkingInit == Init => Working
BY DetailsAssumption DEF Init, Working, Resting, OrNone

\* A row that is done leaves fewer to do.
LEMMA RowDoneOK ==
  ASSUME JobTyped, Working, job.pc \in {"row", "fill"}, NEW p, job' = RowDone(p)
  PROVE  Working'
<1> DEFINE ids == Tail(job.ids)
           processed == job.processed + 1
           pc == IF Len(job.ids) = 1 THEN "batch" ELSE "row"
<1>1. job = [pc |-> job.pc, ids |-> job.ids, processed |-> job.processed,
             lock |-> job.lock, final |-> job.final, runs |-> job.runs]
  BY DEF JobTyped
<1>2. RowDone(p) = [job EXCEPT !.ids = ids, !.processed = processed, !.lock = None, !.pc = pc]
  BY <1>1 DEF RowDone
<1>3. /\ pc \in {"batch", "row"} /\ ids \in Seq(PhotoIds) /\ processed \in Nat
      /\ pc = "row" => ids # <<>>
  <2>1. job.ids \in Seq(PhotoIds) /\ job.ids # <<>> /\ job.processed \in Nat
    BY DEF Working
  <2>2. ids \in Seq(PhotoIds) /\ Len(ids) = Len(job.ids) - 1
    BY <2>1
  <2>3. Len(job.ids) # 1 => Len(ids) # 0
    <3>1. Len(job.ids) \in Nat /\ Len(job.ids) # 0
      BY <2>1
    <3> QED
      BY <2>2, <3>1
  <2>4. ids = <<>> => Len(ids) = 0
    <3> HIDE DEF ids
    <3> QED
      OBVIOUS
  <2>5. pc \in {"batch", "row"} /\ processed \in Nat
    BY <2>1
  <2>6. pc = "row" => Len(ids) # 0
    BY <2>3
  <2> HIDE DEF ids, processed, pc
  <2> QED
    BY <2>2, <2>4, <2>5, <2>6
<1> HIDE DEF ids, processed, pc
<1>4. /\ job'.pc = pc /\ job'.ids = ids /\ job'.processed = processed /\ job'.lock = None
  BY <1>1, <1>2
<1> QED
  BY <1>3, <1>4 DEF Working, OrNone

\* Every step keeps the job's batch well formed.
LEMMA WorkingStep == Inv /\ JobInv /\ Working /\ [Next]_vars => Working'
<1> SUFFICES ASSUME Inv, JobInv, Working, [Next]_vars PROVE Working'
  OBVIOUS
<1>1. JobTyped /\ PhotosTyped
  BY DEF JobInv
<1>2. CASE UNCHANGED job
  BY <1>2 DEF Working
<1>3. CASE JobStart
  BY <1>3, DetailsAssumption DEF JobStart, JobBecomes, Resting, Working, OrNone
<1>4. CASE JobBatch
  <2> DEFINE ids == FirstOf(Sorted(Missing, <), BatchLimit)
             pc == IF ids = <<>> THEN "count" ELSE "row"
  <2>1. job' = [job EXCEPT !.ids = ids, !.pc = pc]
    BY <1>4, Zenon DEF JobBatch, JobBecomes
  <2>2. BatchLimit \in Int
    BY DetailsAssumption DEF BatchLimit, Working
  <2>3. Missing \subseteq PhotoIds
    BY DEF Missing
  <2>4. ids \in Seq(PhotoIds)
    BY <2>2, <2>3, BatchOK, Zenon
  <2>5. pc \in {"count", "row"} /\ (pc = "row" => ids # <<>>)
    BY Zenon
  <2> HIDE DEF ids, pc
  <2>6. /\ job'.pc = pc /\ job'.ids = ids
        /\ job'.processed = job.processed /\ job'.lock = job.lock
    BY <1>1, <2>1 DEF JobTyped
  <2> QED
    BY <2>4, <2>5, <2>6 DEF Working
<1>5. CASE JobRow
  <2> DEFINE p == Head(job.ids)
  <2>1. job.pc = "row"
    BY <1>5 DEF JobRow
  <2>2. CASE p \in Missing /\ JobBecomes([job EXCEPT !.pc = "fill", !.lock = p])
    <3>1. job' = [job EXCEPT !.pc = "fill", !.lock = p] /\ p \in PhotoIds
      BY <2>2 DEF JobBecomes, Missing
    <3> HIDE DEF p
    <3>2. /\ job'.pc = "fill" /\ job'.lock = p
          /\ job'.ids = job.ids /\ job'.processed = job.processed
      BY <1>1, <3>1 DEF JobTyped
    <3> QED
      BY <2>1, <3>1, <3>2 DEF Working, OrNone
  <2>3. CASE JobBecomes(RowDone(p))
    BY <1>1, <2>1, <2>3, RowDoneOK DEF JobBecomes
  <2> QED
    BY <1>5, <2>2, <2>3 DEF JobRow
<1>6. CASE JobFill
  BY <1>1, <1>6, RowDoneOK DEF JobFill
<1>7. CASE JobCount \/ JobAudit
  <2>1. PICK pc \in {"audit", "off", "done"} : job' = [job EXCEPT !.pc = pc]
    BY <1>7 DEF JobCount, JobAudit, JobBecomes
  <2>2. /\ job'.pc = pc /\ job'.ids = job.ids
        /\ job'.processed = job.processed /\ job'.lock = job.lock
    BY <1>1, <2>1 DEF JobTyped
  <2> QED
    BY <2>2 DEF Working
<1>8. CASE JobTimeout \/ JobFail
  <2>1. job' = [Resting EXCEPT !.runs = job.runs]
    BY <1>8 DEF JobTimeout, JobFail, JobBecomes, Stopped
  <2>2. job'.pc = "off" /\ job'.ids = <<>> /\ job'.processed = 0 /\ job'.lock = None
    BY <2>1 DEF Resting
  <2> QED
    BY <2>2 DEF Working, OrNone
<1>9. JobStart \/ JobStep \/ JobFail \/ UNCHANGED job
  BY DEF Next, vars, Request, BeginCreate, BeginUpdate, BeginDelete, LockDine, Cascade,
         Replace, AttachTag, DropPhotos, OrderPhoto, Commit, Fail, OldRewrite, OldStop
<1> QED
  BY <1>2, <1>3, <1>4, <1>5, <1>6, <1>7, <1>8, <1>9 DEF JobStep

OldTyped == old \in BOOLEAN

\* The old replicas run at first.
LEMMA OldInit == Init => OldTyped
BY DEF Init, OldTyped

\* They run until they stop.
LEMMA OldStep == OldTyped /\ [Next]_vars => OldTyped'
<1>1. [Next]_vars => old' \in {old, FALSE}
  BY DEF Next, vars, JobStart, JobStep, JobBatch, JobRow, JobFill, JobCount, JobAudit,
         JobTimeout, JobFail, JobBecomes, Request, BeginCreate, BeginUpdate, BeginDelete,
         LockDine, Cascade, Replace, AttachTag, DropPhotos, OrderPhoto, Commit, Fail,
         OldRewrite, OldStop
<1> QED
  BY <1>1 DEF OldTyped

\* Every variable keeps its type, for any requests, dines, tags and photos.
THEOREM DetailsTypeCorrect == Spec => []TypeOK
<1>1. Inv /\ JobInv /\ Working /\ OldTyped => TypeOK
  <2> SUFFICES ASSUME Typed, PhotosTyped, Working, OldTyped PROVE TypeOK
    BY DEF Inv, JobInv
  <2>1. ASSUME NEW r \in Requests
        PROVE  /\ req[r].pc \in Steps /\ req[r].dine \in OrNone(Dines)
               /\ req[r].keep \in Seq(PhotoIds) /\ req[r].attached \subseteq Tags
               /\ req[r].drop \subseteq PhotoIds
    BY DEF Typed, InFlight
  <2> QED
    BY <2>1 DEF Typed, PhotosTyped, Working, OldTyped, TypeOK, Steps
<1> QED
  BY <1>1, InvInit, InvStep, JobInit, JobInvStep, WorkingInit, WorkingStep, OldInit,
     OldStep, PTL DEF Spec
=============================================================================
