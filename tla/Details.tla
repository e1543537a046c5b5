------------------------------ MODULE Details ------------------------------
(***************************************************************************)
(* What a dine carries besides its own row - ratings, tags and photos - on *)
(* Postgres, and the rollout of the photos' binary columns:                *)
(*   - requests that log, edit and delete dines (internal/repository/      *)
(*     store.go), each one READ COMMITTED transaction; an action is one    *)
(*     statement, or several that touch only rows the dine's lock guards;  *)
(*   - the maintenance job of cmd/photo-storage, which fills original and  *)
(*     thumbnail bytes from the legacy data URI row by row and audits;     *)
(*   - replicas of the previous release, which rewrite photos without the  *)
(*     new columns until they stop.                                        *)
(***************************************************************************)
EXTENDS Naturals, Sequences, FiniteSets, SequencesExt, Sorting

CONSTANTS
    Requests,        \* requests that may be in flight at once
    Dines, People,
    Tags,            \* rows of tags: never removed, and typing one finds it
    MaxPhotos,       \* bound: photo rows that may ever exist
    MaxVisitPhotos,  \* photos a dine may have
    MaxEdits,        \* bound: requests that log or edit a dine
    MaxRuns,         \* bound: runs of the job while old replicas live
    BatchSize,       \* -batch of the job
    MaxRows,         \* -max-rows of the job
    Legacy,          \* photos the previous release stored, of the first dine
    Forms,           \* ratings, tags and number of new photos of a form
    None, Gone

PhotoIds == 1..MaxPhotos
Edits == 0..MaxEdits   \* 0: the dine the previous release logged
OrNone(S) == S \cup {None}

\* bytes says whether original_bytes and thumbnail_bytes are both filled; the
\* data URI is never NULL.  Every statement writes the two together.
PhotoRow == [dine : Dines, order : 0..(MaxVisitPhotos - 1), bytes : BOOLEAN]

\* A form rates with at least one person; the score names the edit it is from.
\* NULL is no edit.
ASSUME DetailsAssumption ==
    /\ {MaxPhotos, MaxVisitPhotos, MaxEdits, MaxRuns} \subseteq Nat
    /\ {BatchSize, MaxRows} \subseteq Nat \ {0}
    /\ Legacy \in 0..MaxVisitPhotos /\ MaxVisitPhotos <= MaxPhotos
    /\ Dines # {} /\ None \notin Edits /\ None \notin PhotoRow /\ Gone \notin PhotoRow
    /\ Forms \subseteq [people : (SUBSET People) \ {{}}, tags : SUBSET Tags,
                        newTag : OrNone(Tags), added : 0..MaxVisitPhotos]

VARIABLES
    dines,    \* committed rows of dining_visits: the edit that wrote each
    ratings,  \* committed rows of visit_participant_ratings, by dine
    tagged,   \* committed rows of visit_tags, by dine
    photos,   \* committed rows of visit_photos
    edits,    \* requests with a form so far
    req,      \* the requests in flight
    old,      \* whether replicas of the previous release still run
    job,      \* the maintenance job
    shown     \* history: the ratings, tags and photos last saved, by dine

rows == <<dines, ratings, tagged, photos>>
vars == <<dines, ratings, tagged, photos, edits, req, old, job, shown>>

Score == [person : People, score : Edits]

NoForm == [people |-> {}, tags |-> {}, newTag |-> None, added |-> 0]
Idle == [pc |-> "idle", dine |-> None, edit |-> None, form |-> NoForm, keep |-> <<>>,
         holds |-> FALSE, newTag |-> None, attached |-> {},
         cleared |-> {}, untagged |-> {}, drop |-> {}, placed |-> 0]

Resting == [pc |-> "off", ids |-> <<>>, processed |-> 0, lock |-> None,
            final |-> FALSE, runs |-> 0]

Pages == [ratings : SUBSET Score, tags : SUBSET Tags, strip : Seq(PhotoIds)]
Blank == [ratings |-> {}, tags |-> {}, strip |-> <<>>]

TypeOK ==
    /\ dines \in [Dines -> Edits \cup {None, Gone}]
    /\ ratings \in [Dines -> SUBSET Score]
    /\ tagged \in [Dines -> SUBSET Tags]
    /\ photos \in [PhotoIds -> PhotoRow \cup {None, Gone}]
    /\ edits \in 0..MaxEdits
    /\ \A r \in Requests :
          /\ req[r].pc \in {"idle", "lockDine", "cascade", "newTag", "tags",
                            "photos", "order", "commit"}
          /\ req[r].dine \in OrNone(Dines)
          /\ req[r].keep \in Seq(PhotoIds)
          /\ req[r].attached \subseteq Tags
          /\ req[r].drop \subseteq PhotoIds
    /\ old \in BOOLEAN
    /\ job.pc \in {"off", "batch", "row", "fill", "count", "audit", "done"}
    /\ job.ids \in Seq(PhotoIds)
    /\ job.lock \in OrNone(PhotoIds)
    /\ shown \in [Dines -> Pages]

OldDine == CHOOSE v \in Dines : TRUE
OldRatings == [person : People, score : {0}]
OldStrip == [i \in 1..Legacy |-> i]

\* The previous release has logged one dine, rated by everybody.
Init ==
    /\ dines = [v \in Dines |-> IF v = OldDine THEN 0 ELSE None]
    /\ ratings = [v \in Dines |-> IF v = OldDine THEN OldRatings ELSE {}]
    /\ tagged = [v \in Dines |-> {}]
    /\ photos = [p \in PhotoIds |->
          IF p <= Legacy THEN [dine |-> OldDine, order |-> p - 1, bytes |-> FALSE] ELSE None]
    /\ edits = 0
    /\ req = [r \in Requests |-> Idle]
    /\ old = TRUE
    /\ job = Resting
    /\ shown = [v \in Dines |->
          IF v = OldDine THEN [ratings |-> OldRatings, tags |-> {}, strip |-> OldStrip]
                         ELSE Blank]

-----------------------------------------------------------------------------
(* What statements read *)

Stored(p) == photos[p] \notin {None, Gone}
PhotosOf(v) == {p \in PhotoIds : Stored(p) /\ photos[p].dine = v}
Missing == {p \in PhotoIds : Stored(p) /\ ~photos[p].bytes}

\* loadVisitPhotos: the photos of a dine as its page shows them.  sort_order
\* decides; rows with equal ones follow created_at and id.
Strip(v) == Sorted(PhotosOf(v), LAMBDA p, q :
    \/ photos[p].order < photos[q].order
    \/ photos[p].order = photos[q].order /\ p < q)

FirstOf(s, n) == SubSeq(s, 1, IF Len(s) < n THEN Len(s) ELSE n)

-----------------------------------------------------------------------------
(* Waiting.  An insert into visit_tags locks the tag FOR KEY SHARE (foreign  *)
(* key).  INSERT INTO tags ... ON CONFLICT (name) DO UPDATE locks the tag    *)
(* FOR UPDATE, since it names the column of a unique index; the two conflict.*)

\* Mutant: the dine's row is read without FOR UPDATE and updated last.
HeldByNobody(v) == {}

HeldBy(v) == {q \in Requests : req[q].holds /\ req[q].dine = v}
Typing(g) == {q \in Requests : req[q].newTag = g}
Attaching(g) == {q \in Requests : g \in req[q].attached}

\* Mutant: attaching locks the tag for itself, not FOR KEY SHARE.
AttachWaitsAlone(g) == Typing(g) \cup Attaching(g)

\* Whom attaching a tag waits for.
AttachWaits(g) == Typing(g)

\* The tags a form still has to attach; the new tag comes last.
ToAttach(r) == (req[r].form.tags \cup {req[r].newTag}) \ (req[r].attached \cup {None})
NextTags(r) == IF ToAttach(r) = {req[r].newTag} THEN ToAttach(r)
                                                ELSE ToAttach(r) \ {req[r].newTag}

Blockers(r) ==
    (CASE req[r].pc = "lockDine" -> HeldBy(req[r].dine)
       [] req[r].pc = "newTag" /\ req[r].form.newTag # None ->
            Typing(req[r].form.newTag) \cup Attaching(req[r].form.newTag)
       [] req[r].pc = "tags" /\ ToAttach(r) # {} ->
            UNION {AttachWaits(g) : g \in NextTags(r)}
       [] OTHER -> {}) \ {r}

\* The photo row the job has locked is free again after its next step.
Free(P) == job.lock \notin P

Becomes(r, state) == req' = [req EXCEPT ![r] = state]
At(r, pc) == req[r].pc = pc /\ Blockers(r) = {}
End(r) == Becomes(r, Idle)

-----------------------------------------------------------------------------
(* Requests *)

\* Ids of photos a form of dine v may name: photos it showed, or that a page
\* opened earlier showed.
MayKeep(v) == {p \in PhotoIds : photos[p] = Gone \/ p \in PhotosOf(v)}
Keeps(v, n) == {s \in UNION {[1..k -> MayKeep(v)] : k \in 0..n} :
                  \A i, j \in DOMAIN s : i # j => s[i] # s[j]}

BeginCreate(r, v) ==
    /\ req[r].pc = "idle" /\ edits < MaxEdits
    /\ dines[v] = None
    /\ \A q \in Requests : req[q].dine # v
    /\ \E f \in Forms :
          Becomes(r, [Idle EXCEPT !.pc = "newTag", !.dine = v, !.edit = edits + 1,
                                  !.form = f, !.holds = TRUE])
    /\ edits' = edits + 1
    /\ UNCHANGED <<rows, old, job, shown>>

BeginUpdate(r, v) ==
    /\ req[r].pc = "idle" /\ edits < MaxEdits
    /\ dines[v] # None
    /\ \E f \in Forms : \E k \in Keeps(v, MaxVisitPhotos - f.added) :
          Becomes(r, [Idle EXCEPT !.pc = "lockDine", !.dine = v, !.edit = edits + 1,
                                  !.form = f, !.keep = k])
    /\ edits' = edits + 1
    /\ UNCHANGED <<rows, old, job, shown>>

\* A deletion has no form, so no edit.
BeginDelete(r, v) ==
    /\ req[r].pc = "idle" /\ dines[v] # None
    /\ Becomes(r, [Idle EXCEPT !.pc = "lockDine", !.dine = v])
    /\ UNCHANGED <<rows, edits, old, job, shown>>

\* SELECT ... FOR UPDATE and the UPDATE of the row, or the DELETE.
LockDine(r) ==
    /\ At(r, "lockDine")
    /\ IF dines[req[r].dine] = Gone
       THEN End(r)
       ELSE Becomes(r, [req[r] EXCEPT !.holds = TRUE,
                !.pc = IF req[r].edit = None THEN "cascade" ELSE "newTag"])
    /\ UNCHANGED <<rows, edits, old, job, shown>>

\* The row's DELETE cascades to its ratings, tags and photos.
Cascade(r) ==
    /\ At(r, "cascade")
    /\ LET v == req[r].dine IN
       /\ Free(PhotosOf(v))
       /\ dines' = [dines EXCEPT ![v] = Gone]
       /\ ratings' = [ratings EXCEPT ![v] = {}]
       /\ tagged' = [tagged EXCEPT ![v] = {}]
       /\ photos' = [p \in PhotoIds |-> IF p \in PhotosOf(v) THEN Gone ELSE photos[p]]
       /\ shown' = [shown EXCEPT ![v] = Blank]
    /\ End(r)
    /\ UNCHANGED <<edits, old, job>>

\* replaceVisitRatingsAndTags up to its last loop: takes the lock of the new
\* tag, deletes the ratings and tags that are committed now, inserts ratings.
Replace(r) ==
    /\ At(r, "newTag")
    /\ LET next == [req[r] EXCEPT !.newTag = req[r].form.newTag,
                                  !.cleared = ratings[req[r].dine],
                                  !.untagged = tagged[req[r].dine]]
       IN  Becomes(r, [next EXCEPT !.pc =
              IF req[r].form.tags = {} /\ next.newTag = None THEN "photos" ELSE "tags"])
    /\ UNCHANGED <<rows, edits, old, job, shown>>

AttachTag(r) ==
    /\ req[r].pc = "tags"
    /\ \E g \in NextTags(r) :
          /\ AttachWaits(g) \subseteq {r}
          /\ Becomes(r, [req[r] EXCEPT !.attached = @ \cup {g},
                   !.pc = IF ToAttach(r) = {g} THEN "photos" ELSE "tags"])
    /\ UNCHANGED <<rows, edits, old, job, shown>>

\* Mutant: the ids to keep are not checked against the dine's photos.
DropUnchecked(r) ==
    LET drop == PhotosOf(req[r].dine) \ ToSet(req[r].keep)
    IN  /\ At(r, "photos") /\ Free(drop)
        /\ Becomes(r, [req[r] EXCEPT !.drop = drop,
                 !.pc = IF req[r].keep = <<>> THEN "commit" ELSE "order"])
        /\ UNCHANGED <<rows, edits, old, job, shown>>

\* reconcileVisitPhotos: every kept photo must be the dine's; the others go.
DropPhotos(r) ==
    LET v == req[r].dine
        drop == PhotosOf(v) \ ToSet(req[r].keep)
    IN  /\ At(r, "photos")
        /\ IF ToSet(req[r].keep) \subseteq PhotosOf(v)
           THEN /\ Free(drop)
                /\ Becomes(r, [req[r] EXCEPT !.drop = drop,
                         !.pc = IF req[r].keep = <<>> THEN "commit" ELSE "order"])
           ELSE End(r)
        /\ UNCHANGED <<rows, edits, old, job, shown>>

\* UPDATE ... SET sort_order of the next kept photo.
OrderPhoto(r) ==
    LET k == req[r].placed + 1 IN
    /\ At(r, "order")
    /\ Free({req[r].keep[k]})
    /\ Becomes(r, [req[r] EXCEPT !.placed = k,
             !.pc = IF k = Len(req[r].keep) THEN "commit" ELSE "order"])
    /\ UNCHANGED <<rows, edits, old, job, shown>>

\* Random ids for the new photos, in the order of the form.
FreshIds(n) == {s \in [1..n -> {p \in PhotoIds : photos[p] = None}] :
                  \A i, j \in 1..n : i # j => s[i] # s[j]}

\* Mutant: kept photos are written again from the form, without their bytes.
PhotosRewritten(r, made) ==
    [p \in PhotoIds |->
        CASE p \in req[r].drop -> Gone
          [] p \in ToSet(req[r].keep) ->
               [dine |-> req[r].dine, bytes |-> FALSE,
                order |-> (CHOOSE i \in DOMAIN req[r].keep : req[r].keep[i] = p) - 1]
          [] p \in ToSet(made) ->
               [dine |-> req[r].dine, bytes |-> TRUE,
                order |-> Len(req[r].keep) + (CHOOSE i \in DOMAIN made : made[i] = p) - 1]
          [] OTHER -> photos[p]]

\* Mutant: new photos are numbered from one after the kept ones.
PhotosOffByOne(r, made) ==
    [p \in PhotoIds |->
        CASE p \in req[r].drop -> Gone
          [] p \in ToSet(made) -> [dine |-> req[r].dine, bytes |-> TRUE,
                                   order |-> Len(req[r].keep) + 1]
          [] OTHER -> photos[p]]

\* The photo rows once request r, which inserts the ids made, has committed.
PhotosAfter(r, made) ==
    LET keep == req[r].keep
        orders == [p \in ToSet(keep) |-> CHOOSE i \in DOMAIN keep : keep[i] = p]
        added == [p \in ToSet(made) |-> CHOOSE i \in DOMAIN made : made[i] = p]
    IN  [p \in PhotoIds |->
           CASE p \in req[r].drop -> Gone
             [] p \in DOMAIN orders /\ p \in PhotosOf(req[r].dine) -> [photos[p] EXCEPT !.order = orders[p] - 1]
             [] p \in DOMAIN added ->
                  [dine |-> req[r].dine, bytes |-> TRUE,
                   order |-> Len(keep) + added[p] - 1]
             [] OTHER -> photos[p]]

NewRatings(r) == {[person |-> a, score |-> req[r].edit] : a \in req[r].form.people}

Commit(r) ==
    LET v == req[r].dine IN
    /\ At(r, "commit")
    /\ \E made \in FreshIds(req[r].form.added) :
          /\ photos' = PhotosAfter(r, made)
          /\ shown' = [shown EXCEPT ![v] = [ratings |-> NewRatings(r),
                                            tags |-> req[r].attached,
                                            strip |-> req[r].keep \o made]]
    /\ dines' = [dines EXCEPT ![v] = req[r].edit]
    /\ ratings' = [ratings EXCEPT ![v] = (@ \ req[r].cleared) \cup NewRatings(r)]
    /\ tagged' = [tagged EXCEPT ![v] = (@ \ req[r].untagged) \cup req[r].attached]
    /\ End(r)
    /\ UNCHANGED <<edits, old, job>>

\* An error, a canceled request, or Postgres breaking a deadlock: rolled back.
Fail(r) ==
    /\ req[r].pc # "idle"
    /\ End(r)
    /\ UNCHANGED <<rows, edits, old, job, shown>>

-----------------------------------------------------------------------------
(* Replicas of the previous release (not in this repository any more).  The  *)
(* storage tests reproduce them: one transaction deletes a dine's photos and *)
(* inserts them again, same ids and order, without the new columns.          *)

OldRewrite(v) ==
    /\ old
    /\ HeldBy(v) = {} /\ Free(PhotosOf(v))
    /\ photos' = [p \in PhotoIds |->
          IF p \in PhotosOf(v) THEN [photos[p] EXCEPT !.bytes = FALSE] ELSE photos[p]]
    /\ UNCHANGED <<dines, ratings, tagged, edits, req, old, job, shown>>

OldStop ==
    /\ old /\ old' = FALSE
    /\ UNCHANGED <<rows, edits, req, job, shown>>

-----------------------------------------------------------------------------
(* The job: photo-storage -apply.  Each photo is one short transaction.      *)

JobBecomes(state) == job' = state /\ UNCHANGED <<rows, edits, req, old, shown>>

JobStart ==
    /\ job.pc \in {"off", "done"} /\ job.runs < MaxRuns
    /\ JobBecomes([Resting EXCEPT !.pc = "batch", !.runs = job.runs + 1, !.final = ~old])

BatchLimit == IF BatchSize < MaxRows - job.processed THEN BatchSize
                                                     ELSE MaxRows - job.processed

\* The lowest ids with a missing representation, from the beginning every time.
JobBatch ==
    /\ job.pc = "batch"
    /\ LET ids == FirstOf(Sorted(Missing, <), BatchLimit) IN
       JobBecomes([job EXCEPT !.ids = ids, !.pc = IF ids = <<>> THEN "count" ELSE "row"])

\* Mutant: only rows the run changed count against -max-rows.
RowDoneUncounted(p) ==
    [job EXCEPT !.ids = Tail(@), !.lock = None,
                !.processed = IF job.lock = p THEN @ + 1 ELSE @,
                !.pc = IF Len(job.ids) = 1 THEN "batch" ELSE "row"]

\* The row is in a state this job does not change: gone, or filled meanwhile.
RowDone(p) == [job EXCEPT !.ids = Tail(@), !.processed = @ + 1, !.lock = None,
                          !.pc = IF Len(job.ids) = 1 THEN "batch" ELSE "row"]

PhotoLocked(p) ==
    \E r \in Requests :
        \/ p \in req[r].drop
        \/ \E i \in 1..req[r].placed : req[r].keep[i] = p

\* SELECT ... AND <missing> FOR UPDATE.  A row that an old replica rewrote
\* while the statement waited is not returned either.
JobRow ==
    /\ job.pc = "row"
    /\ LET p == Head(job.ids) IN
       /\ ~PhotoLocked(p)
       /\ \/ p \in Missing /\ JobBecomes([job EXCEPT !.pc = "fill", !.lock = p])
          \/ (p \notin Missing \/ old) /\ JobBecomes(RowDone(p))

\* UPDATE of the three binary columns, and COMMIT.
JobFill ==
    /\ job.pc = "fill"
    /\ photos' = [photos EXCEPT ![job.lock].bytes = TRUE]
    /\ job' = RowDone(job.lock)
    /\ UNCHANGED <<dines, ratings, tagged, edits, req, old, shown>>

\* remaining # 0 ends the run with an error, and so does the audit, on a
\* snapshot of its own, if it finds a row without the new columns.
JobCount ==
    /\ job.pc = "count"
    /\ JobBecomes([job EXCEPT !.pc = IF Missing = {} THEN "audit" ELSE "off"])

JobAudit ==
    /\ job.pc = "audit"
    /\ JobBecomes([job EXCEPT !.pc =
          IF Missing = {} /\ Cardinality({p \in PhotoIds : Stored(p)}) <= MaxRows
          THEN "done" ELSE "off"])

Stopped == [Resting EXCEPT !.runs = job.runs]

\* lock_timeout: waiting for a locked row fails the run.
JobTimeout ==
    /\ job.pc = "row" /\ PhotoLocked(Head(job.ids))
    /\ JobBecomes(Stopped)

\* The overall timeout or a crash: the row's transaction is rolled back.
JobFail ==
    /\ job.pc \notin {"off", "done"}
    /\ JobBecomes(Stopped)

-----------------------------------------------------------------------------

Request(r) ==
    \/ \E v \in Dines : BeginCreate(r, v) \/ BeginUpdate(r, v) \/ BeginDelete(r, v)
    \/ LockDine(r) \/ Cascade(r)
    \/ Replace(r) \/ AttachTag(r)
    \/ DropPhotos(r) \/ OrderPhoto(r) \/ Commit(r) \/ Fail(r)

JobStep == JobBatch \/ JobRow \/ JobFill \/ JobCount \/ JobAudit \/ JobTimeout

Next ==
    \/ \E r \in Requests : Request(r)
    \/ \E v \in Dines : OldRewrite(v)
    \/ OldStop
    \/ JobStart \/ JobStep \/ JobFail

Spec == Init /\ [][Next]_vars

\* The job is a process that runs on its own; nobody has to use the site or to
\* stop the old replicas.
FairSpec == Spec /\ WF_vars(JobStep)

-----------------------------------------------------------------------------
(* Properties *)

\* The ratings and the tags of a dine are exactly those of the form that wrote
\* its row last, never a mixture of two edits (replaceVisitRatingsAndTags).
SetsAsSubmitted ==
    \A v \in Dines : dines[v] \in Edits =>
        /\ ratings[v] = shown[v].ratings
        /\ tagged[v] = shown[v].tags
        /\ \A s \in ratings[v] : s.score = dines[v]

\* The photos of a dine are the kept ones in the order of the form and then the
\* new ones, numbered without gaps and at most MaxVisitPhotos, whatever edits,
\* the job and old replicas do to their rows (reconcileVisitPhotos).
PhotosAsSubmitted ==
    \A v \in Dines :
        /\ Strip(v) = shown[v].strip
        /\ Len(Strip(v)) <= MaxVisitPhotos
        /\ \A i \in DOMAIN Strip(v) : photos[Strip(v)[i]].order = i - 1

\* Where requests wait for one another in a circle, so do those among them that
\* hold the lock of a tag they typed, and there are such: no circle runs over
\* dines, photos and ticked tags alone (replaceVisitRatingsAndTags).
OnlyNewTagsDeadlock ==
    \A C \in (SUBSET Requests) \ {{}} :
        (\A r \in C : Blockers(r) \cap C # {}) =>
            LET typed == {r \in C : req[r].newTag # None}
            IN  typed # {} /\ \A r \in typed : Blockers(r) \cap typed # {}

\* Once a run of the job that began after the last old replica stopped reports
\* success, every photo has its binary columns, for good
\* (docs/photo-storage-rollout.md: "Run a final backfill after every old
\* replica has stopped").
FinalRunHolds ==
    job.pc = "done" /\ job.final =>
        \A p \in PhotoIds : Stored(p) => photos[p].bytes

\* Every run of the job ends, even if old replicas keep undoing its work
\* ("maxRows bounds a run even if old replicas keep writing").
RunEnds == job.pc = "batch" ~> job.pc \in {"off", "done"}
=============================================================================
