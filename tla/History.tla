------------------------------ MODULE History ------------------------------
(***************************************************************************)
(* The pages that read the dines, while others log, edit and delete them:  *)
(*   - /dines with its filters and pages (internal/handler/visits.go,      *)
(*     dines_filter.go): one request counts, counts what matches and reads *)
(*     its page in three statements;                                       *)
(*   - the link that saving a dine redirects to: the position of the dine  *)
(*     is read, then the browser asks for the page it is on;               *)
(*   - the spinner (spinner.go): what it chooses from and whose turn it is.*)
(* One request is followed at a time; every other writer's change is one   *)
(* action, since only committed dines can be read.                         *)
(***************************************************************************)
EXTENDS MemoryQueries

CONSTANTS
    Forms,         \* [at, where, picker, scores, tags] of a dine as submitted
    MaxDines,      \* bound: dines at a time
    MaxWrites,     \* bound: changes by others during a request
    DinesPageSize,
    TagName,       \* of the tags 1..n, in the order of the dialog
    EverybodyValue,\* the text of the picker's choice Everybody
    Params,        \* the filters that requests set; 0 is one not set
    SpinMinAverage, RestedBefore, TurnSince,  \* as ranks: now less 30 and 90 days
    WantToTryLists \* the lists the spinner may read, newest first

VARIABLES visits, request
vars == <<visits, request>>

Ids == 1..MaxDines
D == Range(visits)
PeopleNames == [p \in People |-> PersonName[p]]
NoParams == [cuisine |-> 0, picker |-> 0, rater |-> 0, tag |-> 0, city |-> 0, year |-> 0]

\* People are seeded and tags UNIQUE; nobody is called Everybody.
ASSUME HistoryAssumption ==
    /\ MaxDines \in Nat /\ MaxWrites \in Nat /\ DinesPageSize \in Nat \ {0}
    /\ YearLength \in Nat \ {0} /\ TurnSince \in Int /\ None \notin Int
    /\ People = 1..Cardinality(People) /\ Cardinality(People) \in Nat /\ Everybody \notin People
    /\ Restaurants \subseteq Int
    /\ Text \subseteq Nat \ {0} /\ Lower \in [Text \cup {0} -> Nat]
    /\ \A text \in Text \cup {0} : Lower[text] = 0 <=> text = 0
    /\ Collated \in [Text \cup {0} -> Int] /\ IsInjective(Collated)
    /\ PersonName \in [People -> Text] /\ IsInjective(PersonName)
    /\ TagName \in Seq(Text) /\ IsInjective(TagName)
    /\ EverybodyValue \in Text /\ \A p \in People : Fold(PersonName[p]) # Fold(EverybodyValue)
    /\ {Category, City} \subseteq [Restaurants -> Text \cup {0}] /\ Name \in [Restaurants -> Text]
    /\ MinAggregateRaters \in Nat \ {0} /\ TopLimit \in Nat \ {0}
    /\ SpinMinAverage \in Int /\ RestedBefore \in Int
    /\ \A form \in Forms :
          /\ DOMAIN form = {"at", "where", "picker", "scores", "tags"} /\ form.at \in Nat
          /\ form.where \in Restaurants /\ form.picker \in People \cup {Everybody}
          /\ DOMAIN form.scores \subseteq People /\ DOMAIN form.scores # {}
          /\ form.scores \in [DOMAIN form.scores -> Int]
    /\ \A params \in Params :
          /\ {params.cuisine, params.picker, params.rater, params.tag, params.city}
                \subseteq Text \cup {0}
          /\ params.year \in Nat
    /\ WantToTryLists \subseteq Seq(Restaurants) /\ \A list \in WantToTryLists : IsInjective(list)

---------------------------------------------------------------------------
(* The /dines request *)

\* Mutant: no preference for the exact name.
MatchNameFolded(names, value) == SelectInSeq(names, LAMBDA n : Fold(n) = Fold(value))

\* The name that equals value, or else the first that differs only in case, or 0.
MatchName(names, value) ==
    LET exact == SelectInSeq(names, LAMBDA n : n = value)
    IN IF exact # 0 THEN exact ELSE SelectInSeq(names, LAMBDA n : Fold(n) = Fold(value))

ReadFilter(params) ==
    LET Named(names, value) == IF value = 0 THEN 0 ELSE MatchName(names, value)
        everybody == Fold(params.picker) = Fold(EverybodyValue)
        picker == IF everybody THEN 0 ELSE Named(PeopleNames, params.picker)
        rater == Named(PeopleNames, params.rater)
        tag == Named(TagName, params.tag)
        OrNone(i) == IF i = 0 THEN None ELSE i
    IN [matchable |-> /\ everybody \/ params.picker = 0 \/ picker # 0
                      /\ params.rater = 0 \/ rater # 0
                      /\ params.tag = 0 \/ tag # 0,
        filter |-> [cuisine |-> params.cuisine, everybody |-> everybody,
                    picker |-> OrNone(picker), rater |-> OrNone(rater), tag |-> OrNone(tag),
                    city |-> params.city, year |-> params.year]]

\* Mutant: full pages are followed by an empty one.
PagesAndOne(matched) == matched \div DinesPageSize + 1

Pages(matched) == Max({1, (matched + DinesPageSize - 1) \div DinesPageSize})

\* Mutant: no limit, which lists every matching dine after the offset.
PageOfUnlimited(params, page) ==
    VisitsPage(D, ReadFilter(params).filter, MaxDines, (page - 1) * DinesPageSize)

PageOf(params, page) ==
    VisitsPage(D, ReadFilter(params).filter, DinesPageSize, (page - 1) * DinesPageSize)

\* step: the next statement.  dine: the one a saved link names, or None.
\* writes: changes by others since the request's first statement.
Idle == [step |-> "idle", params |-> NoParams, page |-> 1, matched |-> 0, dine |-> None,
         writes |-> 0, shown |-> <<>>]

Ask(params, page) ==
    /\ request.step = "idle"
    /\ request' = [Idle EXCEPT !.step = "count", !.params = params, !.page = page]
    /\ UNCHANGED visits

\* What follows once the number of matching dines is known.
Matched(matched) ==
    request' = [request EXCEPT
        !.matched = matched,
        !.step = IF request.page > Pages(matched) THEN "notfound"
                 ELSE IF matched > 0 THEN "list" ELSE "shown"]

CountAll ==
    /\ request.step = "count"
    /\ IF ~ReadFilter(request.params).matchable THEN Matched(0)
       ELSE IF request.params = NoParams THEN Matched(CountVisits(D, ReadFilter(NoParams).filter))
       ELSE request' = [request EXCEPT !.step = "match"]
    /\ UNCHANGED visits

\* Mutant: every dine counts as matching.
CountMatchedAll ==
    /\ request.step = "match"
    /\ Matched(Len(visits))
    /\ UNCHANGED visits

CountMatched ==
    /\ request.step = "match"
    /\ Matched(CountVisits(D, ReadFilter(request.params).filter))
    /\ UNCHANGED visits

ListPage ==
    /\ request.step = "list"
    /\ request' = [request EXCEPT !.step = "shown", !.shown = PageOf(request.params, request.page)]
    /\ UNCHANGED visits

Answered ==
    /\ request.step \in {"shown", "notfound"}
    /\ request' = Idle
    /\ UNCHANGED visits

---------------------------------------------------------------------------
(* Saving, and the link to what was saved *)

\* created_at is kept as its rank, which a deletion may lower.
Deleted(i) ==
    LET rest == RemoveAt(visits, i)
    IN [j \in DOMAIN rest |->
            [rest[j] EXCEPT !.made = Cardinality({rest[k].made : k \in 1..j})]]

Dine(id, made, form) ==
    [id |-> id, made |-> made, at |-> form.at, where |-> form.where, picker |-> form.picker,
     scores |-> form.scores, tags |-> form.tags]

\* created_at never falls behind that of the dines before.
Logged(id, form, newer) ==
    LET made == IF visits = <<>> THEN 1 ELSE visits[Len(visits)].made + newer
    IN Append(visits, Dine(id, made, form))

Edited(i, form) == [visits EXCEPT ![i] = Dine(@.id, @.made, form)]

\* UpdateVisit and CreateVisit redirect to dinesVisitURL, which reads the position.
Save ==
    /\ request.step = "idle"
    /\ \/ \E id \in Ids \ {d.id : d \in D}, form \in Forms, newer \in {0, 1} :
              /\ visits' = Logged(id, form, newer)
              /\ request' = [Idle EXCEPT !.step = "position", !.dine = id]
       \/ \E i \in DOMAIN visits, form \in Forms :
              /\ visits' = Edited(i, form)
              /\ request' = [Idle EXCEPT !.step = "position", !.dine = visits[i].id]

\* Mutant: the position taken to start at one.
PageAtFromOne(position) == Max({1, (position + DinesPageSize - 1) \div DinesPageSize})

PageAt(position) == position \div DinesPageSize + 1

\* A dine that is gone by then, or a failed query, links to the first page.
ReadPosition ==
    /\ request.step = "position"
    /\ \E position \in {VisitPosition(D, request.dine), None} :
           request' = [Idle EXCEPT
               !.step = "count",
               !.dine = IF position = None THEN None ELSE request.dine,
               !.page = IF position = None THEN 1 ELSE PageAt(position)]
    /\ UNCHANGED visits

\* DeleteVisit redirects to the first page: the request is one of Ask.
Delete ==
    /\ request.step = "idle"
    /\ \E i \in DOMAIN visits : visits' = Deleted(i)
    /\ UNCHANGED request

\* Somebody else's change.  One of the linked dine itself ends the link's promise.
OthersWrite ==
    /\ request.step \in {"position", "count", "match", "list"}
    /\ request.writes < MaxWrites
    /\ \/ \E id \in Ids \ {d.id : d \in D}, form \in Forms, newer \in {0, 1} :
              /\ visits' = Logged(id, form, newer)
              /\ request' = [request EXCEPT !.writes = @ + 1]
       \/ \E i \in DOMAIN visits, form \in Forms :
              /\ visits' \in {Edited(i, form), Deleted(i)}
              /\ request' = [request EXCEPT
                     !.writes = @ + 1,
                     !.dine = IF request.step # "position" /\ @ = visits[i].id THEN None ELSE @]

Init == visits = <<>> /\ request = Idle

Next ==
    \/ \E params \in Params, page \in 1..2 : Ask(params, page)
    \/ CountAll \/ CountMatched \/ ListPage \/ Answered
    \/ Save \/ ReadPosition \/ Delete \/ OthersWrite

Spec == Init /\ [][Next]_vars

---------------------------------------------------------------------------
(* The spinner *)

\* Mutant: a favorite on the list is a second choice.
SpinChoicesTwice(items, favorites) ==
    [i \in DOMAIN items |-> [where |-> items[i], favorite |-> FALSE]]
        \o [i \in DOMAIN favorites |-> [where |-> favorites[i], favorite |-> TRUE]]

\* The list's items first, then the favorites that are not on it.
SpinChoices(items, favorites) ==
    LET Merge(choices, r) ==
            IF \E i \in DOMAIN choices : choices[i].where = r
            THEN [i \in DOMAIN choices |->
                    [choices[i] EXCEPT !.favorite = @ \/ choices[i].where = r]]
            ELSE Append(choices, [where |-> r, favorite |-> TRUE])
        merged[k \in 0..Len(favorites)] ==
            IF k = 0 THEN [i \in DOMAIN items |-> [where |-> items[i], favorite |-> FALSE]]
                     ELSE Merge(merged[k - 1], favorites[k])
    IN merged[Len(favorites)]

\* The choices left by from, a cuisine or a city; one no choice has means Anywhere.
SpinPage(choices, from) ==
    LET column == IF from.kind = "cuisine" THEN Category ELSE City
        matching == {i \in DOMAIN choices : Fold(column[choices[i].where]) = Fold(from.value)}
    IN IF from.value = 0 \/ matching = {} THEN DOMAIN choices ELSE matching

\* Which of the matching choices the next spin may land on, each with the same odds.
PickSpinChoice(choices, matching, last) ==
    LET others == {i \in matching : choices[i].where # last}
    IN IF Cardinality(matching) > 1 /\ others # {} THEN others ELSE matching

\* Mutant: someone who never picked comes last.
PickedEarlierNeverLast(a, b) == a # None /\ (b = None \/ a < b)

PickedEarlier(a, b) == IF a = None THEN b # None ELSE b # None /\ a < b

WhoseTurn(counts) ==
    LET best[p \in 0..Cardinality(People)] ==
            IF p = 0 THEN None
            ELSE IF \/ best[p - 1] = None
                    \/ counts[p].picks < counts[best[p - 1]].picks
                    \/ /\ counts[p].picks = counts[best[p - 1]].picks
                       /\ PickedEarlier(counts[p].last, counts[best[p - 1]].last)
                 THEN p ELSE best[p - 1]
    IN best[Cardinality(People)]

---------------------------------------------------------------------------
(* Properties *)

\* The variables hold values of their types.
TypeOK ==
    /\ \A d \in D : /\ d.id \in Ids /\ d.made \in 1..Len(visits)
                    /\ \E form \in Forms : \A f \in DOMAIN form : d[f] = form[f]
    /\ IsInjective(visits) /\ Cardinality({d.id : d \in D}) = Len(visits)
    /\ request.step \in {"idle", "position", "count", "match", "list", "shown", "notfound"}
    /\ request.page \in Nat \ {0} /\ request.matched \in 0..MaxDines
    /\ request.dine \in Ids \cup {None} /\ request.writes \in 0..MaxWrites
    /\ Len(request.shown) <= DinesPageSize

\* The link after a save shows the dine that was saved, unless others wrote
\* between reading its position and the page (dinesVisitURL, Dines): then the
\* dine is off the page by at most one place per change.
LinkFindsDine ==
    (request.step \in {"shown", "notfound"} /\ request.dine # None) =>
        LET dine == CHOOSE d \in D : d.id = request.dine
            place == Cardinality({e \in D : NewestFirst(e, dine)})
            first == (request.page - 1) * DinesPageSize
        IN /\ place >= first - request.writes
           /\ place < first + DinesPageSize + request.writes
           /\ request.writes = 0 => dine \in Range(request.shown)

\* The dines on an answered page match its filter, and there are as many as the
\* count above them leaves for the page, give or take one per change that others
\* made between the request's statements (Dines).
PageAsCounted ==
    request.step = "shown" =>
        LET left == Max({0, request.matched - (request.page - 1) * DinesPageSize})
            due == Min({left, DinesPageSize})
        IN /\ Len(request.shown) \in (due - request.writes)..(due + request.writes)
           /\ \A d \in Range(request.shown) :
                 VisitFilterSQL(d, ReadFilter(request.params).filter)

\* The pages the pager links hold each matching dine once, newest first, and no
\* page is empty unless nothing matches (Dines, VisitsPage, CountVisits).
PagesPartition ==
    request.step = "idle" => \A params \in Params :
        LET matching == {d \in D : VisitFilterSQL(d, ReadFilter(params).filter)}
            pages == [k \in 1..Pages(Cardinality(matching)) |-> PageOf(params, k)]
        IN /\ UNION {Range(pages[k]) : k \in DOMAIN pages} = matching
           /\ matching # {} => \A k \in DOMAIN pages : pages[k] # <<>>
           /\ \A k, l \in DOMAIN pages : \A i \in DOMAIN pages[k], j \in DOMAIN pages[l] :
                 k < l \/ (k = l /\ i < j) => NewestFirst(pages[k][i], pages[l][j])

\* Every choice of the Filter dialog leads back to itself: a cuisine, city or
\* year on offer matches a dine, no dine with one is left out, and a tag's or a
\* person's name finds that tag and person, though two tags may differ only in
\* case (VisitFilterOptions, matchName, filter).
ChoicesLeadBack ==
    request.step = "idle" =>
        LET options == VisitFilterOptions(D)
            Shown(params) == {d \in D : VisitFilterSQL(d, ReadFilter(params).filter)}
            Offered(values, Params1(_), has) ==
                /\ \A v \in values : Shown(Params1(v)) # {}
                /\ UNION {Shown(Params1(v)) : v \in values} = has
        IN /\ Offered(options.cuisines, LAMBDA v : [NoParams EXCEPT !.cuisine = v],
                      {d \in D : Category[d.where] # 0})
           /\ Offered(options.cities, LAMBDA v : [NoParams EXCEPT !.city = v],
                      {d \in D : City[d.where] # 0})
           /\ Offered(options.years, LAMBDA v : [NoParams EXCEPT !.year = v], D)
           /\ \A t \in DOMAIN TagName :
                 Shown([NoParams EXCEPT !.tag = TagName[t]]) = {d \in D : t \in d.tags}
           /\ \A p \in People :
                 Shown([NoParams EXCEPT !.picker = PersonName[p]]) = {d \in D : d.picker = p}
           /\ Shown([NoParams EXCEPT !.picker = EverybodyValue]) = {d \in D : d.picker = Everybody}

\* There is an answer, and each is one that is allowed.
Among(answers, allowed) == answers # {} /\ answers \subseteq allowed

\* The memory store lists what Postgres may list, as it claims to mirror it
\* (memory.go:167, memory.go:189): pages, counts, positions, choices and a
\* restaurant's dines, and the map as a database would whose collation is "C".
SameHistory ==
    request.step = "idle" =>
        /\ \A params \in Params, limit \in 1..MaxDines, offset \in 0..MaxDines :
              LET filter == ReadFilter(params).filter
              IN /\ MemVisitsPage(visits, filter, limit, offset)
                      = VisitsPage(D, filter, limit, offset)
                 /\ Len(MatchingVisits(visits, filter)) = CountVisits(D, filter)
        /\ \A id \in Ids : MemVisitPosition(visits, id) = VisitPosition(D, id)
        /\ MemVisitFilterOptions(visits) = VisitFilterOptions(D)
        /\ \A r \in Restaurants : MemRestaurantVisits(visits, r) \in RestaurantVisits(D, r)
        /\ Among(MemMapPoints(visits), MapPoints(D, Bytes))

\* No two restaurants of one name spell the cuisine they share differently.
NamesakesSpellAlike ==
    \A a, b \in RatedRestaurants(D, 1) :
        Name[a.where] = Name[b.where] /\ Fold(Category[a.where]) = Fold(Category[b.where])
            => Category[a.where] = Category[b.where]

\* The memory store's winners of the cuisines are Postgres's, though it may spell
\* the cuisine as a namesake of the winner does; while namesakes spell it alike,
\* the lists are Postgres's (topRestaurantStatsByCuisine).
SameCuisines ==
    LET mem == MemCuisineWinners(visits)
        pg == CuisineWinners(D, Bytes)
    IN /\ DOMAIN mem = DOMAIN pg
       /\ \A k \in DOMAIN mem :
             /\ mem[k] # {}
             /\ \A a \in mem[k] : \E b \in pg[k] :
                   /\ a = Winner(a.cuisine, b)
                   /\ \E c \in RatedRestaurants(D, 1) :
                         Name[c.where] = b.name /\ Category[c.where] = a.cuisine
                   /\ Fold(a.cuisine) = k
       /\ NamesakesSpellAlike =>
             Among(TopByCuisine(visits), TopRestaurantsByCuisine(D, Bytes))

\* In whatever order the memory store ranges over its maps, it arrives at the
\* Trophy Case and the spinner's data that Postgres computes on a database whose
\* collation is "C": averages over the same ratings, and ties broken the same way.
SameStatistics ==
    request.step = "idle" =>
        LET mem == MemStats(visits)
            pg == Stats(D, Bytes)
            tastes == TasteProfiles(D, Bytes)
        IN /\ \A field \in DOMAIN pg : Among(mem[field], pg[field])
           /\ SameCuisines
           /\ \A p \in People :
                 Among(TasteOf(visits, p), IF p \in DOMAIN tastes THEN tastes[p] ELSE {None})
           /\ MemRestedFavorites(visits, SpinMinAverage, RestedBefore)
                = RestedFavorites(D, SpinMinAverage, RestedBefore, Bytes)
           /\ MemPickCounts(visits, TurnSince) = PickCounts(D, TurnSince)

\* Whatever is answered first in the one store and in the other, both have no
\* answer or the answers tie.
Tie(mem, pg, Tied(_, _)) ==
    \A a \in mem, b \in pg : (a = None /\ b = None) \/ Tied(a, b)

SameAverage(a, b) == Equal(a.average, b.average)
SameRank(a, b) == SameAverage(a, b) /\ a.average.count = b.average.count

\* On a database of another collation the memory store's answers and Postgres's
\* are still of the same rank: they differ only in which text comes first of those
\* that tie.
OnlyTextsDiffer ==
    request.step = "idle" =>
        LET mem == MemStats(visits)
            pg == Stats(D, Collated)
            tastes == TasteProfiles(D, Collated)
            memCuisines == MemCuisineWinners(visits)
            cuisines == CuisineWinners(D, Collated)
        IN /\ mem.totals = pg.totals
           /\ Tie(mem.best, pg.best, SameAverage) /\ Tie(mem.worst, pg.worst, SameAverage)
           /\ Tie(mem.split, pg.split, LAMBDA a, b : a.gap = b.gap /\ a.at = b.at)
           /\ Tie(mem.loyal, pg.loyal, LAMBDA a, b : a.visits = b.visits /\ a.last = b.last)
           /\ Tie(mem.nostalgia, pg.nostalgia, LAMBDA a, b : a.last = b.last)
           /\ \A s \in mem.top, t \in pg.top :
                 Len(s) = Len(t) /\ \A i \in DOMAIN s : SameRank(s[i], t[i])
           /\ DOMAIN memCuisines = DOMAIN cuisines
           /\ \A k \in DOMAIN cuisines : Tie(memCuisines[k], cuisines[k], SameRank)
           /\ \A p \in People :
                 Tie(TasteOf(visits, p), IF p \in DOMAIN tastes THEN tastes[p] ELSE {None},
                     SameRank)
           /\ \A s \in MemMapPoints(visits), t \in MapPoints(D, Collated) :
                 /\ Range(s) = Range(t) /\ Len(s) = Len(t)
                 /\ \A i \in DOMAIN s : s[i].latest = t[i].latest
           /\ Range(MemRestedFavorites(visits, SpinMinAverage, RestedBefore))
                = Range(RestedFavorites(D, SpinMinAverage, RestedBefore, Collated))

\* The memory store mirrors Postgres (memory.go:167, memory.go:752, memory.go:787,
\* memory_spinner.go:12): it lists alike and counts alike, but for the spelling of
\* a cuisine that namesakes share, and for which of several that tie comes first
\* where the database's collation is not that of the bytes.
MirrorsPostgres == SameHistory /\ SameStatistics /\ OnlyTextsDiffer

\* A spin lands on each place of the list and each rested favorite with the same
\* odds, and on the place of the last spin only if there is no other, also when
\* the list was read before a dine took a place off it (Spinner).
SpinMovesOn ==
    request.step = "idle" =>
        LET favorites == RestedFavorites(D, SpinMinAverage, RestedBefore, Collated)
            froms == {[kind |-> "cuisine", value |-> v] : v \in Range(Category)}
                        \cup {[kind |-> "city", value |-> v] : v \in Range(City)}
        IN \A items \in WantToTryLists, from \in froms, last \in Restaurants \cup {None} :
              LET choices == SpinChoices(items, favorites)
                  matching == SpinPage(choices, from)
                  lands == PickSpinChoice(choices, matching, last)
                  Places(which) == {choices[i].where : i \in which}
              IN /\ Cardinality(Places(lands)) = Cardinality(lands)
                 /\ Places(matching) \subseteq Range(items) \cup Range(favorites)
                 /\ Places(lands) = IF Places(matching) \subseteq {last}
                                    THEN Places(matching) ELSE Places(matching) \ {last}
                 /\ from.value = 0 => Places(matching) = Range(items) \cup Range(favorites)

\* Nobody picked less often lately than the person whose turn it is, nor as seldom
\* and longer ago or never, and a turn once taken passes to whoever had picked as
\* seldom (PickCounts, whoseTurn).
TurnIsFair ==
    request.step = "idle" =>
        LET counts == PickCounts(D, TurnSince)
            turn == WhoseTurn(counts)
            now == Max({TurnSince} \cup {d.at + 1 : d \in D})
            taken == [counts EXCEPT ![turn] = [picks |-> @.picks + 1, last |-> now]]
        IN \A p \in People \ {turn} :
              /\ counts[turn].picks <= counts[p].picks
              /\ counts[p].picks = counts[turn].picks =>
                    \/ counts[turn].last = None
                    \/ counts[p].last # None /\ counts[turn].last <= counts[p].last
              /\ counts[p].picks <= counts[turn].picks + 1 => WhoseTurn(taken) # turn
=============================================================================
