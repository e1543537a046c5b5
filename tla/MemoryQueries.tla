--------------------------- MODULE MemoryQueries ---------------------------
(***************************************************************************)
(* The answers of the in-memory store to the questions of Queries          *)
(* (internal/repository/memory.go, memory_spinner.go): loops over the      *)
(* slice m.visits, in the order the dines were logged, and over Go maps,   *)
(* which are ranged over in any order.  A sort of what a map held, if it   *)
(* leaves ties, has every order of them as its answer.                     *)
(***************************************************************************)
EXTENDS Queries, Loops

\* The results of keeping the better of two while ranging over a map.
RangeBest(values, worse) == {BestOf(s, worse, None) : s \in SetToSeqs(values)}

---------------------------------------------------------------------------
(* History *)

\* Mutant: dines of one time are sorted by id, whenever they were logged.
SortVisitsByTime(visits) ==
    Sorted(Range(visits), LAMBDA d, e : IF d.at = e.at THEN d.id < e.id ELSE d.at > e.at)

SortVisitsNewestFirst(visits) ==
    Sorted(Range(visits), LAMBDA d, e :
        IF d.at = e.at THEN IF d.made = e.made THEN d.id < e.id ELSE d.made > e.made
                       ELSE d.at > e.at)

VisitYear(d) == d.at \div YearLength

VisitMatches(d, filter) ==
    /\ filter.cuisine = 0 \/ Fold(Category[d.where]) = Fold(filter.cuisine)
    /\ \/ filter.everybody /\ d.picker = Everybody
       \/ ~filter.everybody /\ filter.picker \in {None, d.picker}
    /\ filter.rater \in {None} \cup DOMAIN d.scores
    /\ filter.tag \in {None} \cup d.tags
    /\ filter.city = 0 \/ Fold(City[d.where]) = Fold(filter.city)
    /\ filter.year \in {0, VisitYear(d)}

MatchingVisits(visits, filter) ==
    Kept(visits, {d \in Range(visits) : VisitMatches(d, filter)})

MemVisitsPage(visits, filter, limit, offset) ==
    LET all == SortVisitsNewestFirst(MatchingVisits(visits, filter))
        rest == SubSeq(all, Min({offset, Len(all)}) + 1, Len(all))
    IN IF Len(rest) > limit THEN SubSeq(rest, 1, limit) ELSE rest

MemVisitPosition(visits, id) ==
    LET i == SelectInSeq(SortVisitsNewestFirst(visits), LAMBDA d : d.id = id)
    IN IF i = 0 THEN None ELSE i - 1

\* keep: the first spelling of a value in byte order, whatever comes first.
KeepValue(values, v) ==
    LET same == {w \in values : Fold(w) = Fold(v)}
    IN IF v = 0 \/ \E w \in same : w <= v THEN values ELSE (values \ same) \cup {v}

MemVisitFilterOptions(visits) ==
    LET Spellings(column) ==
            LET values[k \in 0..Len(visits)] ==
                    IF k = 0 THEN {} ELSE KeepValue(values[k - 1], column[visits[k].where])
            IN values[Len(visits)]
    IN [cuisines |-> Spellings(Category), cities |-> Spellings(City),
        years |-> {VisitYear(visits[i]) : i \in DOMAIN visits}]

\* Also the entry of a restaurant in RestaurantVisitSummaries.
MemRestaurantVisits(visits, r) ==
    SortVisitsNewestFirst(Kept(visits, {d \in Range(visits) : d.where = r}))

\* The records a loop over the visits collects by restaurant: their number and
\* the latest time.
Records(visits) ==
    LET by[k \in 0..Len(visits)] ==
            IF k = 0 THEN [r \in Restaurants |-> [where |-> r, visits |-> 0, latest |-> 0]]
            ELSE LET d == visits[k]
                 IN [by[k - 1] EXCEPT ![d.where].visits = @ + 1,
                                      ![d.where].latest = IF d.at > @ THEN d.at ELSE @]
    IN by[Len(visits)]

MemMapPoints(visits) ==
    LET points == Records(Kept(visits, {d \in Range(visits) : d.where \in Mapped}))
    IN OrderBy({a \in Range(points) : a.visits > 0},
               LAMBDA a, b : IF a.latest # b.latest THEN a.latest > b.latest
                             ELSE Name[a.where] < Name[b.where])

---------------------------------------------------------------------------
(* Statistics *)

Counted(visits) ==
    Kept(visits, {d \in Range(visits) : Cardinality(DOMAIN d.scores) >= MinAggregateRaters})

\* The ratings of the visits, as the dine and the rater.
RatingsOf(visits) ==
    Joined([k \in DOMAIN visits |->
               LET raters == Kept([p \in People |-> p], DOMAIN visits[k].scores)
               IN [i \in DOMAIN raters |-> <<visits[k], raters[i]>>]])

AverageOf(ratings) ==
    [sum |-> Total([i \in DOMAIN ratings |-> ratings[i][1].scores[ratings[i][2]]]),
     count |-> Len(ratings)]

\* ratingByPicker: kept by the picker's name.
RatingByPicker(visits) ==
    LET ratings == RatingsOf(Counted(visits))
        picked == {x \in Range(ratings) : x[1].picker # Everybody}
        Of(name) == Kept(ratings, {x \in picked : PersonName[x[1].picker] = name})
    IN {[name |-> n, average |-> AverageOf(Of(n))] : n \in {PersonName[x[1].picker] : x \in picked}}

\* Mutant: of equal averages, the picker the map is ranged over first.
TopAverageAnyTie(visits) ==
    LET values == RatingByPicker(visits)
    IN RangeBest(values, [v \in values |-> {w \in values : Higher(v.average, w.average)}])

TopAverage(visits) ==
    LET values == RatingByPicker(visits)
        Worse(v) == {w \in values : \/ Higher(v.average, w.average)
                                    \/ Equal(v.average, w.average) /\ v.name < w.name}
    IN RangeBest(values, [v \in values |-> Worse(v)])

BottomAverage(visits) ==
    LET values == RatingByPicker(visits)
        Worse(v) == {w \in values : \/ Higher(w.average, v.average)
                                    \/ Equal(v.average, w.average) /\ v.name < w.name}
    IN RangeBest(values, [v \in values |-> Worse(v)])

RatingsByRestaurant(visits) ==
    LET counted == Counted(visits)
        Of(r) == Kept(counted, {d \in Range(counted) : d.where = r})
    IN {[where |-> r, average |-> AverageOf(RatingsOf(Of(r))), visits |-> Len(Of(r))] :
            r \in {d.where : d \in Range(counted)}}

\* What the first TopLimit restaurants with at least minRatings ratings may be.
TopRestaurantStats(values, minRatings) ==
    {[i \in 1..Min({TopLimit, Len(s)}) |-> Selected(s[i])] :
        s \in OrderBy({a \in values : a.average.count >= minRatings},
            LAMBDA a, b :
                IF ~Equal(a.average, b.average) THEN Higher(a.average, b.average)
                ELSE IF a.average.count # b.average.count THEN a.average.count > b.average.count
                ELSE Name[a.where] < Name[b.where])}

\* Who may win each cuisine, and as whom of the cuisine's restaurants with the
\* winner's name the cuisine may be spelled: the first that a map comes up with.
MemCuisineWinners(visits) ==
    LET values == {a \in RatingsByRestaurant(visits) : Category[a.where] # 0}
        Of(k) == {a \in values : Fold(Category[a.where]) = k}
        Top(k) == TopRestaurantStats(Of(k), 1)
        ranked == {k \in {Fold(Category[a.where]) : a \in values} : <<>> \notin Top(k)}
        Spellings(k, name) == {Category[b.where] : b \in {b \in Of(k) : Name[b.where] = name}}
    IN [k \in ranked |->
            UNION {{Winner(cuisine, top[1]) : cuisine \in Spellings(k, top[1].name)} :
                       top \in Top(k)}]

TopByCuisine(visits) == CuisineLists(MemCuisineWinners(visits), Bytes)

BiggestRatingSplit(visits) ==
    LET Gap(d) == Max(Range(d.scores)) - Min(Range(d.scores))
        split == Kept(visits, {d \in Range(visits) : Cardinality(DOMAIN d.scores) >= 2 /\ Gap(d) > 0})
        rows == [i \in DOMAIN split |->
                    [name |-> Name[split[i].where], gap |-> Gap(split[i]), at |-> split[i].at]]
        Worse(a) == {b \in Range(rows) :
                        \/ a.gap > b.gap
                        \/ /\ a.gap = b.gap
                           /\ a.at > b.at \/ (a.at = b.at /\ a.name < b.name)}
    IN BestOf(rows, [a \in Range(rows) |-> Worse(a)], None)

\* restaurantVisitRecords: the loyal and the nostalgia restaurant.
RestaurantVisitRecords(visits) ==
    {[name |-> Name[a.where], visits |-> a.visits, last |-> a.latest] :
        a \in {a \in Range(Records(visits)) : a.visits > 0}}

Loyal(visits) ==
    LET values == {a \in RestaurantVisitRecords(visits) : a.visits >= 2}
        Worse(a) == {b \in values :
                        \/ a.visits > b.visits
                        \/ /\ a.visits = b.visits
                           /\ a.last > b.last \/ (a.last = b.last /\ a.name < b.name)}
    IN RangeBest(values, [a \in values |-> Worse(a)])

NostalgiaOf(visits) ==
    LET latest == Max({0} \cup {visits[i].at : i \in DOMAIN visits})
        values == {a \in RestaurantVisitRecords(visits) : a.last < latest}
        Worse(a) == {b \in values : a.last < b.last \/ (a.last = b.last /\ a.name < b.name)}
    IN RangeBest(values, [a \in values |-> Worse(a)])

\* Each person's entries by category, and the best of them in any order.
TasteOf(visits, p) ==
    LET rated == Kept(RatingsOf(Counted(visits)),
                      {x \in Range(visits) \X {p} : Category[x[1].where] # 0})
        Of(k) == Kept(rated, {x \in Range(rated) : Fold(Category[x[1].where]) = k})
        Entry(s) == [category |-> Min({Category[x[1].where] : x \in Range(s)}),
                     average |-> AverageOf(s)]
        entries == {Entry(Of(Fold(Category[x[1].where]))) : x \in Range(rated)}
        Worse(v) == {w \in entries :
                        \/ Higher(v.average, w.average)
                        \/ /\ Equal(v.average, w.average)
                           /\ \/ v.average.count > w.average.count
                              \/ v.average.count = w.average.count /\ v.category < w.category}
    IN RangeBest(entries, [v \in entries |-> Worse(v)])

MemStats(visits) ==
    LET places == {visits[i].where : i \in DOMAIN visits}
    IN [totals |-> {[dines |-> Len(visits), places |-> Cardinality(places),
                     cities |-> Cardinality({Fold(City[r]) : r \in {r \in places : City[r] # 0}}),
                     average |-> AverageOf(RatingsOf(Counted(visits)))]},
        best |-> TopAverage(visits), worst |-> BottomAverage(visits),
        top |-> TopRestaurantStats(RatingsByRestaurant(visits), 2),
        split |-> {BiggestRatingSplit(visits)},
        loyal |-> Loyal(visits), nostalgia |-> NostalgiaOf(visits)]

---------------------------------------------------------------------------
(* The spinner's data *)

MemRestedFavorites(visits, minAverage, before) ==
    LET scores == {a \in RatingsByRestaurant(visits) :
                       /\ a.average.sum >= minAverage * a.average.count
                       /\ Records(visits)[a.where].latest < before}
    IN Sorted({a.where : a \in scores},
              LAMBDA r, s : IF Name[r] = Name[s] THEN r < s ELSE Name[r] < Name[s])

MemPickCounts(visits, since) ==
    LET counts[k \in 0..Len(visits)] ==
            IF k = 0 THEN [p \in People |-> [picks |-> 0, last |-> None]]
            ELSE LET d == visits[k] IN
                 IF d.picker = Everybody THEN counts[k - 1]
                 ELSE [counts[k - 1] EXCEPT
                         ![d.picker].picks = IF d.at >= since THEN @ + 1 ELSE @,
                         ![d.picker].last = IF @ = None \/ d.at > @ THEN d.at ELSE @]
    IN counts[Len(visits)]
=============================================================================
