------------------------------ MODULE Queries ------------------------------
(***************************************************************************)
(* What the Postgres store answers about the family's dines: the history   *)
(* and its filters, a restaurant's dines, the map, the statistics of the   *)
(* Trophy Case and the spinner's data (internal/repository/store.go,       *)
(* store_spinner.go).  Each operator is one SELECT over the set D of       *)
(* committed dines.  Where ORDER BY leaves ties the operator is the set of *)
(* the answers Postgres may give.                                          *)
(*                                                                         *)
(* A dine is [id, at, made, where, picker, scores, tags]: visited_at and   *)
(* created_at are ranks in time, scores maps the people who rated to a     *)
(* score.  An average is its sum and its count.                            *)
(*                                                                         *)
(* A text is its rank in byte order, and 0 is NULL or blank.  ORDER BY and *)
(* MIN take texts in the order of the database's collation, which need not *)
(* be that of the bytes: rank, a parameter of each query that sorts names  *)
(* or categories.  Only the filter's options are sorted COLLATE "C".       *)
(***************************************************************************)
EXTENDS Integers, Sequences, FiniteSets, SequencesExt, Sorting

CONSTANTS
    Restaurants,               \* ids, in the order of their UUIDs
    Name, City, Category,      \* of a restaurant
    Mapped,                    \* restaurants with coordinates
    People,                    \* 1..n, in people order
    PersonName,
    MinAggregateRaters,        \* raters that make a dine's ratings count
    YearLength,                \* ranks of visited_at in a year
    TopLimit,                  \* restaurants in the ranking
    Text,                      \* the texts there are
    Lower,                     \* lower(text): alike for texts that differ only in case
    Collated,                  \* the ranks of texts in the database's collation
    Everybody, None

Fold(text) == Lower[text]

\* The collation "C".
Bytes == [text \in Nat |-> text]

\* The order of ORDER BY over integer keys; a descending key is negated.
Precedes(a, b) ==
    \E i \in DOMAIN a : a[i] < b[i] /\ \A j \in 1..(i - 1) : a[j] = b[j]

---------------------------------------------------------------------------
(* History *)

\* ORDER BY v.visited_at DESC, v.created_at DESC, v.id
NewestFirst(d, e) == Precedes(<<-d.at, -d.made, d.id>>, <<-e.at, -e.made, e.id>>)

\* A filter is [cuisine, everybody, picker, rater, tag, city, year], each field
\* None (0 for text and the year, FALSE for everybody) when it is not set.
VisitFilterSQL(d, filter) ==
    /\ filter.cuisine # 0 => Fold(Category[d.where]) = Fold(filter.cuisine)
    /\ IF filter.everybody THEN d.picker = Everybody
                           ELSE filter.picker # None => d.picker = filter.picker
    /\ filter.rater # None => filter.rater \in DOMAIN d.scores
    /\ filter.tag # None => filter.tag \in d.tags
    /\ filter.city # 0 => Fold(City[d.where]) = Fold(filter.city)
    /\ filter.year # 0 => /\ d.at >= filter.year * YearLength
                          /\ d.at < (filter.year + 1) * YearLength

VisitsPage(D, filter, limit, offset) ==
    LET all == Sorted({d \in D : VisitFilterSQL(d, filter)}, NewestFirst)
    IN SubSeq(all, offset + 1, Min({offset + limit, Len(all)}))

CountVisits(D, filter) == Cardinality({d \in D : VisitFilterSQL(d, filter)})

\* Zero-based, or None for a dine that is gone.
VisitPosition(D, id) ==
    IF \A t \in D : t.id # id THEN None
    ELSE LET t == CHOOSE t \in D : t.id = id IN
         Cardinality({v \in D : \/ v.at > t.at
                                \/ v.at = t.at /\ v.made > t.made
                                \/ v.at = t.at /\ v.made = t.made /\ v.id < t.id})

\* SELECT MIN(value) GROUP BY lower(value): one spelling of each.
VisitedRestaurantValues(D, column) ==
    LET values == {column[d.where] : d \in D} \ {0}
    IN {Min({v \in values : Fold(v) = Fold(w)}) : w \in values}

VisitFilterOptions(D) ==
    [cuisines |-> VisitedRestaurantValues(D, Category),
     cities   |-> VisitedRestaurantValues(D, City),
     years    |-> {d.at \div YearLength : d \in D}]

\* The sequences that list rows in the order of an ORDER BY.
OrderBy(rows, Before(_, _)) ==
    {s \in SetToSeqs(rows) : \A i, j \in DOMAIN s : i < j => ~Before(s[j], s[i])}

\* Also the entry of a restaurant in RestaurantVisitSummaries.
RestaurantVisits(D, r) ==
    OrderBy({d \in D : d.where = r},
            LAMBDA d, e : Precedes(<<-d.at, -d.made>>, <<-e.at, -e.made>>))

Latest(D) == Max({d.at : d \in D})
At(D, r) == {d \in D : d.where = r}
Visited(D) == {d.where : d \in D}

MapPoints(D, rank) ==
    OrderBy({[where |-> r, visits |-> Cardinality(At(D, r)), latest |-> Latest(At(D, r))] :
                r \in Visited(D) \cap Mapped},
            LAMBDA a, b : Precedes(<<-a.latest, rank[Name[a.where]]>>,
                                   <<-b.latest, rank[Name[b.where]]>>))

---------------------------------------------------------------------------
(* Statistics *)

\* The rows of visit_participant_ratings, as the dine and the rater.
Ratings(D) == UNION {{d} \X DOMAIN d.scores : d \in D}

AggregateRatings(D) ==
    Ratings({d \in D : Cardinality(DOMAIN d.scores) >= MinAggregateRaters})

Average(R) == [sum |-> MapThenSumSet(LAMBDA x : x[1].scores[x[2]], R),
               count |-> Cardinality(R)]

Higher(a, b) == a.sum * b.count > b.sum * a.count
Equal(a, b) == a.sum * b.count = b.sum * a.count

\* ORDER BY ... LIMIT 1: a first row, or none.
LimitOne(rows, Before(_, _)) ==
    IF rows = {} THEN {None} ELSE {a \in rows : \A b \in rows : ~Before(b, a)}

PickerAverages(D) ==
    LET Picks(p) == {x \in AggregateRatings(D) : x[1].picker = p}
    IN {[name |-> PersonName[p], average |-> Average(Picks(p))] :
            p \in {p \in People : Picks(p) # {}}}

BestPicker(D, rank) ==
    LimitOne(PickerAverages(D), LAMBDA a, b :
        Higher(a.average, b.average) \/ (Equal(a.average, b.average) /\ rank[a.name] < rank[b.name]))

WorstPicker(D, rank) ==
    LimitOne(PickerAverages(D), LAMBDA a, b :
        Higher(b.average, a.average) \/ (Equal(a.average, b.average) /\ rank[a.name] < rank[b.name]))

\* Restaurants with at least `least` ratings, and how a ranking orders them.
RatedRestaurants(D, least) ==
    LET Rated(r) == {x \in AggregateRatings(D) : x[1].where = r}
    IN {[where |-> r, average |-> Average(Rated(r)),
         visits |-> Cardinality({x[1] : x \in Rated(r)})] :
            r \in {r \in Restaurants : Cardinality(Rated(r)) >= least}}

RanksAbove(a, b, rank) ==
    \/ Higher(a.average, b.average)
    \/ /\ Equal(a.average, b.average)
       /\ Precedes(<<-a.average.count, rank[Name[a.where]]>>,
                   <<-b.average.count, rank[Name[b.where]]>>)

Selected(a) == [name |-> Name[a.where], average |-> a.average, visits |-> a.visits]

TopRestaurants(D, rank) ==
    {[i \in 1..Min({TopLimit, Len(s)}) |-> Selected(s[i])] :
        s \in OrderBy(RatedRestaurants(D, 2), LAMBDA a, b : RanksAbove(a, b, rank))}

Winner(cuisine, a) ==
    [cuisine |-> cuisine, name |-> a.name, average |-> a.average, visits |-> a.visits]

\* PARTITION BY lower(cuisine), cuisine_rank = 1: who may win, by cuisine.
CuisineWinners(D, rank) ==
    LET rows == {a \in RatedRestaurants(D, 1) : Category[a.where] # 0}
        First(k) == LimitOne({a \in rows : Fold(Category[a.where]) = k},
                             LAMBDA a, b : RanksAbove(a, b, rank))
    IN [k \in {Fold(Category[a.where]) : a \in rows} |->
            {Winner(Category[a.where], Selected(a)) : a \in First(k)}]

\* The lists of one winner for each cuisine, by the cuisine as it is spelled.
CuisineLists(winners, rank) ==
    LET OneEach == {w \in [DOMAIN winners -> UNION Range(winners)] :
                        \A k \in DOMAIN winners : w[k] \in winners[k]}
    IN {Sorted(Range(w), LAMBDA a, b : rank[a.cuisine] < rank[b.cuisine]) : w \in OneEach}

TopRestaurantsByCuisine(D, rank) == CuisineLists(CuisineWinners(D, rank), rank)

BiggestSplit(D, rank) ==
    LET Gap(d) == Max(Range(d.scores)) - Min(Range(d.scores))
    IN LimitOne({[name |-> Name[d.where], gap |-> Gap(d), at |-> d.at] :
                    d \in {d \in D : DOMAIN d.scores # {} /\ Gap(d) > 0}},
                LAMBDA a, b : Precedes(<<-a.gap, -a.at, rank[a.name]>>,
                                       <<-b.gap, -b.at, rank[b.name]>>))

RestaurantRecords(D) ==
    {[name |-> Name[r], visits |-> Cardinality(At(D, r)), last |-> Latest(At(D, r))] :
        r \in Visited(D)}

MostLoyal(D, rank) ==
    LimitOne({a \in RestaurantRecords(D) : a.visits >= 2}, LAMBDA a, b :
        Precedes(<<-a.visits, -a.last, rank[a.name]>>, <<-b.visits, -b.last, rank[b.name]>>))

Nostalgia(D, rank) ==
    LimitOne({a \in RestaurantRecords(D) : a.last < Latest(D)}, LAMBDA a, b :
        Precedes(<<a.last, rank[a.name]>>, <<b.last, rank[b.name]>>))

\* MIN(text)
Least(texts, rank) == CHOOSE t \in texts : \A u \in texts : rank[t] <= rank[u]

\* The category each person rates highest, for the people who have one.
TasteProfiles(D, rank) ==
    LET By(p) == {x \in AggregateRatings(D) : x[2] = p /\ Category[x[1].where] # 0}
        Rows(p) == {LET same == {y \in By(p) : Fold(Category[y[1].where])
                                                = Fold(Category[x[1].where])}
                    IN [category |-> Least({Category[y[1].where] : y \in same}, rank),
                        average |-> Average(same)] : x \in By(p)}
    IN [p \in {p \in People : By(p) # {}} |->
            LimitOne(Rows(p), LAMBDA a, b :
                \/ Higher(a.average, b.average)
                \/ /\ Equal(a.average, b.average)
                   /\ Precedes(<<-a.average.count, rank[a.category]>>,
                               <<-b.average.count, rank[b.category]>>))]

Stats(D, rank) ==
    [totals |-> {[dines |-> Cardinality(D), places |-> Cardinality(Visited(D)),
                  cities |-> Cardinality({Fold(City[r]) : r \in Visited(D)} \ {0}),
                  average |-> Average(AggregateRatings(D))]},
     best |-> BestPicker(D, rank), worst |-> WorstPicker(D, rank),
     top |-> TopRestaurants(D, rank), split |-> BiggestSplit(D, rank),
     loyal |-> MostLoyal(D, rank), nostalgia |-> Nostalgia(D, rank)]

---------------------------------------------------------------------------
(* The spinner's data *)

RestedFavorites(D, minAverage, before, rank) ==
    LET Rated(r) == {x \in AggregateRatings(D) : x[1].where = r}
    IN Sorted(
        {r \in Visited(D) : /\ Rated(r) # {}
                            /\ ~Higher([sum |-> minAverage, count |-> 1], Average(Rated(r)))
                            /\ Latest(At(D, r)) < before},
        LAMBDA r, s : Precedes(<<rank[Name[r]], r>>, <<rank[Name[s]], s>>))

PickCounts(D, since) ==
    [p \in People |->
        LET picks == {d \in D : d.picker = p}
        IN [picks |-> Cardinality({d \in picks : d.at >= since}),
            last |-> IF picks = {} THEN None ELSE Latest(picks)]]
=============================================================================
