------------------------------ MODULE ListingPicks ------------------------------
(***************************************************************************)
(* The picks of the home page: random, featured, most viewed, top          *)
(* discounted and related listings, and listings by their ids.  A random   *)
(* pick is a count and then one query per random offset, all at once and   *)
(* with no order; the fallback and the featured picks repeat it with fewer *)
(* filters until they have enough.  Sellers change the catalogue between   *)
(* any two queries.                                                        *)
(***************************************************************************)
EXTENDS Integers, Sequences, FiniteSets, FiniteSetsExt

CONSTANTS
  Rows,      \* listings: [id, shop, onPayment, located, city, category, brand, condition, featured,
             \* visits, discount, first]; located: it has a location
  Prices,    \* bound: effective prices
  Bookings,  \* the featured table: [id, row, place]
  Requests,  \* bound: [kind, count, place, ids, of, filters]
  MaxMoves,  \* bound: changes of the catalogue
  Fails,     \* BOOLEAN, or {FALSE} when no query fails
  None       \* a filter that is not given

\* a request as it is validated
IsRequest(q) ==
  /\ DOMAIN q = {"kind", "count", "place", "ids", "of", "filters"}
  /\ q.kind \in {"random", "featured", "mostViewed", "discounted", "related", "byIds"}
  /\ q.count \in Nat /\ q.of \in Rows /\ q.ids \in Seq(Int)
\* what a run assumes of the constants: an identifier is of one row
ListingPicksAssumption ==
  /\ None \notin Nat /\ Fails \subseteq BOOLEAN /\ MaxMoves \in Nat
  /\ IsFiniteSet(Rows)
  /\ \A r \in Rows : {r.id, r.visits, r.discount} \subseteq Int /\ r.located \in BOOLEAN
  /\ \A r, s \in Rows : r.id = s.id => r = s
  /\ IsFiniteSet(Bookings) /\ \A b \in Bookings : b.id \in Int /\ b.row \in Rows
  /\ \A b, c \in Bookings : b.id = c.id => b = c
  /\ \A q \in Requests : IsRequest(q)

VARIABLES
  live,    \* listings that are activated, not archived, not deleted and in stock; their status
           \* is VALIDATED_ACTIVE
  price,   \* the effective price of each listing
  req,     \* the request and the filters it has left
  pc,
  turn,    \* iterations of the fallback, attempts of the featured picks
  todo,    \* random offsets whose query is not answered yet
  got,     \* what the queries of this turn answered
  result,  \* [row, turn]: what is answered, and the turn that found it; 0 for what is not a fallback
  moves,
  quiet    \* the catalogue has not changed since the request came

vars == <<live, price, req, pc, turn, todo, got, result, moves, quiet>>

-----------------------------------------------------------------------------
(* Orders *)

\* the elements of a set in a strict order of them: each stands after those that are before it
InOrder(S, before) ==
  [i \in 1 .. Cardinality(S) |->
     CHOOSE y \in S : Cardinality({x \in S : <<x, y>> \in before}) = i - 1]
ById(rows) == InOrder(rows, {p \in rows \X rows : p[1].id < p[2].id})
First(s, count) == SubSeq(s, 1, Min({count, Len(s)}))

\* what stands at some of the places of a sequence
Kept(s, places) ==
  LET order == InOrder(places, {p \in places \X places : p[1] < p[2]})
  IN [k \in DOMAIN order |-> s[order[k]]]

-----------------------------------------------------------------------------
(* Filters: ListingFilterBuilder *)

Filters == {"shop", "city", "category", "brand", "condition", "min", "max"}

Given(q, f) == q.filters[f] # None

\* determineStrategy: the filters that are truthy, the shop is not counted
FilterCount(q) ==
  Cardinality({f \in Filters \ {"shop"} : Given(q, f) /\ (f \in {"min", "max"} => q.filters[f] # 0)})
Strategy(q) == IF FilterCount(q) <= 2 THEN "optimized" ELSE "fallback"

\* where: shop is "any" once the fallback has taken it away; without one, shops that pay
ShopMatches(r, shop) ==
  CASE shop = "any" -> TRUE [] shop = None -> r.onPayment [] OTHER -> r.shop = shop

Meets(r, filters) ==
  /\ ShopMatches(r, filters.shop)
  /\ \A f \in {"city", "category", "brand", "condition"} : filters[f] \in {None, r[f]}
  /\ filters.min # None => price[r] >= filters.min
  /\ filters.max # None => price[r] <= filters.max

\* the rows that the query of the total counts, and those that the queries of the offsets join with
\* their location
Matching(filters) == {r \in live : Meets(r, filters)}
Joined(filters) == {r \in Matching(filters) : r.located}

\* FILTER_PRIORITY: what the fallback takes away after its first, second and third iteration
Loosen(filters, iteration) ==
  CASE iteration = 1 -> [filters EXCEPT !.shop = "any"]
    [] iteration = 2 -> [filters EXCEPT !.city = None]
    [] OTHER -> [filters EXCEPT !.category = None]

\* randomFilters, built anew for every attempt: the second leaves the city out, the third the
\* category, each with the other one back in its place
AttemptFilters(q, attempt) ==
  [f \in Filters |->
     CASE f \in {"brand", "condition", "min", "max"} -> None
       [] f = "city" /\ attempt = 1 -> None
       [] f = "category" /\ attempt = 2 -> None
       [] OTHER -> q.filters[f]]

-----------------------------------------------------------------------------
(* Other queries *)

Top(rows, key, count) ==
  LET Before(a, b) == key[a] > key[b] \/ (key[a] = key[b] /\ a.id < b.id)
  IN First(InOrder(rows, {p \in rows \X rows : Before(p[1], p[2])}), count)

\* forMostViewedListings
MostViewed(q) ==
  Top({r \in live : Meets(r, q.filters)}, [r \in live |-> r.visits], q.count)

\* forTopDiscountedListings: any shop, a positive price
Discounted(city, category, count) ==
  Top({r \in live : /\ price[r] > 0 /\ city \in {None, r.city}
                    /\ category \in {None, r.category}}, [r \in live |-> r.discount], count)

\* forFeaturedListings: the condition that the listing is featured replaces those on its being
\* listed, on its shop, its category and its city
FeaturedBookings(place, count) ==
  First(ById({b \in Bookings : b.row.featured /\ place \in {None, b.place}}), count)

\* forRelatedProducts: a price within the tolerance but not the same, the category and the brand,
\* of listings whether live or not
Related(of, base, percent) ==
  {r \in Rows : /\ r.category = of.category /\ r.brand = of.brand
                /\ 100 * price[r] >= base * (100 - percent)
                /\ 100 * price[r] <= base * (100 + percent)
                /\ price[r] # base}

\* fetchListingsByIds: unique, positive, found, in the order they were asked for
Wanted(ids) ==
  LET first == {i \in DOMAIN ids : ids[i] > 0 /\ \A j \in 1..(i - 1) : ids[j] # ids[i]}
      found == Kept(ids, {i \in first : \E r \in Rows : r.id = ids[i]})
  IN [k \in DOMAIN found |-> CHOOSE r \in Rows : r.id = found[k]]

AsPicks(rows, t) == [i \in DOMAIN rows |-> [row |-> rows[i], turn |-> t]]
Shown == {result[i].row : i \in DOMAIN result}
Needed == req.count - Len(result)

-----------------------------------------------------------------------------
Init ==
  /\ live \in {Rows} \cup {Rows \ {r} : r \in Rows}
  /\ price = [r \in Rows |-> r.first]
  /\ req \in Requests /\ pc = "asked"
  /\ turn = 0 /\ todo = {} /\ got = <<>> /\ result = <<>> /\ moves = 0 /\ quiet = TRUE

\* External: a seller takes a listing down or puts one up, or changes a price
Move ==
  /\ moves < MaxMoves /\ pc # "done" /\ moves' = moves + 1 /\ quiet' = FALSE
  /\ \E r \in Rows :
       \/ live' = (IF r \in live THEN live \ {r} ELSE live \cup {r}) /\ UNCHANGED price
       \/ \E p \in Prices \ {price[r]} : price' = [price EXCEPT ![r] = p] /\ UNCHANGED live
  /\ UNCHANGED <<req, pc, turn, todo, got, result>>

Answer(rows) == result' = rows /\ pc' = "done"

\* GET random, with the strategy that the number of filters decides
AskRandom ==
  /\ pc = "asked" /\ req.kind = "random" /\ pc' = "count"
  /\ req' = [req EXCEPT !.kind = Strategy(req)]
  /\ UNCHANGED <<live, price, turn, todo, got, result, moves, quiet>>

\* GET featured: the bookings of the place, and of any place when that has none
ReadFeatured ==
  /\ pc \in {"asked", "anyPlace"} /\ req.kind = "featured"
  /\ \E fails \in Fails :
       LET place == IF pc = "asked" THEN req.place ELSE None
           booked == IF fails THEN <<>> ELSE FeaturedBookings(place, req.count)
       IN IF pc = "asked" /\ req.place # None /\ booked = <<>>
          THEN pc' = "anyPlace" /\ UNCHANGED <<result, req>>
          ELSE /\ result' = AsPicks([i \in DOMAIN booked |-> booked[i].row], 0)
               /\ pc' = IF Len(booked) < req.count THEN "count" ELSE "done"
               /\ UNCHANGED req
  /\ UNCHANGED <<live, price, turn, todo, got, moves, quiet>>

\* how many listings this turn asks of fetchRandomListingsOptimized
RequestSize ==
  CASE req.kind = "optimized" -> req.count
    [] req.kind = "fallback" -> Max({2 * Needed, 10})
    [] OTHER -> 2 * Needed

TurnFilters == IF req.kind = "featured" THEN AttemptFilters(req, turn) ELSE req.filters

\* fetchRandomListingsOptimized: the total, and random offsets below it
CountMatching ==
  /\ pc = "count" /\ got' = <<>> /\ pc' = "reads"
  /\ LET total == Cardinality(Matching(TurnFilters))
     IN \/ TRUE \in Fails /\ todo' = {}
        \/ total = 0 /\ todo' = {}
        \/ /\ total > 0
           /\ \E offsets \in SUBSET (0..(total - 1)) :
                /\ offsets # {} /\ Cardinality(offsets) <= RequestSize /\ todo' = offsets
  /\ UNCHANGED <<live, price, req, turn, result, moves, quiet>>

\* buildSingleRandomQuery: OFFSET and LIMIT 1 without an order, so that each query may have the rows
\* in another one, and two queries of a turn may answer the same listing.  The answers are shuffled.
ReadOffset(offset) ==
  /\ pc = "reads" /\ offset \in todo /\ todo' = todo \ {offset}
  /\ LET rows == Joined(TurnFilters)
     IN \/ (TRUE \in Fails \/ offset >= Cardinality(rows)) /\ UNCHANGED got
        \/ offset < Cardinality(rows) /\ \E r \in rows : got' = Append(got, r)
  /\ UNCHANGED <<live, price, req, pc, turn, result, moves, quiet>>

\* mutant: what the earlier turns found is not looked at
Fresh(rows) == rows
NewItems(rows) == Kept(rows, {i \in DOMAIN rows : rows[i] \notin Shown})

\* The end of a turn: the listings that no earlier turn has found, as many as are needed, whether or
\* not one is among them twice; then the answer, or fewer filters
Collect ==
  /\ pc = "reads" /\ todo = {} /\ turn' = turn + 1
  /\ LET new == NewItems(got)
         picked == IF req.kind = "optimized" THEN got
                   ELSE First(new, Needed)
     IN /\ result' = result \o AsPicks(picked, turn + 1)
        /\ pc' = IF req.kind = "optimized" \/ turn = 2 \/ Len(picked) >= Needed THEN "done"
                 ELSE "count"
  /\ req' = IF req.kind = "fallback" THEN [req EXCEPT !.filters = Loosen(@, turn + 1)] ELSE req
  /\ UNCHANGED <<live, price, todo, got, moves, quiet>>

AskMostViewed ==
  /\ pc = "asked" /\ req.kind = "mostViewed" /\ Answer(AsPicks(MostViewed(req), 0))
  /\ UNCHANGED <<live, price, req, turn, todo, got, moves, quiet>>

\* GET top-discounted, and its fallback without the city
AskTopDiscounted ==
  /\ pc = "asked" /\ req.kind = "discounted"
  /\ LET rows == Discounted(req.filters.city, req.filters.category, req.count)
     IN /\ result' = AsPicks(rows, 0)
        /\ pc' = IF Len(rows) < req.count THEN "elsewhere" ELSE "done"
  /\ UNCHANGED <<live, price, req, turn, todo, got, moves, quiet>>

DiscountedElsewhere ==
  /\ pc = "elsewhere"
  /\ LET rows == Discounted(None, req.filters.category, Needed)
     IN Answer(result \o AsPicks(NewItems(rows), 1))
  /\ UNCHANGED <<live, price, req, turn, todo, got, moves, quiet>>

\* GET :id/related: the listing is read; the prices around its own, in its category, come next
AskRelated ==
  /\ pc = "asked" /\ req.kind = "related"
  /\ IF req.of \in live THEN pc' = "within20" /\ req' = [req EXCEPT !.count = price[req.of]]
     ELSE /\ pc' = "count"
          /\ req' = [req EXCEPT !.kind = "optimized", !.count = 10,
                                !.filters = [f \in Filters |-> None]]
  /\ UNCHANGED <<live, price, turn, todo, got, result, moves, quiet>>

\* a second time with 30 percent when there are fewer than four, on the first page
ReadRelated ==
  /\ pc \in {"within20", "within30"}
  /\ LET rows == Related(req.of, req.count, IF pc = "within20" THEN 20 ELSE 30)
     IN IF pc = "within20" /\ Cardinality(rows) < 4 THEN pc' = "within30" /\ UNCHANGED result
        ELSE Answer(AsPicks(ById(rows), 0))
  /\ UNCHANGED <<live, price, req, turn, todo, got, moves, quiet>>

AskByIds ==
  /\ pc = "asked" /\ req.kind = "byIds" /\ Answer(AsPicks(Wanted(req.ids), 0))
  /\ UNCHANGED <<live, price, req, turn, todo, got, moves, quiet>>

Next ==
  \/ Move \/ AskRandom \/ ReadFeatured \/ CountMatching \/ Collect \/ AskMostViewed
  \/ AskTopDiscounted \/ DiscountedElsewhere \/ AskRelated \/ ReadRelated \/ AskByIds
  \/ \E offset \in todo : ReadOffset(offset)

Spec == Init /\ [][Next]_vars

-----------------------------------------------------------------------------
TypeOK ==
  /\ live \subseteq Rows 
  /\ \A i \in DOMAIN result : result[i].row \in Rows /\ result[i].turn \in 0..3
  /\ turn \in 0..3 /\ moves \in 0..MaxMoves /\ quiet \in BOOLEAN
  /\ pc \in {"asked", "anyPlace", "count", "reads", "elsewhere", "within20", "within30", "done"}

\* Whatever the catalogue does between the turns, a turn with fewer filters adds no listing that an
\* earlier one has found or that is booked, and all of them no more than were asked for, also when one
\* turn finds a listing twice.  The related products do not have the product itself among them, as long
\* as its price stands still.
TurnsAddNew ==
  /\ \A i, j \in DOMAIN result :
        result[i].turn < result[j].turn => result[i].row # result[j].row
  /\ req.kind \in {"optimized", "fallback", "featured", "mostViewed", "discounted"} =>
        Len(result) <= req.count
  /\ quiet /\ req.kind = "related" => req.of \notin Shown
=============================================================================
