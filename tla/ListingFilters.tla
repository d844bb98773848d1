----------------------------- MODULE ListingFilters -----------------------------
(***************************************************************************)
(* The filter panel of the catalogue and the list it leads to.  A customer *)
(* asks for the available filters, which the service reads with one query  *)
(* per filter and then one more for the total; ticks a value that the      *)
(* panel offers; and opens the list, whose conditions another builder      *)
(* makes from the same request.  Sellers change the catalogue between any  *)
(* two of these.  Words are model values or whole strings: the title case  *)
(* of a category is a table, and searching a title is membership of a word.*)
(***************************************************************************)
EXTENDS Integers, Sequences, FiniteSets, TLC, FiniteSetsExt, SequencesExt

CONSTANTS
  Rows,        \* listings: [id, shop, words, price, category, own, spec]
  Starts,      \* bound: the requests a customer begins with
  Rank,        \* the alphabetical order of the values
  Limit,       \* perFilterMaxValues
  PageSize,    \* the size of a page of one filter's values
  MaxMoves,    \* bound: changes of the catalogue
  MaxChoices,  \* bound: values ticked
  None         \* a price that is not given

VARIABLES
  live,     \* listings that are activated, not archived, not deleted and have a listed quantity
  stocked,  \* listings whose item has a quantity and is not deleted
  sel,      \* the request's filters
  page,     \* the panel on the customer's screen
  pc,       \* where the customer is
  todo,     \* groups of filters whose queries are not answered yet
  list,     \* the listings of the list last opened
  moves, choices,
  quiet,    \* the catalogue has not changed since the panel was asked for
  promised  \* the count that stood by the value ticked last

catalogue == <<live, stocked>>
vars == <<live, stocked, sel, page, pc, todo, list, moves, choices, quiet, promised>>

-----------------------------------------------------------------------------
(* filter.config.ts *)

ListingColumns == {"categoryName", "conditionName", "cityName", "brandName", "colorName"}
CommonFilters == ListingColumns \cup {"price"}

LaptopFilters ==
  {"model", "laptopType", "processor", "generation", "ramType", "ramCapacity",
   "primaryStorageType", "primaryStorageCapacity", "secondaryStorageType",
   "secondaryStorageCapacity", "graphicsCardName", "graphicsCardType", "graphicsCardMemory",
   "screenSize", "screenType", "resolution", "isTouchScreen", "isBacklitKeyboard", "keyboard",
   "speaker", "batteryType", "fingerprint"}
MobileFilters ==
  {"model", "ramCapacity", "primaryStorageCapacity", "cameraSpecs", "screenType", "screenSize",
   "screenProtection", "resolution", "refreshRate", "batteryCapacity", "isPtaApproved",
   "networkBand", "simType", "isESim", "processor", "fingerprint"}
TabletFilters == MobileFilters \cup {"isSimSupport"}
TvMonitorFilters ==
  {"model", "screenSize", "screenType", "resolution", "refreshRate", "displayType",
   "tvMonitorType", "isSmartTv", "isWebcam", "isTvCertified", "speaker"}
DesktopFilters ==
  (LaptopFilters \ {"laptopType", "screenType", "isBacklitKeyboard", "keyboard", "speaker",
                    "batteryType", "fingerprint"}) \cup {"desktopType"}
AccessoryFilters == {"model", "accessoryType"}

CategoryFilters ==
  ("Laptop" :> LaptopFilters) @@ ("Mobile" :> MobileFilters) @@ ("Tablet" :> TabletFilters)
  @@ ("TV / Monitor" :> TvMonitorFilters) @@ ("Desktop Computer" :> DesktopFilters)
  @@ ("Accessories" :> AccessoryFilters)

CategoryNames == DOMAIN CategoryFilters

BooleanFilters ==
  {"isTouchScreen", "isBacklitKeyboard", "isPtaApproved", "isESim", "isSimSupport",
   "isSmartTv", "isWebcam", "isTvCertified"}

MobileSubsets ==
  ("Laptop" :> {"model", "processor", "ramCapacity", "primaryStorageCapacity", "screenSize"})
  @@ ("Mobile" :> {"model", "ramCapacity", "primaryStorageCapacity", "batteryCapacity",
                   "isPtaApproved"})
  @@ ("Tablet" :> {"model", "ramCapacity", "primaryStorageCapacity", "screenSize",
                   "isPtaApproved"})
  @@ ("Desktop Computer" :> {"model", "processor", "ramCapacity", "primaryStorageCapacity"})
  @@ ("Accessories" :> {"model", "accessoryType"})

\* The key of the TV subset is tv_monitor and the name becomes tv__monitor or tv_/_monitor, so
\* that category has the common subset, which every category has as well
MobileSubset(category) ==
  (CommonFilters \ {"colorName"})
  \cup IF category \in DOMAIN MobileSubsets THEN MobileSubsets[category] ELSE {}

ShouldShow(source, name, category) == source = "web" \/ name \in MobileSubset(category)

\* first letter of each word in upper case, the others in lower case
NormalizeCategoryName(c) == IF c = "TV / Monitor" THEN "Tv / Monitor" ELSE c
IsValidCategory(c) == \E name \in CategoryNames : NormalizeCategoryName(name) = c
FiltersForCategory(c) == IF c \in CategoryNames THEN CategoryFilters[c] ELSE {}

\* the definition of a filter, with a category or without one
GetFilterByName(name, category) ==
  \/ name \in CommonFilters
  \/ IF category # "" THEN name \in FiltersForCategory(category)
     ELSE \E c \in CategoryNames : name \in CategoryFilters[c]

ValidPrices(s) == s.min \notin {None, 0} /\ s.max \notin {None, 0} => s.min <= s.max

-----------------------------------------------------------------------------
(* The catalogue as the queries see it *)

\* isSpecificationFilter and getSpecificationColumn; the model is not among them
SpecificationFilters ==
  ((UNION {CategoryFilters[c] : c \in CategoryNames}) \ {"model"})
  \cup {"bodyType", "operatingSystem"}

\* a listing without a value has the default of the column: ns, or false
Value(r, name) ==
  CASE name = "categoryName" -> r.category
    [] name \in DOMAIN r.own -> r.own[name]
    [] name \in DOMAIN r.spec -> r.spec[name]
    [] OTHER -> IF name \in BooleanFilters THEN "false" ELSE "ns"

SameCategory(r, c) == c = "" \/ NormalizeCategoryName(r.category) = NormalizeCategoryName(c)
NoSearch == ""
MatchesSearch(r, s) == s.search = NoSearch \/ s.search \in r.words
MatchesStore(r, s) == s.store = None \/ r.shop = s.store

\* !value || (Array.isArray(value) && value.length === 0)
Skipped(values) == values \in {{}, {"false"}}

\* mutant: the columns of the specification are forgotten
ListingColumnsOnly(r, s) ==
  /\ SameCategory(r, s.category) /\ MatchesSearch(r, s) /\ MatchesStore(r, s)
  /\ \A name \in DOMAIN s.values \cap ListingColumns :
        Skipped(s.values[name]) \/ Value(r, name) \in s.values[name]
  /\ s.min \notin {None, 0} => r.price >= s.min
  /\ s.max \notin {None, 0} => r.price <= s.max
Interdependent(r, s) ==
  /\ SameCategory(r, s.category) /\ MatchesSearch(r, s) /\ MatchesStore(r, s)
  /\ \A name \in DOMAIN s.values \cap (ListingColumns \cup SpecificationFilters) :
        Skipped(s.values[name]) \/ Value(r, name) \in s.values[name]
  /\ s.min \notin {None, 0} => r.price >= s.min
  /\ s.max \notin {None, 0} => r.price <= s.max

\* a query over listing alone that is given a condition on ls fails
NeedsSpecification(s) ==
  \E name \in DOMAIN s.values \cap SpecificationFilters : ~Skipped(s.values[name])
QueryFails(name, s) == name \in CommonFilters /\ NeedsSpecification(s)

\* whereNotNull, != '', != 'ns', != '-1'; a false boolean equals '' and is left out
HasValue(r, name) == Value(r, name) \notin {"", "ns", "-1", "false"}

Without(s, name) ==
  [s EXCEPT !.values = [n \in DOMAIN s.values \ {name} |-> s.values[n]],
            !.category = IF name = "categoryName" THEN "" ELSE @]

\* value, count: by count, then by value; each stands after those that come before it
Before(a, b) ==
  a.count > b.count \/ (a.count = b.count /\ Rank[a.value] < Rank[b.value])
Ordered(options) ==
  [i \in 1 .. Cardinality(options) |->
     CHOOSE b \in options : Cardinality({a \in options : Before(a, b)}) = i - 1]

\* within: what the values themselves are searched for; bound: nothing or a whole value
Matches(value, within) == within \in {NoSearch, value}

FetchFilterValues(name, s, offset, limit, within) ==
  LET rows == {r \in live : /\ HasValue(r, name) /\ Interdependent(r, s)
                           /\ Matches(Value(r, name), within)}
      options == {[value |-> v, count |-> Cardinality({r \in rows : Value(r, name) = v})] :
                     v \in {Value(r, name) : r \in rows}}
  IN IF QueryFails(name, s) THEN <<>>
     ELSE SubSeq(Ordered(options), offset + 1, Min({offset + limit, Cardinality(options)}))

\* Min or max over no row is null, answered as 0
FetchRange(s) ==
  LET prices == {r.price : r \in {x \in live : Interdependent(x, s)}} \ {0}
  IN IF QueryFails("price", s) THEN [min |-> None, max |-> None]
     ELSE IF prices = {} THEN [min |-> 0, max |-> 0] ELSE [min |-> Min(prices), max |-> Max(prices)]

\* mutant: the stock of the items is forgotten, as in the filters' queries
CountListed(s) == Cardinality({r \in live : Interdependent(r, s)})
FilteredListingsCount(s) == Cardinality({r \in live \cap stocked : Interdependent(r, s)})

-----------------------------------------------------------------------------
(* buildFilterWithValues *)

IsValueSelected(s, name, value) ==
  IF name = "categoryName" THEN NormalizeCategoryName(value) = NormalizeCategoryName(s.category)
  ELSE name \in DOMAIN s.values /\ value \in s.values[name]

\* Yes and No are always there; the one that is added counts 0 and is never the selected one
EnsureBooleanOptions(options) ==
  options \cup {[value |-> v, count |-> 0, isSelected |-> FALSE] :
                  v \in {"true", "false"} \ {o.value : o \in options}}

BuildFilter(name, s, offset, limit, within) ==
  LET read == Range(FetchFilterValues(name, Without(s, name), offset, limit, within))
      options == {[value |-> o.value, count |-> o.count,
                   isSelected |-> IsValueSelected(s, name, o.value)] : o \in read}
  IN IF name \in BooleanFilters THEN EnsureBooleanOptions(options) ELSE options

NoRange == [min |-> None, max |-> None]
\* search: the search in titles that the facets were read with
NoPage == [facets |-> <<>>, range |-> NoRange, search |-> NoSearch, total |-> 0, answer |-> "none"]
Groups == {"common", "category"}

FiltersToProcess(s, group) ==
  LET c == NormalizeCategoryName(s.category)
  IN {n \in IF group = "common" THEN CommonFilters ELSE FiltersForCategory(c) :
        ShouldShow(s.source, n, c)}

-----------------------------------------------------------------------------
(* The list: ListingsQueryOptionsBuilder.buildWhere *)

\* the keys that buildWhere maps into the specification
ListedSpecification == SpecificationFilters \cup {"model"}

ListWhere(r, s) ==
  /\ r \in live /\ r \in stocked
  /\ SameCategory(r, s.category) /\ MatchesSearch(r, s) /\ MatchesStore(r, s)
  /\ \A name \in DOMAIN s.values \cap (ListingColumns \cup ListedSpecification) :
        s.values[name] = {} \/ Value(r, name) \in s.values[name]
  /\ s.min # None => r.price >= s.min
  /\ s.max # None => r.price <= s.max

Listed(s) == {r \in Rows : ListWhere(r, s)}

-----------------------------------------------------------------------------
Init ==
  /\ live \in SUBSET Rows /\ stocked = Rows
  /\ sel \in Starts
  /\ page = NoPage /\ pc = "browsing" /\ todo = {} /\ list = {}
  /\ moves = 0 /\ choices = 0 /\ quiet = TRUE /\ promised = 0

\* External: a seller publishes a listing or takes it down, sells the last piece or gets more
Move ==
  /\ moves < MaxMoves /\ moves' = moves + 1 /\ quiet' = FALSE
  /\ \E r \in Rows : \/ /\ live' = IF r \in live THEN live \ {r} ELSE live \cup {r}
                        /\ UNCHANGED stocked
                     \/ /\ stocked' = IF r \in stocked THEN stocked \ {r} ELSE stocked \cup {r}
                        /\ UNCHANGED live
  /\ UNCHANGED <<sel, page, pc, todo, list, choices, promised>>

AskFilters ==
  /\ pc = "browsing"
  /\ IF /\ sel.category # "" => IsValidCategory(NormalizeCategoryName(sel.category))
        /\ ValidPrices(sel)
     THEN /\ pc' = "asked" /\ todo' = Groups /\ quiet' = TRUE
          /\ page' = [NoPage EXCEPT !.answer = "waiting", !.search = sel.search]
     ELSE /\ page' = [NoPage EXCEPT !.answer = "bad request"]
          /\ pc' = "answered" /\ UNCHANGED <<todo, quiet>>
  /\ UNCHANGED <<catalogue, sel, list, moves, choices, promised>>

\* The queries of one of the two groups.  A filter without values is left out; the range stays.
ReadFilters(group) ==
  /\ pc = "asked" /\ group \in todo /\ todo' = todo \ {group}
  /\ LET names == FiltersToProcess(sel, group)
         built == [n \in names \ {"price"} |-> BuildFilter(n, sel, 0, Limit, NoSearch)]
         shown == {n \in DOMAIN built : built[n] # {}}
     IN page' = [page EXCEPT
                   !.facets = [n \in DOMAIN @ \cup shown |->
                                 IF n \in DOMAIN @ THEN @[n] ELSE built[n]],
                   !.range = IF "price" \in names THEN FetchRange(sel) ELSE @]
  /\ UNCHANGED <<catalogue, sel, pc, list, moves, choices, quiet, promised>>

\* the total is read when all the filters are there
ReadTotal ==
  /\ pc = "asked" /\ todo = {}
  /\ page' = [page EXCEPT !.total = FilteredListingsCount(sel), !.answer = "ok"]
  /\ pc' = "answered"
  /\ UNCHANGED <<catalogue, sel, todo, list, moves, choices, quiet, promised>>

\* GET filters/:filterName: a screen with one page of one filter's values, over the panel.  Its
\* search is in the values, and is no condition on the listings: a search in titles is not applied.
\* Bound: booleans are not searched.
FilterByName(name, number, within) ==
  /\ pc = "answered" /\ page.answer = "ok" /\ name \notin {"price"}
  /\ GetFilterByName(name, NormalizeCategoryName(sel.category))
  /\ ShouldShow(sel.source, name, NormalizeCategoryName(sel.category))
  /\ name \in BooleanFilters => within = NoSearch
  /\ LET values == BuildFilter(name, [sel EXCEPT !.search = NoSearch], (number - 1) * PageSize,
                               PageSize, within)
     IN values # {} /\ page' = [page EXCEPT !.facets = [n \in {name} |-> values], !.search = NoSearch]
  /\ UNCHANGED <<catalogue, sel, pc, todo, list, moves, choices, quiet, promised>>

\* A value is ticked.  The category and the booleans have one value, the others a list.
Choose(name, option) ==
  /\ pc = "answered" /\ page.answer = "ok" /\ choices < MaxChoices
  /\ name \in DOMAIN page.facets /\ option \in page.facets[name] /\ ~option.isSelected
  /\ sel' = IF name = "categoryName" THEN [sel EXCEPT !.category = option.value]
            ELSE [sel EXCEPT !.values = [n \in DOMAIN @ \cup {name} |->
                    IF n # name THEN @[n]
                    ELSE {option.value} \cup
                           IF name \in DOMAIN @ \ BooleanFilters THEN @[name] ELSE {}]]
  /\ promised' = option.count /\ choices' = choices + 1 /\ pc' = "chosen"
  /\ UNCHANGED <<catalogue, page, todo, list, moves, quiet>>

\* the whole range that the panel names
ChooseRange ==
  /\ pc = "answered" /\ page.answer = "ok" /\ choices < MaxChoices
  /\ page.range.max \notin {None, 0}
  /\ sel' = [sel EXCEPT !.min = page.range.min, !.max = page.range.max]
  /\ promised' = 1 /\ choices' = choices + 1 /\ pc' = "chosen"
  /\ UNCHANGED <<catalogue, page, todo, list, moves, quiet>>

\* GET listings, with the filters of the panel or with the value just ticked
ShowList ==
  /\ \/ pc = "answered" /\ page.answer = "ok" /\ pc' = "listed"
     \/ pc = "chosen" /\ pc' = "landed"
  /\ list' = Listed(sel)
  /\ UNCHANGED <<catalogue, sel, page, todo, moves, choices, quiet, promised>>

\* back to the panel, for the filters as they are now
Return ==
  /\ pc \in {"listed", "landed", "chosen"} /\ choices < MaxChoices
  /\ pc' = "browsing" /\ page' = NoPage /\ list' = {} /\ promised' = 0
  /\ UNCHANGED <<catalogue, sel, todo, moves, choices, quiet>>

Next ==
  \/ Move \/ AskFilters \/ ReadTotal \/ ChooseRange \/ ShowList \/ Return
  \/ \E group \in Groups : ReadFilters(group)
  \/ \E name \in DOMAIN page.facets :
       \E number \in 1..2, within \in {NoSearch} \cup {o.value : o \in page.facets[name]} :
         FilterByName(name, number, within)
  \/ \E name \in DOMAIN page.facets : \E option \in page.facets[name] : Choose(name, option)

Spec == Init /\ [][Next]_vars

-----------------------------------------------------------------------------
\* ListingsQueryDto: prices may be left out; values[name] is what was ticked of a filter, one
\* value when it is a boolean
IsRequest(s) ==
  /\ DOMAIN s = {"source", "category", "search", "store", "min", "max", "values"}
  /\ s.min \in Int \cup {None} /\ s.max \in Int \cup {None}
  /\ DOMAIN s.values \subseteq (ListingColumns \cup ListedSpecification) \ {"categoryName"}
  /\ \A name \in DOMAIN s.values :
        s.values[name] # {} /\ (name \in BooleanFilters => Cardinality(s.values[name]) = 1)

\* what a run assumes of the constants: the category is a column of its own, and the values have
\* one place each in the alphabet
ListingFiltersAssumption ==
  /\ None \notin Int /\ Limit \in Nat \ {0} /\ PageSize \in Nat \ {0}
  /\ MaxMoves \in Nat /\ MaxChoices \in Nat
  /\ IsFiniteSet(Rows)
  /\ \A r \in Rows : r.price \in Nat /\ "categoryName" \notin DOMAIN r.own \cup DOMAIN r.spec
  /\ \A r \in Rows, name \in ListingColumns \cup ListedSpecification :
        HasValue(r, name) => Value(r, name) \in DOMAIN Rank
  /\ \A v, w \in DOMAIN Rank : Rank[v] \in Nat /\ (Rank[v] = Rank[w] => v = w)
  /\ \A s \in Starts : IsRequest(s)

\* FiltersResponseDto: no filter without values, none of which counts more than there is
IsPage(p) ==
  /\ DOMAIN p = DOMAIN NoPage /\ DOMAIN p.range = DOMAIN NoRange
  /\ p.range.min \in Int \cup {None} /\ p.range.max \in Int \cup {None}
  /\ p.total \in 0..Cardinality(Rows)
  /\ \A name \in DOMAIN p.facets :
        /\ p.facets[name] # {}
        /\ \A o \in p.facets[name] : o.count \in 0..Cardinality(Rows) /\ o.isSelected \in BOOLEAN

TypeOK ==
  /\ IsRequest(sel) /\ IsPage(page)
  /\ live \subseteq Rows /\ stocked \subseteq Rows /\ list \subseteq Rows
  /\ pc \in {"browsing", "asked", "answered", "chosen", "listed", "landed"}
  /\ todo \subseteq Groups /\ moves \in 0..MaxMoves /\ choices \in 0..MaxChoices
  /\ quiet \in BOOLEAN /\ promised \in 0..Cardinality(Rows)

\* The three readings that the two builders do not share: the model, which the panel does not
\* know as a filter; a boolean that is No, which it takes for none; and a largest price of 0.
ReadAlike(s) ==
  /\ "model" \notin DOMAIN s.values
  /\ \A name \in DOMAIN s.values : s.values[name] # {"false"}
  /\ s.max # 0

\* While the catalogue stands still, the total that the panel names is the number of listings
\* the list shows for the same request: getFilteredListingsCount with its joins and buildWhere,
\* two translations of one request, agree on every filter but the three of ReadAlike.
TotalCountsTheList ==
  pc = "listed" /\ quiet /\ ReadAlike(sel) => page.total = Cardinality(list)

\* A value that stands with a count leads to a listing when it is ticked, however many were
\* ticked before it: the queries of the filters leave out the filter itself and apply all the others
\* as the list does.  That is as long as the catalogue stands still, what is listed is in stock and
\* the request is read alike; and not for the values of one filter's screen while titles are searched,
\* since that screen leaves the search out.
NoDeadEnd ==
  /\ pc = "landed" /\ promised > 0
  /\ quiet /\ live \subseteq stocked /\ ReadAlike(sel) /\ page.search = sel.search
  => list # {}

=============================================================================
