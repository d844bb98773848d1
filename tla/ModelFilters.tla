------------------------------ MODULE ModelFilters ------------------------------
(***************************************************************************)
(* The models of the catalogue, which listings are made from: the panel of *)
(* filters, read one query after the other, the values of one filter, and  *)
(* the list, which shows one model of each name and brand.  The panel and  *)
(* the list build their conditions from one request in two ways            *)
(* (ModelOptionsBuilder).  Others add and remove models between any two    *)
(* queries.  Words are whole strings, categories are spelled as stored.    *)
(***************************************************************************)
EXTENDS Integers, Sequences, FiniteSets, TLC, FiniteSetsExt, SequencesExt

CONSTANTS
  Rows,        \* models: [id, name, brand, category, words, spec, pictured]
  Starts,      \* bound: the requests a customer begins with
  Asked,       \* bound: the filters that are asked for by name
  PerFilter,   \* how many values a filter has on a screen of the web and of a mobile
  PageSize,    \* the size of a page of one filter's values
  MaxMoves,    \* bound: changes of the models
  MaxChoices   \* bound: values ticked

VARIABLES
  models,    \* the rows of the table
  sel,       \* the request: source, category, search, sort and the values of the filters
  page,      \* the panel on the customer's screen
  pc,        \* where the customer is
  todo,      \* queries of the request that are not answered yet
  list,      \* the models of the list last opened
  total,     \* and how many it says there are
  moves, choices,
  quiet,     \* the models have not changed since the panel was asked for
  promised   \* the count that stood by the value ticked last

vars == <<models, sel, page, pc, todo, list, total, moves, choices, quiet, promised>>

-----------------------------------------------------------------------------
(* model-filters.config.ts *)

CommonFilters == <<"brandName", "categoryName">>

LaptopFilters ==
  <<"laptopType", "processor", "generation", "ramType", "ram", "storage", "storageSsd",
    "graphicCardName", "graphicCardType", "graphicCardMemory", "screenSize", "screenType",
    "resolution", "refreshRate", "speaker", "hasTouchScreen", "cameraType", "battery", "keyboard",
    "hasBacklitKeyboard", "fingerPrint">>
MobileFilters ==
  <<"processor", "mobileStorage", "ram", "cameraSpecs", "screenSize", "screenType", "resolution",
    "refreshRate", "screenProtection", "speaker", "batteryCapacity", "bodyType", "fingerPrint",
    "simType", "networkBands", "hasESim">>
TvMonitorFilters ==
  <<"screenSize", "screenType", "resolution", "refreshRate", "speaker", "displayType", "os",
    "isSmartTv", "hasTvCertification", "hasWebcam">>

CategoryNames == {"Laptop", "Mobile", "Tablet", "TV / Monitor", "Desktop Computer", "Accessories"}
CategoryFilters ==
  [c \in CategoryNames |->
     CASE c = "Laptop" -> LaptopFilters
       [] c = "Mobile" -> MobileFilters
       [] c = "Tablet" -> <<"hasSimSupport">>
       [] c = "TV / Monitor" -> TvMonitorFilters
       [] c = "Desktop Computer" -> <<"desktopType">>
       [] c = "Accessories" -> <<"accessoryType">>]

BooleanFilters ==
  {"hasTouchScreen", "hasBacklitKeyboard", "hasESim", "hasSimSupport", "isSmartTv",
   "hasTvCertification", "hasWebcam"}

\* The filters of other categories whose first definition names this one as well.  The processor
\* of a tablet is not among them: its first definition is the laptops'.
BorrowedFilters ==
  ("Desktop Computer" :>
     {"processor", "generation", "ramType", "ram", "storage", "storageSsd", "graphicCardName",
      "graphicCardType", "graphicCardMemory", "screenSize", "screenType", "resolution",
      "refreshRate", "speaker", "hasTouchScreen", "hasWebcam"})
  @@ ("Tablet" :>
     (ToSet(MobileFilters) \ {"processor"}))

\* getAllUniqueFilterNames but for the category, which a request names apart
FilterNames ==
  {"brandName"} \cup (UNION {ToSet(CategoryFilters[c]) : c \in CategoryNames})
  \cup (UNION {BorrowedFilters[c] : c \in DOMAIN BorrowedFilters})

\* without a category that is known, no filter is common either
FiltersForCategory(c) ==
  IF c \in CategoryNames THEN CommonFilters \o CategoryFilters[c] ELSE <<>>

\* getFilterByName and the categories of the definition it finds
Applicable(name, c) ==
  \/ name \in ToSet(FiltersForCategory(c))
  \/ c \in DOMAIN BorrowedFilters /\ name \in BorrowedFilters[c]

-----------------------------------------------------------------------------
(* The models as the queries see them *)

\* a model without a value has nil, or 0 for a boolean
Value(r, name) ==
  CASE name = "categoryName" -> r.category
    [] name = "brandName" -> r.brand
    [] name \in DOMAIN r.spec -> r.spec[name]
    [] OTHER -> IF name \in BooleanFilters THEN "false" ELSE "nil"

\* setWhereClause and setSearch, for the panel; without is what is taken out of the conditions
Where(s, without) ==
  {r \in models :
     /\ "categoryName" \in without \/ r.category = s.category
     /\ \A name \in DOMAIN s.values \ without : Value(r, name) \in s.values[name]
     /\ s.search \in r.words \cup {""}}

\* setRawWhereClause and setSearch, for the list
RawWhere(s) ==
  {r \in models :
     /\ r.category = s.category
     /\ \A name \in DOMAIN s.values : Value(r, name) \in s.values[name]
     /\ s.search = "" \/ s.search \in r.words}

IsValueSelected(s, name, value) ==
  IF name = "categoryName" THEN value = s.category
  ELSE name \in DOMAIN s.values /\ value \in s.values[name]

\* fetchOneFilter: the values of a column with their numbers of models; nil is none
Options(rows, name, s) ==
  {[value |-> v, count |-> Cardinality({r \in rows : Value(r, name) = v}),
    isSelected |-> IsValueSelected(s, name, v)] :
      v \in {Value(r, name) : r \in rows} \ {"nil"}}

\* what may be answered from an offset: the most frequent first, equal ones in any order
Windows(options, offset, limit) ==
  {ToSet(SubSeq(sorted, offset + 1, Min({offset + limit, Len(sorted)}))) :
     sorted \in {q \in SetToSeqs(options) :
                   \A i \in 1 .. (Len(q) - 1) : q[i].count >= q[i + 1].count}}

\* One name of one brand is one entry of the list, with the number of its variants in between
Groups(rows) == {<<r.name, r.brand>> : r \in rows}

\* the variant with ROW_NUMBER 1, which the order does not decide
FirstVariants(rows) ==
  {first \in SUBSET rows :
     Groups(first) = Groups(rows) /\ Cardinality(first) = Cardinality(Groups(rows))}

\* launchPrice and releaseDate are columns that the query does not read
Sorts == {"newest", "launch_price_asc"}

NoPage == [facets |-> <<>>, answer |-> "none"]

-----------------------------------------------------------------------------
Init ==
  /\ models = Rows /\ sel \in Starts /\ page = NoPage /\ pc = "browsing" /\ todo = <<>>
  /\ list = {} /\ total = 0 /\ moves = 0 /\ choices = 0 /\ quiet = TRUE /\ promised = 0

\* External: a model is added or removed
Move ==
  /\ moves < MaxMoves /\ moves' = moves + 1 /\ quiet' = FALSE
  /\ \E r \in Rows : models' = IF r \in models THEN models \ {r} ELSE models \cup {r}
  /\ UNCHANGED <<sel, page, pc, todo, list, total, choices, promised>>

\* GET filters: no category is an error, one that is not known has no filters
AskFilters ==
  /\ pc = "browsing" /\ quiet' = TRUE /\ todo' = FiltersForCategory(sel.category)
  /\ pc' = IF todo' = <<>> THEN "answered" ELSE "asked"
  /\ page' = [NoPage EXCEPT !.answer = IF sel.category = "" THEN "error" ELSE "ok"]
  /\ UNCHANGED <<models, sel, list, total, moves, choices, promised>>

\* The next filter, which is left out of its own conditions, but for the category: that is in
\* the builder's from the start.  A filter without values is not shown.
ReadFilter ==
  /\ pc = "asked" /\ todo' = Tail(todo) /\ pc' = IF todo' = <<>> THEN "answered" ELSE "asked"
  /\ LET name == Head(todo)
         rows == Where(sel, {name} \ {"categoryName"})
     IN \E values \in Windows(Options(rows, name, sel), 0, PerFilter[sel.source]) :
          page' = IF values = {} THEN page
                  ELSE [page EXCEPT !.facets = [n \in DOMAIN @ \cup {name} |->
                                                  IF n = name THEN values ELSE @[n]]]
  /\ UNCHANGED <<models, sel, list, total, moves, choices, quiet, promised>>

\* a failed query is the end of the request
Fail ==
  /\ pc \in {"asked", "listing", "landing"} /\ todo' = <<>> /\ pc' = "answered"
  /\ page' = [NoPage EXCEPT !.answer = "error"] /\ list' = {} /\ total' = 0
  /\ UNCHANGED <<models, sel, moves, choices, quiet, promised>>

\* GET filters/:filterName: a screen with one page of one filter's values, the category's too.
\* A filter of another category, or a page without values, is answered with an error, which
\* changes nothing.
FilterByName(name, number) ==
  /\ pc = "answered" /\ page.answer = "ok" /\ Applicable(name, sel.category)
  /\ \E values \in Windows(Options(Where(sel, {name}), name, sel),
                          (number - 1) * PageSize, PageSize) :
       values # {} /\ page' = [page EXCEPT !.facets = [n \in {name} |-> values]]
  /\ UNCHANGED <<models, sel, pc, todo, list, total, moves, choices, quiet, promised>>

\* A value is ticked.  The category and the booleans have one value, the others a list.
Choose(name, option) ==
  /\ pc = "answered" /\ choices < MaxChoices
  /\ name \in DOMAIN page.facets /\ option \in page.facets[name] /\ ~option.isSelected
  /\ sel' = IF name = "categoryName" THEN [sel EXCEPT !.category = option.value]
            ELSE [sel EXCEPT !.values = [n \in DOMAIN @ \cup {name} |->
                    IF n # name THEN @[n]
                    ELSE {option.value} \cup
                           IF name \in DOMAIN @ \ BooleanFilters THEN @[name] ELSE {}]]
  /\ promised' = option.count /\ choices' = choices + 1 /\ pc' = "chosen"
  /\ UNCHANGED <<models, page, todo, list, total, moves, quiet>>

\* GET models, with the filters of the panel or with the value just ticked: the entries and their
\* number are two queries at once
AskList ==
  /\ \/ pc = "answered" /\ page.answer = "ok" /\ pc' = "listing"
     \/ pc = "chosen" /\ pc' = "landing"
  /\ todo' = <<"list", "count">> /\ list' = {} /\ total' = 0
  /\ UNCHANGED <<models, sel, page, moves, choices, quiet, promised>>

Answered(query) ==
  /\ pc \in {"listing", "landing"}
  /\ \E i \in DOMAIN todo : todo[i] = query /\ todo' = RemoveAt(todo, i)
  /\ pc' = IF todo' # <<>> THEN pc ELSE IF pc = "listing" THEN "listed" ELSE "landed"
  /\ UNCHANGED <<models, sel, page, moves, choices, quiet, promised>>

\* Entries without a picture are not joined; a sort by what is not read fails.  The pages of the
\* list are read as one.
ReadList ==
  /\ Answered("list") /\ sel.sort = "newest"
  /\ \E first \in FirstVariants(RawWhere(sel)) : list' = {r \in first : r.pictured}
  /\ UNCHANGED total

CountList ==
  /\ Answered("count") /\ total' = Cardinality(Groups(RawWhere(sel))) /\ UNCHANGED list

\* a list without entries is answered as an empty page
Reported == IF list = {} THEN 0 ELSE total

\* back to the panel, for the filters as they are now
Return ==
  /\ pc \in {"listed", "landed", "chosen"} /\ choices < MaxChoices
  /\ pc' = "browsing" /\ page' = NoPage /\ list' = {} /\ total' = 0 /\ promised' = 0
  /\ UNCHANGED <<models, sel, todo, moves, choices, quiet>>

Next ==
  \/ Move \/ AskFilters \/ ReadFilter \/ Fail \/ AskList \/ ReadList \/ CountList \/ Return
  \/ \E name \in Asked, number \in 1..2 : FilterByName(name, number)
  \/ \E name \in DOMAIN page.facets : \E option \in page.facets[name] : Choose(name, option)

Spec == Init /\ [][Next]_vars

-----------------------------------------------------------------------------
\* ModelFiltersQueryDto: what was ticked of a filter, one value when it is a boolean
IsRequest(s) ==
  /\ DOMAIN s = {"source", "category", "search", "sort", "values"}
  /\ s.source \in {"web", "mobile"} /\ s.sort \in Sorts
  /\ DOMAIN s.values \subseteq FilterNames \ {"categoryName"}
  /\ \A name \in DOMAIN s.values :
        s.values[name] # {} /\ (name \in BooleanFilters => Cardinality(s.values[name]) = 1)

\* what a run assumes of the constants: the category and the brand are columns of their own
ModelFiltersAssumption ==
  /\ PerFilter \in [{"web", "mobile"} -> Nat \ {0}] /\ PageSize \in Nat \ {0}
  /\ MaxMoves \in Nat /\ MaxChoices \in Nat
  /\ IsFiniteSet(Rows) /\ \A r \in Rows : {"categoryName", "brandName"} \cap DOMAIN r.spec = {}
  /\ \A s \in Starts : IsRequest(s)

\* ModelFiltersResponseDto: no filter without values, none of which counts more than there is
IsPage(p) ==
  /\ DOMAIN p = DOMAIN NoPage
  /\ \A name \in DOMAIN p.facets :
        /\ p.facets[name] # {}
        /\ \A o \in p.facets[name] : o.count \in 1..Cardinality(Rows) /\ o.isSelected \in BOOLEAN

TypeOK ==
  /\ models \subseteq Rows /\ list \subseteq Rows /\ IsRequest(sel) /\ IsPage(page)
  /\ pc \in {"browsing", "asked", "answered", "chosen", "listing", "landing", "listed", "landed"}
  /\ total \in 0..Cardinality(Rows) /\ promised \in 0..Cardinality(Rows)
  /\ moves \in 0..MaxMoves /\ choices \in 0..MaxChoices /\ quiet \in BOOLEAN

\* Entries without a picture stand in the count and not in the list.
Pictured == \A r \in models : r.pictured

\* While the models stand still and have pictures, the list has as many entries as it says, one
\* for each name and brand, whichever of its variants the database takes.
TotalCountsTheList ==
  pc \in {"listed", "landed"} /\ quiet /\ Pictured => Reported = Cardinality(Groups(list))

\* A value that the panel or a filter's own page offers leads to a model when it is ticked,
\* whichever were ticked before, as long as the models stand still and have pictures.
NoDeadEnd == pc = "landed" /\ quiet /\ promised > 0 /\ Pictured => list # {}

=============================================================================
