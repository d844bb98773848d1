------------------------------ MODULE ServiceSide ------------------------------
(***************************************************************************)
(* The services around the orders, composed: payments by the gateway,      *)
(* phones, what users write, the filters of listings and of models, the    *)
(* picks of the listings, and the search of the catalogue.  As in          *)
(* OrderSide the first state chooses which of them the behaviour is one    *)
(* of, and the variables of the others lie in v1 to v11, None while        *)
(* unused.                                                                 *)
(***************************************************************************)
EXTENDS Payments, Integers, Sequences

\* the constants of a part begin with the name of its instance
CONSTANTS
  None,
  PhUsers, PhPhones, PhGuest,
  UsUsers, UsListings, UsReviews, UsAddresses, UsContents, UsRequests, UsHours, UsAhead, UsDays,
  UsMaxRows,
  LFRows, LFStarts, LFRank, LFLimit, LFPageSize, LFMaxMoves, LFMaxChoices,
  MFRows, MFStarts, MFAsked, MFPerFilter, MFPageSize, MFMaxMoves, MFMaxChoices,
  LPRows, LPPrices, LPBookings, LPRequests, LPMaxMoves, LPFails,
  CSListings, CSPrices, CSBatchSize, CSMaxResults, CSMaxHistory, CSChats, CSIntents, CSMaxRuns,
  CSMaxMoves

VARIABLES part, v1, v2, v3, v4, v5, v6, v7, v8, v9, v10, v11

after4 == <<v5, v6, v7, v8, v9, v10, v11>>
slots == <<v1, v2, v3, v4, after4>>
allVars == <<vars, part, slots>>

Parts == {"payments", "phones", "users", "filters", "models", "picks", "search"}

-----------------------------------------------------------------------------

Ph == INSTANCE Phones WITH
  code <- v1, phone <- v2, verify <- v3, answer <- v4,
  Users <- PhUsers, Phones <- PhPhones, Guest <- PhGuest

Us == INSTANCE Users WITH
  now <- v1, rows <- v2, address <- v3, request <- v4,
  Users <- UsUsers, Listings <- UsListings, Reviews <- UsReviews, Addresses <- UsAddresses,
  Contents <- UsContents, Requests <- UsRequests, Hours <- UsHours, Ahead <- UsAhead,
  Days <- UsDays, MaxRows <- UsMaxRows

LF == INSTANCE ListingFilters WITH
  live <- v1, stocked <- v2, sel <- v3, page <- v4, pc <- v5, todo <- v6, list <- v7,
  moves <- v8, choices <- v9, quiet <- v10, promised <- v11,
  Rows <- LFRows, Starts <- LFStarts, Rank <- LFRank, Limit <- LFLimit, PageSize <- LFPageSize,
  MaxMoves <- LFMaxMoves, MaxChoices <- LFMaxChoices

MF == INSTANCE ModelFilters WITH
  models <- v1, sel <- v2, page <- v3, pc <- v4, todo <- v5, list <- v6, total <- v7,
  moves <- v8, choices <- v9, quiet <- v10, promised <- v11,
  Rows <- MFRows, Starts <- MFStarts, Asked <- MFAsked, PerFilter <- MFPerFilter,
  PageSize <- MFPageSize, MaxMoves <- MFMaxMoves, MaxChoices <- MFMaxChoices

LP == INSTANCE ListingPicks WITH
  live <- v1, price <- v2, req <- v3, pc <- v4, turn <- v5, todo <- v6, got <- v7, result <- v8,
  moves <- v9, quiet <- v10,
  Rows <- LPRows, Prices <- LPPrices, Bookings <- LPBookings, Requests <- LPRequests,
  MaxMoves <- LPMaxMoves, Fails <- LPFails

CS == INSTANCE CatalogueSearch WITH
  row <- v1, index <- v2, script <- v3, runs <- v4, moves <- v5, history <- v6, chat <- v7,
  saves <- v8, lost <- v9,
  Listings <- CSListings, Prices <- CSPrices, BatchSize <- CSBatchSize,
  MaxResults <- CSMaxResults, MaxHistory <- CSMaxHistory, Chats <- CSChats, Intents <- CSIntents,
  MaxRuns <- CSMaxRuns, MaxMoves <- CSMaxMoves

ASSUME ServiceSideAssumption ==
  /\ Ph!PhonesAssumption /\ Us!UsersAssumption
  /\ LF!ListingFiltersAssumption /\ MF!ModelFiltersAssumption
  /\ LP!ListingPicksAssumption /\ CS!CatalogueSearchAssumption

-----------------------------------------------------------------------------

Unused5 == v5 = None /\ v6 = None /\ v7 = None /\ v8 = None /\ v9 = None /\ v10 = None /\ v11 = None

ServicesInit ==
  \/ /\ part = "payments" /\ Init
     /\ v1 = None /\ v2 = None /\ v3 = None /\ v4 = None /\ Unused5
  \/ /\ lookup = TRUE /\ Init
     /\ \/ part = "phones"     /\ Ph!Init /\ Unused5
        \/ part = "users"      /\ Us!Init /\ Unused5
        \/ part = "filters"    /\ LF!Init
        \/ part = "models"     /\ MF!Init
        \/ part = "picks"      /\ LP!Init /\ v11 = None
        \/ part = "search"     /\ CS!Init /\ v10 = None /\ v11 = None

PaymentsStep   == part = "payments" /\ Next /\ UNCHANGED <<part, slots>>
PhonesStep     == part = "phones" /\ Ph!Next /\ UNCHANGED <<vars, part, after4>>
UsersStep      == part = "users" /\ Us!Next /\ UNCHANGED <<vars, part, after4>>
FiltersStep    == part = "filters" /\ LF!Next /\ UNCHANGED <<vars, part>>
ModelsStep     == part = "models" /\ MF!Next /\ UNCHANGED <<vars, part>>
PicksStep      == part = "picks" /\ LP!Next /\ UNCHANGED <<vars, part, v11>>
SearchStep     == part = "search" /\ CS!Next /\ UNCHANGED <<vars, part, v10, v11>>

ServicesNext ==
  \/ PaymentsStep \/ PhonesStep \/ UsersStep \/ FiltersStep \/ ModelsStep \/ PicksStep \/ SearchStep

\* the script that embeds the catalogue goes on as long as its process runs
ServicesSpec ==
  /\ ServicesInit /\ [][ServicesNext]_allVars
  /\ WF_allVars(part = "search" /\ CS!Script /\ UNCHANGED <<vars, part, v10, v11>>)

-----------------------------------------------------------------------------
(* The properties of the parts, as their modules state them *)

\* Every variable of the part has its type.
PartTypeOK ==
  /\ part \in Parts /\ TypeOK
  /\ part = "phones" => Ph!TypeOK
  /\ part = "users" => Us!TypeOK
  /\ part = "filters" => LF!TypeOK
  /\ part = "models" => MF!TypeOK
  /\ part = "picks" => LP!TypeOK
  /\ part = "search" => CS!TypeOK

\* What a user does once is done once, up to overlaps.
OnceUpToOverlaps == part = "users" => Us!OnceUpToOverlaps

\* The total that a list goes with is the number of its entries.
TotalCountsTheList ==
  /\ part = "filters" => LF!TotalCountsTheList
  /\ part = "models" => MF!TotalCountsTheList

\* No value with a count leads to an empty list.
NoDeadEnd ==
  /\ part = "filters" => LF!NoDeadEnd
  /\ part = "models" => MF!NoDeadEnd

\* No turn of a pick adds what an earlier one has found, and no more than was asked for is picked.
TurnsAddNew == part = "picks" => LP!TurnsAddNew

\* A turn of a chat is lost by an overlap only.
TurnsKeptUpToOverlaps == part = "search" => CS!TurnsKeptUpToOverlaps

\* A run of the embedding script ends.
RunEnds ==
  (part = "search" /\ CS!Running) ~> (part = "search" /\ ~CS!Running)

=============================================================================
