------------------------------- MODULE OrderSide -------------------------------
(***************************************************************************)
(* The order side, composed: the checkout, the amounts of an order,        *)
(* vouchers, the queries of orders, the old dashboard's orders and the     *)
(* pages of a list.  What they share is in the database, and each module   *)
(* has its own view of it, so that a behaviour is one of the checkout or   *)
(* of one other part; the first state chooses which.  The variables of the *)
(* other parts lie in v1 to v7, which are None as long as they are not     *)
(* used.                                                                   *)
(***************************************************************************)
EXTENDS Checkout, Integers, Sequences

\* the constants of a part begin with the name of its instance
CONSTANTS
  None,
  AmListings, AmShops, AmLocations, AmCities, AmCategories, AmDetails, AmPriceTags, AmFirstTags,
  AmRepriced, AmTariff, AmDefault, AmDestinations, AmQuantities, AmMaxLines, AmVouchers,
  AmDeviations,
  VoRows, VoCarts, VoUsers, VoCities, VoMaxDay, VoMaxUses,
  OQOrders, OQSources, OQShops, OQOrderOf, OQShopOf, OQByCard, OQFilters,
  OQMaxMoves,
  LOOrders, LOPatches, LOMaxPatches, LOBodies, LOMaxTime,
  ReIds, ReKeys, ReSizes, ReFailures, ReMaxWrites

VARIABLES part, v1, v2, v3, v4, v5, v6, v7

slots == <<v1, v2, v3, v4, v5, v6, v7>>
allVars == <<vars, part, slots>>

Parts == {"checkout", "amounts", "vouchers", "queries", "legacy", "pages"}

-----------------------------------------------------------------------------

Am == INSTANCE Amounts WITH
  tag <- v1, page <- v2, order <- v3, answer <- v4, request <- v5, since <- v6,
  Listings <- AmListings, Shops <- AmShops, Locations <- AmLocations,
  Cities <- AmCities, Categories <- AmCategories,
  Details <- AmDetails, PriceTags <- AmPriceTags, FirstTags <- AmFirstTags,
  Repriced <- AmRepriced, Tariff <- AmTariff, Default <- AmDefault,
  Destinations <- AmDestinations, Quantities <- AmQuantities,
  MaxLines <- AmMaxLines, Vouchers <- AmVouchers,
  Deviations <- AmDeviations, Absent <- None

Vo == INSTANCE Vouchers WITH
  voucher <- v1, userLookup <- v2, today <- v3, uses <- v4, preview <- v5, applied <- v6,
  Rows <- VoRows, Carts <- VoCarts, Users <- VoUsers,
  Cities <- VoCities, MaxDay <- VoMaxDay, MaxUses <- VoMaxUses

OQ == INSTANCE OrderQueries WITH
  source <- v1, status <- v2, trx <- v3, details <- v4, list <- v5, moves <- v6,
  callback <- v7,
  Orders <- OQOrders, Sources <- OQSources, Shops <- OQShops,
  NoShop <- None, ByCard <- OQByCard, OrderOf <- OQOrderOf, ShopOf <- OQShopOf,
  Filters <- OQFilters, MaxMoves <- OQMaxMoves

LO == INSTANCE LegacyOrders WITH
  now <- v1, row <- v2, adding <- v3, told <- v4, patch <- v5, decided <- v6, patches <- v7,
  Orders <- LOOrders, Patches <- LOPatches, MaxPatches <- LOMaxPatches,
  Bodies <- LOBodies, MaxTime <- LOMaxTime

Re == INSTANCE Repository WITH
  table <- v1, reader <- v2, writer <- v3, writes <- v4,
  Ids <- ReIds, Keys <- ReKeys, Sizes <- ReSizes,
  Failures <- ReFailures, MaxWrites <- ReMaxWrites

ASSUME OrderSideAssumption ==
  /\ Am!AmountsAssumption /\ Vo!VouchersAssumption /\ OQ!OrderQueriesAssumption
  /\ LO!LegacyOrdersAssumption /\ Re!RepositoryAssumption

-----------------------------------------------------------------------------

OrdersInit ==
  /\ Init
  /\ \/ /\ part = "checkout"
        /\ v1 = None /\ v2 = None /\ v3 = None /\ v4 = None /\ v5 = None /\ v6 = None /\ v7 = None
     \/ part = "amounts"  /\ Am!Init /\ v7 = None
     \/ part = "vouchers" /\ Vo!Init /\ v7 = None
     \/ part = "queries"  /\ OQ!Init
     \/ part = "legacy"   /\ LO!Init
     \/ part = "pages"    /\ Re!Init /\ v5 = None /\ v6 = None /\ v7 = None

Checkouts    == part = "checkout" /\ Next /\ UNCHANGED <<part, slots>>
AmountsStep  == part = "amounts" /\ Am!Next /\ UNCHANGED <<vars, part, v7>>
VouchersStep == part = "vouchers" /\ Vo!Next /\ UNCHANGED <<vars, part, v7>>
QueriesStep  == part = "queries" /\ OQ!Next /\ UNCHANGED <<vars, part>>
LegacyStep   == part = "legacy" /\ LO!Next /\ UNCHANGED <<vars, part>>
PagesStep    == part = "pages" /\ Re!Next /\ UNCHANGED <<vars, part, v5, v6, v7>>

OrdersNext ==
  Checkouts \/ AmountsStep \/ VouchersStep \/ QueriesStep \/ LegacyStep \/ PagesStep

OrdersSpec == OrdersInit /\ [][OrdersNext]_allVars

-----------------------------------------------------------------------------
(* The properties of the parts, as their modules state them *)

\* Every variable of the part has its type.
PartTypeOK ==
  /\ part \in Parts
  /\ part = "amounts" => Am!TypeOK
  /\ part = "vouchers" => Vo!TypeOK
  /\ part = "queries" => OQ!TypeOK
  /\ part = "legacy" => LO!TypeOK
  /\ part = "pages" => Re!TypeOK

\* What is receivable of an order covers it after the gateway's cut.
FeeCoversTheCut == part = "amounts" => Am!FeeCoversTheCut

\* The sources of an order account for what is bought.
SourcesCarryTheOrder == part = "amounts" => Am!SourcesCarryTheOrder

\* An order is only stored at prices and discounts that were read for it.
NoSaleAtOldPrice == part = "amounts" => Am!NoSaleAtOldPrice

\* The checkout applies a voucher as its validation showed it.
PreviewHonoured == part = "vouchers" => Vo!PreviewHonoured

\* No order gets a discount that its voucher does not allow.
DiscountEarned == part = "vouchers" => Vo!DiscountEarned

\* An order is stored and shown finished only when nothing of it is still to come.
FinishedMeansFinished == [][part = "queries" => OQ!FinishedStays]_allVars

\* The details of an order never show it paid with a payment that is not.
PaymentNotBehind == part = "queries" => OQ!PaymentNotBehind

\* No update that begins after a payment was decided decides it again.
DecidedUpToOverlaps == part = "legacy" => LO!DecidedUpToOverlaps

\* Nothing is sent out about an order before its customer has the SMS.
ToldInOrder == part = "legacy" => LO!ToldInOrder

\* Walking through a list shows each row once.
WalkShowsEachRowOnce == part = "pages" => Re!WalkShowsEachRowOnce

=============================================================================
