SPECIFICATION OrdersSpec
CONSTANTS
  Requests = {r1, r2}
  Users = {u1}
  Listings = {l1}
  Guest = Guest
  DbFaults = TRUE
  None = None
  o1 = o1
  o2 = o2
  p1 = p1
  p2 = p2
  AmListings = {"phone", "laptop", "cable"}
  AmShops = {1, 2}
  AmLocations = {"north", "south"}
  AmCities = {"A", "B"}
  AmCategories = {"mobile", "laptop"}
  AmDetails <- MCDetails
  AmPriceTags <- Tags
  AmFirstTags <- MCFirstTags
  AmRepriced = {"phone"}
  AmTariff <- MCTariff
  AmDefault <- MCDefault
  AmDestinations = {"A"}
  AmQuantities = {0, 2}
  AmMaxLines = 2
  AmVouchers = {33}
  AmDeviations = {None, 40}
  VoRows <- Rows
  VoCarts <- Carts
  VoUsers = {"u"}
  VoCities = {"A"}
  VoMaxDay = 2
  VoMaxUses = 1
  OQOrders = {"o1", "o2"}
  OQSources = {"s1", "s2", "s3"}
  OQShops = {"a", "b"}
  OQOrderOf <- MCOrderOf
  OQShopOf <- MCShopOf
  OQByCard = {"o1"}
  OQFilters = {"Completed"}
  OQMaxMoves = 4
  LOOrders = {o1, o2}
  LOPatches = {p1, p2}
  LOMaxPatches = 3
  LOBodies <- MCBodies
  LOMaxTime = 1
  ReIds = {"r1", "r2", "r3"}
  ReKeys = {1, 2, 3}
  ReSizes = {2}
  ReFailures = {"ConnectionError"}
  ReMaxWrites = 1
INVARIANTS
  TypeOK AcknowledgedIsStored AnnouncedIsStored AcknowledgedIsAnnounced DiscountOrNothing
  PartTypeOK FeeCoversTheCut SourcesCarryTheOrder PreviewHonoured DiscountEarned
  PaymentNotBehind DecidedUpToOverlaps ToldInOrder WalkShowsEachRowOnce
  NoSaleAtOldPrice
PROPERTY FinishedMeansFinished
SYMMETRY MCSymmetry
CHECK_DEADLOCK FALSE
