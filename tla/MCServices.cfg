SPECIFICATION ServicesSpec
CONSTANTS
  Orders = {o1}
  Handlers = {h1, h2}
  MaxInFlight = 2
  MaxCrashes = 1
  None = None
  PhUsers = {"u1", "u2"}
  PhPhones = {"n1", "n2"}
  PhGuest = "guest"
  UsUsers = {"u1"}
  UsListings = {"l1"}
  UsReviews = {"v1"}
  UsAddresses = {"a1"}
  UsContents = {"home"}
  UsRequests = {"r1", "r2"}
  \* a day of two hours, the second of which dateTime() takes for the next day's
  UsHours = 2
  UsAhead = 1
  UsDays = 1
  UsMaxRows = 3
  LFRows <- FilterRows
  LFStarts <- MCFilterStarts
  LFRank <- MCRank
  LFLimit = 5
  LFPageSize = 1
  LFMaxMoves = 1
  LFMaxChoices = 2
  MFRows <- MCModels
  MFStarts <- MCModelStarts
  MFAsked = {"categoryName", "ram", "processor"}
  MFPerFilter <- MCPerFilter
  MFPageSize = 1
  MFMaxMoves = 1
  MFMaxChoices = 2
  LPRows <- PickRows
  LPPrices = {9, 12}
  LPBookings <- MCBookings
  LPRequests <- MCPickRequests
  LPMaxMoves = 1
  LPFails = {FALSE, TRUE}
  CSListings = {1, 2}
  CSPrices = {1, 2}
  CSBatchSize = 1
  CSMaxResults = 1
  CSMaxHistory = 2
  CSChats = {"c1", "c2"}
  CSIntents <- MCIntents
  CSMaxRuns = 1
  CSMaxMoves = 1
INVARIANTS
  StoredIsTheBanksWord PartTypeOK OnceUpToOverlaps
  TotalCountsTheList NoDeadEnd TurnsAddNew TurnsKeptUpToOverlaps
PROPERTIES DecidedStays RunEnds
CHECK_DEADLOCK FALSE
