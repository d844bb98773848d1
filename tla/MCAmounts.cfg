SPECIFICATION Spec
CONSTANTS
  Listings = {"phone"}
  Shops = {1}
  Locations = {"north"}
  Cities = {"A"}
  Categories = {"mobile"}
  Details <- MCDetails
  PriceTags <- MCTags
  FirstTags <- MCFirstTags
  Repriced = {}
  Tariff <- MCTariff
  Default <- MCDefault
  Destinations = {"A"}
  Quantities = {1, 2}
  MaxLines = 2
  Vouchers = {0}
  Deviations = {0}
  Absent = Absent
INVARIANT DeliveryAddsUp
CHECK_DEADLOCK FALSE
