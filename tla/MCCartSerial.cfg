SPECIFICATION SerialSpec
CONSTANTS
  l1 = l1
  l2 = l2
  s1 = s1
  s2 = s2
  Users = {u1, u2}
  Listings = {l1, l2}
  Shops = {s1, s2}
  Requests = {r1, r2, r3}
  ShopOf <- MCShopOf
  Quantities = {1, 2}
  Stocks = {2}
  MaxLines = 2
  BulkOrders <- MCBulkOrders
  DbFaults = FALSE
  NoUser = NoUser
  NoOrder = NoOrder
  NoRow = NoRow
  NoCart = NoCart
INVARIANT OneRowPerListing
PROPERTY ImplementsAbstractCart
SYMMETRY MCSymmetry
