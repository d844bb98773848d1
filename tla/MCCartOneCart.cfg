SPECIFICATION Spec
CONSTANTS
  l1 = l1
  l2 = l2
  s1 = s1
  s2 = s2
  Users = {u1}
  Listings = {l1}
  Shops = {s1}
  Requests = {r1, r2, r3}
  ShopOf <- MCShopOf
  Quantities = {1, 2}
  Stocks = {0, 2}
  MaxLines = 2
  BulkOrders <- MCBulkOrders
  DbFaults = FALSE
  NoUser = NoUser
  NoRow = NoRow
  NoCart = NoCart
INVARIANT OneCartPerUser
SYMMETRY MCSymmetry
