SPECIFICATION Spec
CONSTANTS
  Shoppers = {r1, r2}
  Checkouts = {k1}
  Users = {u1}
  Listings = {l1, l2}
  Shops = {s1}
  ShopOf <- MCShopOf
  Quantities = {1}
  Stocks = {2}
  MaxLines = 2
  BulkOrders <- MCBulkOrders
  DbFaults = FALSE
  CommitFaults = TRUE
  NoUser = NoUser
  NoRow = NoRow
  NoCart = NoCart
  Guest = Guest
INVARIANT BoughtLeavesCart
PROPERTY CleanupOnlyBought
SYMMETRY MCSymmetry
CHECK_DEADLOCK FALSE
