SPECIFICATION Spec
CONSTANTS
  Requests = {r1, r2}
  Users = {u1}
  Listings = {l1}
  Guest = Guest
  DbFaults = FALSE
INVARIANT GatewayCheckoutNotRefused
SYMMETRY MCSymmetry
CHECK_DEADLOCK FALSE
