\* The people of the mall, one part after the other.
SPECIFICATION AccountsSpec
SYMMETRY Symmetry
CONSTANTS
  Parts = {"agents", "codes", "drawn", "transfers", "signIns", "leaving", "addresses", "calling", "commanding", "guest", "quantities"}
  Alike = {x, y}
  MaxVersion = 4
  MaxSessions = 4
  Agents = {"a", "b"}
  Customers = {x, y, c}
  Targets = {"STOREFRONT", "PRODUCT"}
  MaxInvites = 2
  MaxCandidates = 2
  MaxBindings = 2
  OpenIds = {"wx"}
  Holders = {x, y, phone}
  HttpRequests = {x, y, visit}
  Belongings = {"FAVORITE", "PHONE", "CART", "BINDING"}
  Blockers = {"ORDER", "AFTERSALE", "REFUND"}
  MaxAccounts = 2
  SignInCount = 3
  MaxAddresses = 3
  AddressVersions = 2
  NoCustomer = NoCustomer
  Calls = {"COMMAND", "OTHER", "PAGE"}
  MaxTokens = 3
  MaxKeys = 1
  MaxRestarts = 1
  Skus = {"s", "t"}
  MaxQuantity = 2
  CartKeys = 2
  Merges = 2
  MaxLogins = 2
  CartRestarts = 1
  MaxLapses = 1
INVARIANTS
  SessionsAreSound
  BindingsAgree
  AccountsAreSound
  ClientKeepsTrack
  CartArrives
PROPERTIES
  LateIsHarmless
\* Rows and versions are bounded: at the bounds nothing may be left to do.
CHECK_DEADLOCK FALSE
