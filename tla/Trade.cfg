\* The trade of the mall, one part after the other.
SPECIFICATION TradeSpec
SYMMETRY Symmetry
CONSTANTS
  Parts = {"rules", "first", "wallet", "servicing", "compensation", "checkout", "carts", "goods"}
  Publishers = {x, y}
  Readers = {r}
  Kinds = {"settle", "complete", "withdraw", "approve"}
  Bootstrapped = TRUE
  MaxVersions = 3
  MaxTime = 3
  Commissions = {"c1", "c2"}
  CommissionOf <- TwoAndOne
  Withdrawals = {"w1", "w2"}
  Accounts = {"b1"}
  Files = {"f1"}
  Uploader <- OneUploader
  Admins = {"a1"}
  Minimum = 1
  MaxReviews = 3
  Items = {"i1", "i2"}
  Ordered <- TwoAndOneUnits
  Price <- ThreeCents
  Rate = 45
  Aftersales = {x, y}
  Compensations = {"m1"}
  Refundable = {1, 2, 3, 4}
  Customers = {x, y}
  Skus = {x, y}
  Channels = {"CART", "BUY_NOW"}
  MaxQuantity = 2
  CartLimit = 2
  MaxPhysical = 2
  MaxQuotes = 2
  MaxRevisions = 1
  MaxVersion = 5
  Brands = {u, v}
  Categories = {"c1"}
  Products = {"p1"}
  ProductOf <- OneProduct
  MaxHeld = 1
INVARIANTS
  HistoryInOrder
  MoneyAddsUp
  ReturnsAddUp
  ShippedOrRefunded
  OrdersAreCovered
  OfferIsSound
PROPERTIES
  TakesTheVersionInForce
  ActedAsShown
