\* The order journal of one customer.
SPECIFICATION Spec
CONSTANTS
  Customers = {"a"}
  NoCustomer = NoCustomer
  Calls = {"COMMAND"}
  Journal = "ORDER"
  MaxTokens = 2
  MaxKeys = 2
  MaxRestarts = 0
INVARIANTS
  NothingForgotten
\* Rows are bounded: at the bounds nothing may be left to do.
CHECK_DEADLOCK FALSE
