SPECIFICATION Spec
CONSTANTS
  Row = {a, b}
  QueryId = {a, b}
  QueryOf <- OwnQuery
  MaxCalls = 4
INVARIANTS NeverOverstated ExactUntilForgotten
CHECK_DEADLOCK FALSE
