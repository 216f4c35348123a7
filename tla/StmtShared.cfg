SPECIFICATION Spec
CONSTANTS
  Row = {alice, bob}
  QueryId = {q}
  QueryOf <- SharedQuery
  MaxCalls = 4
INVARIANTS NeverOverstated
CHECK_DEADLOCK FALSE
