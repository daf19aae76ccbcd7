SPECIFICATION ProcFairSpec
CONSTANTS
  Requests = {r1, r2}
INVARIANTS StoreOutlivesUsers RequestsGetGrace
PROPERTIES ProcessEnds
CHECK_DEADLOCK FALSE
