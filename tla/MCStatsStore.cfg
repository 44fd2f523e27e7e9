\* Every frame is consumed; torn states and ids, rollbacks, stops.
SPECIFICATION SteadySpec
CONSTANTS
  Match = {m1, m2}
  Garbage = {g}
  NoMatch = NoMatch
  StaleIds = FALSE
  Confirm = 3
  MaxTorn = 2
  MaxFaults = 1
  MaxRestarts = 2
SYMMETRY Ids
INVARIANTS TypeOK OpenRowIsCurrent FinalizedIsOver RatedIsVerified
PROPERTIES VerdictStands
\* The game may stop for good, and every counter is bounded.
CHECK_DEADLOCK FALSE
