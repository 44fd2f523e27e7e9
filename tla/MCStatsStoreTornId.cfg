\* The only trouble: a torn match id.
SPECIFICATION SteadySpec
CONSTANTS
  Match = {m1, m2}
  Garbage = {g}
  NoMatch = NoMatch
  StaleIds = FALSE
  Confirm = 3
  MaxTorn = 2
  MaxFaults = 0
  MaxRestarts = 0
SYMMETRY Ids
INVARIANTS PublishedIsOver
\* The game may stop for good, and every counter is bounded.
CHECK_DEADLOCK FALSE
