\* Skipped frames too, and torn ids of earlier matches.
SPECIFICATION Spec
CONSTANTS
  Match = {m1, m2}
  Garbage = {g}
  NoMatch = NoMatch
  StaleIds = TRUE
  Confirm = 3
  MaxTorn = 2
  MaxFaults = 1
  MaxRestarts = 1
SYMMETRY Ids
INVARIANTS RatedOnce
\* The game may stop for good, and every counter is bounded.
CHECK_DEADLOCK FALSE
