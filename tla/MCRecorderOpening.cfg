\* Torn reads and skipped frames around the opening of a recording.
SPECIFICATION OpeningSpec
CONSTANTS
  StaleIds = TRUE
  Match = {m1, m2}
  Garbage = {g}
  NoMatch = NoMatch
  NoTick = NoTick
  Confirm = 3
  NameLimit = 4
  MaxTorn = 2
  MaxTick = 8
  MaxFaults = 0
  MaxRestarts = 0
SYMMETRY Ids
INVARIANTS OpensInTime
\* The game may stop for good, and every counter is bounded.
CHECK_DEADLOCK FALSE
