\* Position frames, respawns of the worker, stops and crashes.
SPECIFICATION TwoTierSpec
CONSTANTS
  StaleIds = TRUE
  Match = {m1, m2}
  Garbage = {g}
  NoMatch = NoMatch
  NoTick = NoTick
  Confirm = 2
  NameLimit = 3
  MaxTorn = 1
  MaxTick = 4
  MaxFaults = 0
  MaxRestarts = 1
SYMMETRY Ids
INVARIANTS TypeOK
PROPERTIES ClosedStaysClosed
\* The game may stop for good, and every counter is bounded.
CHECK_DEADLOCK FALSE
