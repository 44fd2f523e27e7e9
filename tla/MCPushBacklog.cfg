\* With replays and without; torn states and ids, lost answers, killed agents.
SPECIFICATION FairPushSpec
CONSTANTS
  Match = {m1}
  Garbage = {g}
  NoMatch = NoMatch
  StaleIds = FALSE
  Confirm = 2
  MaxTorn = 1
  MaxFaults = 0
  MaxRestarts = 1
PROPERTIES CentralCatchesUp
\* The game may stop for good, and every counter is bounded.
CHECK_DEADLOCK FALSE
