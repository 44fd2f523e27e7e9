\* Torn states and ids of earlier matches, skipped frames, failing writes,
\* stops and crashes.
SPECIFICATION Spec
CONSTANTS
  StaleIds = TRUE
  Match = {m1, m2}
  Garbage = {}
  NoMatch = NoMatch
  NoTick = NoTick
  Confirm = 2
  NameLimit = 3
  MaxTorn = 1
  MaxTick = 5
  MaxFaults = 1
  MaxRestarts = 1
SYMMETRY Ids
INVARIANTS OneMatchPerFile FinalizedIsOver FramesInOrder
PROPERTIES KeepsArchive
\* The game may stop for good, and every counter is bounded.
CHECK_DEADLOCK FALSE
