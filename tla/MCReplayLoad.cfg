SPECIFICATION Spec
CONSTANTS
  None = None
  AttackTtl = 1
  BufferMax = 2
  SeenMax = 3
  SeenKeep = 2
  FullRoster = 5
  MassDeaths = 2
  UtilityWeapons = {"bandage"}
  SoldierClasses = {"soldier"}
  TicketTeams = {1, 2}
  VehicleTickets <- MCVehicleTickets
  ClassTickets <- MCClassTickets
  DefaultVehicleCost = 2
  Sources = {"log", "memory"}
  Roster <- MCRoster
  Eos <- MCEos
  Name <- MCName
  Team <- MCTeam
  Weapon <- MCWeapon
  Attacks <- MCAttacks
  Mortals <- MCMortals
  Leaver = "v"
  Gunner = "a"
  Squaddie = "a"
  CarKind = "APC"
  CarClass = "BTR82A"
  CarTeam = 1
  StartTickets = 9
  Drained = 1
  MaxFull = 4
  MaxPos = 2
  PosAfter = {0, 2}
INVARIANTS DecodedIsSeen CreditIsDue OneRowPerDeath LossesExplained
CHECK_DEADLOCK FALSE
