SPECIFICATION ScreenSpec
CONSTANTS
  None = None
  Classes <- MCClasses
  Men = {m1}
  ExtraSeats = 1
  PartsOf <- MCPartsOf
  Rosters <- MCRosters
  Orders <- MCOrders
  MaxResults = 2
  Queries <- MCQueries
  Squads = {0, 1}
  MaxScore = 1
  MaxFrames = 2
  Recordings <- MCRecordings
  DamageTypes <- MCDamageTypes
  Zones <- MCZones
  ZoneOf <- MCZoneOf
  LaneNodes <- MCNodes
  LaneEdges <- MCEdges
  Objectives <- MCObjectives
  Lanes <- MCLanes
  CloudMin = 5
  CloudDupMin = 4
  CloudDepthMin = 3
  NearSnap = 3
  MatchReach = 1
  Hovers = {0, 3}
  MaxZoneEvents = 4
  RoundIds = {1, 2, 3}
  Reach = 2
  MatchRadius = 3
  ImpactMs = 1
  StaleMs = 2
  MaxPaints = 5
  Places = {0, 1, 5}
  Yaws <- MCYaws
  FootMax = 1
  RideMax = 2
  FootFloor = 1
  RideFloor = 2
  Rests <- MCRests
  Ticks = {0, 2}
  Crowds <- MCCrowds
  LayerRects <- MCLayerRects
  Canvases <- MCCanvases
  Pad = 256
  Grain = 4
  MaxResizes = 3
  Scenes <- MCScenes
  Maps <- MCMaps
  Slow <- MCSlow
  Catalog <- MCCatalog
  Rulers <- MCRulers
  OldLayers <- MCOldLayers
  Zoom = 2
  ArrowMin = 31
  FenceMin = 16
  MaxClicks = 2
  Offers <- MCOffers
  MaxAsks = 3
  MaxMounts = 3
  MaxClips = 3
  MaxData = 2
CHECK_DEADLOCK FALSE
INVARIANTS
  VehicleAccounted ZonesAgree MotionAgrees FitHoldsAll SceneAgrees MarksTell OverItsMap
  PagesSettle LoadsWhole
PROPERTIES
  RosterAgrees HudAgrees RoundsAgree
