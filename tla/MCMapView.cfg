SPECIFICATION Spec
CONSTANTS
  p1 = p1
  p2 = p2
  v1 = v1
  o1 = o1
  None = None
  Players <- MCPlayers
  Vehicles <- MCVehicles
  Objects <- MCObjects
  Order <- MCOrder
  Nowhere <- MCNowhere
  Frames <- MCFrames
  Width = 16
  Pixels = 4
  Zooms <- MCZooms
  Cursor <- MCCursor
  HitPx = 1
  Slop = 0
  SnapCm = 4
  Devices = {"mouse", "touch"}
  MaxPan = 8
  MaxInputs = 4
INVARIANTS CameraHasPanel GesturesEnd
PROPERTIES PictureHolds MeasurementStays
