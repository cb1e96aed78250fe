SPECIFICATION LinesSpec
CONSTANTS
  VDOORSPEED = 2
  VDOORWAIT = 2
  FLOORSPEED = 2
  CEILSPEED = 2
  PLATSPEED = 2
  PLATWAIT = 2
  FAST = 2
  SLOW = 2
  LIP = 1
  GAP = 2
  STEP8 = 2
  STEP16 = 3
  STEP24 = 3
  STEP32 = 4
  STEP512 = 12
  SHUT_IN = 2
  OPEN_IN = 2
  MAXINT = 20
  LOWEST <- FarBelow
  MAXCEILINGS = 1
  MAXPLATS = 2
  GLOWSPEED = 1
  FLICKER = 2
  STROBEBRIGHT = 1
  FASTDARK = 1
  SLOWDARK = 2
  Scenes <- MCScenes
  Chances <- MCChances
  BRIGHT = 8
  DIM = 1
  BUTTONTIME = 3
  MAXBUTTONS = 1
  TALL = 5
  USES = 3
  WALKS = 2
CHECK_DEADLOCK FALSE
INVARIANTS LevelIsSound
PROPERTY MoversComeToRest
