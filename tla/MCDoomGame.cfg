SPECIFICATION GameSpec
CONSTANTS
  Parts = {"flow", "player"}
  PAGE = 1
  DEMO = 1
  TALLY = 2
  TEXT = 1
  MAXLEVELS = 2
  MAXKEYS = 4
  MAXQUEUE = 1
  Kits <- MCKits
  maxammo <- MCMax
  clipammo <- MCClip
  BFGCELLS = 3
  DSGUNCELLS = 2
  MAXHEALTH = 4
  ARMOR = 3
  TOPHEALTH = 6
  INVULNTICS = 2
  INVISTICS = 3
  IRONTICS = 2
  INFRATICS = 2
  BONUSADD = 1
  BOTTOM = 3
  MAXEVENTS = 2
CHECK_DEADLOCK FALSE
INVARIANTS LeftoversFit PlayerIsSound
PROPERTIES CourseGoesOn HandsFollow
