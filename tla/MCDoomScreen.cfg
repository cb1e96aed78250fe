SPECIFICATION ScreenSpec
CONSTANTS
  Parts = {"face", "bar", "chat", "tally", "cast", "zone"}
  Healths = {0, 1, 200}
  DAMAGES = {4, 58}
  BONUSES = {26}
  STRAIGHT = 2
  TURN = 2
  EVILGRIN = 3
  RAMPAGEDELAY = 2
  MAXHITS = 2
  MAXHAPPENINGS = 4
  Players = {"green", "indigo", "brown"}
  Speaker = "green"
  Told = {"indigo"}
  QUEUESIZE = 4
  MAXLINELENGTH = 2
  MSGTIMEOUT = 2
  Macro <- MCMacro
  MAXKEYS = 5
  PERCENT = 6
  PAUSE = 2
  SHOWNEXT = 3
  NOSTATE = 2
  FRAGS_SHOWN = 3
  Tallies <- MCTallies
  Anims <- MCAnims
  KEYS = 18
  SIZE = 19
  HEADER = 1
  MINFRAGMENT = 1
  Files <- MCFiles
  Composite <- MCComposite
  COMPOSITESIZE = 2
  THINKERSIZE = 1
  LEVELSIZE = 1
CHECK_DEADLOCK FALSE
INVARIANTS BarIsTrue ZoneIsSound
PROPERTIES FaceFollows TalkIsHeard  CastGoesOn
