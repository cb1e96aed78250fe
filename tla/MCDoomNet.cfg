SPECIFICATION NetSpec
CONSTANTS
  Nodes <- MCNodes
  BACKUPTICS = 6
  RESENDCOUNT = 2
  BYTE = 24
  WINDOW = 9
  Games <- MCGames
  Settings <- MCSettings
  MAXAGE = 1
  FAULTS = 1
CHECK_DEADLOCK FALSE
INVARIANTS GamesAgree
 
