CONSTANTS
  MAX_AZIMUTH = 8
  ZERO_ELEVATION = 4
  VEL_NUM = 1
  VEL_DEN = 2
  IntHalf = 64
  TICKS_PER_SECOND = 3
  MAX_SPEED <- MCMaxSpeed
  SYNCED_ON_INIT <- MCSyncedOnInit
  FastModes = {TRUE, FALSE}
  CommandedAxes = {"elevation"}
  Positions <- MCElevationPositions
  Speeds <- MCSpeeds
  Limits = {3, 4, 6}
  MaxCommands = 4
  TicksPerPass = 1
  PassesPerTick = 2
SPECIFICATION Spec
INVARIANTS TypeOK SearchVisitsBothEnds
PROPERTIES SyncedAtZero SyncEnds EndIsSent
