CONSTANTS
  MAX_AZIMUTH = 8
  ZERO_ELEVATION = 4
  VEL_NUM = 1
  VEL_DEN = 2
  IntHalf = 64
  TICKS_PER_SECOND = 3
  MAX_SPEED <- MCMaxSpeed
  SYNCED_ON_INIT <- MCSyncedOnInit
  FastModes = {FALSE}
  CommandedAxes = {"azimuth"}
  Positions <- MCAzimuthPositions
  Speeds <- MCSpeeds
  Limits = {}
  MaxCommands = 1
  TicksPerPass = 2
  PassesPerTick = 2
SPECIFICATION Spec
INVARIANTS SyncedAzimuthShowsZero
