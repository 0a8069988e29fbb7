CONSTANTS
  MAX_AZIMUTH = 8
  ZERO_ELEVATION = 4
  VEL_NUM = 1
  VEL_DEN = 2
  IntHalf = 64
  TICKS_PER_SECOND = 3
  MAX_SPEED <- MCMaxSpeed
  PositionCommands <- MCElevationPositions
  SpeedCommands <- MCElevationSpeeds
  LimitCommands = {4, 6, 7}
SPECIFICATION Spec
CHECK_DEADLOCK FALSE
INVARIANTS PositionInTravel
PROPERTIES ElevationKeepsLimits Settles
