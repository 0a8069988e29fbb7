CONSTANTS
  MAX_AZIMUTH = 8
  ZERO_ELEVATION = 4
  VEL_NUM = 1
  VEL_DEN = 2
  IntHalf = 64
  TICKS_PER_SECOND = 3
  MAX_SPEED <- MCMaxSpeed
  PositionCommands <- MCAzimuthPositions
  SpeedCommands <- MCAzimuthSpeeds
  LimitCommands = {}
SPECIFICATION Spec
CHECK_DEADLOCK FALSE
INVARIANTS TypeOK OneMode StoppedIsCleared SpeedWithinMaximum
PROPERTIES ShortPath NoMotionWithoutCommand SpeedTellsMotion Settles Implements
