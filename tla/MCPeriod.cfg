CONSTANTS
  INIT_INPUTS_STATE <- MCInitInputs
  INIT_OUTPUTS_STATE <- MCInitOutputs
  NUMBER_OF_INPUTS = 2
  CELLS = 4
  IntervalCommands <- MCIntervals
  InputCommands = {0, 1, 2, 4}
  OutputCommands = {0, 2}
SPECIFICATION Spec
CHECK_DEADLOCK FALSE
INVARIANTS TypeOK AtMostOneLateLine ReportTruthful
PROPERTIES RateAsAsked LinesKeepComing
