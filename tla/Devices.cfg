SPECIFICATION Spec
CONSTANTS
  Rows = {"row1", "row3"}
  Cols = {"col1"}
  ROW3 = "row3"
  Edge = {"p0"}
  Internal = {"accel", "mag"}
  Leds <- MCLeds
  Voltages <- MCVoltages
  Periods = {1000, 2000}
  MaxTicks = 3
  Addresses = {"a1", "a2"}
  Payloads = {"d1"}
  MaxFrames = 3
  INT32_MAX = 4
  Repeats <- MCRepeats
  Reporters = {"main"}
  Foci = {"pins", "leds", "random", "radio", "marker", "sensors"}
  Texts <- MCTexts
  Failures <- MCFailures
  Readings = {"shake", "up"}
  MaxCalls <- MCCalls
INVARIANTS BrightnessExact ReceivedMatches ReportedInOrder ExceededExact DataReadyLine
PROPERTIES ClientSees FramesReported FailureReported
