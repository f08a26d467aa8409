SPECIFICATION Spec
CONSTANTS
  Harnesses = {"amp"}
  Targets = {"opencode"}
  Exports = {}
  MaxSteps = 2
  MaxHops = 1
  MaxTotal = 4
PROPERTY AnsweredStaysAnswered
CHECK_DEADLOCK FALSE
