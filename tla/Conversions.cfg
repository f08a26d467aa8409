SPECIFICATION Spec
CONSTANTS
  Harnesses <- AllHarnesses
  Targets <- LiveHarnesses
  Exports <- Exported
  MaxSteps = 3
  MaxHops = 2
  MaxTotal = 4
INVARIANTS
  TypeOK
  SearchesFindTheirEnds
PROPERTIES
  RoundTripKeepsConversation
  OwnFormatKeepsAll
  AnswersKeepTheirCalls
  NothingIsLost
  SpansStayValid
  ConvertedIsFound
CHECK_DEADLOCK FALSE
