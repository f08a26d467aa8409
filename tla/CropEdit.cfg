SPECIFICATION Spec
CONSTANTS
  Opened <- Conversations
  Depth = 2
  MaxChanges = 3
INVARIANTS
  WhatIsKeptMayBeKept
  ChangesAreTold
PROPERTY HistoryIsLinear
CHECK_DEADLOCK FALSE
