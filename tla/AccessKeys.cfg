SPECIFICATION FairSpec
CONSTANTS
  Kids = {k1, k2}
  TTL = 3
  RETRY = 1
  GRACE = 2
  FETCH = 1
  Horizon = 8
  UpHorizon = 6
INVARIANTS TypeOK RetiredKeysRunOut GoodTokenIsNotTheCallersFault OutageIsNotOurs
  RotationIsPickedUp RecoversAtTheRetryRate
PROPERTY KeysStayFresh
