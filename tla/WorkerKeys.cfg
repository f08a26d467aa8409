SPECIFICATION Spec
CONSTANTS
  Kids = {k1, k2}
  Forged = {forged}
  Requests = {r1, r2}
  TTL = 4
  FLOOR = 2
  FETCH = 1
  Horizon = 6
  UpHorizon = 0
INVARIANTS TypeOK RetiredKeysRunOut
PROPERTIES ForcedFetchesKeepTheFloor RotationRecovers
