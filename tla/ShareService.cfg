SPECIFICATION Spec
CONSTANTS
  alice = alice
  bob = bob
  d1 = d1
  d2 = d2
  Principals = {alice, bob}
  Sessions = {s1, bad}
  PlainSessions = {s1}
  Docs = {d1, d2}
  NoDoc = NoDoc
  Teams <- MCTeams
  NoTeam <- MCNoTeam
  AttrRoom <- MCRoomAmpleOrNone
  Handlers = {h1, h2}
  Configured <- MCConfigured
SYMMETRY MCSymmetry
INVARIANTS TypeOK ReadStaysInTeam OutsiderLearnsNothing
PROPERTIES OnlyOwnerWrites ConditionalPublishIsCompareAndSwap CreateReplacesNothing
