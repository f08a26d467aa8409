SPECIFICATION Spec
CONSTANTS
  alice = alice
  bob = bob
  early = early
  late = late
  avatar = avatar
  Docs = {doc}
  NoDoc = NoDoc
  Principals = {alice, bob}
  Sessions = {early, late}
  PlainSessions = {early, late}
  NoTeam = NoTeam
  Teams <- MCTeams
  AttrRoom <- MCAttrRoom
  Caller = alice
  Order <- MCOrder
  Strays = {avatar}
  PageSize = 2
  Configured <- MCConfigured
  Republished = {alice, bob}
INVARIANTS TypeOK NothingStableIsLost ListedOnceInOrder ListingShowsWhatReadAllows
PROPERTY ListingEnds
CHECK_DEADLOCK FALSE
