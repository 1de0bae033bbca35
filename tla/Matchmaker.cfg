SPECIFICATION FairSpec
CONSTANTS
  t1 = t1  t2 = t2  t3 = t3  p1 = p1  p2 = p2  party = party
  Tickets = {t1, t2, t3}
  Servers = {s1}
  MembersOf <- MCMembersOf
  PartyOf <- MCPartyOf
  RevOf <- MCRevOf
  NoParty = NoParty
  NoServer = NoServer
  MatchSize = 3
  MaxFaults = 1
INVARIANTS SeatsAccounted OneQueuedPerPlayer NewestRevisionQueued
PROPERTIES FrameNeverShrinks RosterReachesGame
CHECK_DEADLOCK FALSE
