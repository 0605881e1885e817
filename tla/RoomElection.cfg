CONSTANTS
  Peers = {p1, p2, p3}
  Sids = {s1, s2}
  NoSid = NoSid
  NoPeer = NoPeer
  Window = 1
  Slack = 1
  MaxLate = 3
  MaxJoins = 4
SPECIFICATION FairElectionSpec
INVARIANTS
  ElectionTypeOK
  RoleSound
  MembersKnowHost
  ReservationIsTimed
PROPERTIES
  HostlessEnds
  ImplementsHostRole
CHECK_DEADLOCK FALSE
