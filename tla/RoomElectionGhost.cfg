CONSTANTS
  Peers = {p1, p2, p3}
  Sids = {s1, s2}
  NoSid = NoSid
  NoPeer = NoPeer
  Window = 1
  Slack = 1
  MaxLate = 0
  MaxJoins = 4
SPECIFICATION ElectionSpec
PROPERTY ReturnedHostReclaims
CHECK_DEADLOCK FALSE
