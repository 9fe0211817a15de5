SPECIFICATION Spec
CONSTANTS
  ann = ann
  bob = bob
  a1 = a1
  a2 = a2
  b1 = b1
  Users = {ann}
  Conns = {a1, a2}
  r1 = r1
  Owner <- TwoSessions
  Friends <- NoFriends
  Values = {"online", "ingame"}
  Sends <- AnnSendsAll
  CanRestart = TRUE
  Failing = {ann}
  Accepts = {}
  Accepter <- NoRequests
  Missing = {ann}
  Kickable = {ann}
INVARIANTS OnlineIsAttended
PROPERTIES AnnouncesEdges AwayBecomesOffline
