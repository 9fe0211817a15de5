SPECIFICATION SafeSpec
CONSTANTS
  ann = ann
  bob = bob
  a1 = a1
  a2 = a2
  b1 = b1
  Users = {ann, bob}
  Conns = {a1, b1}
  Owner <- OneEach
  Friends <- Pair
  Values = {"online", "ingame"}
  Sends <- AnnSends
  CanRestart = FALSE
  Failing = {ann}
  Accepts = {r1}
  Accepter <- OneRequest
  r1 = r1
  Missing = {ann}
  Kickable = {}
INVARIANTS RecordedIsOnline 
