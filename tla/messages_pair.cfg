SPECIFICATION Spec
CONSTANTS
  ann = ann
  bob = bob
  r1 = r1
  r2 = r2
  Users = {ann, bob}
  Requests = {r1, r2}
  MaxId = 3
SYMMETRY Symmetry
INVARIANTS Authorship SentAmongFriends ReadWasOpened
