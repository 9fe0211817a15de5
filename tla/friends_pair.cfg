SPECIFICATION Spec
CONSTANTS
  ann = ann
  bob = bob
  cat = cat
  r1 = r1
  r2 = r2
  r3 = r3
  Users = {ann, bob}
  Requests = {r1, r2, r3}
  MaxId = 3
SYMMETRY RequestSymmetry
INVARIANTS Consent
PROPERTY StandingKept
