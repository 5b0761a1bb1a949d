\* Two accounts, two browsers, two sign-ins, two requests at a time.
SPECIFICATION Spec
CONSTANTS
  u1 = u1
  u2 = u2
  b1 = b1
  b2 = b2
  f1 = f1
  f2 = f2
  c1 = c1
  c2 = c2
  None = None
  Users = {u1, u2}
  Browsers = {b1, b2}
  Flows = {f1, f2}
  Calls = {c1, c2}
SYMMETRY Symmetry
INVARIANTS
  SessionOfOwnSignIn
  NextOfSameSignIn
  NothingForBanned
PROPERTIES
  BansKept
  MembersSpec
