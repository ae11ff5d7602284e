SPECIFICATION Spec
CONSTANTS
  Pages = {p1, p2}
  Commands = {c1, c2}
  Nobody = Nobody
  NoToken = NoToken
  NoGrant = NoGrant
  NoFile = NoFile
  EmptyFile = EmptyFile
  TTL = 1
  MaxTokens = 3
  MaxTime = 2
  MaxRestarts = 1
SYMMETRY ClientSymmetry
INVARIANTS InitAuthTypeOK OneAuthorization OneGrantPerToken
PROPERTIES OnlyLatestAuthorizes
CHECK_DEADLOCK FALSE
