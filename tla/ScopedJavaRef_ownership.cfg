SPECIFICATION Spec
CONSTANTS
  LocalScopes = {l1, l2}
  GlobalScopes = {g1, g2}
  LocalRefs = {a, b, c}
  GlobalRefs = {x, y, z}
  Null = Null
INVARIANTS
  TypeOK
  HeldIsLive
  OneOwner
  NothingLeaks
