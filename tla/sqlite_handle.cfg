SPECIFICATION Spec
CONSTANTS
  c1 = c1
  c2 = c2
  h1 = h1
  h2 = h2
  h3 = h3
  k1 = k1
  Conns = {c1, c2}
  Handles = {h1, h2, h3}
  Keys = {k1}
  nullptr = nullptr
  MaxLeaks = 1
  OpensFail = TRUE
SYMMETRY Symmetry
INVARIANTS
  TypeOK
  Durable
  LockHasReason
  NoOrphans
  OwnHandle
