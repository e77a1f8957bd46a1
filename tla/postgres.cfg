SPECIFICATION Spec
CONSTANTS
  t1 = t1
  a = a
  b = b
  r1 = r1
  pk = pk
  created_at = created_at
  Tables = {t1}
  Columns = {a, b}
  Stamps = {created_at}
  Pk = pk
  Rows = {r1}
  Timed = {t1}
  NoOne = NoOne
  MaxIndexes = 2
  MaxReleases = 1
  StepsFail = TRUE
SYMMETRY Symmetry
INVARIANTS
  TypeOK
  KeptCommitted
  UnitWhole
PROPERTIES
  FollowsModel
  CommitMeansStored
  ImplementsMigration
