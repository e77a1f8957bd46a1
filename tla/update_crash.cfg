SPECIFICATION Spec
CONSTANTS
  people = people
  books = books
  f1 = f1
  f2 = f2
  created_at = created_at
  x1 = x1
  x2 = x2
  Tables = {people, books}
  Columns = {f1, f2}
  Stamps = {created_at}
  Rows = {x1, x2}
  Timed = {}
  Foreign = {}
  MaxSecond = 2
  MaxCrashes = 2
  MaxReleases = 2
  StepsFail = FALSE
  Pk = Pk
  NoOne = NoOne
SYMMETRY Symmetry
INVARIANTS
  TypeOK
  NothingLost
  RowsInPlace
  FollowsModel
PROPERTIES
  ImplementsMigration
