SPECIFICATION FairSpec
CONSTANTS
  people = people
  books = books
  f1 = f1
  f2 = f2
  created_at = created_at
  x1 = x1
  x2 = x2
  Tables = {people}
  Columns = {f1, f2}
  Stamps = {created_at}
  Rows = {x1}
  Timed = {}
  Foreign = {people}
  MaxSecond = 1
  MaxCrashes = 1
  MaxReleases = 1
  StepsFail = TRUE
  Pk = Pk
  NoOne = NoOne
INVARIANTS
  NothingLost
PROPERTIES
  Converges
