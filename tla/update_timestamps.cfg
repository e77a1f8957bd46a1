SPECIFICATION Spec
CONSTANTS
  people = people
  books = books
  f1 = f1
  f2 = f2
  created_at = created_at
  x1 = x1
  x2 = x2
  Tables = {people}
  Columns = {f1, f2}
  Stamps = {created_at}
  Rows = {x1, x2}
  Timed = {people}
  Foreign = {}
  MaxSecond = 2
  MaxCrashes = 0
  MaxReleases = 2
  StepsFail = FALSE
  Pk = Pk
  NoOne = NoOne
SYMMETRY Symmetry
INVARIANTS
  TimestampsKept
