SPECIFICATION Spec
CONSTANTS
  r1 = r1
  r2 = r2
  dob = dob
  age = age
  typo = typo
  w1 = w1
  Records = {r1, r2}
  Columns = {dob}
  Kind <- DateOnly
  Strays = {typo}
  Words = {w1}
  MaxId = 2
  StepsFail = TRUE
  RowsVanish = TRUE
  InitIdentified = FALSE
  Zero = Zero
  Unset = Unset
  Absent = Absent
  Null = Null
SYMMETRY Symmetry
INVARIANTS
  AssignedKept
  InsertsOnce
