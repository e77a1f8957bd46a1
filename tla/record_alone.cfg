SPECIFICATION Spec
CONSTANTS
  r1 = r1
  r2 = r2
  dob = dob
  age = age
  typo = typo
  w1 = w1
  Records = {r1, r2}
  Columns = {age, dob}
  Kind <- AgeAndDate
  Strays = {}
  Words = {w1}
  MaxId = 2
  StepsFail = FALSE
  RowsVanish = FALSE
  InitIdentified = FALSE
  Zero = Zero
  Unset = Unset
  Absent = Absent
  Null = Null
SYMMETRY Symmetry
INVARIANTS
  TypeOK
  AssignedKept
  IdIsOwnRow
  InsertsOnce
PROPERTIES
  AssignedStored
  ImplementsStore
