SPECIFICATION Spec
CONSTANTS
  o1 = o1
  Objects = {o1}
  Classes = {"Library", "Book", "Scratch"}
  Nameless = {"Scratch"}
  MaxId = 2
  MaxBorn = 3
INVARIANT
  OwnerIsReferenced
