SPECIFICATION Spec
CONSTANTS
  q1 = q1
  q2 = q2
  Queries = {q1, q2}
  Tables <- SmallTables
  Conditions <- SmallConditions
  Orderings <- SmallOrderings
  Limits <- SmallLimits
  Offsets <- SmallOffsets
  MaxTerms = 4
SYMMETRY Symmetry
INVARIANTS
  TypeOK
  AllAnswers
  FirstIsAtOffset
  BuiltOnNarrows
