SPECIFICATION Spec
CONSTANTS
  Rows = {r1, r2}
  IntHalf = 4
  Integers64 <- SomeIntegers
  Words = {w1}
  Reals <- SomeReals
  Days <- SomeDays
  Moments = {1}
INVARIANTS
  TypeOK
  RoundTrip
  StoredIsReadable
  GettersThrowOnNull
PROPERTIES
  Settles
