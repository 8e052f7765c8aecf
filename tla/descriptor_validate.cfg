SPECIFICATION Spec
CONSTANTS
  A = A
  B = B
  C = C
  x = x
  y = y
  Descriptors = {A, B, C}
  NoDescriptor = NoDescriptor
  Names = {x, y}
  NoName = NoName
  SizeMax = 15
  FirstCapacity = 1
  Tables <- MCTables
INVARIANTS
  StackDistinct
  GoodIsWellFounded
  VerdictExact
PROPERTY
  Returns
