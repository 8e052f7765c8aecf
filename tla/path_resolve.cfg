SPECIFICATION Spec
CONSTANTS
  A = A
  B = B
  C = C
  k = k
  t = t
  a = a
  p = p
  q = q
  missing = missing
  Descriptors = {A, B, C}
  NoDescriptor = NoDescriptor
  Names = {k, t, a, p, q, missing}
  NoName = NoName
  SizeMax = 31
  Tables <- MCTables
  Paths <- MCPaths
  Instances = {9}
INVARIANTS
  InBounds
  ResolvesAsDenoted
