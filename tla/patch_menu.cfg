SPECIFICATION Spec
CONSTANTS
  Sample = Sample
  Address = Address
  id = id
  ratio = ratio
  city = city
  zip = zip
  scores = scores
  home = home
  addresses = addresses
  share = share
  initial = initial
  missing = missing
  Descriptors = {Sample, Address}
  NoDescriptor = NoDescriptor
  Names = {id, ratio, city, zip, scores, home, addresses, share, initial, missing}
  NoName = NoName
  SizeMax = 31
  table <- MCTable
  Root = Sample
  StartPaths <- MCStartPaths
  NoIndex <- MCNoIndex
  Inputs <- MCInputs
  IntMax = 7
  ULongMax = 31
  SizeOf <- MCSizeOf
  NaN = 40
  FloatMax = 6
  Infinity = 35
  MaxEdits = 2
INVARIANTS
  ShownPathsResolve
  TypedIsStored
PROPERTIES
  EditsWhatItShows
  InputEndEnds
