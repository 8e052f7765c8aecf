SPECIFICATION Spec
CONSTANTS
  Person = Person
  Address = Address
  id = id
  person_id = person_id
  ratio = ratio
  name = name
  homes = homes
  zip = zip
  town = town
  scores = scores
  serial = serial
  p = p
  q = q
  Descriptors = {Person, Address}
  NoDescriptor = NoDescriptor
  Names = {id, person_id, ratio, name, homes, zip, town, scores, serial, json_name, json_ignore, json_required}
  NoName = NoName
  SizeMax = 31
  table <- MCTable
  NaN = 1000
  FloatMax = 14
  Infinity = 512
  IntMax = 3
  Saturates = FALSE
  SizeOf <- MCSizeOf
  json_name = json_name
  json_ignore = json_ignore
  json_required = json_required
  Root = Person
  Paths = {p, q}
  Disks <- MCDisks
  Heaps <- MCHeaps
  PatchValues = {1, 2, 4, 512}
  Faults = {"write", "close", "read", "kill"}
  MaxCommands = 4
INVARIANTS
  LoadsLeafByLeaf
  SavedComesBack
  ShownIsStored
