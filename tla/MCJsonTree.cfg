\* Trees of up to four nodes, two keys.
SPECIFICATION ValueSpec
CONSTANTS
  n1 = n1
  n2 = n2
  n3 = n3
  n4 = n4
  k1 = k1
  k2 = k2
  Null = Null
  Nodes = {n1, n2, n3, n4}
  Keys = {k1, k2}
  MaxText = 6
SYMMETRY Symmetry
INVARIANTS
  TypeOK
  TreeChecks
  NoDanglingPointer
  NoLeak
  FindAgrees
  DecodeExact
  DecodeEncode
  FailureFreesAll
  StringsOwned
  EncodeExact
PROPERTIES
  ImplementsOrderedTree
