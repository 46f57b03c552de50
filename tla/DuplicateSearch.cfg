SPECIFICATION Spec
CONSTANTS
  h1 = h1
  h2 = h2
  h3 = h3
  h4 = h4
  Hashes = {h1, h2, h3, h4}
  NoCluster = NoCluster
  MaxImages = 5
SYMMETRY Symmetry
INVARIANTS
  TypeOK
  ClustersAreComponents
  ListsDuplicates
CHECK_DEADLOCK FALSE
