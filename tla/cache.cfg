SPECIFICATION HSpec
CONSTANTS
  None = None
  Threads = {t1, t2}
  Keys = {k1, k2, k3}
  Values = {v1, v2}
  Nodes = {n1, n2, n3}
  MaxSize = 2
SYMMETRY Symmetry
INVARIANTS
  TypeOK
  NoDanglingIterator
  Coherent
PROPERTIES
  ImplementsLru
