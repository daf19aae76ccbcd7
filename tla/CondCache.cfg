SPECIFICATION Spec
CONSTANTS
  ann = ann
  bob = bob
  cid = cid
  one = one
  two = two
  three = three
  i1 = i1
  i2 = i2
  i3 = i3
  i4 = i4
  i5 = i5
  NULL = NULL
  Callers <- ThreeCallers
  Keys <- ThreeKeys
  Items <- FiveItems
  Limit = 2
SYMMETRY Alike
INVARIANTS CacheMatchesOrder NobodyForgotten
PROPERTIES ImplementsReadThrough
