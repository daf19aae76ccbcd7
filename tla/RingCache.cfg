SPECIFICATION FairSpec
CONSTANTS
  ann = ann
  bob = bob
  one = one
  two = two
  i1 = i1
  i2 = i2
  i3 = i3
  NULL = NULL
  Callers <- TwoCallers
  Keys <- TwoKeys
  Items <- ThreeItems
  Capacity = 1
INVARIANTS IndexMatchesRing FillsOnce ErrorsLeave
PROPERTIES ImplementsReadThrough GetsEnd
