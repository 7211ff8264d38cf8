\* Two pages on one document.
SPECIFICATION Spec
CONSTANTS
  p1 = p1
  p2 = p2
  Pages <- MCPages
  MaxEdits = 2
  SendCap = 1
  MaxFaults = 1
INVARIANTS
  TypeOK
  ConvergedUnlessMissed
  StoredUnlessLost
SYMMETRY Symmetry
