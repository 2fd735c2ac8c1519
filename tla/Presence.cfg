SPECIFICATION Spec
CONSTANTS
  Keys = {k1, k2}
  Refs = {r1, r2, r3}
  MaxQueue = 3
SYMMETRY Symmetry
INVARIANTS TypeOK NoneIsMissing InSync NewsOnly
PROPERTY SnapshotIsTaken
