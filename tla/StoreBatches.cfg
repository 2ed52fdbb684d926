CONSTANTS
  Keys = {k1, k2}
  Values = {v1, v2}
  Buffers = {b1, b2}
  Absent = Absent
  MaxOps = 2
SPECIFICATION Spec
INVARIANTS
  TypeOK
  FlushedAsGiven
PROPERTIES
  StoredByCallsOnly
