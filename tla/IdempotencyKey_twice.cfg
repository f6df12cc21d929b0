SPECIFICATION Spec
CONSTANTS
  r1 = r1
  r2 = r2
  r3 = r3
  r4 = r4
  k1 = k1
  k2 = k2
  NoRecord = NoRecord
  Requests <- MCRequests
  Keys <- MCKeys
  KeyOf <- MCKeyOf
SYMMETRY Symmetry
INVARIANT AtMostOnce
CHECK_DEADLOCK FALSE
