\* Two pipes, three handles and a table that gets full.
SPECIFICATION TableSpec
SYMMETRY AddressSymmetry
CONSTANTS
  Capacity = 1
  Bytes = {0}
  Ids = {0, 1}
  Addresses = {a1, a2, a3}
  OpenFlags <- Matching
  Requests <- OneByte
  ReadSizes = {1}
  MAX_FILES = 5
INVARIANT FdsConserved
PROPERTY NotTakenOver
