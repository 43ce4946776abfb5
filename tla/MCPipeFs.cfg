\* A ring of three bytes, so that copies are made in one and in two pieces, and
\* three handle addresses, so that a side can have two ends.
SPECIFICATION Spec
SYMMETRY AddressSymmetry
CONSTANTS
  Capacity = 3
  Bytes = {0, 1}
  Ids = {0}
  Addresses = {a1, a2, a3}
  OpenFlags <- AnyFlags
  Requests <- AnyRequest
  ReadSizes = {0, 1, 2, 4}
INVARIANT CountsExact
PROPERTY RefinesQueue
