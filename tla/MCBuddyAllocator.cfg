CONSTANTS
  MaxOrder = 2
  PageCount = 6
  TablePages = 1
  BlockPages <- MCBlockPages
  Requests <- MCRequests
SPECIFICATION Spec
INVARIANTS NoDuplicates NoSharing NoLostPage Coalesced
PROPERTIES Refinement CallsReturn
