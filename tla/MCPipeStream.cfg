\* A message of five bytes through a pipe of two.
SPECIFICATION StreamSpec
CONSTANTS
  Capacity = 2
  Bytes = {0, 1}
  Ids = {0}
  a1 = a1
  a2 = a2
  Addresses = {a1, a2}
  R = a1
  W = a2
  OpenFlags = {}
  Requests = {}
  ReadSizes = {1, 2}
  Message <- MCMessage
PROPERTIES Delivered ProducerEnds
