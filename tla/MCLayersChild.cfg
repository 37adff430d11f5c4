CONSTANTS
  MODELS = {m1}
  READERS <- MCReadersChild
  OFFSETS <- MCOffsets
  EXTENT = 4
  CONTENT = 16
  MAX_EVENTS = 2
  MAX_COUNT = 2
SPECIFICATION Spec
PROPERTY NothingReadChanged
