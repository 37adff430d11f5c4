CONSTANTS
  MODELS = {m1}
  READERS <- MCReaders
  OFFSETS <- MCOffsets
  EXTENT = 4
  CONTENT = 16
  MAX_EVENTS = 2
  MAX_COUNT = 2
SPECIFICATION Spec
INVARIANT ScrollsAreComposited
PROPERTIES CompositedIsCurrent InputSeesShown
