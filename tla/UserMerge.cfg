SPECIFICATION WorktreeSpec
CONSTANTS
  a1 = a1
  a2 = a2
  i1 = i1
  i2 = i2
  Agents = {a1}
  Items = {i1}
CHECK_DEADLOCK FALSE
PROPERTIES
  UserMergeStays
