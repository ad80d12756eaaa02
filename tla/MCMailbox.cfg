SPECIFICATION Spec
CONSTANTS
  Capacity = 3
  Char = {w, a, x}
  Direction = {w, a}
  NoKey = NoKey
  parent = parent
  child = child
INVARIANT TestStaysGood
PROPERTIES KeyChannelSpec KeysGetThrough
CHECK_DEADLOCK FALSE
