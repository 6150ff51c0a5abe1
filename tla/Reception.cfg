SPECIFICATION FairSpec
CONSTANTS
  lua1 = lua1
  lua2 = lua2
  plain = plain
  v = v
  ts = ts
  id = id
  Signal = {lua1, lua2, plain}
  Lua = {lua1, lua2}
  WithEvent = {lua1, plain}
  Key = {v, ts, id}
  Number = {1, 15}
  Answer = {{}, {lua1}, {lua1, plain}}
  Flag = 5
  Nano = 3
  None = None
INVARIANTS TypeOK Reached ConvertedOnce Inv
PROPERTIES Returns
CHECK_DEADLOCK FALSE
