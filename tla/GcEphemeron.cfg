SPECIFICATION CycleSpec
CONSTANTS
  r = r  h = h  m = m  d1 = d1  d2 = d2  f1 = f1  th = th  u1 = u1
  Scalar = Scalar  Nil = Nil
  Tables = {r, h, m}
  Strings = {}
  Funcs = {}
  Userdata = {d1, d2}
  Threads = {}
  Upvals = {}
  Root = r
  Metatables = {m}
  Keys = {d1, d2}
  Held = {h, d1, d2}
  Modes = {{}, {"k"}}
  RetuneAllWeak = FALSE
  MaxSize <- EphemeronSizes
  MaxPins = 3
INVARIANT CycleFreesGarbage
