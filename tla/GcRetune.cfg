SPECIFICATION Spec
CONSTANTS
  r = r  h = h  m = m  t1 = t1  s1 = s1  d1 = d1  f1 = f1
  Scalar = Scalar  Nil = Nil
  Tables = {r, h, m}
  Strings = {}
  Funcs = {}
  Userdata = {}
  Threads = {}
  Upvals = {}
  Root = r
  Metatables = {h, m}
  Keys = {Scalar}
  Held = {h, m}
  Modes = {{}, {"k", "v"}}
  RetuneAllWeak = TRUE
  MaxSize <- RetuneSizes
  MaxPins = 1
INVARIANT NoDangling
