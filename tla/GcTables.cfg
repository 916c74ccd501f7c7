SPECIFICATION Spec
CONSTANTS
  r = r  h = h  m = m  t1 = t1  s1 = s1  d1 = d1  f1 = f1
  Scalar = Scalar  Nil = Nil
  Tables = {r, t1}
  Strings = {}
  Funcs = {f1}
  Userdata = {d1}
  Threads = {}
  Upvals = {}
  Root = r
  Metatables = {}
  Keys = {Scalar, d1}
  Held = {t1, d1, f1}
  Modes = {{}}
  RetuneAllWeak = FALSE
  MaxSize <- TableSizes
  MaxPins = 1
INVARIANTS NoDangling EmptiedKeysLive TriColour GrayListed
PROPERTY FreesGarbageOnly
