SPECIFICATION Spec
CONSTANTS
  r = r  h = h  m = m  t1 = t1  s1 = s1  d1 = d1  f1 = f1
  Scalar = Scalar  Nil = Nil
  Tables = {r, h, m}
  Strings = {s1}
  Funcs = {}
  Userdata = {d1}
  Threads = {}
  Upvals = {}
  Root = r
  Metatables = {m}
  Keys = {Scalar, d1, s1}
  Held = {h, d1, s1}
  Modes = {{}, {"k"}, {"v"}, {"k", "v"}}
  RetuneAllWeak = FALSE
  MaxSize <- WeakSizes
  MaxPins = 3
INVARIANTS TypeOK GcInv
PROPERTY ClearsWeakOnly
