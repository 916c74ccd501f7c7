SPECIFICATION CycleSpec
CONSTANTS
  r = r  h = h  m = m  d1 = d1  d2 = d2  f1 = f1  th = th  u1 = u1
  Scalar = Scalar  Nil = Nil
  Tables = {r}
  Strings = {}
  Funcs = {f1}
  Userdata = {d1}
  Threads = {th}
  Upvals = {u1}
  Root = r
  Metatables = {}
  Keys = {Scalar}
  Held = {th, f1, d1}
  Modes = {{}}
  RetuneAllWeak = FALSE
  MaxSize <- UpvalSizes
  MaxPins = 2
INVARIANTS TwupsExact GcInv GarbageStaysWhite
