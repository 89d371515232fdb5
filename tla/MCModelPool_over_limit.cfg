CONSTANTS
  r1 = r1  r2 = r2  r3 = r3  m1 = m1  m2 = m2
  a = a  b = b  c = c  s1 = s1  s2 = s2
  e1 = e1  e2 = e2  e3 = e3  e4 = e4
  Requests = {r1, r2}
  Managers = {m1}
  Ids = {a, b}
  Specs = {s1}
  Entries = {e1, e2}
  Configured <- AllConfigured
  MaxLoaded = 1
  BusyTimeout = FALSE
  Calls = {}
  Faults = {}
  None = None
SPECIFICATION Spec
SYMMETRY EntrySymmetry
PROPERTIES
  OverLimitOnlyWhenBusy
