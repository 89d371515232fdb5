CONSTANTS
  plain = plain  qualified = qualified
  j1 = j1  j2 = j2  j3 = j3
  c1 = c1  c2 = c2  d1 = d1  d2 = d2
  Spellings = {plain}
  FileCount = 1
  Jobs = {j1, j2}
  Clients = {c1, c2}
  Roots = {d1}
  DefaultRoot = d1
  InstallCalls = {"start", "stop"}
  Crashes = FALSE
  Nothing = Nothing
SPECIFICATION InstallSpec
INVARIANTS
  BothStartsAreListed
