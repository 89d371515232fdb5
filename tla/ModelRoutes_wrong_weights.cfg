CONSTANTS
  Routes = {p}
  Descriptions = {lax, strict}
  Strict = {strict}
  NoSpec = NoSpec
  MaxLoads = 2
SPECIFICATION RoutesSpec
INVARIANTS
  OwnWeights
