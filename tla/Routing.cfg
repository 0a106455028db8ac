CONSTANTS
  h1 = h1
  h2 = h2
  Chars <- MCChars
  Paths <- MCPaths
  Handlers = {h1, h2}
  ResponseOf <- MCResponseOf
  Targets <- MCTargets
  MaxRoutes = 2
SPECIFICATION Spec
INVARIANTS
  TypeOK
  ParamsAsAsked
  RoutedAsPromised
PROPERTIES
  RoutesStay
