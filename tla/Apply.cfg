CONSTANTS
  MaxIterations = 3
  MaxWidth = 3
  MaxOther = 1
  Depth = 2
  ActiveCpus = 3
  DISPATCH_APPLY_MAX = 4
  Nestings = {0, 1, 2}
  NestedCpus = 12
  NestedMax = 20
  NestedIterations = 7
  MaxDepth = 3
SPECIFICATION ApplySpec
CHECK_DEADLOCK FALSE
INVARIANTS NoUseAfterFree WidthAccounting NeverOversubscribed
PROPERTIES AbsSpec CallerReturns
