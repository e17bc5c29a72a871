SPECIFICATION Spec
CONSTANTS
  Event = {identify, reroll, select}
  Identify = identify
  Expensive = {reroll}
  Full <- MCFull
  Cost <- MCCost
  MaxWindow = 4
INVARIANTS
  TypeOK
  PacedInEveryWindow
PROPERTY LazyIsEager
