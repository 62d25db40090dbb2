SPECIFICATION FairSpec
CONSTANTS
  i1 = i1
  i2 = i2
  iBad = iBad
  o1 = o1
  o2 = o2
  h1 = h1
  h2 = h2
  p1 = p1
  p2 = p2
  NoOrder = NoOrder
  NoIntent = NoIntent
  Intents <- TwoAndRefused
  Orders <- MCOrders
  Handlers <- MCHandlers
  Pods <- MCPods
  Amount <- MCAmount
  MaxFaults = 1
CHECK_DEADLOCK FALSE
INVARIANTS
  TypeOK
  CompletedIsCredited
  PayoutsCovered
PROPERTY SettledUnlessFault
