SPECIFICATION GatewaySpec
CONSTANTS
  Clients = {"ann", "bob"}
  sendBuffer = 1
  MaxBusy = 2
INVARIANTS QuietMeansCurrent
PROPERTIES HubNeverBlocks
CHECK_DEADLOCK FALSE
