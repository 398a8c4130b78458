SPECIFICATION FairSpec
CONSTANTS
  Gateways = {1, 2, 3}
  NoGateway = 0
  Advertisers = {1, 2}
  MaxGateways = 2
  MaxAir = 1
  Programs = {"autoclient", "mqttclientapp"}
INVARIANTS TypeOK HeardOnce ConnectedKnown
PROPERTIES PermanentKept Reached
CHECK_DEADLOCK FALSE
