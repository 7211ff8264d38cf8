\* One room: what a connection starts comes to an end, slow or gone.
SPECIFICATION FairSpec
CONSTANTS
  d1 = d1
  d2 = d2
  u1 = u1
  blank = blank
  c1 = c1
  c2 = c2
  w1 = w1
  w2 = w2
  NoDoc = NoDoc
  Docs <- OneDoc
  HexDocs <- NoDocs
  Updates <- MCUpdates
  Blank = blank
  Clients <- TwoClients
  Frames <- AwarenessFrames
  SendCap = 1
  BroadcastCap = 1
  StreamCap = 1
  Workers <- OneWorker
  Faults = FALSE
  MaxRetries = 1
  MaxMsgs = 2
PROPERTIES
  Teardown
  DeliveriesEnd
