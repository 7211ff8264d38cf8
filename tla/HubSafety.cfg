\* Two connections, each to either of two documents; every queue of capacity
\* one, so that each of them fills; two stream writers, errors of both stores,
\* and XADDs that are sent again.
SPECIFICATION Spec
CONSTANTS
  d1 = d1
  d2 = d2
  u1 = u1
  blank = blank
  c1 = c1
  c2 = c2
  w1 = w1
  w2 = w2
  NoDoc = NoDoc
  Docs <- TwoDocs
  HexDocs <- NoDocs
  Updates <- MCUpdates
  Blank = blank
  Clients <- TwoClients
  Frames <- RoomFrames
  SendCap = 1
  BroadcastCap = 1
  StreamCap = 1
  Workers <- TwoWorkers
  Faults = TRUE
  MaxRetries = 1
  MaxMsgs = 2
INVARIANTS
  TypeOK
  NoSilentLoss
  DoneIffLeft
  GaugesExact
  RoomIsolation
  StreamedUnlessMissed
SYMMETRY RoomSymmetry
CONSTRAINT OneOrHealthy
