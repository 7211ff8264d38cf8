\* A client joins while an update is on its way to the stream; nothing fails.
SPECIFICATION Spec
CONSTANTS
  d1 = d1
  d2 = d2
  u1 = u1
  blank = blank
  c1 = c1
  c2 = c2
  w1 = w1
  w2 = w2
  NoDoc = NoDoc
  Docs <- OneDoc
  HexDocs <- NoDocs
  Updates <- MCUpdates
  Blank = blank
  Clients <- TwoClients
  Frames <- UpdateFrames
  SendCap = 4
  BroadcastCap = 4
  StreamCap = 4
  Workers <- OneWorker
  Faults = FALSE
  MaxRetries = 1
  MaxMsgs = 1
INVARIANTS
  JoinersConverge
