\* Nothing fails and the document stays; the snapshotter may merge at any time.
SPECIFICATION CollabSpec
CONSTANTS
  d1 = d1
  u1 = u1
  blank = blank
  c1 = c1
  c2 = c2
  w1 = w1
  NoDoc = NoDoc
  Docs <- MCDocs
  HexDocs <- MCDocs
  Updates <- MCUpdates
  Blank = blank
  Clients <- MCClients
  Frames <- MCFrames
  SendCap = 3
  BroadcastCap = 2
  StreamCap = 2
  Workers <- MCWorkers
  Faults = FALSE
  MaxRetries = 1
  MaxMsgs = 1
  MaxFaults = 0
INVARIANTS
  StateRecovered
SYMMETRY Symmetry
