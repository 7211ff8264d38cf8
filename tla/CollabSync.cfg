\* Two connections to one document while the snapshotter merges; nothing fails,
\* and the channels never fill.
SPECIFICATION CollabSpec
CONSTANTS
  d1 = d1
  u1 = u1
  blank = blank
  c1 = c1
  c2 = c2
  w1 = w1
  NoDoc = NoDoc
  Docs <- MCDocs
  HexDocs <- MCDocs
  Updates <- MCUpdates
  Blank = blank
  Clients <- MCClients
  Frames <- MCFrames
  SendCap = 3
  BroadcastCap = 2
  StreamCap = 2
  Workers <- MCWorkers
  Faults = FALSE
  MaxRetries = 1
  MaxMsgs = 2
  MaxFaults = 0
INVARIANTS
  RecoveredUnlessTorn
PROPERTIES
  ImplementsSnapshotter
SYMMETRY Symmetry
CONSTRAINT Connected
