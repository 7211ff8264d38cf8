\* The connection is lost once, and the channel with it.
SPECIFICATION FairSpec
CONSTANTS
  x1 = x1
  x2 = x2
  DocIds <- OneDocId
  Refused = {}
  Garbage = Garbage
  MaxMsgs = 1
  MaxFaults = 0
  MaxConnLosses = 1
PROPERTIES
  ReconnectsAfterClose
