\* Three messages about two documents; errors, closed channels, a lost
\* connection and restarts.
SPECIFICATION FairSpec
CONSTANTS
  x1 = x1
  x2 = x2
  DocIds <- MCDocIds
  Refused = {x2}
  Garbage = Garbage
  MaxMsgs = 3
  MaxFaults = 2
  MaxConnLosses = 1
INVARIANTS
  TypeOK
  NoMessageLost
PROPERTIES
  OlderOnlyByRequeue
  EventuallyIndexed
