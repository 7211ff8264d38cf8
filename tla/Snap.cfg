\* Errors, restarts and deletions between any two commands.  A unit of the
\* clock lies between two ticks, so that entries come at a tick and between
\* ticks; until a command fails a check takes no time or half an interval.
SPECIFICATION FairSpec
CONSTANTS
  d1 = d1
  d2 = d2
  u1 = u1
  blank = blank
  Docs <- AllDocs
  HexDocs <- OneHex
  Updates <- MCUpdates
  Blank = blank
  IdleTimeout = 1
  FallbackTimeout = 2
  CheckInterval = 2
  CheckTime = 1
  MaxTime = 6
  MaxAdds = 3
  MaxFaults = 2
INVARIANTS
  TypeOK
  NoLostUpdate
  ReplayInOrder
  DuplicatesBoundedByFaults
  BoundedStaleness
PROPERTIES
  ImplementsUpdateLog
  EventuallyPersisted
CONSTRAINT Few
