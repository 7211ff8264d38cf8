\* Two calls of any kind and one that reads, on one document, processes with and
\* without the cache; then the messages of the two, with one error, crash, closed
\* channel, lost connection or restart.
SPECIFICATION SearchSpec
CONSTANTS
  c1 = c1
  c2 = c2
  c3 = c3
  x1 = x1
  u1 = u1
  u2 = u2
  t1 = t1
  t2 = t2
  v1 = v1
  empty = empty
  s1 = s1
  s2 = s2
  Calls <- MCCalls
  DocIds <- MCDocIds
  Users <- MCUsers
  Titles <- MCTitles
  Contents <- MCContents
  Times <- MCTimes
  Keep = Keep
  Empty = empty
  Absent = Absent
  NoRequest = NoRequest
  Readers <- MCReaders
  MaxTroubles = 1
  MaxErrors = 1
  Garbage = Garbage
  MaxMsgs = 2
  MaxFaults = 1
  MaxConnLosses = 1
INVARIANTS
  TypeOK
  SearchFindsSaved
  StaleOnlyByRace
  SerialCallsAgree
SYMMETRY Symmetry
CONSTRAINT StillOrPlain
