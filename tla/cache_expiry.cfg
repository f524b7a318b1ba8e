SPECIFICATION FairSpec
CONSTANTS
  w1 = w1
  c = c
  p = p
  s1 = s1
  s2 = s2
  Workers = {w1}
  Clients = {c}
  Others = {p}
  Sessions = {s1, s2}
  TTL <- MCTTL
  MaxEntries = 1
  MaxRequest = 1
  MaxVersion = 2
  MaxOld = 4
INVARIANTS
  StaleForAtMost
  OwnChangesDropped
PROPERTIES
  GrowsWithLiveOnly
  Converges
