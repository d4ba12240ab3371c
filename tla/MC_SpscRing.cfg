SPECIFICATION FairRing
CONSTANTS
  N = 4
  MaxBulk = 2
  Messages = {m1, m2}
  Unwritten = Unwritten
INVARIANT NoDataRace
PROPERTIES KeepsPromise EverythingArrives
