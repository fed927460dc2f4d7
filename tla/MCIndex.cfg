SPECIFICATION IndexSpec
CONSTANTS
  Collections = {A, B, C}
  First = A
  NoCollection = NoCollection
  Lateness = {TRUE, FALSE}
  MaxStagings = 5
  MaxFaults = 2
  Docs = {d1, d2}
  Workers = {w1, w2}
  MaxWrites = 2
  MaxRemovals = 1
  MaxReads = 1
  MaxTroubles = 2
INVARIANTS ServedExists ProvenanceIsServed ReadsWhole
PROPERTIES PendingSettles ReplacesAtOnce JournalSettles
CHECK_DEADLOCK FALSE
