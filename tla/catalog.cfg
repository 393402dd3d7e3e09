SPECIFICATION FairCatalogSpec
CONSTANTS
  f1 = f1
  x1 = x1
  x2 = x2
  Film = {f1}
  Genre = {}
  Person = {x1, x2}
  Role = {"actor", "producer"}
  Early = {f1, x1, x2}
  EarlyLinks <- OneLinked
  BatchSize = 1
  MaxTime = 2
  MaxFaults = 1
  Fault = {"crash", "error", "refuse"}
  Doomed = {f1}
  Released = {"person"}
  NoDoc = NoDoc
  Request = {c1}
  Query <- Queries
  Miss = Miss
INVARIANTS
  MarkedRowsAreIndexed
  FilmsEmbedTheirRelated
PROPERTIES
  SavesReachIndex
  
