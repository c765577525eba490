CONSTANTS
  Process = {p1, p2, p3}
  Nobody = Nobody
  Faults = {"open", "query", "network", "cut", "disk", "crash"}
SPECIFICATION FairSpec
INVARIANTS TypeOK OneAtATime TablesAreNew TablesExist CatalogIsWhole
PROPERTIES NobodyWaitsForEver
