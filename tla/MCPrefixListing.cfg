SPECIFICATION FairSpec
CONSTANTS
  Last = 4
  MaxRetries = 5
  Ssl = TRUE
  Faults = {"network", "xml", "token", "value", "repeat"}
INVARIANTS PagesInOrder FullPersistence
PROPERTIES AlwaysNearer ImplementsOutcomes Returns
