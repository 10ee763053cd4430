SPECIFICATION IngestFairSpec
CONSTANTS
  MaxReplay = 1
  Labels = {x}
  MaxVersion = 2
  MaxFailures = 1
INVARIANTS DoneIsStored
PROPERTIES ClassifiedStays Settles DerivedConverges
