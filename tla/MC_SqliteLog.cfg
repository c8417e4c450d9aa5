SPECIFICATION FairSpec
CONSTANTS
  MaxRows = 4
  MaxItems = 2
  RemoveItems = 1
  MaxReplic = 3
  MaxFaults = 2
INVARIANTS TypeOK FaultTolerant
PROPERTIES Recovers Syncs
