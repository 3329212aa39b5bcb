\* Three circuits: a page's, one that took its place, and a later one.
SPECIFICATION Spec
CONSTANTS
  MaxCircuits = 3
  MaxFaults = 2
  MaxRetries = 2
  OwnIps = {"unknown"}
INVARIANTS
  TypeOK
  NoDeadEnd
  ListedAsItIs
  AddressIsKept
PROPERTIES
  SessionSpec
  PageComesBack
