\* One attempt that times out ends the retry loop for good.
SPECIFICATION FairSpec
CONSTANTS
  Connections = {c1, c2}
  NoConnection = NoConnection
PROPERTIES
  RetriesUntilConnected
