\* One entry more than the channel, the buffer and the page hold; a batch takes what
\* came while it was being filled.
SPECIFICATION Spec
CONSTANTS
  ServiceEntries = 2
  WebEntries = 2
  ChannelCapacity = 1
  BatchSize = 2
  Capacity = 3
  HubThreads = {h1, h2}
  NoThread = none
  WebThread = w
INVARIANTS
  TypeOK
  PublishedOnce
  NothingIsMissed
  ShownAtMostTwice
  OrderIsKept
PROPERTIES
  ForwardingContinues
