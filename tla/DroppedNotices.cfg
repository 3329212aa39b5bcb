\* One hub thread and no failing reads: a notice between the read and the finally.
SPECIFICATION FairSpec
CONSTANTS
  Threads = {t1}
  Refreshes = {k1}
  MaxResults = 2
  ReadsFail = FALSE
PROPERTIES
  DroppedNoticesAreShown
