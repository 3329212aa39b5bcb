\* One endpoint, two results: a save between any two queries, and one more after it.
SPECIFICATION FairSpec
CONSTANTS
  Endpoints = {e1}
  MaxResults = 2
  NoEndpoint = none
INVARIANTS
  TypeOK
  ShownRowsAreCurrent
  ShownLinkIsCurrent
  LightsGoOut
PROPERTIES
  TimerKeepsRefreshing
