\* Liveness: two served endpoints, due in the next round or not, whose checks hold up
\* each other's rounds.  Mails are not counted: neither property is about them.
SPECIFICATION FairSpec
CONSTANTS
  Endpoints = {e1, e2}
  Unserved = {}
  MaxInterval = 2
  MailCap = 0
PROPERTIES
  EnabledEndpointsKeepBeingChecked
  LastingFailureIsFlagged
