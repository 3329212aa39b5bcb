\* A failure, a recovery, and the alert is still there.
SPECIFICATION Spec
CONSTANTS
  Endpoints = {e1}
  Unserved = {}
  MaxInterval = 1
  MailCap = 2
INVARIANTS
  RecoveryClearsAlert
