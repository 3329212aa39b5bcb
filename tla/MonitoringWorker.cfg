\* Safety: two endpoints, every interleaving of their checks.
SPECIFICATION Spec
CONSTANTS
  Endpoints = {e1, e2}
  Unserved = {}
  MaxInterval = 1
  MailCap = 2
INVARIANTS
  TypeOK
  UnflaggedFailureWasAcknowledged
  OneMailPerIncident
  ShutdownIsNoOutage
PROPERTIES
  NoMailWhileFlagged
  RoundsDoNotOverlap
  AlertLedgerSpec
