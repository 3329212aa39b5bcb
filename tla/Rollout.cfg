\* Two connection ids: the current one and one the server has not dropped yet.  One
\* file to preserve, which the build has too.
SPECIFICATION RolloutSpec
CONSTANTS
  Connections = {c1, c2}
  NoConnection = NoConnection
  WebFiles = {settings}
  ServiceFiles = {}
  Shipped = {settings}
INVARIANTS
  WholeTypeOK
  CountIsOpenConnections
  SinceIffConnected
  FilesSurvive
  UpMeansReady
PROPERTIES
  RunsOnItsFiles
  LinkComesBack
  SystemComesBack
