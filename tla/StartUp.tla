------------------------------- MODULE StartUp -------------------------------
(***************************************************************************)
(* How the two programs start: each brings the schema of the database they *)
(* share up to date before it serves anything.  Web/Program.cs with        *)
(* AuthBootstrapper does it, and so does MonitoringService/Program.cs, in  *)
(* statements of their own transactions and with nothing between the two   *)
(* programs that would keep them apart.  The seeded administrator is       *)
(* UserAccounts' subject.                                                  *)
(***************************************************************************)

VARIABLES
  schema,  \* tables and added columns of the database
  boot     \* boot[p]: the statement program p has come to, "none" when not starting

bootVars == <<schema, boot>>

Programs == {"web", "service"}

FullSchema == {"Endpoints", "Users", "SendNotification", "AlertSentAt"}

BootTypeOK ==
  /\ schema \subseteq FullSchema
  /\ boot \in [Programs -> {"none", "ensureCreated", "createTables", "createUsers",
                            "userColumns", "addSendNotification",
                            "endpointColumns", "addAlertSentAt", "ready"}]

(* No database yet, or that of an earlier version: before there were users, and
   before there were notifications. *)
BootInit ==
  /\ schema \in {{}, {"Endpoints"}, {"Endpoints", "Users"}, FullSchema}
  /\ boot = [p \in Programs |-> "none"]

Goes(p, from, to) == boot[p] = from /\ boot' = [boot EXCEPT ![p] = to]

-----------------------------------------------------------------------------
(* EnsureCreated looks for tables, and creates those of the model in one transaction,
   never one that is missing from a database that has others. *)
AfterCreatedByEf(p) == "userColumns"
AfterCreated(p) == IF p = "web" THEN "createUsers" ELSE "userColumns"

EnsureCreated(p) ==
  /\ Goes(p, "ensureCreated", IF schema = {} THEN "createTables" ELSE AfterCreated(p))
  /\ UNCHANGED schema

CreateTables(p) ==
  /\ schema = {}
  /\ Goes(p, "createTables", AfterCreated(p))
  /\ schema' = FullSchema

(* CREATE TABLE IF NOT EXISTS, as it was before notifications. *)
CreateUsers ==
  /\ Goes("web", "createUsers", "userColumns")
  /\ schema' = schema \union {"Users"}

UserColumns(p) ==
  /\ Goes(p, "userColumns", IF "SendNotification" \in schema THEN "endpointColumns"
                            ELSE "addSendNotification")
  /\ UNCHANGED schema

AfterUserColumnsReady == "ready"
AfterUserColumns == "endpointColumns"

(* ALTER TABLE fails without the table, and where the column is already there. *)
AddSendNotification(p) ==
  /\ "Users" \in schema /\ "SendNotification" \notin schema
  /\ Goes(p, "addSendNotification", AfterUserColumns)
  /\ schema' = schema \union {"SendNotification"}

EndpointColumns(p) ==
  /\ Goes(p, "endpointColumns", IF "AlertSentAt" \in schema THEN "ready"
                                ELSE "addAlertSentAt")
  /\ UNCHANGED schema

AddAlertSentAt(p) ==
  /\ "Endpoints" \in schema /\ "AlertSentAt" \notin schema
  /\ Goes(p, "addAlertSentAt", "ready")
  /\ schema' = schema \union {"AlertSentAt"}

(* A statement that the database refuses ends the program. *)
Refused(p) ==
  \/ boot[p] = "createTables" /\ schema # {}
  \/ boot[p] = "addSendNotification" /\ ("Users" \notin schema \/ "SendNotification" \in schema)
  \/ boot[p] = "addAlertSentAt" /\ ("Endpoints" \notin schema \/ "AlertSentAt" \in schema)

StatementFails(p) ==
  /\ Refused(p)
  /\ boot' = [boot EXCEPT ![p] = "none"]
  /\ UNCHANGED schema

BootStep(p) ==
  \/ EnsureCreated(p) \/ CreateTables(p) \/ (p = "web" /\ CreateUsers)
  \/ UserColumns(p) \/ AddSendNotification(p)
  \/ EndpointColumns(p) \/ AddAlertSentAt(p)
  \/ StatementFails(p)

(* A locked database, a missing folder, or the end of the process at any moment. *)
BootFault(p) ==
  /\ boot[p] # "none" /\ ~Refused(p)
  /\ boot' = [boot EXCEPT ![p] = "none"]
  /\ UNCHANGED schema

=============================================================================
