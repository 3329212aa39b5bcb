---------------------------- MODULE RolloutProofs ----------------------------
(***************************************************************************)
(* What holds of the installed system for any files, any of them shipped   *)
(* with a build, and any connection ids: it is HubLink as far as the link  *)
(* is concerned, no file of the administrator is lost, the script starts   *)
(* no program on half an update, none serves before the schema is          *)
(* complete; and after any failed updates and starts it comes back.        *)
(***************************************************************************)
EXTENDS Rollout, HubLinkProofs

-----------------------------------------------------------------------------
(* The link's steps neither start nor end a program. *)
LEMMA LinkKeepsPrograms ==
  ASSUME LinkStep
  PROVE  webUp' = webUp /\ (retry' = "off" <=> retry = "off")
<1> USE DEF clientVars, serverVars, registryVars
<1>1. CASE CheckState \/ Wake
  BY <1>1 DEF CheckState, Wake
<1>2. CASE StartEnds
  BY <1>2 DEF StartEnds, StartSucceeds, StartFails, StartTimesOut, Accept, AfterStart
<1>3. CASE LoseAnswer \/ ReconnectEnds
  BY <1>3 DEF LoseAnswer, ReconnectEnds, Reconnect, GiveUp, Accept
<1>4. CASE NetworkDrop \/ NoticeClosed
  BY <1>4 DEF NetworkDrop, NoticeClosed, LoseConnection
<1>5. CASE SendCheckCompleted
  BY <1>5 DEF SendCheckCompleted
<1>6. CASE \E c \in Connections :
             OnConnectedAsync(c) \/ OnDisconnectedAsync(c) \/ NotifyCheckCompleted(c)
  BY <1>6 DEF OnConnectedAsync, OnDisconnectedAsync, NotifyCheckCompleted
<1> QED
  BY <1>1, <1>2, <1>3, <1>4, <1>5, <1>6 DEF LinkStep

LEMMA LinkKeepsUp ==
  ASSUME LinkStep
  PROVE  /\ UNCHANGED rolloutVars
         /\ \A p \in Programs : Up(p)' = Up(p) /\ Alive(p)' = Alive(p)
<1>1. UNCHANGED rolloutVars
  BY DEF LinkStep
<1> QED
  BY <1>1, LinkKeepsPrograms DEF Up, Alive, rolloutVars, bootVars

(* As far as the link is concerned, a step of the system is one of HubLink's or none. *)
LEMMA StepOfTheLink == [RolloutNext]_systemVars => [Next]_vars
<1> SUFFICES ASSUME [RolloutNext]_systemVars PROVE [Next]_vars
  OBVIOUS
<1>1. CASE UNCHANGED systemVars
  BY <1>1 DEF systemVars
<1>2. ASSUME NEW p \in Programs, ProgramStep(p)
      PROVE  [Next]_vars
  <2>1. CASE ProgramStarts(p) \/ ProgramBoots(p)
    BY <2>1 DEF ProgramStarts, ProgramBoots
  <2>2. CASE Serves(p)
    BY <2>2 DEF Serves, Next, ServerStep, ClientStep
  <2>3. CASE Ends(p)
    BY <2>3 DEF Ends, Next, ServerStep, ClientStep
  <2> QED
    BY <1>2, <2>1, <2>2, <2>3 DEF ProgramStep, Obeys, Dies
<1>3. CASE ScriptStep \/ FilesLocked \/ ScriptFault \/ OperatorStep
  BY <1>3 DEF ScriptStep, DeployStep, StartService, ServiceDidNotStart, FilesLocked,
              ScriptFault, OperatorStep
<1>4. CASE LinkStep
  BY <1>4 DEF LinkStep, Next, ServerStep, ClientStep
<1> QED
  BY <1>1, <1>2, <1>3, <1>4 DEF RolloutNext

(* The composition restricts the link, so all that HubLinkProofs says holds of it. *)
THEOREM RolloutRunsTheLink == RolloutSpec => Spec
<1>1. RolloutInit => Init
  BY DEF RolloutInit
<1> QED
  BY <1>1, StepOfTheLink, PTL DEF RolloutSpec, Spec

-----------------------------------------------------------------------------
(* Start-up: the statements a program has behind it have left their mark. *)

MarksOf(p) ==
  /\ boot[p] \notin {"none", "ensureCreated", "createTables"} => "Endpoints" \in schema
  /\ boot[p] \in {"endpointColumns", "addAlertSentAt", "ready"}
       => "SendNotification" \in schema
  /\ boot[p] = "ready" => "AlertSentAt" \in schema

SchemaInv ==
  /\ BootTypeOK
  /\ schema # {} => "Endpoints" \in schema
  /\ "SendNotification" \in schema => "Users" \in schema
  /\ \A p \in Programs : MarksOf(p)
  /\ UpMeansReady

LEMMA SchemaInit == RolloutInit => SchemaInv
<1> SUFFICES ASSUME RolloutInit PROVE SchemaInv
  OBVIOUS
<1>1. \A p \in Programs : boot[p] = "none" /\ ~Up(p)
  BY DEF RolloutInit, BootInit, Init, Up
<1>2. BootTypeOK
  BY DEF RolloutInit, BootInit, BootTypeOK, FullSchema
<1> QED
  BY <1>1, <1>2 DEF RolloutInit, BootInit, SchemaInv, MarksOf, UpMeansReady, FullSchema

(* Whatever changes the schema adds to it what the next statements rely on. *)
LEMMA BootKeepsSchema ==
  ASSUME SchemaInv, NEW p \in Programs, BootStep(p), UNCHANGED vars
  PROVE  SchemaInv'
<1>1. BootTypeOK' /\ schema \subseteq schema'
      /\ \A q \in Programs : q # p => boot'[q] = boot[q]
  BY ZenonT(60) DEF SchemaInv, BootTypeOK, BootStep, EnsureCreated, CreateTables, CreateUsers,
         UserColumns, AddSendNotification, EndpointColumns, AddAlertSentAt, StatementFails,
         Goes, AfterCreated, AfterUserColumns, FullSchema, Programs
<1>2. /\ schema' # {} => "Endpoints" \in schema'
      /\ "SendNotification" \in schema' => "Users" \in schema'
      /\ MarksOf(p)'
  BY DEF SchemaInv, BootTypeOK, BootStep, EnsureCreated, CreateTables, CreateUsers,
         UserColumns, AddSendNotification, EndpointColumns, AddAlertSentAt, StatementFails,
         Goes, AfterCreated, AfterUserColumns, FullSchema, Programs, MarksOf
<1>3. ASSUME NEW q \in Programs, q # p
      PROVE  MarksOf(q)'
  BY <1>1, <1>3 DEF SchemaInv, MarksOf
<1>4. UpMeansReady'
  <2> SUFFICES ASSUME NEW q \in Programs, Up(q)' PROVE schema' = FullSchema
    BY DEF UpMeansReady
  <2>1. Up(q)
    BY DEF Up, vars, clientVars, serverVars
  <2> QED
    BY <1>1, <2>1 DEF SchemaInv, UpMeansReady, BootTypeOK
<1> QED
  BY <1>1, <1>2, <1>3, <1>4 DEF SchemaInv

(* No other step touches the schema, and a program serves only once it is ready. *)
LEMMA OthersKeepSchema ==
  ASSUME SchemaInv, UNCHANGED schema,
         boot' \in [Programs -> {"none", "ensureCreated", "createTables", "createUsers",
                                 "userColumns", "addSendNotification",
                                 "endpointColumns", "addAlertSentAt", "ready"}],
         \A p \in Programs : boot'[p] \in {boot[p], "none", "ensureCreated"},
         \A p \in Programs : Up(p)' => Up(p) \/ boot[p] = "ready"
  PROVE  SchemaInv'
<1>1. \A p \in Programs : MarksOf(p)'
  BY DEF SchemaInv, MarksOf
<1>2. ASSUME NEW p \in Programs, boot[p] = "ready"
      PROVE  schema = FullSchema
  BY <1>2 DEF SchemaInv, MarksOf, BootTypeOK, FullSchema
<1>3. UpMeansReady'
  BY <1>2 DEF SchemaInv, UpMeansReady
<1> QED
  BY <1>1, <1>3 DEF SchemaInv, BootTypeOK

LEMMA SchemaStep == SchemaInv /\ [RolloutNext]_systemVars => SchemaInv'
<1> SUFFICES ASSUME SchemaInv, [RolloutNext]_systemVars PROVE SchemaInv'
  OBVIOUS
<1> DEFINE Boots == {"none", "ensureCreated", "createTables", "createUsers", "userColumns",
                     "addSendNotification", "endpointColumns", "addAlertSentAt", "ready"}
<1>0. boot \in [Programs -> Boots]
  BY DEF SchemaInv, BootTypeOK
<1>1. CASE UNCHANGED systemVars
  <2>1. UNCHANGED <<schema, boot>> /\ \A p \in Programs : Up(p)' = Up(p)
    BY <1>1 DEF systemVars, rolloutVars, bootVars, vars, clientVars, serverVars, Up
  <2> QED
    BY <1>0, <2>1, OthersKeepSchema
<1>2. ASSUME NEW p \in Programs, ProgramStep(p)
      PROVE  SchemaInv'
  <2>1. CASE ProgramStarts(p)
    <3>1. UNCHANGED schema /\ boot' = [boot EXCEPT ![p] = "ensureCreated"]
      BY <2>1 DEF ProgramStarts, Launch
    <3>2. \A q \in Programs : Up(q)' = Up(q)
      BY <2>1 DEF ProgramStarts, vars, clientVars, serverVars, Up
    <3> QED
      BY <1>0, <3>1, <3>2, OthersKeepSchema
  <2>2. CASE ProgramBoots(p)
    BY <2>2, BootKeepsSchema DEF ProgramBoots
  <2>3. CASE Serves(p)
    <3>1. UNCHANGED schema /\ boot[p] = "ready" /\ boot' = [boot EXCEPT ![p] = "none"]
      BY <2>3 DEF Serves, Goes
    <3>2. \A q \in Programs : Up(q)' => Up(q) \/ q = p
      BY <2>3 DEF Serves, WebStarts, StartAsync, clientVars, serverVars, Up, Programs
    <3> QED
      BY <1>0, <3>1, <3>2, OthersKeepSchema
  <2>4. CASE Ends(p)
    <3>1. UNCHANGED schema /\ boot' \in {boot, [boot EXCEPT ![p] = "none"]}
      BY <2>4 DEF Ends, BootFault, rolloutVars, bootVars
    <3>2. \A q \in Programs : Up(q)' => Up(q)
      BY <2>4 DEF Ends, WebStops, StopAsync, vars, clientVars, serverVars, Up, Programs
    <3> QED
      BY <1>0, <3>1, <3>2, OthersKeepSchema
  <2> QED
    BY <1>2, <2>1, <2>2, <2>3, <2>4 DEF ProgramStep, Obeys, Dies
<1>3. CASE ScriptStep \/ FilesLocked \/ ScriptFault \/ OperatorStep
  <2>1. /\ UNCHANGED schema
        /\ boot' \in {boot, [boot EXCEPT !["service"] = "ensureCreated"]}
        /\ UNCHANGED vars
    BY <1>3 DEF ScriptStep, DeployStep, StartService, Launch, ServiceDidNotStart,
                FilesLocked, ScriptFault, OperatorStep, bootVars
  <2>2. \A q \in Programs : Up(q)' = Up(q)
    BY <2>1 DEF vars, clientVars, serverVars, Up
  <2> QED
    BY <1>0, <2>1, <2>2, OthersKeepSchema
<1>4. CASE LinkStep
  BY <1>0, <1>4, LinkKeepsUp, OthersKeepSchema DEF rolloutVars, bootVars
<1> QED
  BY <1>1, <1>2, <1>3, <1>4 DEF RolloutNext

LEMMA SchemaInvariance == RolloutSpec => []SchemaInv
BY SchemaInit, SchemaStep, PTL DEF RolloutSpec

(* A program serves only with the whole schema, whichever version the database was of
   and in whatever order the two programs' statements came: UpMeansReady is not
   inductive, the marks of the statements passed are what a start carries to its end. *)
THEOREM ServesCompleteSchema == RolloutSpec => []UpMeansReady
<1>1. SchemaInv => UpMeansReady
  BY DEF SchemaInv
<1> QED
  BY <1>1, SchemaInvariance, PTL

-----------------------------------------------------------------------------
(* The script: which program it has in hand, and what its stash holds at each stage. *)

Hands == {"clear", "copy", "restore"}
Resting == {"backup", "clear", "copy", "restore", "start"}
Cleared == {"copy", "restore", "start"}

StashInv ==
  /\ at = "clear" => \A f \in Files : file[Current][f] \in {"none", stash[f]}
  /\ at \in {"copy", "restore"} => \A f \in Files : file[Current][f] # "own"
  /\ at \notin Hands => stash = NoFiles

RestInv ==
  \A p \in Programs : at # "idle" /\ p = Current =>
    /\ at \in Resting => ~started[p]
    /\ at \in Cleared => ~Alive(p)

ScriptInv == DeployTypeOK /\ StashInv /\ RestInv /\ FilesSurvive

LEMMA OwnFiles == \A p \in Programs : Own(p) \subseteq Files
  BY DEF Own, Files

LEMMA CurrentIsAProgram ==
  ASSUME todo \in Orders, todo # <<>>
  PROVE  Current \in Programs /\ Tail(todo) \in Orders
<1>1. CASE todo = <<"web">>
  BY <1>1 DEF Current, Programs, Orders
<1>2. CASE todo = <<"service">>
  BY <1>2 DEF Current, Programs, Orders
<1>3. CASE todo = <<"web", "service">>
  BY <1>3 DEF Current, Programs, Orders
<1> QED
  BY <1>1, <1>2, <1>3 DEF Orders

LEMMA ScriptInit == RolloutInit => ScriptInv
<1> SUFFICES ASSUME RolloutInit PROVE ScriptInv
  OBVIOUS
<1>1. DeployTypeOK
  BY DEF RolloutInit, DeployInit, DeployTypeOK, Versions, Orders, NoFiles
<1>2. FilesSurvive
  BY OwnFiles DEF RolloutInit, DeployInit, FilesSurvive
<1> QED
  BY <1>1, <1>2 DEF RolloutInit, DeployInit, ScriptInv, StashInv, RestInv, Hands, Resting,
     Cleared

(* Steps that leave the script alone: what starts while it does is not the program it
   has stopped. *)
LEMMA OthersKeepFiles ==
  ASSUME ScriptInv, UNCHANGED deployVars,
         \A p \in Programs : Alive(p)' => Alive(p) \/ started[p]
  PROVE  ScriptInv'
<1> USE DEF deployVars
<1>1. DeployTypeOK' /\ StashInv' /\ FilesSurvive'
  BY DEF ScriptInv, DeployTypeOK, StashInv, FilesSurvive, Current
<1>2. RestInv'
  <2> SUFFICES ASSUME NEW p \in Programs, at # "idle", p = Current
               PROVE  /\ at \in Resting => ~started[p]
                      /\ at \in Cleared => ~Alive(p)'
    BY DEF RestInv, Current
  <2> QED
    BY DEF ScriptInv, RestInv, Resting, Cleared
<1> QED
  BY <1>1, <1>2 DEF ScriptInv

LEMMA AliveStays ==
  ASSUME UNCHANGED <<vars, bootVars>>
  PROVE  \A p \in Programs : Alive(p)' = Alive(p)
BY DEF vars, clientVars, serverVars, bootVars, Alive, Up

(* The types of what a step does to a target. *)
LEMMA TargetTypes ==
  ASSUME DeployTypeOK, at # "idle", NEW S \in SUBSET Files
  PROVE  /\ Current \in Programs
         /\ file[Current] \in [Files -> Versions]
         /\ Without(S) \in [Files -> Versions]
         /\ WithShipped(S) \in [Files -> Versions]
         /\ WithRestored(S) \in [Files -> Versions]
         /\ NoFiles \in [Files -> Versions]
<1>1. Current \in Programs
  BY CurrentIsAProgram DEF DeployTypeOK
<1>2. file[Current] \in [Files -> Versions] /\ stash \in [Files -> Versions]
  BY <1>1 DEF DeployTypeOK
<1>3. "none" \in Versions /\ "shipped" \in Versions
  BY DEF Versions
<1> QED
  BY <1>1, <1>2, <1>3 DEF Without, WithShipped, WithRestored, NoFiles

LEMMA NextProgramTypes ==
  ASSUME DeployTypeOK, at # "idle", NextProgram
  PROVE  todo' \in Orders /\ at' \in {"idle", "stop"} /\ (at' = "idle" <=> todo' = <<>>)
BY CurrentIsAProgram DEF DeployTypeOK, NextProgram

(* Before the stash is filled and after it is emptied, files are lost to nobody. *)
LEMMA NothingInHand ==
  ASSUME ScriptInv, at \notin Hands
  PROVE  \A p \in Programs : \A f \in Own(p) : file[p][f] = "own" \/ f \in abandoned[p]
BY OwnFiles DEF ScriptInv, StashInv, NoFiles, FilesSurvive, Hands

(* Steps between two stages that change neither file nor stash. *)
LEMMA QuietStagesKeepFiles ==
  ASSUME ScriptInv, UNCHANGED <<vars, bootVars>>,
         Stop \/ StartIisComponents \/ ServiceIsStarted \/ RunDeploy
         \/ \E p \in Programs : StartByHand(p)
  PROVE  ScriptInv'
<1> USE DEF Proceed
<1>1. at \notin Hands /\ at' \notin Hands /\ UNCHANGED <<build, file, stash, abandoned>>
  BY NextProgramTypes DEF Stop, StartIisComponents, NextProgram, ServiceIsStarted, RunDeploy,
         StartByHand, Hands
<1>2. DeployTypeOK'
  <2>1. at' \in {"idle", "stop", "backup"} /\ todo' \in Orders
        /\ (at' = "idle" <=> todo' = <<>>)
    BY NextProgramTypes DEF ScriptInv, DeployTypeOK, Stop, StartIisComponents,
           ServiceIsStarted, RunDeploy, StartByHand, Orders
  <2>2. started' \in [Programs -> BOOLEAN]
    BY DEF ScriptInv, DeployTypeOK, Stop, StartIisComponents, ServiceIsStarted, RunDeploy,
           StartByHand
  <2> QED
    BY <1>1, <2>1, <2>2 DEF ScriptInv, DeployTypeOK
<1>3. StashInv' /\ FilesSurvive'
  BY <1>1, NothingInHand DEF ScriptInv, StashInv, Hands, FilesSurvive
<1>4. RestInv'
  <2> SUFFICES ASSUME NEW p \in Programs, at' # "idle", p = Current'
               PROVE  /\ at' \in Resting => ~started'[p]
                      /\ at' \notin Cleared
    BY DEF RestInv
  <2>1. CASE Stop
    BY <2>1 DEF Stop, ScriptInv, DeployTypeOK, Current, Cleared
  <2>2. CASE StartIisComponents \/ ServiceIsStarted
    BY <2>2 DEF StartIisComponents, ServiceIsStarted, NextProgram, Resting, Cleared
  <2>3. CASE RunDeploy \/ \E q \in Programs : StartByHand(q)
    BY <2>3 DEF RunDeploy, StartByHand, Resting, Cleared
  <2> QED
    BY <2>1, <2>2, <2>3
<1> QED
  BY <1>2, <1>3, <1>4 DEF ScriptInv

(* The stages with the files in hand: the stash takes over what the target loses, and
   gives it back. *)
LEMMA HandsKeepFiles ==
  ASSUME ScriptInv, UNCHANGED <<vars, bootVars>>,
         \/ BackupPreservedFiles \/ CopyBuild \/ RestorePreservedFiles
         \/ RemoveFolderContents /\ ~Alive(Current)
  PROVE  ScriptInv'
<1> USE DEF Proceed
<1> DEFINE c == Current
<1>1. at # "idle" /\ at \in {"backup", "clear", "copy", "restore"}
  BY DEF BackupPreservedFiles, RemoveFolderContents, CopyBuild, RestorePreservedFiles
<1>2. c \in Programs /\ c' = c /\ UNCHANGED <<todo, started, abandoned>>
  BY <1>1, TargetTypes DEF ScriptInv, Current, BackupPreservedFiles, RemoveFolderContents,
         CopyBuild, RestorePreservedFiles
<1>3. at' \in {"clear", "copy", "restore", "start"}
  BY DEF BackupPreservedFiles, RemoveFolderContents, CopyBuild, RestorePreservedFiles
<1>4. /\ file' \in [Programs -> [Files -> Versions]]
      /\ stash' \in [Files -> Versions]
      /\ build' \in [Programs -> BOOLEAN]
      /\ \A p \in Programs : p # c => file'[p] = file[p] /\ build'[p] = build[p]
  <2>1. CASE BackupPreservedFiles
    BY <1>1, <1>2, <2>1, TargetTypes DEF ScriptInv, DeployTypeOK, BackupPreservedFiles
  <2>2. CASE RemoveFolderContents
    BY <1>1, <1>2, <2>2, TargetTypes DEF ScriptInv, DeployTypeOK, RemoveFolderContents
  <2>3. CASE CopyBuild
    BY <1>1, <1>2, <2>3, TargetTypes DEF ScriptInv, DeployTypeOK, CopyBuild
  <2>4. CASE RestorePreservedFiles
    BY <1>1, <1>2, <2>4, TargetTypes DEF ScriptInv, DeployTypeOK, RestorePreservedFiles
  <2> QED
    BY <2>1, <2>2, <2>3, <2>4
<1>5. DeployTypeOK'
  BY <1>1, <1>2, <1>3, <1>4 DEF ScriptInv, DeployTypeOK
<1>6. RestInv'
  <2>1. ~started[c]
    BY <1>1, <1>2 DEF ScriptInv, RestInv, Resting
  <2>2. CASE BackupPreservedFiles
    BY <1>2, <2>1, <2>2 DEF BackupPreservedFiles, RestInv, Cleared
  <2>3. CASE RemoveFolderContents /\ ~Alive(Current)
    BY <1>2, <2>1, <2>3, AliveStays DEF RestInv
  <2>4. CASE CopyBuild \/ RestorePreservedFiles
    BY <1>1, <1>2, <2>1, <2>4, AliveStays
    DEF CopyBuild, RestorePreservedFiles, ScriptInv, RestInv, Cleared
  <2> QED
    BY <2>2, <2>3, <2>4
<1>7. StashInv' /\ \A f \in Own(c) :
        file'[c][f] = "own" \/ f \in abandoned[c] \/ stash'[f] = "own"
  <2>0. \A f \in Own(c) : file[c][f] = "own" \/ f \in abandoned[c] \/ stash[f] = "own"
    BY <1>2 DEF ScriptInv, FilesSurvive
  <2>1. CASE BackupPreservedFiles
    <3>1. stash' = file[c] /\ file' = file /\ at' = "clear"
      BY <2>1 DEF BackupPreservedFiles
    <3> QED
      BY <1>1, <1>2, <2>1, <3>1, NothingInHand DEF BackupPreservedFiles, StashInv, Hands
  <2>2. CASE RemoveFolderContents
    <3>1. file'[c] = [f \in Files |-> "none"] /\ stash' = stash
          /\ \A f \in Files : file[c][f] \in {"none", stash[f]}
      BY <1>2, <2>2 DEF RemoveFolderContents, Without, ScriptInv, StashInv, DeployTypeOK
    <3> QED
      BY <1>2, <2>0, <2>2, <3>1, OwnFiles DEF RemoveFolderContents, StashInv, Hands
  <2>3. CASE CopyBuild
    <3>1. file'[c] = WithShipped(Files) /\ stash' = stash
          /\ \A f \in Files : file[c][f] # "own"
      BY <1>2, <2>3 DEF CopyBuild, ScriptInv, StashInv, DeployTypeOK
    <3>2. \A f \in Files : file'[c][f] # "own"
      BY <3>1 DEF WithShipped
    <3> QED
      BY <1>2, <2>0, <2>3, <3>1, <3>2, OwnFiles DEF CopyBuild, StashInv, Hands
  <2>4. CASE RestorePreservedFiles
    <3>1. file'[c] = WithRestored(Files) /\ stash' = NoFiles
          /\ \A f \in Files : file[c][f] # "own"
      BY <1>2, <2>4 DEF RestorePreservedFiles, ScriptInv, StashInv, DeployTypeOK
    <3>2. \A f \in Files : stash[f] = "own" => file'[c][f] = "own"
      BY <3>1 DEF WithRestored
    <3> QED
      BY <1>2, <2>0, <2>4, <3>1, <3>2, OwnFiles DEF RestorePreservedFiles, StashInv, Hands
  <2> QED
    BY <2>1, <2>2, <2>3, <2>4
<1>8. FilesSurvive'
  <2> SUFFICES ASSUME NEW p \in Programs, NEW f \in Own(p)
               PROVE  \/ file'[p][f] = "own"
                      \/ f \in abandoned[p]
                      \/ p = c /\ stash'[f] = "own"
    BY <1>2, <1>3 DEF FilesSurvive
  <2>1. CASE p = c
    BY <1>7, <2>1
  <2>2. CASE p # c
    BY <1>4, <2>2 DEF ScriptInv, FilesSurvive
  <2> QED
    BY <2>1, <2>2
<1> QED
  BY <1>5, <1>6, <1>7, <1>8 DEF ScriptInv

(* What a clearing has deleted before it met a locked file is in the stash. *)
LEMMA LockedKeepsFiles ==
  ASSUME ScriptInv, FilesLocked
  PROVE  ScriptInv'
<1> DEFINE c == Current
<1>1. at = "clear" /\ UNCHANGED <<started, at, todo, stash, abandoned>> /\ c' = c
      /\ UNCHANGED <<vars, bootVars>>
  BY DEF FilesLocked, RemoveSome, Current
<1>2. c \in Programs /\ stash \in [Files -> Versions]
  BY <1>1, TargetTypes DEF ScriptInv, DeployTypeOK
<1>3. PICK S \in SUBSET Files : file' = [file EXCEPT ![c] = Without(S)]
  BY <1>1 DEF FilesLocked, RemoveSome, HalfDone
<1>4. build' \in {build, [build EXCEPT ![c] = FALSE]}
  BY <1>1 DEF FilesLocked, RemoveSome, HalfDone
<1>5. file'[c] = Without(S) /\ Without(S) \in [Files -> Versions]
      /\ \A p \in Programs : p # c => file'[p] = file[p]
  BY <1>1, <1>2, <1>3, TargetTypes DEF ScriptInv, DeployTypeOK
<1>6. DeployTypeOK'
  BY <1>1, <1>2, <1>3, <1>4, <1>5 DEF ScriptInv, DeployTypeOK
<1>7. StashInv'
  BY <1>1, <1>5 DEF ScriptInv, StashInv, Without, Hands
<1>8. RestInv'
  BY <1>1 DEF ScriptInv, RestInv, Resting, Cleared
<1>9. FilesSurvive'
  <2> SUFFICES ASSUME NEW p \in Programs, NEW f \in Own(p)
               PROVE  file'[p][f] = "own" \/ f \in abandoned[p] \/ (p = c /\ stash[f] = "own")
    BY <1>1 DEF FilesSurvive
  <2>1. file[p][f] = "own" \/ f \in abandoned[p] \/ (p = c /\ stash[f] = "own")
    BY DEF ScriptInv, FilesSurvive
  <2>2. file[c][f] = "own" => stash[f] = "own"
    BY <1>1, OwnFiles DEF ScriptInv, StashInv
  <2> QED
    BY <1>5, <2>1, <2>2
<1> QED
  BY <1>6, <1>7, <1>8, <1>9 DEF ScriptInv

(* Whatever a failing step has done, what the stash held is where it was or stays in the
   stash that nobody removes. *)
LEMMA ThrowKeepsFiles ==
  ASSUME ScriptInv, UNCHANGED <<vars, bootVars>>, Throw
  PROVE  ScriptInv'
<1> DEFINE c == Current
<1>1. at # "idle" /\ at' = "idle" /\ todo' = <<>> /\ stash' = NoFiles /\ started' = started
      /\ abandoned' = [abandoned EXCEPT ![c] =
                         @ \union {f \in OwnInStash : file'[c][f] # "own"}]
  BY DEF Throw
<1>2. c \in Programs /\ NoFiles \in [Files -> Versions]
  BY <1>1, TargetTypes DEF ScriptInv
<1>3. /\ file' \in [Programs -> [Files -> Versions]]
      /\ build' \in [Programs -> BOOLEAN]
      /\ \A p \in Programs :
           p # c \/ at \notin Hands => file'[p] = file[p] /\ build'[p] = build[p]
  <2>1. CASE at = "clear"
    <3>1. PICK S \in SUBSET Files : file' = [file EXCEPT ![c] = Without(S)]
      BY <2>1 DEF Throw, HalfDone
    <3>2. build' \in {build, [build EXCEPT ![c] = FALSE]}
      BY <2>1 DEF Throw, HalfDone
    <3> QED
      BY <1>1, <1>2, <2>1, <3>1, <3>2, TargetTypes DEF ScriptInv, DeployTypeOK, Hands
  <2>2. CASE at = "copy"
    <3>1. PICK S \in SUBSET Files : file' = [file EXCEPT ![c] = WithShipped(S)]
      BY <2>2 DEF Throw, HalfDone
    <3>2. build' = build
      BY <2>2 DEF Throw, HalfDone
    <3> QED
      BY <1>1, <1>2, <2>2, <3>1, <3>2, TargetTypes DEF ScriptInv, DeployTypeOK, Hands
  <2>3. CASE at = "restore"
    <3>1. PICK S \in SUBSET Files : file' = [file EXCEPT ![c] = WithRestored(S)]
      BY <2>3 DEF Throw, HalfDone
    <3>2. build' = build
      BY <2>3 DEF Throw, HalfDone
    <3> QED
      BY <1>1, <1>2, <2>3, <3>1, <3>2, TargetTypes DEF ScriptInv, DeployTypeOK, Hands
  <2>4. CASE at \notin Hands
    BY <2>4 DEF Throw, HalfDone, ScriptInv, DeployTypeOK, Hands
  <2> QED
    BY <2>1, <2>2, <2>3, <2>4 DEF Hands
<1>4. abandoned' \in [Programs -> SUBSET Files]
      /\ \A p \in Programs : abandoned[p] \subseteq abandoned'[p]
      /\ \A f \in OwnInStash : file'[c][f] = "own" \/ f \in abandoned'[c]
  BY <1>1, <1>2 DEF ScriptInv, DeployTypeOK, OwnInStash
<1>5. DeployTypeOK'
  BY <1>1, <1>2, <1>3, <1>4 DEF ScriptInv, DeployTypeOK, Orders
<1>6. StashInv' /\ RestInv'
  BY <1>1 DEF StashInv, RestInv, Hands
<1>7. ASSUME NEW f \in Files, at \in Hands, file[c][f] = "own"
      PROVE  stash[f] = "own"
  BY <1>7 DEF ScriptInv, StashInv, Hands
<1>8. FilesSurvive'
  <2> SUFFICES ASSUME NEW p \in Programs, NEW f \in Own(p)
               PROVE  file'[p][f] = "own" \/ f \in abandoned'[p]
    BY DEF FilesSurvive
  <2>0. f \in Files
    BY OwnFiles
  <2>1. CASE p # c \/ at \notin Hands
    <3>1. file[p][f] = "own" \/ f \in abandoned[p]
      BY <2>1, NothingInHand DEF ScriptInv, FilesSurvive
    <3> QED
      BY <1>3, <1>4, <2>1, <3>1
  <2>2. CASE p = c /\ at \in Hands
    BY <1>4, <1>7, <2>0, <2>2 DEF ScriptInv, FilesSurvive, OwnInStash
  <2> QED
    BY <2>1, <2>2
<1> QED
  BY <1>5, <1>6, <1>8 DEF ScriptInv

LEMMA PutBackKeepsFiles ==
  ASSUME ScriptInv, UNCHANGED <<vars, bootVars>>, NEW p \in Programs, PutBackByHand(p)
  PROVE  ScriptInv'
<1> DEFINE back == [f \in Files |-> IF f \in abandoned[p] THEN "own" ELSE file[p][f]]
<1>1. back \in [Files -> Versions]
  BY DEF ScriptInv, DeployTypeOK, Versions
<1>2. at = "idle" /\ UNCHANGED <<started, build, at, todo, stash>>
  BY DEF PutBackByHand
<1>3. file' = [file EXCEPT ![p] = back] /\ abandoned' = [abandoned EXCEPT ![p] = {}]
  BY DEF PutBackByHand, ScriptInv, DeployTypeOK
<1>4. DeployTypeOK'
  BY <1>1, <1>2, <1>3 DEF ScriptInv, DeployTypeOK
<1>5. StashInv' /\ RestInv'
  BY <1>2 DEF ScriptInv, StashInv, RestInv, Hands, Resting
<1>6. \A q \in Programs : \A f \in Own(q) : file'[q][f] = "own" \/ f \in abandoned'[q]
  <2>1. \A q \in Programs : \A f \in Own(q) : file[q][f] = "own" \/ f \in abandoned[q]
    BY <1>2, NothingInHand DEF Hands
  <2> QED
    BY <1>3, <2>1, OwnFiles DEF ScriptInv, DeployTypeOK
<1>7. FilesSurvive'
  BY <1>6 DEF FilesSurvive
<1> QED
  BY <1>4, <1>5, <1>7 DEF ScriptInv

(* Start-Service comes after the files are back. *)
LEMMA StartServiceKeepsFiles == ASSUME ScriptInv, StartService PROVE ScriptInv'
<1>1. /\ at = "start" /\ at' = "starting" /\ UNCHANGED <<todo, build, file, stash, abandoned>>
      /\ started' = [started EXCEPT !["service"] = TRUE]
  BY DEF StartService, StartMonitoringService, Proceed
<1>2. DeployTypeOK'
  BY <1>1 DEF ScriptInv, DeployTypeOK
<1>3. StashInv' /\ RestInv'
  BY <1>1 DEF ScriptInv, StashInv, RestInv, Hands, Resting, Cleared
<1>4. \A p \in Programs : \A f \in Own(p) : file[p][f] = "own" \/ f \in abandoned[p]
  BY <1>1, NothingInHand DEF Hands
<1>5. FilesSurvive'
  BY <1>1, <1>4 DEF FilesSurvive
<1> QED
  BY <1>2, <1>3, <1>5 DEF ScriptInv

(* The programs leave the script and the targets alone, and only one that is started
   starts. *)
LEMMA StepsOfPrograms ==
  ASSUME SchemaInv, NEW p \in Programs, ProgramStep(p)
  PROVE  /\ UNCHANGED deployVars
         /\ \A q \in Programs : Alive(q)' => Alive(q) \/ started[q]
<1>0. DOMAIN boot = Programs
  BY DEF SchemaInv, BootTypeOK
<1>1. CASE ProgramStarts(p)
  BY <1>1 DEF ProgramStarts, Launch, Alive, Up, vars, clientVars, serverVars, Programs
<1>2. CASE ProgramBoots(p)
  <2>1. boot[p] # "none" /\ \A q \in Programs : q # p => boot'[q] = boot[q]
    BY <1>0, <1>2 DEF ProgramBoots, BootStep, EnsureCreated, CreateTables, CreateUsers,
           UserColumns, AddSendNotification, EndpointColumns, AddAlertSentAt,
           StatementFails, Refused, Goes, Programs
  <2>2. \A q \in Programs : Alive(q)' => Alive(q)
    BY <1>2, <2>1 DEF ProgramBoots, Alive, Up, vars, clientVars, serverVars
  <2> QED
    BY <1>2, <2>2 DEF ProgramBoots
<1>3. CASE Serves(p)
  <2>1. boot[p] # "none" /\ \A q \in Programs : q # p => boot'[q] = boot[q]
    BY <1>3 DEF Serves, Goes
  <2>2. \A q \in Programs : Up(q)' => Up(q) \/ q = p
    BY <1>3 DEF Serves, WebStarts, StartAsync, clientVars, serverVars, Up, Programs
  <2>3. \A q \in Programs : Alive(q)' => Alive(q)
    BY <2>1, <2>2 DEF Alive
  <2> QED
    BY <1>3, <2>3 DEF Serves
<1>4. CASE Ends(p)
  <2>1. UNCHANGED deployVars
        /\ \A q \in Programs : boot'[q] # "none" => boot'[q] = boot[q]
    <3>1. UNCHANGED deployVars /\ (boot' = boot \/ boot' = [boot EXCEPT ![p] = "none"])
      BY <1>4 DEF Ends, BootFault, rolloutVars, bootVars
    <3> QED
      BY <1>0, <3>1
  <2>2. \A q \in Programs : Up(q)' => Up(q)
    BY <1>4 DEF Ends, WebStops, StopAsync, vars, clientVars, serverVars, Up, Programs
  <2>3. \A q \in Programs : Alive(q)' => Alive(q)
    BY <2>1, <2>2 DEF Alive
  <2> QED
    BY <2>1, <2>3
<1> QED
  BY <1>1, <1>2, <1>3, <1>4 DEF ProgramStep, Obeys, Dies

LEMMA ScriptInvStep == SchemaInv /\ ScriptInv /\ [RolloutNext]_systemVars => ScriptInv'
<1> SUFFICES ASSUME SchemaInv, ScriptInv, [RolloutNext]_systemVars PROVE ScriptInv'
  OBVIOUS
<1>1. CASE UNCHANGED systemVars
  <2>1. UNCHANGED deployVars /\ UNCHANGED <<vars, bootVars>>
    BY <1>1 DEF systemVars, rolloutVars
  <2> QED
    BY <2>1, AliveStays, OthersKeepFiles
<1>2. ASSUME NEW p \in Programs, ProgramStep(p)
      PROVE  ScriptInv'
  BY <1>2, StepsOfPrograms, OthersKeepFiles
<1>3. CASE ScriptStep
  <2>1. CASE DeployStep
    BY <2>1, QuietStagesKeepFiles, HandsKeepFiles DEF DeployStep
  <2>2. CASE StartService
    BY <2>2, StartServiceKeepsFiles
  <2>3. CASE ServiceDidNotStart
    BY <2>3, ThrowKeepsFiles DEF ServiceDidNotStart
  <2> QED
    BY <1>3, <2>1, <2>2, <2>3 DEF ScriptStep
<1>4. CASE ScriptFault \/ FilesLocked
  BY <1>4, ThrowKeepsFiles, LockedKeepsFiles DEF ScriptFault
<1>5. CASE OperatorStep
  BY <1>5, QuietStagesKeepFiles, PutBackKeepsFiles DEF OperatorStep
<1>6. CASE LinkStep
  BY <1>6, LinkKeepsUp, OthersKeepFiles DEF rolloutVars
<1> QED
  BY <1>1, <1>2, <1>3, <1>4, <1>5, <1>6 DEF RolloutNext

LEMMA ScriptInvariance == RolloutSpec => []ScriptInv
BY SchemaInvariance, ScriptInit, ScriptInvStep, PTL DEF RolloutSpec

(* Whatever step of whatever run fails, no file of the administrator is lost, for any
   files and any of them shipped with the build.  The invariant says of every stage
   what the stash holds of what the target has lost (StashInv). *)
THEOREM FilesAreKept == RolloutSpec => []FilesSurvive
<1>1. ScriptInv => FilesSurvive
  BY DEF ScriptInv
<1> QED
  BY <1>1, ScriptInvariance, PTL

(* Every variable of the three parts keeps its type. *)
THEOREM WholeTypeCorrect == RolloutSpec => []WholeTypeOK
<1>1. SchemaInv => BootTypeOK
  BY DEF SchemaInv
<1>2. ScriptInv => DeployTypeOK
  BY DEF ScriptInv
<1>3. RolloutSpec => []TypeOK
  BY RolloutRunsTheLink, TypeCorrect, PTL
<1> QED
  BY <1>1, <1>2, <1>3, SchemaInvariance, ScriptInvariance, PTL DEF WholeTypeOK

(* The registry counts exactly the open connections also while programs are stopped,
   replaced and started under them. *)
THEOREM RolloutKeepsTheCount == RolloutSpec => [](CountIsOpenConnections /\ SinceIffConnected)
BY RolloutRunsTheLink, CountIsExact, SinceIsExact, PTL

-----------------------------------------------------------------------------
(* Both programs come up.  What start-up has behind it, and that a program does not start
   twice. *)
StartInv ==
  /\ \A p \in Programs : boot[p] # "none" => ~Up(p)
  /\ boot["service"] # "createUsers"
  /\ boot["web"] \notin {"none", "ensureCreated", "createTables", "createUsers"}
       => "Users" \in schema

(* No step takes anything out of the schema. *)
LEMMA SchemaGrows ==
  ASSUME SchemaInv, [RolloutNext]_systemVars
  PROVE  schema \subseteq schema'
<1>1. CASE UNCHANGED systemVars
  BY <1>1 DEF systemVars, rolloutVars, bootVars
<1>2. ASSUME NEW p \in Programs, ProgramStep(p) PROVE schema \subseteq schema'
  <2>1. CASE ProgramStarts(p) \/ Serves(p) \/ Ends(p)
    BY <2>1 DEF ProgramStarts, Launch, Serves, Ends, BootFault, rolloutVars, bootVars
  <2>2. CASE ProgramBoots(p)
    BY <2>2 DEF ProgramBoots, SchemaInv, BootTypeOK, BootStep, EnsureCreated, CreateTables,
       CreateUsers, UserColumns, AddSendNotification, EndpointColumns, AddAlertSentAt,
       StatementFails
  <2>3. QED
    BY <1>2, <2>1, <2>2 DEF ProgramStep, Obeys, Dies
<1>3. CASE ScriptStep \/ FilesLocked \/ ScriptFault \/ OperatorStep
  BY <1>3 DEF ScriptStep, DeployStep, StartService, Launch, ServiceDidNotStart, FilesLocked,
     ScriptFault, OperatorStep, bootVars
<1>4. CASE LinkStep
  BY <1>4, LinkKeepsUp DEF rolloutVars, bootVars
<1>5. QED
  BY <1>1, <1>2, <1>3, <1>4 DEF RolloutNext

(* Whatever else happens, a program that is not being started by the script is left where
   it is by all but its own steps. *)
LEMMA OthersLeaveProgram ==
  ASSUME SchemaInv, [RolloutNext]_systemVars, NEW p \in Programs, ~ProgramStep(p)
  PROVE  \/ boot'[p] = boot[p] /\ (Up(p)' <=> Up(p))
         \/ p = "service" /\ StartService
<1> USE DEF SchemaInv, BootTypeOK
<1>1. CASE UNCHANGED systemVars
  BY <1>1 DEF systemVars, rolloutVars, bootVars, vars, clientVars, serverVars, Up
<1>2. ASSUME NEW q \in Programs, ProgramStep(q)
      PROVE  boot'[p] = boot[p] /\ (Up(p)' <=> Up(p))
  <2>1. q # p
    BY <1>2
  <2>2. CASE ProgramStarts(q)
    BY <2>1, <2>2 DEF ProgramStarts, Launch, vars, clientVars, serverVars, Up
  <2>3. CASE ProgramBoots(q)
    BY <2>1, <2>3 DEF ProgramBoots, BootStep, EnsureCreated, CreateTables, CreateUsers,
       UserColumns, AddSendNotification, EndpointColumns, AddAlertSentAt, StatementFails,
       Goes, vars, clientVars, serverVars, Up
  <2>4. CASE Serves(q)
    BY <2>1, <2>4 DEF Serves, Goes, WebStarts, StartAsync, clientVars, serverVars, Up, Programs
  <2>5. CASE Ends(q)
    BY <2>1, <2>5 DEF Ends, BootFault, WebStops, StopAsync, rolloutVars, bootVars, vars,
       clientVars, serverVars, Up, Programs
  <2>6. QED
    BY <1>2, <2>2, <2>3, <2>4, <2>5 DEF ProgramStep, Obeys, Dies
<1>3. CASE DeployStep \/ ServiceDidNotStart \/ FilesLocked \/ ScriptFault \/ OperatorStep
  BY <1>3 DEF DeployStep, ServiceDidNotStart, FilesLocked, ScriptFault, OperatorStep,
     bootVars, vars, clientVars, serverVars, Up
<1>4. CASE StartService
  BY <1>4 DEF StartService, Launch, vars, clientVars, serverVars, Up, Programs
<1>5. CASE LinkStep
  BY <1>5, LinkKeepsUp DEF rolloutVars, bootVars
<1>6. QED
  BY <1>1, <1>2, <1>3, <1>4, <1>5 DEF RolloutNext, ScriptStep

(* The statements of one start, each with what it finds and what it leaves.  A refused one
   has been overtaken by the other program, unless the service finds a database without
   users, which only the web application creates. *)
LEMMA OwnBoot ==
  ASSUME SchemaInv, StartInv, NEW p \in Programs, ProgramBoots(p)
  PROVE  /\ Up(p)' <=> Up(p)
         /\ \/ /\ boot[p] = "ensureCreated" /\ schema = {} /\ boot'[p] = "createTables"
            \/ /\ boot[p] = "ensureCreated" /\ schema # {}
               /\ boot'[p] \in {"createUsers", "userColumns"}
            \/ /\ boot[p] = "createTables" /\ schema = {} /\ schema' # {}
               /\ boot'[p] \in {"createUsers", "userColumns"}
            \/ /\ boot[p] = "createTables" /\ schema # {} /\ boot'[p] = "none"
            \/ /\ boot[p] = "createUsers" /\ boot'[p] = "userColumns"
            \/ /\ boot[p] = "userColumns" /\ "SendNotification" \in schema
               /\ boot'[p] = "endpointColumns"
            \/ /\ boot[p] = "userColumns" /\ "SendNotification" \notin schema
               /\ boot'[p] = "addSendNotification"
            \/ /\ boot[p] = "addSendNotification" /\ "SendNotification" \in schema'
               /\ boot'[p] = "endpointColumns"
            \/ /\ boot[p] = "addSendNotification" /\ boot'[p] = "none"
               /\ p = "service" \/ "SendNotification" \in schema
            \/ /\ boot[p] = "endpointColumns" /\ "AlertSentAt" \in schema
               /\ boot'[p] = "ready"
            \/ /\ boot[p] = "endpointColumns" /\ "AlertSentAt" \notin schema
               /\ boot'[p] = "addAlertSentAt"
            \/ /\ boot[p] = "addAlertSentAt" /\ "AlertSentAt" \in schema'
               /\ boot'[p] = "ready"
            \/ /\ boot[p] = "addAlertSentAt" /\ boot'[p] = "none"
               /\ "AlertSentAt" \in schema
<1>1. boot \in [Programs -> {"none", "ensureCreated", "createTables", "createUsers",
                             "userColumns", "addSendNotification",
                             "endpointColumns", "addAlertSentAt", "ready"}]
  BY DEF SchemaInv, BootTypeOK
<1>2. Up(p)' <=> Up(p)
  BY DEF ProgramBoots, Up, vars, clientVars, serverVars
<1>3. CASE EnsureCreated(p) \/ CreateTables(p)
  BY <1>1, <1>2, <1>3 DEF EnsureCreated, CreateTables, Goes, AfterCreated, FullSchema
<1>4. CASE p = "web" /\ CreateUsers
  BY <1>1, <1>2, <1>4 DEF CreateUsers, Goes
<1>5. CASE UserColumns(p) \/ AddSendNotification(p)
  BY <1>1, <1>2, <1>5 DEF UserColumns, AddSendNotification, AfterUserColumns, Goes
<1>6. CASE EndpointColumns(p) \/ AddAlertSentAt(p)
  BY <1>1, <1>2, <1>6 DEF EndpointColumns, AddAlertSentAt, Goes
<1>7. CASE StatementFails(p)
  <2>1. boot'[p] = "none"
    BY <1>1, <1>7 DEF StatementFails
  <2>2. CASE boot[p] = "createTables" /\ schema # {}
    BY <1>2, <2>1, <2>2
  <2>3. CASE boot[p] = "addSendNotification"
             /\ ("Users" \notin schema \/ "SendNotification" \in schema)
    BY <1>2, <2>1, <2>3 DEF StartInv, Programs
  <2>4. CASE boot[p] = "addAlertSentAt"
             /\ ("Endpoints" \notin schema \/ "AlertSentAt" \in schema)
    BY <1>2, <2>1, <2>4 DEF SchemaInv, MarksOf
  <2>5. QED
    BY <1>7, <2>2, <2>3, <2>4 DEF StatementFails, Refused
<1>8. QED
  BY <1>3, <1>4, <1>5, <1>6, <1>7 DEF ProgramBoots, BootStep

LEMMA OwnServes ==
  ASSUME SchemaInv, NEW p \in Programs, Serves(p)
  PROVE  boot[p] = "ready" /\ boot'[p] = "none" /\ Up(p)'
<1>1. boot[p] = "ready" /\ boot'[p] = "none"
  BY DEF Serves, Goes, SchemaInv, BootTypeOK
<1>2. Up(p)'
  BY DEF Serves, WebStarts, StartAsync, Up, Programs
<1>3. QED
  BY <1>1, <1>2

LEMMA OwnStart ==
  ASSUME SchemaInv, NEW p \in Programs, ProgramStarts(p)
  PROVE  /\ boot[p] = "none" /\ boot'[p] = "ensureCreated"
         /\ ~Up(p) /\ ~Up(p)'
BY DEF SchemaInv, BootTypeOK, ProgramStarts, Launch, Alive, Up, vars, clientVars, serverVars

LEMMA OwnEnd ==
  ASSUME SchemaInv, StartInv, NEW p \in Programs, Ends(p)
  PROVE  boot'[p] = "none" /\ ~Up(p)'
<1>1. boot[p] # "none" => ~Up(p)
  BY DEF StartInv
<1>2. CASE BootFault(p) /\ UNCHANGED <<vars, deployVars>>
  BY <1>1, <1>2 DEF BootFault, SchemaInv, BootTypeOK, vars, clientVars, serverVars, Up
<1>3. CASE p = "web" /\ WebStops /\ UNCHANGED rolloutVars
  BY <1>1, <1>3 DEF WebStops, rolloutVars, bootVars, Up
<1>4. CASE p = "service" /\ StopAsync /\ UNCHANGED rolloutVars
  BY <1>1, <1>4 DEF StopAsync, rolloutVars, bootVars, Up
<1>5. QED
  BY <1>2, <1>3, <1>4 DEF Ends

LEMMA StartStep ==
  ASSUME SchemaInv, StartInv, [RolloutNext]_systemVars
  PROVE  StartInv'
<1>1. ASSUME NEW p \in Programs PROVE boot'[p] # "none" => ~Up(p)'
  <2>0. boot[p] # "none" => ~Up(p)
    BY DEF StartInv
  <2>1. CASE ProgramStep(p)
    BY <2>0, <2>1, OwnBoot, OwnServes, OwnStart, OwnEnd DEF ProgramStep, Obeys, Dies
  <2>2. CASE ~ProgramStep(p)
    <3>1. CASE p = "service" /\ StartService
      BY <3>1 DEF StartService, Launch, Alive, Up, vars, clientVars
    <3>2. QED
      BY <2>0, <2>2, <3>1, OthersLeaveProgram
  <2>3. QED
    BY <2>1, <2>2
<1>2. boot'["service"] # "createUsers"
  <2>1. CASE ProgramStep("service")
    <3>1. CASE ProgramBoots("service")
      BY <3>1 DEF ProgramBoots, BootStep, EnsureCreated, CreateTables, UserColumns,
         AddSendNotification, AfterUserColumns, EndpointColumns, AddAlertSentAt,
         StatementFails, Goes, AfterCreated, SchemaInv, BootTypeOK, Programs
    <3>2. CASE ~ProgramBoots("service")
      BY <2>1, <3>2, OwnServes, OwnStart, OwnEnd DEF ProgramStep, Obeys, Dies, Programs
    <3>3. QED
      BY <3>1, <3>2
  <2>2. CASE ~ProgramStep("service")
    <3>1. CASE StartService
      BY <3>1 DEF StartService, Launch, SchemaInv, BootTypeOK, Programs
    <3>2. QED
      BY <2>2, <3>1, OthersLeaveProgram DEF StartInv, Programs
  <2>3. QED
    BY <2>1, <2>2
<1>3. boot'["web"] \notin {"none", "ensureCreated", "createTables", "createUsers"}
        => "Users" \in schema'
  <2>1. CASE ProgramBoots("web")
    BY <2>1 DEF ProgramBoots, BootStep, EnsureCreated, CreateTables, CreateUsers, UserColumns,
       AddSendNotification, AfterUserColumns, EndpointColumns, AddAlertSentAt, StatementFails,
       Goes, AfterCreated, SchemaInv, BootTypeOK, Programs, StartInv
  <2>2. CASE ProgramStep("web") /\ ~ProgramBoots("web")
    BY <2>2, OwnServes, OwnStart, OwnEnd DEF ProgramStep, Obeys, Dies, Programs
  <2>3. CASE ~ProgramStep("web")
    BY <2>3, OthersLeaveProgram, SchemaGrows DEF StartInv, Programs
  <2>4. QED
    BY <2>1, <2>2, <2>3
<1>4. QED
  BY <1>1, <1>2, <1>3 DEF StartInv

LEMMA StartInvariance == RolloutSpec => []StartInv
<1>1. RolloutInit => StartInv
  BY DEF RolloutInit, BootInit, StartInv, Programs
<1>2. QED
  BY <1>1, SchemaInvariance, StartStep, PTL DEF RolloutSpec

(* Progress.  The provers do not know ENABLED, so fairness is written out with the guards: a
   program that starts from a complete build goes on (RolloutFairness), and one that is
   started and not there is started again (OperatorCares). *)
Serving(p) == ProgramBoots(p) \/ Serves(p)
CanGoOn(p) == build[p] /\ boot[p] # "none"
CanStart(p) == ~Alive(p) /\ started[p] /\ ~(p = "service" /\ at = "starting")
BootFairness(p) ==
  /\ []<>~CanGoOn(p) \/ []<><<build[p] /\ Serving(p)>>_systemVars
  /\ []<>~CanStart(p) \/ []<><<ProgramStarts(p)>>_systemVars

(* From some time on p is installed and started, and nothing ends it. *)
Wanted(p) == started[p] /\ build[p] /\ ~(p = "service" /\ at = "starting")
Undisturbed(p) == <>[]Wanted(p) /\ <>[][~Ends(p)]_systemVars

NotThere(p) == boot[p] = "none" /\ ~Up(p)

(* How an undisturbed program goes on, whatever the other one and the script do. *)
LEMMA BootGoesOn ==
  ASSUME SchemaInv, StartInv, [RolloutNext]_systemVars, NEW p \in Programs,
         [~Ends(p)]_systemVars, Wanted(p)'
  PROVE  \/ boot'[p] = boot[p] /\ (Up(p)' <=> Up(p))
            /\ ~<<ProgramBoots(p) \/ Serves(p)>>_systemVars
            /\ ~<<ProgramStarts(p)>>_systemVars
         \/ NotThere(p) /\ boot'[p] = "ensureCreated"
         \/ boot[p] = "ready" /\ Up(p)'
         \/ ProgramBoots(p)
<1>1. CASE UNCHANGED systemVars
  BY <1>1 DEF systemVars, rolloutVars, bootVars, vars, clientVars, serverVars, Up
<1>2. CASE ~(UNCHANGED systemVars) /\ ProgramStep(p)
  BY <1>2, OwnServes, OwnStart DEF ProgramStep, Obeys, Dies, NotThere
<1>3. CASE ~ProgramStep(p)
  <2>1. ~(p = "service" /\ StartService)
    BY DEF StartService, StartMonitoringService, Proceed, Wanted
  <2>2. boot'[p] = boot[p] /\ (Up(p)' <=> Up(p))
    BY <1>3, <2>1, OthersLeaveProgram
  <2>3. ~ProgramBoots(p) /\ ~Serves(p) /\ ~ProgramStarts(p)
    BY <1>3 DEF ProgramStep
  <2>4. QED
    BY <2>2, <2>3
<1>4. QED
  BY <1>1, <1>2, <1>3

Has(column) == column \in schema

(* Stage by stage: a step that serves p moves it on. *)
LEMMA BootStages ==
  ASSUME SchemaInv, StartInv, [RolloutNext]_systemVars, NEW p \in Programs,
         [~Ends(p)]_systemVars, Wanted(p), Wanted(p)'
  PROVE  /\ Up(p) => Up(p)'
         /\ NotThere(p) => \/ NotThere(p)' /\ ~<<ProgramStarts(p)>>_systemVars
                           \/ (boot[p] = "ensureCreated")'
         /\ boot[p] = "ensureCreated" =>
              \/ (boot[p] = "ensureCreated")' /\ ~<<Serving(p)>>_systemVars
              \/ schema = {} /\ (boot[p] = "createTables")'
              \/ schema # {} /\ ((boot[p] = "createUsers")' \/ (boot[p] = "userColumns")')
         /\ boot[p] = "createTables" =>
              \/ (boot[p] = "createTables")' /\ ~<<Serving(p)>>_systemVars
              \/ (schema # {})' /\ ((boot[p] = "createUsers")' \/ (boot[p] = "userColumns")')
              \/ (schema # {})' /\ NotThere(p)'
         /\ boot[p] = "createUsers" =>
              \/ (boot[p] = "createUsers")' /\ ~<<Serving(p)>>_systemVars
              \/ (boot[p] = "userColumns")'
         /\ boot[p] = "userColumns" =>
              \/ (boot[p] = "userColumns")' /\ ~<<Serving(p)>>_systemVars
              \/ Has("SendNotification") /\ (boot[p] = "endpointColumns")'
              \/ ~Has("SendNotification") /\ (boot[p] = "addSendNotification")'
         /\ boot[p] = "addSendNotification" =>
              \/ (boot[p] = "addSendNotification")' /\ ~<<Serving(p)>>_systemVars
              \/ Has("SendNotification")' /\ (boot[p] = "endpointColumns")'
              \/ (p = "service" \/ Has("SendNotification")) /\ NotThere(p)'
         /\ boot[p] = "endpointColumns" =>
              \/ (boot[p] = "endpointColumns")' /\ ~<<Serving(p)>>_systemVars
              \/ Has("AlertSentAt") /\ (boot[p] = "ready")'
              \/ ~Has("AlertSentAt") /\ (boot[p] = "addAlertSentAt")'
         /\ boot[p] = "addAlertSentAt" =>
              \/ (boot[p] = "addAlertSentAt")' /\ ~<<Serving(p)>>_systemVars
              \/ Has("AlertSentAt")' /\ (boot[p] = "ready")'
              \/ Has("AlertSentAt") /\ NotThere(p)'
         /\ boot[p] = "ready" =>
              \/ (boot[p] = "ready")' /\ ~<<Serving(p)>>_systemVars
              \/ Up(p)'
<1>1. boot[p] # "none" => ~Up(p)
  BY DEF StartInv
<1>2. CASE boot'[p] = boot[p] /\ (Up(p)' <=> Up(p))
           /\ ~<<ProgramBoots(p) \/ Serves(p)>>_systemVars
           /\ ~<<ProgramStarts(p)>>_systemVars
  BY <1>2 DEF NotThere, Serving
<1>3. CASE NotThere(p) /\ boot'[p] = "ensureCreated"
  BY <1>3 DEF NotThere
<1>4. CASE boot[p] = "ready" /\ Up(p)'
  BY <1>1, <1>4 DEF NotThere
<1>5. CASE ProgramBoots(p)
  <2>1. schema \subseteq schema'
    BY SchemaGrows
  <2>2. boot[p] # "none"
    BY <1>5, OwnBoot
  <2>3. ~Up(p) /\ ~Up(p)'
    BY <1>1, <1>5, <2>2, OwnBoot
  <2>4. schema # {} => schema' # {}
    BY <2>1
  <2>5. QED
    BY <1>5, <2>2, <2>3, <2>4, OwnBoot DEF NotThere, Has
<1>6. QED
  BY <1>2, <1>3, <1>4, <1>5, BootGoesOn

(* A program that starts on a complete schema serves in the end. *)
ComesUp(p) ==
  RolloutSpec /\ BootFairness(p) /\ Undisturbed(p) /\ <>[](schema = FullSchema) => <>[]Up(p)

LEMMA CompleteSchemaServes == \A p \in Programs : ComesUp(p)
<1> TAKE p \in Programs
<1> DEFINE Rests == ~CanGoOn(p)
           None == NotThere(p)
           Looks == boot[p] = "ensureCreated"
           Tables == boot[p] = "createTables"
           Users == boot[p] = "createUsers"
           UserCols == boot[p] = "userColumns"
           AddsSend == boot[p] = "addSendNotification"
           EndpointCols == boot[p] = "endpointColumns"
           AddsAlert == boot[p] = "addAlertSentAt"
           Ready == boot[p] = "ready"
           Full == schema = FullSchema
           Inv == SchemaInv /\ StartInv
           Served == <<Serving(p)>>_systemVars
           Started == <<ProgramStarts(p)>>_systemVars
           Step == /\ Inv /\ [RolloutNext]_systemVars /\ [~Ends(p)]_systemVars
                   /\ Wanted(p) /\ Wanted(p)' /\ Full /\ Full'
<1>1. Inv => \/ Up(p) \/ None \/ Looks \/ Tables \/ Users \/ UserCols \/ AddsSend
             \/ EndpointCols \/ AddsAlert \/ Ready
  BY DEF SchemaInv, BootTypeOK, NotThere
<1>2. Step =>
        /\ Up(p) => Up(p)'
        /\ Ready => (Ready' /\ ~Served) \/ Up(p)'
        /\ EndpointCols => (EndpointCols' /\ ~Served) \/ Ready'
        /\ UserCols => (UserCols' /\ ~Served) \/ EndpointCols'
        /\ Users => (Users' /\ ~Served) \/ UserCols'
        /\ Looks => (Looks' /\ ~Served) \/ Users' \/ UserCols'
        /\ None => (None' /\ ~Started) \/ Looks'
        /\ Tables => (Tables' /\ ~Served) \/ Users' \/ UserCols' \/ None'
        /\ AddsSend => (AddsSend' /\ ~Served) \/ EndpointCols' \/ None'
        /\ AddsAlert => (AddsAlert' /\ ~Served) \/ Ready' \/ None'
  <2> SUFFICES ASSUME Step
               PROVE  /\ Up(p) => Up(p)'
                      /\ Ready => (Ready' /\ ~Served) \/ Up(p)'
                      /\ EndpointCols => (EndpointCols' /\ ~Served) \/ Ready'
                      /\ UserCols => (UserCols' /\ ~Served) \/ EndpointCols'
                      /\ Users => (Users' /\ ~Served) \/ UserCols'
                      /\ Looks => (Looks' /\ ~Served) \/ Users' \/ UserCols'
                      /\ None => (None' /\ ~Started) \/ Looks'
                      /\ Tables => (Tables' /\ ~Served) \/ Users' \/ UserCols' \/ None'
                      /\ AddsSend => (AddsSend' /\ ~Served) \/ EndpointCols' \/ None'
                      /\ AddsAlert => (AddsAlert' /\ ~Served) \/ Ready' \/ None'
    OBVIOUS
  <2>1. schema # {} /\ Has("SendNotification") /\ Has("AlertSentAt")
    BY DEF FullSchema, Has
  <2>2. QED
    BY <2>1, BootStages
<1>3. /\ Wanted(p) /\ None => ~~CanStart(p)
      /\ Wanted(p) /\ (\/ Looks \/ Tables \/ Users \/ UserCols \/ AddsSend \/ EndpointCols
                       \/ AddsAlert \/ Ready)
           => ~Rests
      /\ <<build[p] /\ Serving(p)>>_systemVars => Served
  BY DEF Wanted, CanStart, CanGoOn, Alive, NotThere
<1>4. RolloutSpec => []Inv /\ [][RolloutNext]_systemVars
  BY SchemaInvariance, StartInvariance, PTL DEF RolloutSpec
<1>5. BootFairness(p) => /\ []<>Rests \/ []<><<Serving(p)>>_systemVars
                         /\ []<>~CanStart(p) \/ []<><<ProgramStarts(p)>>_systemVars
  BY <1>3, PTL DEF BootFairness
<1> DEFINE H == /\ []Inv /\ [][RolloutNext]_systemVars
                /\ []<>Rests \/ []<><<Serving(p)>>_systemVars
                /\ []<>~CanStart(p) \/ []<><<ProgramStarts(p)>>_systemVars
                /\ <>[]Wanted(p) /\ <>[][~Ends(p)]_systemVars /\ <>[]Full
           S1 == Up(p) \/ Ready
           S2 == S1 \/ EndpointCols
           S3 == S2 \/ UserCols
           S4 == S3 \/ Users
           S5 == S4 \/ Looks
           S6 == S5 \/ None
<1>6. H => <>[]S6
  BY <1>1, <1>2, <1>3, PTL
<1>7. H /\ <>[]S6 => <>[]S5
  BY <1>2, <1>3, PTL
<1>8. H /\ <>[]S5 => <>[]S4
  BY <1>2, <1>3, PTL
<1>9. H /\ <>[]S4 => <>[]S3
  BY <1>2, <1>3, PTL
<1>10. H /\ <>[]S3 => <>[]S2
  BY <1>2, <1>3, PTL
<1>11. H /\ <>[]S2 => <>[]S1
  BY <1>2, <1>3, PTL
<1>12. H /\ <>[]S1 => <>[]Up(p)
  BY <1>2, <1>3, PTL
<1>13. QED
  BY <1>4, <1>5, <1>6, <1>7, <1>8, <1>9, <1>10, <1>11, <1>12, PTL
  DEF Undisturbed, ComesUp

(* The web application completes the schema, whatever version the database was of: each
   refusal comes of a statement that the service was first to make, and there are but
   three such statements. *)
LEMMA WebCompletesSchema ==
  RolloutSpec /\ BootFairness("web") /\ Undisturbed("web") => <>[](schema = FullSchema)
<1> DEFINE Rests == ~CanGoOn("web")
           None == NotThere("web")
           Looks == boot["web"] = "ensureCreated"
           Tables == boot["web"] = "createTables"
           Users == boot["web"] = "createUsers"
           UserCols == boot["web"] = "userColumns"
           AddsSend == boot["web"] = "addSendNotification"
           EndpointCols == boot["web"] = "endpointColumns"
           AddsAlert == boot["web"] = "addAlertSentAt"
           Ready == boot["web"] = "ready"
           Serves1 == Up("web")
           Empty == schema = {}
           Send == Has("SendNotification")
           Alert == Has("AlertSentAt")
           Inv == SchemaInv /\ StartInv
           Served == <<Serving("web")>>_systemVars
           Started == <<ProgramStarts("web")>>_systemVars
           Step == /\ Inv /\ [RolloutNext]_systemVars /\ [~Ends("web")]_systemVars
                   /\ Wanted("web") /\ Wanted("web")'
<1>1. Inv => /\ \/ Serves1 \/ None \/ Looks \/ Tables \/ Users \/ UserCols \/ AddsSend
                \/ EndpointCols \/ AddsAlert \/ Ready
             /\ Serves1 => ~Empty /\ Send /\ Alert
             /\ Users \/ UserCols \/ AddsSend \/ EndpointCols \/ AddsAlert \/ Ready => ~Empty
             /\ EndpointCols \/ AddsAlert \/ Ready => Send
             /\ Ready => Alert
  BY DEF SchemaInv, BootTypeOK, NotThere, MarksOf, UpMeansReady, FullSchema, Has, Programs
<1>2. Step =>
        /\ (~Empty => ~Empty') /\ (Send => Send') /\ (Alert => Alert')
        /\ ~Empty /\ ~Tables => ~Tables'
        /\ Send /\ ~AddsSend => ~AddsSend'
        /\ None => (None' /\ ~Started) \/ Looks'
        /\ Looks => \/ Looks' /\ ~Served
                    \/ Empty /\ Tables'
                    \/ ~Empty /\ (Users' \/ UserCols')
        /\ Tables => (Tables' /\ ~Served) \/ (~Empty' /\ ~Tables')
        /\ Users => (Users' /\ ~Served) \/ UserCols'
        /\ UserCols => \/ UserCols' /\ ~Served
                       \/ Send /\ EndpointCols'
                       \/ ~Send /\ AddsSend'
        /\ AddsSend => (AddsSend' /\ ~Served) \/ (Send' /\ ~AddsSend')
        /\ EndpointCols => \/ EndpointCols' /\ ~Served
                           \/ Alert /\ Ready'
                           \/ ~Alert /\ AddsAlert'
        /\ AddsAlert => (AddsAlert' /\ ~Served) \/ (Alert' /\ ~AddsAlert')
  <2> SUFFICES ASSUME Step
               PROVE  /\ (~Empty => ~Empty') /\ (Send => Send') /\ (Alert => Alert')
                      /\ ~Empty /\ ~Tables => ~Tables'
                      /\ Send /\ ~AddsSend => ~AddsSend'
                      /\ None => (None' /\ ~Started) \/ Looks'
                      /\ Looks => \/ Looks' /\ ~Served
                                  \/ Empty /\ Tables'
                                  \/ ~Empty /\ (Users' \/ UserCols')
                      /\ Tables => (Tables' /\ ~Served) \/ (~Empty' /\ ~Tables')
                      /\ Users => (Users' /\ ~Served) \/ UserCols'
                      /\ UserCols => \/ UserCols' /\ ~Served
                                     \/ Send /\ EndpointCols'
                                     \/ ~Send /\ AddsSend'
                      /\ AddsSend => (AddsSend' /\ ~Served) \/ (Send' /\ ~AddsSend')
                      /\ EndpointCols => \/ EndpointCols' /\ ~Served
                                         \/ Alert /\ Ready'
                                         \/ ~Alert /\ AddsAlert'
                      /\ AddsAlert => (AddsAlert' /\ ~Served) \/ (Alert' /\ ~AddsAlert')
    OBVIOUS
  <2>1. (~Empty => ~Empty') /\ (Send => Send') /\ (Alert => Alert')
    BY SchemaGrows DEF Has
  <2>2. "web" \in Programs
    BY DEF Programs
  <2>3. \/ Serves1 \/ None \/ Looks \/ Tables \/ Users \/ UserCols \/ AddsSend
        \/ EndpointCols \/ AddsAlert \/ Ready
    BY <1>1
  <2>4. \A q \in Programs : boot'[q] # "none" => ~Up(q)'
    BY StartStep DEF StartInv
  <2>5. QED
    BY <2>1, <2>2, <2>3, <2>4, BootStages DEF NotThere
<1>3. /\ Wanted("web") /\ None => ~~CanStart("web")
      /\ Wanted("web") /\ (\/ Looks \/ Tables \/ Users \/ UserCols \/ AddsSend
                           \/ EndpointCols \/ AddsAlert)
           => ~Rests
      /\ <<build["web"] /\ Serving("web")>>_systemVars => Served
  BY DEF Wanted, CanStart, CanGoOn, Alive, NotThere
<1>4. Inv /\ ~Empty /\ Send /\ Alert => schema = FullSchema
  BY DEF SchemaInv, BootTypeOK, FullSchema, Has
<1>5. RolloutSpec => []Inv /\ [][RolloutNext]_systemVars
  BY SchemaInvariance, StartInvariance, PTL DEF RolloutSpec
<1>6. BootFairness("web") => /\ []<>Rests \/ []<><<Serving("web")>>_systemVars
                             /\ []<>~CanStart("web") \/ []<><<ProgramStarts("web")>>_systemVars
  BY <1>3, PTL DEF BootFairness
<1> DEFINE H == /\ []Inv /\ [][RolloutNext]_systemVars
                /\ []<>Rests \/ []<><<Serving("web")>>_systemVars
                /\ []<>~CanStart("web") \/ []<><<ProgramStarts("web")>>_systemVars
                /\ <>[]Wanted("web") /\ <>[][~Ends("web")]_systemVars
<1>7. H => <>[]~Empty
  BY <1>1, <1>2, <1>3, PTL
<1>8. H /\ <>[]~Empty => <>[]~Tables
  BY <1>2, <1>3, PTL
<1>9. H /\ <>[]~Empty /\ <>[]~Tables => <>[]Send
  BY <1>1, <1>2, <1>3, PTL
<1>10. H /\ <>[]Send => <>[]~AddsSend
  BY <1>2, <1>3, PTL
<1> DEFINE D == ~Empty /\ ~Tables /\ Send /\ ~AddsSend /\ ~Alert
           S1 == AddsAlert
           S2 == S1 \/ EndpointCols
           S3 == S2 \/ UserCols
           S4 == S3 \/ Users
           S5 == S4 \/ Looks
<1>11. Step /\ D /\ D' =>
         /\ None => (None' /\ ~Started) \/ S5'
         /\ S5 => S5'
         /\ (S4 => S4') /\ (S3 => S3')
         /\ (S2 => S2') /\ (S1 => S1')
         /\ Served => (S5 => S4') /\ (S4 => S3') /\ (S3 => S2') /\ (S2 => S1') /\ ~S1
  BY <1>2, <1>3
<1>12. Inv /\ D => None \/ S5
  BY <1>1
<1> DEFINE G == H /\ <>[]D
<1>13. G => <>[]S5
  BY <1>3, <1>11, <1>12, PTL
<1>14. G /\ <>[]S5 => <>[]S4
  BY <1>3, <1>11, PTL
<1>15. G /\ <>[]S4 => <>[]S3
  BY <1>3, <1>11, PTL
<1>16. G /\ <>[]S3 => <>[]S2
  BY <1>3, <1>11, PTL
<1>17. G /\ <>[]S2 => <>[]S1
  BY <1>3, <1>11, PTL
<1>18. G /\ <>[]S1 => FALSE
  BY <1>3, <1>11, PTL
<1>19. H => <>[]Alert \/ <>[]~Alert
  BY <1>2, PTL
<1>20. QED
  BY <1>4, <1>5, <1>6, <1>7, <1>8, <1>9, <1>10, <1>13, <1>14, <1>15, <1>16, <1>17, <1>18,
     <1>19, PTL DEF Undisturbed

(* Both programs come up and stay, on a database of any version and in whatever order their
   statements come: the web application completes the schema, and the service, which cannot
   do without it, is started again until then. *)
THEOREM BothServe ==
  RolloutSpec /\ BootFairness("web") /\ BootFairness("service")
  /\ Undisturbed("web") /\ Undisturbed("service")
    => <>[](Up("web") /\ Up("service"))
<1>1. "web" \in Programs /\ "service" \in Programs
  BY DEF Programs
<1>2. ComesUp("web") /\ ComesUp("service")
  BY <1>1, CompleteSchemaServes
<1>3. QED
  BY <1>2, WebCompletesSchema, PTL DEF ComesUp

-----------------------------------------------------------------------------
(* An update ends.  The new build is in place from its copy to the program's start, and
   the one the script waits for at the end is the service, started. *)
RunInv ==
  /\ at \in {"restore", "start", "starting"} => build[Current]
  /\ at = "starting" => Current = "service" /\ started["service"]

LEMMA RunStep ==
  ASSUME ScriptInv, RunInv, [RolloutNext]_systemVars
  PROVE  RunInv'
<1>1. ASSUME UNCHANGED deployVars PROVE RunInv'
  BY <1>1 DEF RunInv, deployVars, Current
<1>2. ASSUME NEW p \in Programs, ProgramStep(p) PROVE UNCHANGED deployVars
  BY <1>2 DEF ProgramStep, ProgramStarts, ProgramBoots, Serves, Obeys, Dies, Ends, rolloutVars
<1>3. LinkStep \/ UNCHANGED systemVars => UNCHANGED deployVars
  BY DEF LinkStep, rolloutVars, systemVars
<1>4. CASE at' \in {"idle", "stop"}
  BY <1>4 DEF RunInv
<1>5. CASE CopyBuild
  <2>1. at # "idle" /\ Current \in Programs
    BY <1>5, CurrentIsAProgram DEF CopyBuild, Proceed, ScriptInv, DeployTypeOK
  <2>2. build'[Current] = TRUE /\ at' = "restore" /\ Current' = Current
    BY <1>5, <2>1 DEF CopyBuild, Proceed, Current, ScriptInv, DeployTypeOK
  <2>3. QED
    BY <2>2 DEF RunInv
<1>6. CASE Stop \/ BackupPreservedFiles \/ RemoveFolderContents \/ RemoveSome
  BY <1>6 DEF Stop, BackupPreservedFiles, RemoveFolderContents, RemoveSome, Proceed, RunInv
<1>7. CASE RestorePreservedFiles
  BY <1>7 DEF RestorePreservedFiles, Proceed, RunInv, Current
<1>8. CASE StartMonitoringService
  <2>1. at' = "starting" /\ Current' = Current /\ Current = "service" /\ UNCHANGED build
    BY <1>8 DEF StartMonitoringService, Proceed, Current
  <2>2. started'["service"] = TRUE
    BY <1>8 DEF StartMonitoringService, ScriptInv, DeployTypeOK, Programs
  <2>3. build[Current]
    BY <1>8 DEF StartMonitoringService, Proceed, RunInv
  <2>4. QED
    BY <2>1, <2>2, <2>3 DEF RunInv
<1>9. CASE StartIisComponents \/ ServiceIsStarted \/ Throw \/ RunDeploy
  BY <1>4, <1>9 DEF StartIisComponents, ServiceIsStarted, NextProgram, Throw, RunDeploy
<1>10. CASE \E p \in Programs : StartByHand(p) \/ PutBackByHand(p)
  BY <1>10 DEF StartByHand, PutBackByHand, RunInv
<1>11. QED
  BY <1>1, <1>2, <1>3, <1>5, <1>6, <1>7, <1>8, <1>9, <1>10 DEF RolloutNext, ScriptStep,
     DeployStep, StartService, ServiceDidNotStart, FilesLocked, ScriptFault, OperatorStep

LEMMA RunInvariance == RolloutSpec => []RunInv
<1>1. RolloutInit => RunInv
  BY DEF RolloutInit, DeployInit, RunInv
<1>2. QED
  BY <1>1, ScriptInvariance, RunStep, PTL DEF RolloutSpec

(* Only a start by hand finds a target half updated: the script's own comes after the
   build is copied (RunInv) and the files are back (NothingInHand), and nothing touches a
   target that is not in hand. *)
LEMMA WholeStep ==
  ASSUME SchemaInv, ScriptInv, RunInv, [RolloutNext]_systemVars, NEW p \in Programs
  PROVE  /\ StartsWhole(p) => StartsWhole(p)' \/ StartByHand(p)
         /\ RunsTorn(p)' => \/ RunsTorn(p) \/ ~StartsWhole(p)
                            \/ at = "clear" /\ p = Current
<1> DEFINE Kept == Complete(p) => Complete(p)'
           Goal == /\ StartsWhole(p) => StartsWhole(p)' \/ StartByHand(p)
                   /\ RunsTorn(p)' => \/ RunsTorn(p) \/ ~StartsWhole(p)
                                      \/ at = "clear" /\ p = Current
<1> USE DEF StartsWhole, RunsTorn
<1>0. at # "idle" => Current \in Programs
  BY CurrentIsAProgram DEF ScriptInv, DeployTypeOK
<1>1. ASSUME Kept, started'[p] => started[p] \/ StartByHand(p) \/ Complete(p),
             Alive(p)' => Alive(p) \/ started[p] \/ Complete(p)
      PROVE  Goal
  BY <1>1
<1>2. ASSUME UNCHANGED deployVars, Alive(p)' => Alive(p) \/ started[p] \/ Complete(p)
      PROVE  Goal
  <2>1. Kept /\ started'[p] = started[p]
    BY <1>2 DEF deployVars, Complete
  <2> QED
    BY <1>1, <1>2, <2>1
<1>3. CASE UNCHANGED systemVars \/ LinkStep
  BY <1>2, <1>3, LinkKeepsUp, AliveStays DEF systemVars, rolloutVars
<1>4. ASSUME NEW q \in Programs, ProgramStep(q)
      PROVE  Goal
  <2>1. UNCHANGED deployVars
    BY <1>4 DEF ProgramStep, ProgramStarts, ProgramBoots, Serves, Obeys, Dies, Ends,
       rolloutVars
  <2>2. Alive(p)' => Alive(p) \/ started[p]
    BY <1>4, StepsOfPrograms
  <2> QED
    BY <1>2, <2>1, <2>2
<1>5. ASSUME p # Current \/ at \notin Hands,
             UNCHANGED <<vars, bootVars>>, started'[p] => started[p],
             \/ BackupPreservedFiles \/ RemoveFolderContents \/ CopyBuild
             \/ RestorePreservedFiles \/ RemoveSome \/ Throw
      PROVE  Goal
  <2>1. file'[p] = file[p] /\ build'[p] = build[p] /\ abandoned[p] \subseteq abandoned'[p]
    BY <1>0, <1>5 DEF ScriptInv, DeployTypeOK, BackupPreservedFiles, RemoveFolderContents,
       CopyBuild, RestorePreservedFiles, RemoveSome, Throw, HalfDone, Proceed, Hands
  <2>2. Kept
    BY <2>1 DEF Complete
  <2> QED
    BY <1>1, <1>5, <2>2, AliveStays
<1>6. ASSUME p = Current, at \in Hands,
             UNCHANGED <<vars, bootVars>>, UNCHANGED started
      PROVE  Goal
  <2>1. ~started[p]
    BY <1>6 DEF ScriptInv, RestInv, Hands, Resting
  <2>2. at = "clear" \/ ~Alive(p)'
    BY <1>6, AliveStays DEF ScriptInv, RestInv, Hands, Cleared
  <2> QED
    BY <1>6, <2>1, <2>2
<1>7. ASSUME UNCHANGED <<vars, bootVars>>,
             \/ BackupPreservedFiles \/ RemoveFolderContents \/ CopyBuild
             \/ RestorePreservedFiles \/ RemoveSome \/ Throw
      PROVE  Goal
  <2>1. UNCHANGED started
    BY <1>7 DEF BackupPreservedFiles, RemoveFolderContents, CopyBuild, RestorePreservedFiles,
       RemoveSome, Throw
  <2> QED
    BY <1>5, <1>6, <1>7, <2>1
<1>8. ASSUME UNCHANGED <<file, build, abandoned>>
      PROVE  Kept
  BY <1>8 DEF Complete
<1>9. CASE DeployStep
  <2>1. CASE Stop \/ ServiceIsStarted
    <3>1. UNCHANGED <<file, build, abandoned>> /\ (started'[p] => started[p])
      BY <2>1 DEF Stop, ServiceIsStarted, ScriptInv, DeployTypeOK
    <3> QED
      BY <1>1, <1>8, <1>9, <3>1, AliveStays DEF DeployStep
  <2>2. CASE StartIisComponents
    <3>1. UNCHANGED <<file, build, abandoned>>
      BY <2>2 DEF StartIisComponents
    <3>2. p = "web" => Complete(p)
      BY <2>2, NothingInHand DEF StartIisComponents, RunInv, Complete, Hands
    <3>3. p # "web" => started'[p] = started[p]
      BY <2>2 DEF StartIisComponents
    <3> QED
      BY <1>1, <1>8, <1>9, <3>1, <3>2, <3>3, AliveStays DEF DeployStep
  <2> QED
    BY <1>7, <1>9, <2>1, <2>2 DEF DeployStep
<1>10. CASE StartService
  <2>1. UNCHANGED <<file, build, abandoned>>
    BY <1>10 DEF StartService, StartMonitoringService
  <2>2. p = "service" => Complete(p)
    BY <1>10, NothingInHand
    DEF StartService, StartMonitoringService, Proceed, RunInv, Complete, Hands
  <2>3. p # "service" => started'[p] = started[p] /\ boot'[p] = boot[p]
    BY <1>10 DEF StartService, StartMonitoringService, Launch
  <2>4. p # "service" => (Alive(p)' <=> Alive(p))
    BY <1>10, <2>3 DEF StartService, Alive, Up, vars, clientVars, serverVars
  <2> QED
    BY <1>1, <1>8, <2>1, <2>2, <2>3, <2>4
<1>11. CASE ServiceDidNotStart \/ FilesLocked \/ ScriptFault
  BY <1>7, <1>11 DEF ServiceDidNotStart, FilesLocked, ScriptFault
<1>12. CASE OperatorStep
  <2>1. CASE RunDeploy
    BY <1>1, <1>8, <1>12, <2>1, AliveStays DEF OperatorStep, RunDeploy
  <2>2. ASSUME NEW q \in Programs, StartByHand(q)
        PROVE  Goal
    <3>1. UNCHANGED <<file, build, abandoned>> /\ (q # p => started'[p] = started[p])
      BY <2>2 DEF StartByHand, ScriptInv, DeployTypeOK
    <3> QED
      BY <1>1, <1>8, <1>12, <2>2, <3>1, AliveStays DEF OperatorStep
  <2>3. ASSUME NEW q \in Programs, PutBackByHand(q)
        PROVE  Goal
    <3>1. UNCHANGED <<started, build>>
          /\ \A f \in Files : file[p][f] = "own" \/ f \in abandoned[p] =>
               file'[p][f] = "own" \/ f \in abandoned'[p]
      BY <2>3 DEF PutBackByHand, ScriptInv, DeployTypeOK
    <3>2. Kept
      BY <3>1, OwnFiles DEF Complete
    <3> QED
      BY <1>1, <1>12, <3>1, <3>2, AliveStays DEF OperatorStep
  <2> QED
    BY <1>12, <2>1, <2>2, <2>3 DEF OperatorStep
<1> QED
  BY <1>3, <1>4, <1>9, <1>10, <1>11, <1>12 DEF RolloutNext, ScriptStep

(* The script starts no program on half an update, whatever failed before and however
   often, and none comes to run on one but by a start by hand, or because it outlived its
   stop and its target is cleared under it. *)
THEOREM RunsWhole == RolloutSpec => RunsOnItsFiles
<1>1. SchemaInv /\ ScriptInv /\ RunInv /\ [RolloutNext]_systemVars =>
        [\A p \in Programs :
           /\ StartsWhole(p) => StartsWhole(p)' \/ StartByHand(p)
           /\ RunsTorn(p)' => \/ RunsTorn(p) \/ ~StartsWhole(p)
                              \/ at = "clear" /\ p = Current]_systemVars
  BY WholeStep
<1> QED
  BY <1>1, SchemaInvariance, ScriptInvariance, RunInvariance, PTL
  DEF RolloutSpec, RunsOnItsFiles

(* Fairness of the script and of stopping, written out with the guards. *)
ScriptCanGoOn ==
  \/ at \in {"stop", "backup", "copy", "restore"}
  \/ at = "clear" /\ ~Alive(Current)
  \/ at = "start" /\ (Current = "web" \/ ~Alive("service"))
  \/ at = "starting" /\ boot["service"] = "none"
ScriptFairness == []<>~ScriptCanGoOn \/ []<><<ScriptStep>>_systemVars

CanObey(p) == ~started[p] /\ Alive(p)
StopFairness(p) == []<>~CanObey(p) \/ []<><<Obeys(p)>>_systemVars

(* The script waits for p: to be gone, or to come up. *)
Gone(p) == at = "clear" /\ Current = p
Held(p) == at = "starting" /\ p = "service"

(* Meanwhile nobody starts p, so its start goes through its statements once. *)
LEMMA HeldGoesOn ==
  ASSUME SchemaInv, StartInv, ScriptInv, [RolloutNext]_systemVars, NEW p \in Programs,
         Held(p)
  PROVE  /\ boot[p] = "none" => (boot[p] = "none")'
         /\ boot[p] = "ready" => \/ (boot[p] = "ready")' /\ ~<<Serving(p)>>_systemVars
                                 \/ (boot[p] = "none")'
         /\ boot[p] = "addAlertSentAt" =>
              \/ (boot[p] = "addAlertSentAt")' /\ ~<<Serving(p)>>_systemVars
              \/ (boot[p] = "ready")' \/ (boot[p] = "none")'
         /\ boot[p] = "endpointColumns" =>
              \/ (boot[p] = "endpointColumns")' /\ ~<<Serving(p)>>_systemVars
              \/ (boot[p] = "addAlertSentAt")' \/ (boot[p] = "ready")' \/ (boot[p] = "none")'
         /\ boot[p] = "addSendNotification" =>
              \/ (boot[p] = "addSendNotification")' /\ ~<<Serving(p)>>_systemVars
              \/ (boot[p] = "endpointColumns")' \/ (boot[p] = "none")'
         /\ boot[p] = "userColumns" =>
              \/ (boot[p] = "userColumns")' /\ ~<<Serving(p)>>_systemVars
              \/ (boot[p] = "addSendNotification")' \/ (boot[p] = "endpointColumns")'
              \/ (boot[p] = "none")'
         /\ boot[p] = "createUsers" =>
              \/ (boot[p] = "createUsers")' /\ ~<<Serving(p)>>_systemVars
              \/ (boot[p] = "userColumns")' \/ (boot[p] = "none")'
         /\ boot[p] = "createTables" =>
              \/ (boot[p] = "createTables")' /\ ~<<Serving(p)>>_systemVars
              \/ (boot[p] = "createUsers")' \/ (boot[p] = "userColumns")'
              \/ (boot[p] = "none")'
         /\ boot[p] = "ensureCreated" =>
              \/ (boot[p] = "ensureCreated")' /\ ~<<Serving(p)>>_systemVars
              \/ (boot[p] = "createTables")' \/ (boot[p] = "createUsers")'
              \/ (boot[p] = "userColumns")' \/ (boot[p] = "none")'
<1>1. ~ProgramStarts(p)
  BY DEF ProgramStarts, Held
<1>2. ~StartService
  BY DEF StartService, StartMonitoringService, Proceed, Held
<1>3. CASE ProgramBoots(p)
  <2>1. boot[p] # "none"
    BY <1>3, OwnBoot
  <2>2. QED
    BY <1>3, <2>1, OwnBoot
<1>4. CASE Serves(p)
  BY <1>4, OwnServes
<1>5. CASE Ends(p)
  BY <1>5, OwnEnd
<1>6. CASE ~ProgramStep(p)
  BY <1>2, <1>6, OthersLeaveProgram DEF ProgramStep, Serving
<1>7. QED
  BY <1>1, <1>3, <1>4, <1>5, <1>6 DEF ProgramStep, Obeys, Dies

(* A stopped program that is to go away goes. *)
GoesAway(p) ==
  RolloutSpec /\ StopFairness(p) /\ <>[]Gone(p) => <>[]~Alive(p)

LEMMA StoppedProgramsGo == \A p \in Programs : GoesAway(p)
<1> TAKE p \in Programs
<1> DEFINE Inv == SchemaInv /\ StartInv /\ ScriptInv
           There == Alive(p)
           Obeyed == <<Obeys(p)>>_systemVars
<1>1. Inv /\ Gone(p) => ~started[p]
  BY DEF ScriptInv, RestInv, Gone, Resting
<1>2. Inv /\ Gone(p) /\ There => ~~CanObey(p)
  BY <1>1 DEF CanObey
<1>3. Inv /\ [RolloutNext]_systemVars /\ Gone(p) =>
        (~There => ~There') /\ (Obeyed => ~There')
  <2> SUFFICES ASSUME Inv, [RolloutNext]_systemVars, Gone(p)
               PROVE  (~There => ~There') /\ (Obeyed => ~There')
    OBVIOUS
  <2>1. ~ProgramStarts(p) /\ ~StartService
    BY <1>1 DEF ProgramStarts, StartService, StartMonitoringService, Proceed, Gone
  <2>2. CASE ProgramBoots(p)
    <3>1. boot[p] # "none" /\ (Up(p)' <=> Up(p))
      BY <2>2, OwnBoot
    <3>2. ~Up(p)
      BY <3>1 DEF StartInv
    <3>3. Obeyed => boot'[p] = "none" \/ Ends(p)
      BY DEF Obeys
    <3> QED
      BY <3>1, <3>2, <3>3, OwnEnd DEF Alive
  <2>3. CASE Serves(p) /\ ~Ends(p) /\ ~ProgramBoots(p)
    BY <2>3, OwnServes DEF Alive, Obeys
  <2>4. CASE Ends(p)
    BY <2>4, OwnEnd DEF Alive
  <2>5. CASE ~ProgramStep(p)
    BY <2>1, <2>5, OthersLeaveProgram DEF ProgramStep, Alive
  <2> QED
    BY <2>1, <2>2, <2>3, <2>4, <2>5 DEF ProgramStep, Obeys, Dies
<1>4. RolloutSpec => []Inv /\ [][RolloutNext]_systemVars
  BY SchemaInvariance, StartInvariance, ScriptInvariance, PTL DEF RolloutSpec
<1> QED
  BY <1>2, <1>3, <1>4, PTL DEF StopFairness, GoesAway

(* And the program the script waits for comes to the end of its start. *)
StartIsOver(p) ==
  RolloutSpec /\ BootFairness(p) /\ <>[]Held(p) => <>[](boot[p] = "none")

LEMMA HeldProgramsEnd == \A p \in Programs : StartIsOver(p)
<1> TAKE p \in Programs
<1> DEFINE None == boot[p] = "none"
           Looks == boot[p] = "ensureCreated"
           Tables == boot[p] = "createTables"
           Users == boot[p] = "createUsers"
           UserCols == boot[p] = "userColumns"
           AddsSend == boot[p] = "addSendNotification"
           EndpointCols == boot[p] = "endpointColumns"
           AddsAlert == boot[p] = "addAlertSentAt"
           Ready == boot[p] = "ready"
           Inv == SchemaInv /\ StartInv /\ ScriptInv /\ RunInv
           Served == <<Serving(p)>>_systemVars
           Rests == ~CanGoOn(p)
           Step == Inv /\ [RolloutNext]_systemVars /\ Held(p)
<1>1. Inv => \/ None \/ Looks \/ Tables \/ Users \/ UserCols \/ AddsSend \/ EndpointCols
             \/ AddsAlert \/ Ready
  BY DEF SchemaInv, BootTypeOK
<1>2. Step =>
        /\ None => None'
        /\ Ready => (Ready' /\ ~Served) \/ None'
        /\ AddsAlert => (AddsAlert' /\ ~Served) \/ Ready' \/ None'
        /\ EndpointCols => (EndpointCols' /\ ~Served) \/ AddsAlert' \/ Ready' \/ None'
        /\ AddsSend => (AddsSend' /\ ~Served) \/ EndpointCols' \/ None'
        /\ UserCols => (UserCols' /\ ~Served) \/ AddsSend' \/ EndpointCols' \/ None'
        /\ Users => (Users' /\ ~Served) \/ UserCols' \/ None'
        /\ Tables => (Tables' /\ ~Served) \/ Users' \/ UserCols' \/ None'
        /\ Looks => (Looks' /\ ~Served) \/ Tables' \/ Users' \/ UserCols' \/ None'
  BY HeldGoesOn
<1>3. /\ Ready \/ AddsAlert \/ EndpointCols \/ AddsSend \/ UserCols \/ Users \/ Tables
           \/ Looks => ~None
      /\ Inv /\ Held(p) /\ Rests => None
      /\ <<build[p] /\ Serving(p)>>_systemVars => Served
  BY DEF RunInv, CanGoOn, Held
<1>4. RolloutSpec => []Inv /\ [][RolloutNext]_systemVars
  BY SchemaInvariance, StartInvariance, ScriptInvariance, RunInvariance, PTL DEF RolloutSpec
<1>5. BootFairness(p) => []<>Rests \/ []<><<Serving(p)>>_systemVars
  BY <1>3, PTL DEF BootFairness
<1> DEFINE H == /\ []Inv /\ [][RolloutNext]_systemVars
                /\ []<>Rests \/ []<><<Serving(p)>>_systemVars
                /\ <>[]Held(p)
           S1 == None \/ Ready
           S2 == S1 \/ AddsAlert
           S3 == S2 \/ EndpointCols
           S4 == S3 \/ AddsSend
           S5 == S4 \/ UserCols
           S6 == S5 \/ Users
           S7 == S6 \/ Tables
<1>6. H => <>[]S7
  BY <1>1, <1>2, <1>3, PTL
<1>7. H /\ <>[]S7 => <>[]S6
  BY <1>2, <1>3, PTL
<1>8. H /\ <>[]S6 => <>[]S5
  BY <1>2, <1>3, PTL
<1>9. H /\ <>[]S5 => <>[]S4
  BY <1>2, <1>3, PTL
<1>10. H /\ <>[]S4 => <>[]S3
  BY <1>2, <1>3, PTL
<1>11. H /\ <>[]S3 => <>[]S2
  BY <1>2, <1>3, PTL
<1>12. H /\ <>[]S2 => <>[]S1
  BY <1>2, <1>3, PTL
<1>13. H /\ <>[]S1 => <>[]None
  BY <1>2, <1>3, PTL
<1>14. QED
  BY <1>4, <1>5, <1>6, <1>7, <1>8, <1>9, <1>10, <1>11, <1>12, <1>13, PTL DEF StartIsOver

Two == todo = <<"web", "service">>

(* What a run does next, stage by stage; a fault, or the last program's start, ends it. *)
LEMMA ScriptGoesOn ==
  ASSUME ScriptInv, RunInv, [RolloutNext]_systemVars, at # "idle", at' # "idle"
  PROVE  \/ at' = at /\ todo' = todo /\ ~<<ScriptStep>>_systemVars
         \/ at = "stop" /\ at' = "backup" /\ todo' = todo
         \/ at = "backup" /\ at' = "clear" /\ todo' = todo
         \/ at = "clear" /\ at' = "copy" /\ todo' = todo
         \/ at = "copy" /\ at' = "restore" /\ todo' = todo
         \/ at = "restore" /\ at' = "start" /\ todo' = todo
         \/ at = "start" /\ at' = "starting" /\ todo' = todo /\ Current = "service"
         \/ at = "start" /\ at' = "stop" /\ Two /\ todo' = <<"service">>
            /\ StartIisComponents
<1>1. todo \in Orders \ {<<>>}
  BY DEF ScriptInv, DeployTypeOK
<1>2. CASE UNCHANGED systemVars
  BY <1>2 DEF systemVars, rolloutVars, deployVars
<1>3. ASSUME NEW p \in Programs, ProgramStep(p) PROVE UNCHANGED deployVars
  BY <1>3 DEF ProgramStep, ProgramStarts, ProgramBoots, Serves, Obeys, Dies, Ends, rolloutVars
<1>4. LinkStep => UNCHANGED deployVars
  BY DEF LinkStep, rolloutVars
<1>5. UNCHANGED at /\ UNCHANGED todo => ~ScriptStep
  BY DEF ScriptStep, DeployStep, Stop, BackupPreservedFiles, RemoveFolderContents, CopyBuild,
     RestorePreservedFiles, StartIisComponents, NextProgram, ServiceIsStarted, StartService,
     StartMonitoringService, ServiceDidNotStart, Throw, Proceed
<1>6. CASE UNCHANGED deployVars \/ FilesLocked
  BY <1>5, <1>6 DEF deployVars, FilesLocked, RemoveSome
<1>7. CASE Stop \/ BackupPreservedFiles \/ RemoveFolderContents
           \/ CopyBuild \/ RestorePreservedFiles
  BY <1>7 DEF Stop, BackupPreservedFiles, RemoveFolderContents, CopyBuild,
     RestorePreservedFiles, Proceed
<1>8. CASE StartMonitoringService
  BY <1>8 DEF StartMonitoringService, Proceed
<1>9. ASSUME NextProgram PROVE Two /\ at' = "stop" /\ todo' = <<"service">>
  <2>1. Tail(<<"web">>) = <<>> /\ Tail(<<"service">>) = <<>>
        /\ Tail(<<"web", "service">>) = <<"service">>
    OBVIOUS
  <2>2. todo' = Tail(todo) /\ todo' # <<>> /\ at' = "stop"
    BY <1>9 DEF NextProgram
  <2>3. todo \in {<<"web">>, <<"service">>, <<"web", "service">>}
    BY <1>1 DEF Orders
  <2>4. QED
    BY <2>1, <2>2, <2>3 DEF Two
<1>10. CASE StartIisComponents
  BY <1>9, <1>10 DEF StartIisComponents
<1>11. ~ServiceIsStarted
  <2>1. Two => Current # "service"
    BY DEF Two, Current
  <2>2. QED
    BY <1>9, <2>1 DEF ServiceIsStarted, RunInv
<1>12. ~Throw /\ ~OperatorStep
  BY DEF Throw, OperatorStep, RunDeploy, StartByHand, PutBackByHand
<1>13. QED
  BY <1>2, <1>3, <1>4, <1>6, <1>7, <1>8, <1>10, <1>11, <1>12 DEF RolloutNext, ScriptStep,
     DeployStep, StartService, ServiceDidNotStart, ScriptFault

(* No run of the script goes on for ever: the clearing meets no locked file any more when
   the stopped program is gone, the wait for the service ends, and each other step is
   possible when its turn comes. *)
THEOREM UpdatesEnd ==
  RolloutSpec /\ ScriptFairness /\ BootFairness("service")
  /\ StopFairness("web") /\ StopFairness("service")
    => []<>(at = "idle")
<1> DEFINE Idle == at = "idle"
           StopAt == at = "stop"
           BackupAt == at = "backup"
           ClearAt == at = "clear"
           CopyAt == at = "copy"
           RestoreAt == at = "restore"
           StartAt == at = "start"
           StartingAt == at = "starting"
           WebGone == Gone("web")
           ServiceGone == Gone("service")
           Stepped == <<ScriptStep>>_systemVars
           Inv == ScriptInv /\ RunInv
<1>1. Inv => \/ Idle \/ StopAt \/ BackupAt \/ ClearAt \/ CopyAt \/ RestoreAt
             \/ StartAt \/ StartingAt
  BY DEF ScriptInv, DeployTypeOK
<1>2. Inv /\ [RolloutNext]_systemVars /\ ~Idle /\ ~Idle' =>
        /\ StopAt => (StopAt' /\ ~Stepped) \/ BackupAt'
        /\ BackupAt => (BackupAt' /\ ~Stepped) \/ ClearAt'
        /\ ClearAt => \/ /\ ClearAt' /\ ~Stepped
                         /\ (WebGone <=> WebGone') /\ (ServiceGone <=> ServiceGone')
                      \/ CopyAt'
        /\ CopyAt => (CopyAt' /\ ~Stepped) \/ RestoreAt'
        /\ RestoreAt => (RestoreAt' /\ ~Stepped) \/ StartAt'
        /\ StartAt => (StartAt' /\ ~Stepped) \/ StartingAt' \/ (StopAt' /\ Two /\ ~Two')
        /\ StartingAt => StartingAt' /\ ~Stepped
        /\ ~Two => ~Two'
  BY ScriptGoesOn DEF Gone, Current, Two
<1>3. /\ StopAt \/ BackupAt \/ CopyAt \/ RestoreAt => ScriptCanGoOn
      /\ Inv /\ StartAt => ScriptCanGoOn
      /\ Inv /\ ClearAt => WebGone \/ ServiceGone
      /\ WebGone /\ ~Alive("web") => ScriptCanGoOn
      /\ ServiceGone /\ ~Alive("service") => ScriptCanGoOn
      /\ Inv /\ StartingAt => Held("service")
      /\ StartingAt /\ boot["service"] = "none" => ScriptCanGoOn
      /\ CopyAt => ~ClearAt
  <2>1. /\ StopAt \/ BackupAt \/ CopyAt \/ RestoreAt => ScriptCanGoOn
        /\ WebGone /\ ~Alive("web") => ScriptCanGoOn
        /\ ServiceGone /\ ~Alive("service") => ScriptCanGoOn
        /\ Inv /\ StartingAt => Held("service")
        /\ StartingAt /\ boot["service"] = "none" => ScriptCanGoOn
    BY DEF ScriptCanGoOn, Gone, Held
  <2>2. Inv /\ ~Idle => Current \in Programs
    BY CurrentIsAProgram DEF ScriptInv, DeployTypeOK
  <2>3. Inv /\ ClearAt => WebGone \/ ServiceGone
    BY <2>2 DEF Gone, Programs
  <2>4. Inv /\ StartAt => ScriptCanGoOn
    BY <2>2 DEF ScriptCanGoOn, ScriptInv, RestInv, Cleared, Programs
  <2>5. QED
    BY <2>1, <2>3, <2>4
<1>4. RolloutSpec => []Inv /\ [][RolloutNext]_systemVars
  BY ScriptInvariance, RunInvariance, PTL DEF RolloutSpec
<1>5. GoesAway("web") /\ GoesAway("service") /\ StartIsOver("service")
  <2>1. "web" \in Programs /\ "service" \in Programs
    BY DEF Programs
  <2>2. QED
    BY <2>1, HeldProgramsEnd, StoppedProgramsGo
<1> DEFINE H == /\ RolloutSpec /\ []Inv /\ [][RolloutNext]_systemVars
                /\ []<>~ScriptCanGoOn \/ []<><<ScriptStep>>_systemVars
                /\ StopFairness("web") /\ StopFairness("service")
                /\ BootFairness("service")
                /\ <>[]~Idle
           S1 == StartAt \/ StartingAt
           S2 == S1 \/ RestoreAt
           S3 == S2 \/ CopyAt
           S4 == S3 \/ ClearAt
           S5 == S4 \/ BackupAt
<1>6. H => <>[]Two \/ <>[]~Two
  BY <1>2, PTL
<1> DEFINE T == <>[]Two \/ <>[]~Two
<1>7. H /\ T => <>[]S5
  BY <1>1, <1>2, <1>3, PTL
<1>8. H /\ T /\ <>[]S5 => <>[]S4
  BY <1>2, <1>3, PTL
<1>9. H /\ <>[]ClearAt => <>[]WebGone \/ <>[]ServiceGone
  BY <1>2, <1>3, PTL
<1>10. H /\ <>[]ClearAt => FALSE
  BY <1>2, <1>3, <1>5, <1>9, PTL DEF GoesAway
<1>11. H /\ T /\ <>[]S4 => <>[]ClearAt \/ <>[]S3
  BY <1>2, PTL
<1>12. H /\ T /\ <>[]S3 => <>[]S2
  BY <1>2, <1>3, PTL
<1>13. H /\ T /\ <>[]S2 => <>[]S1
  BY <1>2, <1>3, PTL
<1>14. H /\ T /\ <>[]S1 => <>[]StartingAt
  BY <1>2, <1>3, PTL
<1>15. H /\ <>[]StartingAt => FALSE
  BY <1>2, <1>3, <1>5, PTL DEF StartIsOver
<1>16. QED
  BY <1>4, <1>6, <1>7, <1>8, <1>10, <1>11, <1>12, <1>13, <1>14, <1>15, PTL
  DEF ScriptFairness

-----------------------------------------------------------------------------
(* The system comes back.  Both programs are installed and started and no run is under way;
   one is not; and the two halves of the run that mends it. *)
Whole(p) == started[p] /\ build[p]
Mended == at = "idle" /\ Whole("web") /\ Whole("service")
Broken == at = "idle" /\ ~(Whole("web") /\ Whole("service"))
MendsBoth == at # "idle" /\ Two
MendsService == at # "idle" /\ todo = <<"service">> /\ Whole("web")

(* From some time on nothing fails, and a run is begun only to mend something. *)
NoFault == ~ScriptFault /\ (\A p \in Programs : ~Dies(p))
OnlyMending == RunDeploy => RunAgain

(* Without faults a run ends only where the service is waited for. *)
LEMMA RunEnds ==
  ASSUME ScriptInv, RunInv, [RolloutNext]_systemVars, [NoFault]_systemVars,
         at # "idle", at' = "idle"
  PROVE  \/ /\ at = "starting" /\ Current = "service" /\ ~Two
            /\ Whole("service")' /\ (Whole("web") => Whole("web")')
         \/ todo = <<"web">>
<1>1. todo \in Orders \ {<<>>}
  BY DEF ScriptInv, DeployTypeOK
<1>2. ~(UNCHANGED systemVars) /\ ~(UNCHANGED at)
  BY DEF systemVars, rolloutVars, deployVars
<1>3. \A p \in Programs : ~ProgramStep(p)
  BY <1>2 DEF ProgramStep, ProgramStarts, ProgramBoots, Serves, Obeys, Dies, Ends,
     rolloutVars, deployVars
<1>4. ~LinkStep /\ ~OperatorStep /\ ~ScriptFault
  BY <1>2 DEF LinkStep, rolloutVars, deployVars, OperatorStep, RunDeploy, StartByHand,
     PutBackByHand, NoFault
<1>5. ASSUME NextProgram PROVE Tail(todo) = <<>>
  BY <1>5 DEF NextProgram
<1>6. Two => Tail(todo) # <<>> /\ Current = "web"
  BY DEF Two, Current
<1>7. ASSUME at = "starting", UNCHANGED <<started, build>>
      PROVE  /\ at = "starting" /\ Current = "service" /\ ~Two
             /\ Whole("service")' /\ (Whole("web") => Whole("web")')
  BY <1>6, <1>7 DEF RunInv, Whole
<1>8. CASE StartIisComponents
  <2>1. Current = "web" /\ Tail(todo) = <<>>
    BY <1>5, <1>8 DEF StartIisComponents
  <2>2. Head(<<"service">>) = "service" /\ Head(<<"web", "service">>) = "web"
        /\ Tail(<<"web", "service">>) # <<>>
    OBVIOUS
  <2>3. QED
    BY <1>1, <2>1, <2>2 DEF Orders, Current
<1>9. CASE ServiceIsStarted \/ ServiceDidNotStart
  BY <1>7, <1>9 DEF ServiceIsStarted, ServiceDidNotStart, Throw, HalfDone
<1>10. QED
  BY <1>2, <1>3, <1>4, <1>8, <1>9 DEF RolloutNext, ScriptStep, DeployStep, Stop,
     BackupPreservedFiles, RemoveFolderContents, CopyBuild, RestorePreservedFiles,
     StartService, StartMonitoringService, Proceed, FilesLocked, RemoveSome

(* While the script has the service in hand it leaves the web application alone, and
   while none is under way nothing is stopped or taken away. *)
LEMMA OthersStayWhole ==
  ASSUME ScriptInv, [RolloutNext]_systemVars, NEW p \in Programs, Whole(p),
         at = "idle" \/ Current # p
  PROVE  Whole(p)' \/ (at # "idle" /\ at' = "idle")
<1> USE DEF Whole, ScriptInv, DeployTypeOK
<1>1. CASE UNCHANGED deployVars
  BY <1>1 DEF deployVars
<1>2. \A q \in Programs : ProgramStep(q) => UNCHANGED deployVars
  BY DEF ProgramStep, ProgramStarts, ProgramBoots, Serves, Obeys, Dies, Ends, rolloutVars
<1>3. LinkStep \/ UNCHANGED systemVars => UNCHANGED deployVars
  BY DEF LinkStep, systemVars, rolloutVars
<1>4. CASE Stop \/ BackupPreservedFiles \/ RemoveFolderContents \/ RemoveSome
           \/ CopyBuild \/ RestorePreservedFiles
  BY <1>4 DEF Stop, BackupPreservedFiles, RemoveFolderContents, RemoveSome, HalfDone,
     CopyBuild, RestorePreservedFiles, Proceed
<1>5. CASE StartIisComponents \/ StartMonitoringService \/ ServiceIsStarted
  BY <1>5 DEF StartIisComponents, StartMonitoringService, ServiceIsStarted, Proceed
<1>6. CASE Throw
  BY <1>6 DEF Throw
<1>7. CASE OperatorStep
  BY <1>7 DEF OperatorStep, RunDeploy, StartByHand, PutBackByHand
<1>8. QED
  BY <1>1, <1>2, <1>3, <1>4, <1>5, <1>6, <1>7 DEF RolloutNext, ScriptStep, DeployStep,
     StartService, ServiceDidNotStart, FilesLocked, ScriptFault

LEMMA MendingGoesOn ==
  ASSUME ScriptInv, RunInv, [RolloutNext]_systemVars, [NoFault]_systemVars,
         [OnlyMending]_systemVars
  PROVE  /\ Mended => Mended'
         /\ Broken => \/ Broken' /\ ~<<RunAgain>>_systemVars
                      \/ Mended' \/ MendsBoth'
         /\ MendsBoth => MendsBoth' \/ MendsService'
         /\ MendsService => MendsService' \/ Mended'
<1>1. "web" \in Programs /\ "service" \in Programs
  BY DEF Programs
<1>2. Two => Current = "web" /\ todo # <<"web">>
  BY DEF Two, Current
<1>3. todo = <<"service">> => Current = "service" /\ todo # <<"web">>
  BY DEF Current
<1>4. CASE at # "idle" /\ at' = "idle"
  <2>1. CASE MendsBoth
    BY <1>2, <1>4, <2>1, RunEnds DEF MendsBoth, MendsService, Mended, Broken
  <2>2. CASE MendsService
    BY <1>3, <1>4, <2>2, RunEnds DEF MendsBoth, MendsService, Mended, Broken, Two
  <2>3. QED
    BY <1>4, <2>1, <2>2 DEF Mended, Broken
<1>5. CASE at # "idle" /\ at' # "idle"
  <2>1. CASE MendsBoth
    <3>1. CASE todo' = todo
      BY <1>5, <2>1, <3>1 DEF MendsBoth, MendsService, Two, Mended, Broken
    <3>2. CASE at = "start" /\ Two /\ todo' = <<"service">> /\ StartIisComponents
      <4>1. build["web"]
        BY <1>2, <3>2 DEF RunInv
      <4>2. Whole("web")'
        BY <1>1, <3>2, <4>1 DEF StartIisComponents, ScriptInv, DeployTypeOK, Whole
      <4>3. QED
        BY <1>5, <2>1, <3>2, <4>2 DEF MendsBoth, MendsService, Mended, Broken, Two
    <3>3. QED
      BY <1>5, <3>1, <3>2, ScriptGoesOn
  <2>2. CASE MendsService
    <3>1. Whole("web")'
      BY <1>1, <1>3, <1>5, <2>2, OthersStayWhole DEF MendsService
    <3>2. todo' = todo
      BY <1>5, <2>2, ScriptGoesOn DEF MendsService, Two
    <3>3. QED
      BY <1>5, <2>2, <3>1, <3>2 DEF MendsBoth, MendsService, Mended, Broken, Two
  <2>3. QED
    BY <1>5, <2>1, <2>2 DEF Mended, Broken
<1>6. CASE at = "idle" /\ at' = "idle"
  <2>1. Mended => Mended'
    BY <1>1, <1>6, OthersStayWhole DEF Mended
  <2>2. ~RunAgain
    BY <1>6 DEF RunAgain, RunDeploy
  <2>3. QED
    BY <1>6, <2>1, <2>2 DEF Mended, Broken, MendsBoth, MendsService
<1>7. CASE at = "idle" /\ at' # "idle"
  <2>1. RunDeploy
    <3>1. ~(UNCHANGED systemVars) /\ ~(UNCHANGED at)
      BY <1>7 DEF systemVars, rolloutVars, deployVars
    <3>2. \A p \in Programs : ~ProgramStep(p)
      BY <3>1 DEF ProgramStep, ProgramStarts, ProgramBoots, Serves, Obeys, Dies, Ends,
         rolloutVars, deployVars
    <3>3. ~LinkStep
      BY <3>1 DEF LinkStep, rolloutVars, deployVars
    <3>4. ~ScriptStep /\ ~FilesLocked /\ ~ScriptFault
      BY <1>7 DEF ScriptStep, DeployStep, Stop, BackupPreservedFiles, RemoveFolderContents,
         CopyBuild, RestorePreservedFiles, StartIisComponents, ServiceIsStarted,
         StartService, StartMonitoringService, ServiceDidNotStart, FilesLocked, RemoveSome,
         ScriptFault, Throw, Proceed
    <3>5. OperatorStep
      BY <3>1, <3>2, <3>3, <3>4 DEF RolloutNext
    <3>6. QED
      BY <3>1, <3>5 DEF OperatorStep, StartByHand, PutBackByHand
  <2>2. RunAgain
    <3>1. ~(UNCHANGED systemVars)
      BY <1>7 DEF systemVars, rolloutVars, deployVars
    <3>2. QED
      BY <2>1, <3>1 DEF OnlyMending
  <2>3. ~Mended /\ MendsBoth'
    BY <1>1, <1>7, <2>2 DEF RunAgain, Mended, MendsBoth, Two, Whole, Programs
  <2>4. QED
    BY <1>7, <2>3 DEF MendsBoth, MendsService
<1>8. QED
  BY <1>4, <1>5, <1>6, <1>7

(* What failed runs have left in their stashes is put back, while no other is under way. *)
PutsBack(p) == PutBackByHand(p) /\ UNCHANGED <<vars, bootVars>>

LEMMA PutBackStays ==
  ASSUME ScriptInv, [RolloutNext]_systemVars, Mended, Mended', NEW p \in Programs
  PROVE  /\ abandoned[p] = {} => (abandoned[p] = {})'
         /\ PutsBack(p) => (abandoned[p] = {})'
<1> USE DEF ScriptInv, DeployTypeOK
<1>1. CASE UNCHANGED deployVars
  BY <1>1 DEF deployVars, PutsBack, PutBackByHand
<1>2. \A q \in Programs : ProgramStep(q) => UNCHANGED deployVars
  BY DEF ProgramStep, ProgramStarts, ProgramBoots, Serves, Obeys, Dies, Ends, rolloutVars
<1>3. LinkStep \/ UNCHANGED systemVars => UNCHANGED deployVars
  BY DEF LinkStep, systemVars, rolloutVars
<1>4. ~ScriptStep /\ ~FilesLocked /\ ~ScriptFault
  BY DEF Mended, ScriptStep, DeployStep, Stop, BackupPreservedFiles, RemoveFolderContents,
     CopyBuild, RestorePreservedFiles, StartIisComponents, ServiceIsStarted, StartService,
     StartMonitoringService, ServiceDidNotStart, FilesLocked, RemoveSome, ScriptFault,
     Throw, Proceed
<1>5. CASE OperatorStep
  <2>1. CASE RunDeploy
    BY <2>1 DEF RunDeploy, Mended
  <2>2. ASSUME NEW q \in Programs, StartByHand(q)
        PROVE  UNCHANGED abandoned /\ ~PutsBack(p)
    <3>1. started' # started
      BY <2>2 DEF StartByHand
    <3>2. QED
      BY <2>2, <3>1 DEF StartByHand, PutsBack, PutBackByHand
  <2>3. ASSUME NEW q \in Programs, PutBackByHand(q)
        PROVE  /\ abandoned[p] = {} => (abandoned[p] = {})'
               /\ PutsBack(p) => (abandoned[p] = {})'
    BY <2>3 DEF PutsBack, PutBackByHand
  <2>4. QED
    BY <1>5, <2>1, <2>2, <2>3 DEF OperatorStep
<1>6. QED
  BY <1>1, <1>2, <1>3, <1>4, <1>5 DEF RolloutNext

CareFairness ==
  /\ []<>~Broken \/ []<><<RunAgain>>_systemVars
  /\ \/ []<>~(at = "idle" /\ abandoned["web"] # {})
     \/ []<><<PutsBack("web")>>_systemVars
  /\ \/ []<>~(at = "idle" /\ abandoned["service"] # {})
     \/ []<><<PutsBack("service")>>_systemVars

SystemFairness ==
  /\ ScriptFairness
  /\ BootFairness("web") /\ BootFairness("service")
  /\ StopFairness("web") /\ StopFairness("service")

LEMMA SystemIsMended ==
  RolloutSpec /\ SystemFairness /\ CareFairness /\ NothingFails /\ <>[][OnlyMending]_systemVars
    => <>[]Mended
<1> DEFINE Inv == ScriptInv /\ RunInv
           Idle == at = "idle"
           Step == /\ Inv /\ [RolloutNext]_systemVars /\ [NoFault]_systemVars
                   /\ [OnlyMending]_systemVars
<1>1. Step =>
        /\ Mended => Mended'
        /\ Broken => (Broken' /\ ~<<RunAgain>>_systemVars) \/ Mended' \/ MendsBoth'
        /\ MendsBoth => MendsBoth' \/ MendsService'
        /\ MendsService => MendsService' \/ Mended'
  BY MendingGoesOn
<1>2. /\ Idle => Mended \/ Broken
      /\ MendsBoth \/ MendsService => ~Idle
  BY DEF Mended, Broken, MendsBoth, MendsService
<1>3. NothingFails => <>[][NoFault]_systemVars
  BY PTL DEF NothingFails, NoFault
<1>4. RolloutSpec => []Inv /\ [][RolloutNext]_systemVars
  BY ScriptInvariance, RunInvariance, PTL DEF RolloutSpec
<1>5. RolloutSpec /\ SystemFairness => []<>Idle
  BY UpdatesEnd, PTL DEF SystemFairness
<1> DEFINE H == /\ []Inv /\ [][RolloutNext]_systemVars
                /\ <>[][NoFault]_systemVars /\ <>[][OnlyMending]_systemVars
                /\ []<>Idle
                /\ []<>~Broken \/ []<><<RunAgain>>_systemVars
<1>6. H => <>[](Mended \/ Broken \/ MendsBoth \/ MendsService)
  BY <1>1, <1>2, PTL
<1>7. H => <>[](Mended \/ MendsBoth \/ MendsService)
  BY <1>1, <1>2, <1>6, PTL
<1>8. H => <>[]Mended
  BY <1>1, <1>2, <1>7, PTL
<1>9. QED
  BY <1>3, <1>4, <1>5, <1>8, PTL DEF CareFairness

(* SystemComesBack of any one connection: once nothing fails any more, both programs serve and
   are linked and every file of the administrator is in its place, after any failed updates
   and starts, on a database of any version. *)
THEOREM SystemComesBackByEach ==
  ASSUME NEW c \in Connections
  PROVE  RolloutSpec /\ SystemFairness /\ CareFairness /\ LinkFairness(c) =>
           (NothingFails /\ <>[][OnlyMending]_systemVars
            /\ NetworkHeals /\ <>[](retry # "cancelled")
              => <>[](LinkedBy(c) /\ FilesInPlace))
<1> DEFINE Repair == RolloutSpec /\ SystemFairness /\ CareFairness
                     /\ NothingFails /\ <>[][OnlyMending]_systemVars
           WebIn == abandoned["web"] = {}
           ServiceIn == abandoned["service"] = {}
           BothUp == Up("web") /\ Up("service")
<1>1. Repair => <>[]Mended
  BY SystemIsMended, PTL
<1>2. /\ "web" \in Programs /\ "service" \in Programs
      /\ \A p \in Programs : p = "web" \/ p = "service"
  BY DEF Programs
<1>3. Mended => Wanted("web") /\ Wanted("service")
  BY DEF Mended, Whole, Wanted
<1>4. Mended /\ [NoFault]_systemVars
        => [~Ends("web")]_systemVars /\ [~Ends("service")]_systemVars
  BY <1>2 DEF Mended, Whole, NoFault, Dies
<1>5. NothingFails => <>[][NoFault]_systemVars
  BY PTL DEF NothingFails, NoFault
<1>6. Repair => Undisturbed("web") /\ Undisturbed("service")
  BY <1>1, <1>3, <1>4, <1>5, PTL DEF Undisturbed
<1>7. Repair => <>[]BothUp
  BY <1>6, BothServe, PTL DEF SystemFairness
<1>8. BothUp => webUp /\ retry # "off"
  BY DEF Up
<1>9. Repair => StaysUp
  BY <1>7, <1>8, PTL DEF StaysUp
<1>10. Repair /\ LinkFairness(c) /\ NetworkHeals /\ <>[](retry # "cancelled")
         => <>[]LinkedBy(c)
  BY <1>9, RolloutRunsTheLink, LinkComesBackByEach, PTL
<1>11. ScriptInv /\ [RolloutNext]_systemVars /\ Mended /\ Mended' =>
         /\ WebIn => WebIn'
         /\ PutsBack("web") => WebIn'
         /\ ServiceIn => ServiceIn'
         /\ PutsBack("service") => ServiceIn'
  BY <1>2, PutBackStays
<1>12. /\ Mended => at = "idle"
       /\ (at = "idle" /\ abandoned["web"] # {}) <=> (at = "idle" /\ ~WebIn)
       /\ (at = "idle" /\ abandoned["service"] # {}) <=> (at = "idle" /\ ~ServiceIn)
  BY DEF Mended
<1>13. RolloutSpec => []ScriptInv /\ [][RolloutNext]_systemVars
  BY ScriptInvariance, PTL DEF RolloutSpec
<1>14. Repair => <>[]WebIn
  BY <1>1, <1>11, <1>12, <1>13, PTL DEF CareFairness
<1>15. Repair => <>[]ServiceIn
  BY <1>1, <1>11, <1>12, <1>13, PTL DEF CareFairness
<1>16. ScriptInv /\ Mended /\ WebIn /\ ServiceIn => FilesInPlace
  BY <1>2 DEF ScriptInv, FilesSurvive, FilesInPlace, Mended
<1>17. Repair => <>[]FilesInPlace
  BY <1>1, <1>13, <1>14, <1>15, <1>16, PTL
<1>18. QED
  BY <1>10, <1>17, PTL

=============================================================================
