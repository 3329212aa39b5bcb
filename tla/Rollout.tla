------------------------------- MODULE Rollout -------------------------------
(***************************************************************************)
(* The installed system through updates: the script of Deployment stops    *)
(* and starts the two programs, which bring the database up to date as in  *)
(* StartUp before they serve, and are connected by the link of HubLink     *)
(* while both do.                                                          *)
(***************************************************************************)
EXTENDS HubLink, Deployment

rolloutVars == <<bootVars, deployVars>>
systemVars == <<vars, rolloutVars>>

Up(p) == IF p = "web" THEN webUp ELSE retry # "off"
Alive(p) == Up(p) \/ boot[p] # "none"

WholeTypeOK == TypeOK /\ BootTypeOK /\ DeployTypeOK

RolloutInit == Init /\ BootInit /\ DeployInit

-----------------------------------------------------------------------------
(* The programs. *)

(* Nobody checks that the build is complete. *)
Launch(p) ==
  /\ ~Alive(p)
  /\ boot' = [boot EXCEPT ![p] = "ensureCreated"]
  /\ UNCHANGED schema

(* IIS starts the web application for a request; Windows, or somebody, the service. *)
ProgramStarts(p) ==
  /\ started[p] /\ ~(p = "service" /\ at = "starting")
  /\ Launch(p)
  /\ UNCHANGED <<vars, deployVars>>

ProgramBoots(p) == BootStep(p) /\ UNCHANGED <<vars, deployVars>>

Serves(p) ==
  /\ Goes(p, "ready", "none") /\ UNCHANGED schema
  /\ IF p = "web" THEN WebStarts ELSE StartAsync
  /\ UNCHANGED deployVars

Ends(p) ==
  \/ BootFault(p) /\ UNCHANGED <<vars, deployVars>>
  \/ p = "web" /\ WebStops /\ UNCHANGED rolloutVars
  \/ p = "service" /\ StopAsync /\ UNCHANGED rolloutVars

(* Stopped by the script (unless a refused statement ends it first), or by a fault. *)
Obeys(p) == ~started[p] /\ (Ends(p) \/ (ProgramBoots(p) /\ boot'[p] = "none"))
Dies(p) == started[p] /\ Ends(p)

-----------------------------------------------------------------------------
(* The script.  A process that outlives its stop keeps the files it runs from locked:
   clearing its target is tried in vain until it is gone, or given up. *)

DeployStep ==
  /\ \/ Stop \/ BackupPreservedFiles
     \/ RemoveFolderContents /\ ~Alive(Current)
     \/ CopyBuild \/ RestorePreservedFiles \/ StartIisComponents
     \/ ServiceIsStarted /\ Up("service")
  /\ UNCHANGED <<vars, bootVars>>

FilesLocked ==
  /\ RemoveSome /\ Alive(Current)
  /\ UNCHANGED <<vars, bootVars>>

StartService ==
  /\ StartMonitoringService /\ Launch("service")
  /\ UNCHANGED vars

ServiceDidNotStart ==
  /\ at = "starting" /\ ~Alive("service") /\ Throw
  /\ UNCHANGED <<vars, bootVars>>

ScriptStep == DeployStep \/ StartService \/ ServiceDidNotStart

(* Anything else that fails; Start-Service, when Windows waits for it in vain. *)
ScriptFault ==
  /\ at = "starting" => boot["service"] # "none"
  /\ Throw
  /\ UNCHANGED <<vars, bootVars>>

-----------------------------------------------------------------------------
(* The link, while the programs serve: what starts or ends a process is above. *)
LinkStep ==
  /\ \/ CheckState \/ StartEnds \/ Wake
     \/ LoseAnswer \/ NetworkDrop \/ NoticeClosed \/ ReconnectEnds
     \/ SendCheckCompleted
     \/ \E c \in Connections :
          OnConnectedAsync(c) \/ OnDisconnectedAsync(c) \/ NotifyCheckCompleted(c)
  /\ UNCHANGED rolloutVars

(* A program is started by hand once its old process is gone. *)
OperatorStep ==
  /\ \/ RunDeploy
     \/ \E p \in Programs : (StartByHand(p) /\ ~Alive(p)) \/ PutBackByHand(p)
  /\ UNCHANGED <<vars, bootVars>>

ProgramStep(p) == ProgramStarts(p) \/ ProgramBoots(p) \/ Serves(p) \/ Obeys(p) \/ Dies(p)

RolloutNext ==
  \/ \E p \in Programs : ProgramStep(p)
  \/ ScriptStep \/ FilesLocked \/ ScriptFault \/ OperatorStep
  \/ LinkStep

(* The script and a program that starts from a complete build run to their end, one
   that is stopped goes, and the link does what HubLink says. *)
RolloutFairness ==
  /\ WF_systemVars(ScriptStep)
  /\ \A p \in Programs :
       /\ WF_systemVars(build[p] /\ (ProgramBoots(p) \/ Serves(p)))
       /\ WF_systemVars(Obeys(p))
  /\ Fairness

RolloutSpec == RolloutInit /\ [][RolloutNext]_systemVars /\ RolloutFairness

-----------------------------------------------------------------------------
(* Whatever step of whatever run fails, every file of the administrator is in the
   target, in the stash of this run, or in one that a failed run left behind. *)
FilesSurvive ==
  \A p \in Programs : \A f \in Own(p) :
    \/ file[p][f] = "own"
    \/ f \in abandoned[p]
    \/ at # "idle" /\ p = Current /\ stash[f] = "own"

(* A target is complete with its build and the administrator's files, but for those
   that a failed run has left in its stash. *)
Complete(p) == build[p] /\ \A f \in Own(p) : file[p][f] = "own" \/ f \in abandoned[p]
StartsWhole(p) == started[p] => Complete(p)
RunsTorn(p) == Alive(p) /\ ~Complete(p)

(* The script starts no program on half an update, whatever failed and however often,
   and leaves none started there: only somebody by hand does.  A program comes to run
   on half an update in that way alone, or because it outlived its stop and its target
   is cleared under it: never while a build is copied or files are put back. *)
RunsOnItsFiles ==
  [][\A p \in Programs :
       /\ StartsWhole(p) => StartsWhole(p)' \/ StartByHand(p)
       /\ RunsTorn(p)' => \/ RunsTorn(p) \/ ~StartsWhole(p)
                          \/ at = "clear" /\ p = Current
    ]_systemVars

(* A program serves only with the whole schema, whichever version the database
   was of and whoever changed it in between. *)
UpMeansReady == \A p \in Programs : Up(p) => schema = FullSchema

FilesInPlace == \A p \in Programs : \A f \in Own(p) : file[p][f] = "own"

NothingFails ==
  <>[][~ScriptFault /\ (\A p \in Programs : ~Dies(p))]_systemVars

(* A run that left a program stopped or half copied is repeated for both, and in the
   end no other is begun; what failed runs left in their stashes is put back; a
   program that is started and not running is started again. *)
RunAgain ==
  /\ \E p \in Programs : ~started[p] \/ ~build[p]
  /\ RunDeploy /\ todo' = <<"web", "service">>
  /\ UNCHANGED <<vars, bootVars>>
OperatorCares ==
  /\ <>[][RunDeploy => RunAgain]_systemVars
  /\ WF_systemVars(RunAgain)
  /\ \A p \in Programs :
       /\ WF_systemVars(PutBackByHand(p) /\ UNCHANGED <<vars, bootVars>>)
       /\ WF_systemVars(ProgramStarts(p))

(* After any failed updates and starts, the system comes back: both programs serve
   and are linked, also when they get in each other's way on an old database. *)
SystemComesBack ==
  NothingFails /\ OperatorCares /\ NetworkHeals /\ <>[](retry # "cancelled")
    => <>[](Linked /\ FilesInPlace)

=============================================================================
