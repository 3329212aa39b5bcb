------------------------------ MODULE Deployment ------------------------------
(***************************************************************************)
(* deploy.ps1, which updates the web application and then the service in   *)
(* place: stop the program, copy the administrator's files into a stash,   *)
(* clear the target, copy the new build, put the files back, start the     *)
(* program.  Any cmdlet may fail and ends the script ($ErrorActionPreference *)
(* = 'Stop'), a deletion or a copy then perhaps half done.                 *)
(*                                                                         *)
(* Of the files in a target only those the patterns preserve are told      *)
(* apart; the others are the build.                                        *)
(***************************************************************************)
EXTENDS Sequences, StartUp

CONSTANTS
  WebFiles,      \* files of the web target that the patterns preserve
  ServiceFiles,  \* those of the service target
  Shipped        \* files a new build has under the same name

Files == WebFiles \union ServiceFiles
Own(p) == IF p = "web" THEN WebFiles ELSE ServiceFiles
Brings(p) == Shipped \intersect Own(p)

VARIABLES
  started,   \* started[p]: application pool and site, or the service, are started
  build,     \* build[p]: the target holds a complete build
  file,      \* file[p][f]: whose version of f is in the target
  at,        \* where the script stands, "idle" when it does not run
  todo,      \* the programs it has yet to update, the current one first
  stash,     \* stash[f]: whose version of f is in the stash of this update
  abandoned  \* abandoned[p]: own files the target lacks, in stashes of failed runs

deployVars == <<started, build, file, at, todo, stash, abandoned>>

Versions == {"none", "own", "shipped"}
NoFiles == [f \in Files |-> "none"]
Orders == {<<>>, <<"web">>, <<"service">>, <<"web", "service">>}

DeployTypeOK ==
  /\ started \in [Programs -> BOOLEAN]
  /\ build \in [Programs -> BOOLEAN]
  /\ file \in [Programs -> [Files -> Versions]]
  /\ at \in {"idle", "stop", "backup", "clear", "copy", "restore", "start", "starting"}
  /\ todo \in Orders
  /\ at = "idle" <=> todo = <<>>
  /\ stash \in [Files -> Versions]
  /\ abandoned \in [Programs -> SUBSET Files]

(* Both programs are installed. *)
DeployInit ==
  /\ started = [p \in Programs |-> TRUE]
  /\ build = [p \in Programs |-> TRUE]
  /\ file = [p \in Programs |-> [f \in Files |-> IF f \in Own(p) THEN "own" ELSE "none"]]
  /\ at = "idle"
  /\ todo = <<>>
  /\ stash = NoFiles
  /\ abandoned = [p \in Programs |-> {}]

Current == Head(todo)

-----------------------------------------------------------------------------
(* With -SkipWeb or -SkipService the run is about one program. *)
RunDeploy ==
  /\ at = "idle"
  /\ todo' \in Orders \ {<<>>}
  /\ at' = "stop"
  /\ UNCHANGED <<started, build, file, stash, abandoned>>

Proceed(from, to) == at = from /\ at' = to /\ UNCHANGED todo

(* Stop-IisComponents and Stop-MonitoringService, until the pool or the service reports
   that it is stopped (never reported: a throw).  Its process may be there still: nobody
   waits for that of the pool, and the wait for that of the service ends after some time
   with a warning ("continuing anyway"). *)
Stop ==
  /\ Proceed("stop", "backup")
  /\ started' = [started EXCEPT ![Current] = FALSE]
  /\ UNCHANGED <<build, file, stash, abandoned>>

BackupPreservedFiles ==
  /\ Proceed("backup", "clear")
  /\ stash' = file[Current]
  /\ UNCHANGED <<started, build, file, abandoned>>

(* The target after the files S, or those of them a step touches, were deleted,
   copied or restored. *)
Without(S) == [f \in Files |-> IF f \in S THEN "none" ELSE file[Current][f]]
WithShipped(S) ==
  [f \in Files |-> IF f \in S \intersect Brings(Current) THEN "shipped" ELSE file[Current][f]]
WithoutOverwriting(S) ==
  [f \in Files |-> IF f \in S /\ file[Current][f] = "none" THEN stash[f] ELSE file[Current][f]]
WithRestored(S) ==
  [f \in Files |-> IF f \in S /\ stash[f] # "none" THEN stash[f] ELSE file[Current][f]]

RemoveFolderContents ==
  /\ Proceed("clear", "copy")
  /\ build' = [build EXCEPT ![Current] = FALSE]
  /\ file' = [file EXCEPT ![Current] = Without(Files)]
  /\ UNCHANGED <<started, stash, abandoned>>

CopyBuild ==
  /\ Proceed("copy", "restore")
  /\ build' = [build EXCEPT ![Current] = TRUE]
  /\ file' = [file EXCEPT ![Current] = WithShipped(Files)]
  /\ UNCHANGED <<started, stash, abandoned>>

RestorePreservedFiles ==
  /\ Proceed("restore", "start")
  /\ file' = [file EXCEPT ![Current] = WithRestored(Files)]
  /\ stash' = NoFiles
  /\ UNCHANGED <<started, build, abandoned>>

NextProgram ==
  /\ todo' = Tail(todo)
  /\ at' = IF todo' = <<>> THEN "idle" ELSE "stop"

(* IIS starts the program when it is asked for; Start-Service waits for it. *)
StartIisComponents ==
  /\ at = "start" /\ Current = "web"
  /\ started' = [started EXCEPT !["web"] = TRUE]
  /\ NextProgram
  /\ UNCHANGED <<build, file, stash, abandoned>>

StartMonitoringService ==
  /\ Proceed("start", "starting")
  /\ Current = "service"
  /\ started' = [started EXCEPT !["service"] = TRUE]
  /\ UNCHANGED <<build, file, stash, abandoned>>

ServiceIsStarted ==
  /\ at = "starting" /\ NextProgram
  /\ UNCHANGED <<started, build, file, stash, abandoned>>

-----------------------------------------------------------------------------
(* What a step has done to the target when it fails. *)
HalfDone ==
  \/ /\ at = "clear"
     /\ \E S \in SUBSET Files : file' = [file EXCEPT ![Current] = Without(S)]
     /\ build' \in {build, [build EXCEPT ![Current] = FALSE]}
  \/ /\ at = "copy"
     /\ \E S \in SUBSET Files : file' = [file EXCEPT ![Current] = WithShipped(S)]
     /\ UNCHANGED build
  \/ /\ at = "restore"
     /\ \E S \in SUBSET Files : file' = [file EXCEPT ![Current] = WithRestored(S)]
     /\ UNCHANGED build
  \/ at \notin {"clear", "copy", "restore"} /\ UNCHANGED <<build, file>>

(* A deletion that meets a locked file has done a part, and is tried again. *)
RemoveSome ==
  /\ at = "clear"
  /\ HalfDone
  /\ UNCHANGED <<started, at, todo, stash, abandoned>>

OwnInStash == {f \in Files : stash[f] = "own"}

(* A throw, a clearing given up after its last try among them: no statement of the
   script catches it, its stash stays where it is and its program stopped. *)
ThrowAndCleanUp ==
  /\ at # "idle"
  /\ HalfDone
  /\ at' = "idle" /\ todo' = <<>>
  /\ stash' = NoFiles
  /\ UNCHANGED <<started, abandoned>>
Throw ==
  /\ at # "idle"
  /\ HalfDone
  /\ at' = "idle" /\ todo' = <<>>
  /\ stash' = NoFiles
  /\ abandoned' = [abandoned EXCEPT ![Current] =
       @ \union {f \in OwnInStash : file'[Current][f] # "own"}]
  /\ UNCHANGED started

(* The administrator puts back what failed runs have left in their stashes. *)
PutBackByHand(p) ==
  /\ at = "idle" /\ abandoned[p] # {}
  /\ file' = [file EXCEPT ![p] = [f \in Files |-> IF f \in abandoned[p] THEN "own" ELSE @[f]]]
  /\ abandoned' = [abandoned EXCEPT ![p] = {}]
  /\ UNCHANGED <<started, build, at, todo, stash>>

(* Somebody starts what a failed run has left stopped. *)
StartByHand(p) ==
  /\ at = "idle" /\ ~started[p]
  /\ started' = [started EXCEPT ![p] = TRUE]
  /\ UNCHANGED <<build, file, at, todo, stash, abandoned>>

=============================================================================
