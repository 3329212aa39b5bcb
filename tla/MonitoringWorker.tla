--------------------------- MODULE MonitoringWorker ---------------------------
(***************************************************************************)
(* The monitoring service's EndpointMonitoringWorker, the Endpoints and    *)
(* Results tables it shares with the web application, and the operations   *)
(* of the web application on those tables.                                 *)
(*                                                                         *)
(* The worker's loop starts every due check of a round, waits for all of   *)
(* them, then pauses.  A check probes its endpoint, loads the row, sends   *)
(* the alert mail when the row carries no active alert, stores the result  *)
(* and the alert in one SaveChangesAsync, and tells the hub.  Between any  *)
(* two of these steps other checks, administrators, a failing database, a  *)
(* stop request or the death of the process can come in.                   *)
(*                                                                         *)
(* One tick is the loop's pause of five seconds.  Row ids are never used   *)
(* again, so a deleted endpoint stays deleted.                             *)
(***************************************************************************)
EXTENDS Naturals

CONSTANTS
  Endpoints,    \* the row ids that are ever used
  Unserved,     \* those whose ProviderType no registered provider serves
  MaxInterval,  \* the longest IntervalSeconds, in ticks
  MailCap       \* bound on the mails that are counted

ASSUME WorkerAssumption ==
  /\ Unserved \subseteq Endpoints
  /\ MaxInterval \in Nat \ {0}
  /\ MailCap \in Nat

VARIABLES
  (* the shared database *)
  row,        \* row[e]: "absent", "present" or "deleted"
  enabled,    \* enabled[e]: IsEnabled
  flagged,    \* flagged[e]: AlertSentAt is not null
  latest,     \* latest[e]: outcome of the newest stored result, "none" before one
  (* the service process *)
  loop,       \* "down", "sleeping" between rounds, or "batch" inside WhenAll
  stopping,   \* the stopping token is cancelled
  pause,      \* ticks left of the delay between rounds
  nextCheck,  \* the dictionary _nextCheck: ticks left until an endpoint is due
  phase,      \* phase[e]: where the check of e stands, "idle" without one
  verdict,    \* verdict[e]: what the provider answered to the check in flight
  raise,      \* raise[e]: the check in flight assigned AlertSentAt
  (* observers, which no step reads *)
  acked,      \* acked[e]: the last alert was acknowledged, none stored since
  mailed,     \* mailed[e]: alert mails of the current incident, up to MailCap
  lostSave    \* lostSave[e]: a mail of this incident went out, its save did not

dbVars == <<row, enabled, flagged, latest>>
loopVars == <<loop, stopping, pause, nextCheck>>
checkVars == <<phase, verdict, raise>>
observers == <<acked, mailed, lostSave>>
vars == <<dbVars, loopVars, checkVars, observers>>

Phases == {"idle", "probing", "probed", "alerting", "saving", "notifying"}
Verdicts == {"ok", "fail", "cancelled"}

LoopPause == 1

TypeOK ==
  /\ row \in [Endpoints -> {"absent", "present", "deleted"}]
  /\ enabled \in [Endpoints -> BOOLEAN]
  /\ flagged \in [Endpoints -> BOOLEAN]
  /\ latest \in [Endpoints -> Verdicts \union {"none"}]
  /\ loop \in {"down", "sleeping", "batch"}
  /\ stopping \in BOOLEAN
  /\ pause \in 0..LoopPause
  /\ DOMAIN nextCheck \subseteq Endpoints
  /\ \A e \in DOMAIN nextCheck : nextCheck[e] \in 0..MaxInterval
  /\ phase \in [Endpoints -> Phases]
  /\ verdict \in [Endpoints -> Verdicts]
  /\ raise \in [Endpoints -> BOOLEAN]
  /\ acked \in [Endpoints -> BOOLEAN]
  /\ mailed \in [Endpoints -> 0..MailCap]
  /\ lostSave \in [Endpoints -> BOOLEAN]

Init ==
  /\ row = [e \in Endpoints |-> "absent"]
  /\ enabled = [e \in Endpoints |-> FALSE]
  /\ flagged = [e \in Endpoints |-> FALSE]
  /\ latest = [e \in Endpoints |-> "none"]
  /\ loop = "down"
  /\ stopping = FALSE
  /\ pause = 0
  /\ nextCheck = [e \in {} |-> 0]
  /\ phase = [e \in Endpoints |-> "idle"]
  /\ verdict = [e \in Endpoints |-> "ok"]
  /\ raise = [e \in Endpoints |-> FALSE]
  /\ acked = [e \in Endpoints |-> FALSE]
  /\ mailed = [e \in Endpoints |-> 0]
  /\ lostSave = [e \in Endpoints |-> FALSE]

-----------------------------------------------------------------------------
(* The life of the service process. *)

NoChecks == \A e \in Endpoints : phase[e] = "idle"

(* A new process has an empty schedule: every enabled endpoint is due. *)
Start ==
  /\ loop = "down"
  /\ loop' = "sleeping"
  /\ pause' = 0
  /\ UNCHANGED <<stopping, nextCheck, dbVars, checkVars, observers>>

RequestStop ==
  /\ loop # "down" /\ ~stopping
  /\ stopping' = TRUE
  /\ UNCHANGED <<loop, pause, nextCheck, dbVars, checkVars, observers>>

(* The mail of e's check went out and its result has not been stored. *)
MailUnsaved(e) == phase[e] = "saving" /\ raise[e] /\ mailed[e] > 0

ProcessGone ==
  /\ loop' = "down"
  /\ stopping' = FALSE
  /\ pause' = 0
  /\ nextCheck' = [e \in {} |-> 0]
  /\ phase' = [e \in Endpoints |-> "idle"]
  /\ verdict' = [e \in Endpoints |-> "ok"]
  /\ raise' = [e \in Endpoints |-> FALSE]
  /\ lostSave' = [e \in Endpoints |-> lostSave[e] \/ MailUnsaved(e)]
  /\ UNCHANGED <<dbVars, acked, mailed>>

(* The loop leaves through the cancelled delay once no check is in flight. *)
Exit == stopping /\ NoChecks /\ ProcessGone

Crash == loop # "down" /\ ProcessGone

(* Time passes, during a round as between rounds. *)
Tick ==
  /\ pause > 0 \/ \E e \in DOMAIN nextCheck : nextCheck[e] > 0
  /\ pause' = IF pause > 0 THEN pause - 1 ELSE 0
  /\ nextCheck' = [e \in DOMAIN nextCheck |->
                     IF nextCheck[e] > 0 THEN nextCheck[e] - 1 ELSE 0]
  /\ UNCHANGED <<loop, stopping, dbVars, checkVars, observers>>

-----------------------------------------------------------------------------
(* The loop. *)

Active == {e \in Endpoints : row[e] = "present" /\ enabled[e]}

IsDueOnlyOnce(e) == e \notin DOMAIN nextCheck
IsDue(e) == e \notin DOMAIN nextCheck \/ nextCheck[e] = 0

Due == {e \in Active : IsDue(e)}

(* now.AddSeconds(IntervalSeconds), as ticks from now. *)
StampAfterPause(interval) == interval + LoopPause
Stamp(interval) == interval

(* Starts the due checks, stamps their next time and drops the entries of
   endpoints that are no longer active.  The interval of a row is whatever an
   administrator last stored.  A check without a provider is over at once. *)
RunDueChecks ==
  /\ loop = "sleeping" /\ pause = 0 /\ ~stopping
  /\ \E interval \in [Endpoints -> 1..MaxInterval] :
       nextCheck' = [e \in Active |->
                       IF e \in Due THEN Stamp(interval[e]) ELSE nextCheck[e]]
  /\ phase' = [e \in Endpoints |->
                 IF e \in Due \ Unserved THEN "probing" ELSE phase[e]]
  /\ loop' = "batch"
  /\ UNCHANGED <<stopping, pause, verdict, raise, dbVars, observers>>

(* The query for the enabled endpoints failed: the loop logs it, and pauses. *)
LoadFaults ==
  /\ loop = "sleeping" /\ pause = 0 /\ ~stopping
  /\ pause' = LoopPause
  /\ UNCHANGED <<loop, stopping, nextCheck, dbVars, checkVars, observers>>

(* Task.WhenAll: every task of the round has completed or thrown. *)
SomeTaskEnded == \E e \in Endpoints : phase[e] = "idle"
RoundIsOver == NoChecks

(* The loop logs what a task threw, and pauses. *)
FinishRound ==
  /\ loop = "batch" /\ RoundIsOver
  /\ loop' = "sleeping"
  /\ pause' = LoopPause
  /\ UNCHANGED <<stopping, nextCheck, dbVars, checkVars, observers>>

-----------------------------------------------------------------------------
(* One check. *)

(* The provider answers; an exception of it is a failure like any other, and a
   cancelled token makes it throw. *)
Probe(e) ==
  /\ phase[e] = "probing"
  /\ \E v \in {"ok", "fail"} \union (IF stopping THEN {"cancelled"} ELSE {}) :
       verdict' = [verdict EXCEPT ![e] = v]
  /\ phase' = [phase EXCEPT ![e] = "probed"]
  /\ UNCHANGED <<raise, dbVars, loopVars, observers>>

(* Every database call of a check takes the stopping token. *)
IgnoreToken == TRUE
TokenAllows == ~stopping

(* The loaded row exists, the result is a failure and no alert is active. *)
NeedsAlertAlways(e) == row[e] = "present" /\ verdict[e] # "ok"
NeedsAlertOnTransition(e) == NeedsAlertAlways(e) /\ ~flagged[e] /\ latest[e] # "fail"
NeedsAlert(e) ==
  /\ row[e] = "present"
  /\ verdict[e] # "ok"
  /\ ~flagged[e]

LoadEndpoint(e) ==
  /\ phase[e] = "probed" /\ TokenAllows
  /\ phase' = [phase EXCEPT ![e] = IF NeedsAlert(e) THEN "alerting" ELSE "saving"]
  /\ UNCHANGED <<verdict, raise, dbVars, loopVars, observers>>

(* SendAlertAsync returns normally when the mail is sent, when there is nothing
   to send it with or no one to send it to, and when SMTP fails. *)
SendAlertAsync(e, sent) ==
  mailed' = [mailed EXCEPT ![e] = IF sent /\ @ < MailCap THEN @ + 1 ELSE @]

(* The caller assigns AlertSentAt whether or not a mail went out. *)
SendAlertOrLeaveUnset(e) ==
  /\ phase[e] = "alerting"
  /\ \E sent \in BOOLEAN :
       SendAlertAsync(e, sent) /\ raise' = [raise EXCEPT ![e] = sent]
  /\ phase' = [phase EXCEPT ![e] = "saving"]
  /\ UNCHANGED <<verdict, acked, lostSave, dbVars, loopVars>>
SendAlert(e) ==
  /\ phase[e] = "alerting"
  /\ \E sent \in BOOLEAN : SendAlertAsync(e, sent)
  /\ raise' = [raise EXCEPT ![e] = TRUE]
  /\ phase' = [phase EXCEPT ![e] = "saving"]
  /\ UNCHANGED <<verdict, acked, lostSave, dbVars, loopVars>>

(* A recovery leaves the alert as it is; only what the check assigned is
   written. *)
ClearedOnRecovery(e) == verdict[e] # "ok" /\ (flagged[e] \/ raise[e])
FlagAfterSave(e) == flagged[e] \/ raise[e]

(* One transaction stores the result and the alert; a row deleted meanwhile
   makes it fail. *)
SaveChanges(e) ==
  /\ phase[e] = "saving" /\ TokenAllows
  /\ row[e] = "present"
  /\ latest' = [latest EXCEPT ![e] = verdict[e]]
  /\ flagged' = [flagged EXCEPT ![e] = FlagAfterSave(e)]
  /\ acked' = [acked EXCEPT ![e] = @ /\ ~FlagAfterSave(e)]
  /\ phase' = [phase EXCEPT ![e] = "notifying"]
  /\ UNCHANGED <<row, enabled, verdict, raise, mailed, lostSave, loopVars>>

CheckOver(e) ==
  /\ phase' = [phase EXCEPT ![e] = "idle"]
  /\ verdict' = [verdict EXCEPT ![e] = "ok"]
  /\ raise' = [raise EXCEPT ![e] = FALSE]

(* NotifyCheckCompletedAsync never throws, connected or not. *)
NotifyHub(e) ==
  /\ phase[e] = "notifying"
  /\ CheckOver(e)
  /\ UNCHANGED <<dbVars, loopVars, observers>>

(* Anything after the probe can throw: the database is locked, the row is gone,
   the token is cancelled, an address of the message does not parse.  The task
   fails, nothing of it is stored. *)
CheckFaults(e) ==
  /\ phase[e] \in {"probed", "alerting", "saving"}
  /\ CheckOver(e)
  /\ lostSave' = [lostSave EXCEPT ![e] = @ \/ MailUnsaved(e)]
  /\ UNCHANGED <<acked, mailed, dbVars, loopVars>>

CheckStep(e) ==
  \/ Probe(e)
  \/ LoadEndpoint(e)
  \/ SendAlert(e)
  \/ SaveChanges(e)
  \/ NotifyHub(e)
  \/ CheckFaults(e)

-----------------------------------------------------------------------------
(* The administrators' operations on the same rows.  Each takes effect with its
   SaveChangesAsync, on whatever the row has become since the page was loaded. *)

CreateEndpoint(e) ==
  /\ row[e] = "absent"
  /\ row' = [row EXCEPT ![e] = "present"]
  /\ \E on \in BOOLEAN : enabled' = [enabled EXCEPT ![e] = on]
  /\ UNCHANGED <<flagged, latest, loopVars, checkVars, observers>>

(* The switch on the list, or the dialog, which stores its own copy. *)
SetEnabled(e) ==
  /\ row[e] = "present"
  /\ \E on \in BOOLEAN : enabled' = [enabled EXCEPT ![e] = on]
  /\ UNCHANGED <<row, flagged, latest, loopVars, checkVars, observers>>

DeleteEndpoint(e) ==
  /\ row[e] = "present"
  /\ row' = [row EXCEPT ![e] = "deleted"]
  /\ enabled' = [enabled EXCEPT ![e] = FALSE]
  /\ flagged' = [flagged EXCEPT ![e] = FALSE]
  /\ latest' = [latest EXCEPT ![e] = "none"]
  /\ acked' = [acked EXCEPT ![e] = FALSE]
  /\ UNCHANGED <<mailed, lostSave, loopVars, checkVars>>

(* Clearing an alert ends the incident the observers count mails of. *)
Acknowledge(e) ==
  /\ row[e] = "present" /\ flagged[e]
  /\ flagged' = [flagged EXCEPT ![e] = FALSE]
  /\ acked' = [acked EXCEPT ![e] = TRUE]
  /\ mailed' = [mailed EXCEPT ![e] = 0]
  /\ lostSave' = [lostSave EXCEPT ![e] = FALSE]
  /\ UNCHANGED <<row, enabled, latest, loopVars, checkVars>>

AdminStep(e) ==
  \/ CreateEndpoint(e)
  \/ SetEnabled(e)
  \/ DeleteEndpoint(e)
  \/ Acknowledge(e)

-----------------------------------------------------------------------------
Next ==
  \/ Start
  \/ RequestStop
  \/ Exit
  \/ Crash
  \/ Tick
  \/ RunDueChecks
  \/ LoadFaults
  \/ FinishRound
  \/ \E e \in Endpoints : CheckStep(e) \/ AdminStep(e)

Spec == Init /\ [][Next]_vars

(* Providers, SMTP and the database answer or time out, the loop is one
   background task, and time passes.  Nothing makes an administrator act or a
   stopped service start. *)
Fairness ==
  /\ WF_vars(Tick)
  /\ WF_vars(RunDueChecks)
  /\ WF_vars(FinishRound)
  /\ \A e \in Endpoints : WF_vars(CheckStep(e))

FairSpec == Spec /\ Fairness

-----------------------------------------------------------------------------
(* What the worker must never do. *)

(* An endpoint whose newest stored result is a failure carries an active alert,
   unless an administrator acknowledged the alert and none was stored since:
   result and flag are stored together, whatever faults, stops and crashes come
   between the probe and SaveChangesAsync. *)
UnflaggedFailureWasAcknowledged ==
  \A e \in Endpoints : latest[e] = "fail" /\ ~flagged[e] => acked[e]

(* One mail per incident ("one alert per incident", README): a second one is
   sent only if the save that should have remembered the first was lost. *)
OneMailPerIncident ==
  \A e \in Endpoints : mailed[e] > 1 => lostSave[e]

(* A check cut short by the service's own stop never becomes a stored outage:
   the token that made the provider throw also stops the save. *)
ShutdownIsNoOutage == \A e \in Endpoints : latest[e] # "cancelled"

(* Mail goes out only while the stored row has no active alert, although the
   row was read before the recipients were queried and the message sent. *)
NoMailWhileFlagged ==
  [][\A e \in Endpoints : mailed'[e] > mailed[e] => ~flagged[e]]_vars

(* A round never starts while a check of an earlier one is still in flight. *)
RoundsDoNotOverlap == [][RunDueChecks => NoChecks]_vars

(* The rows, seen through the alert flag, behave as the ledger promises. *)
Ledger == INSTANCE AlertLedger
            WITH Endpoints <- Endpoints, latest <- latest, flagged <- flagged, acked <- acked
AlertLedgerSpec == Ledger!LedgerSpec

(* What README.md says of a recovery: AlertSentAt is cleared.  The code keeps it
   until it is acknowledged. *)
RecoveryClearsAlert == \A e \in Endpoints : latest[e] = "ok" => ~flagged[e]

-----------------------------------------------------------------------------
(* What the worker must keep doing. *)

StaysActive(e) == <>[](e \in Active /\ loop # "down" /\ ~stopping)

RoundsLoad == <>[][~LoadFaults]_vars

(* An endpoint that stays enabled, while the service stays up and can read the
   table, is checked again and again, whatever the other endpoints' checks and
   its own faults do. *)
EnabledEndpointsKeepBeingChecked ==
  \A e \in Endpoints \ Unserved :
    StaysActive(e) /\ RoundsLoad => []<>(phase[e] = "probing")

(* If from some time on every check of it fails and none faults, its alert is
   active again and again, however often it is acknowledged. *)
LastingFailureIsFlagged ==
  \A e \in Endpoints \ Unserved :
    /\ StaysActive(e) /\ RoundsLoad
    /\ <>[](phase[e] \in {"probed", "saving"} => verdict[e] = "fail")
    /\ <>[][~CheckFaults(e)]_vars
    => []<>flagged[e]

=============================================================================
