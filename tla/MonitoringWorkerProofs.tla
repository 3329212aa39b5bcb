------------------------ MODULE MonitoringWorkerProofs ------------------------
(***************************************************************************)
(* What holds of MonitoringWorker for every set of endpoints, every set of *)
(* unserved ones and every longest interval.                               *)
(***************************************************************************)
EXTENDS MonitoringWorker, TLAPS

(* No check is in flight outside a round. *)
RestsBetweenRounds == loop # "batch" => NoChecks

(* A verdict "cancelled" cannot outlive the stop that caused it. *)
CancelledByStop(e) == verdict[e] = "cancelled" => stopping

(* A check is of a row that exists, or existed when the round began. *)
ChecksARow(e) == row[e] = "absent" => phase[e] = "idle"

(* Only a check about to store, or that has just stored, a failure assigned the
   flag. *)
RaisedForFailure(e) ==
  raise[e] => phase[e] \in {"saving", "notifying"} /\ verdict[e] # "ok"

(* While a check is in flight nobody else raises the flag it read as unset. *)
AlertsUnflagged(e) ==
  phase[e] = "alerting" => verdict[e] # "ok" /\ ~flagged[e]

RaisesUnflagged(e) == phase[e] = "saving" /\ raise[e] => ~flagged[e]

(* A failure about to be stored without assigning the flag found it set. *)
SkippedAlertWasSet(e) ==
  phase[e] = "saving" /\ verdict[e] # "ok" /\ ~raise[e] /\ row[e] = "present"
    => flagged[e] \/ acked[e]

FlagIsFresh(e) == flagged[e] => ~acked[e]

(* A mail that went out is remembered by the flag, by the check that is about
   to store it, or was forgotten by a lost save. *)
MailIsRemembered(e) ==
  row[e] # "deleted" /\ mailed[e] > 0
    => flagged[e] \/ lostSave[e] \/ MailUnsaved(e)

AlertsAgainAfterLoss(e) == phase[e] = "alerting" /\ mailed[e] > 0 => lostSave[e]

EndpointInv(e) ==
  /\ ChecksARow(e)
  /\ CancelledByStop(e)
  /\ RaisedForFailure(e)
  /\ AlertsUnflagged(e)
  /\ RaisesUnflagged(e)
  /\ SkippedAlertWasSet(e)
  /\ FlagIsFresh(e)
  /\ MailIsRemembered(e)
  /\ AlertsAgainAfterLoss(e)
  /\ latest[e] # "cancelled"
  /\ latest[e] = "fail" /\ ~flagged[e] => acked[e]
  /\ mailed[e] > 1 => lostSave[e]

IInv ==
  /\ TypeOK
  /\ RestsBetweenRounds
  /\ \A e \in Endpoints : EndpointInv(e)

-----------------------------------------------------------------------------
(* Every variable keeps its type: type correctness of the worker, its rows and
   its observers. *)

LEMMA TypeInit == Init => TypeOK
<1> SUFFICES ASSUME Init PROVE TypeOK
  OBVIOUS
<1>1. DOMAIN nextCheck = {}
  BY Zenon DEF Init
<1>2. /\ DOMAIN nextCheck \subseteq Endpoints
      /\ \A e \in DOMAIN nextCheck : nextCheck[e] \in 0..MaxInterval
  BY <1>1
<1>3. /\ loop \in {"down", "sleeping", "batch"}
      /\ stopping \in BOOLEAN
      /\ pause \in 0..LoopPause
  <2>1. loop = "down" /\ stopping = FALSE /\ pause = 0
    BY Zenon DEF Init
  <2>2. stopping \in BOOLEAN
    BY <2>1, Zenon
  <2>3. QED
    BY <2>1, <2>2 DEF LoopPause
<1>4. /\ row \in [Endpoints -> {"absent", "present", "deleted"}]
      /\ enabled \in [Endpoints -> BOOLEAN]
      /\ flagged \in [Endpoints -> BOOLEAN]
      /\ latest \in [Endpoints -> Verdicts \union {"none"}]
  BY DEF Init, Verdicts
<1>5. /\ phase \in [Endpoints -> Phases]
      /\ verdict \in [Endpoints -> Verdicts]
      /\ raise \in [Endpoints -> BOOLEAN]
  BY DEF Init, Phases, Verdicts
<1>6. /\ acked \in [Endpoints -> BOOLEAN]
      /\ mailed \in [Endpoints -> 0..MailCap]
      /\ lostSave \in [Endpoints -> BOOLEAN]
  BY WorkerAssumption DEF WorkerAssumption, Init
<1>7. QED
  BY <1>2, <1>3, <1>4, <1>5, <1>6 DEF TypeOK

(* What is left when the service process is gone: the rows, an empty schedule,
   no check, and the memory of the mails whose save was lost. *)
LEMMA ProcessGoneEffect ==
  ASSUME TypeOK, ProcessGone
  PROVE  /\ loop' = "down" /\ stopping' = FALSE /\ pause' = 0
         /\ DOMAIN nextCheck' = {}
         /\ phase' = [e \in Endpoints |-> "idle"]
         /\ verdict' = [e \in Endpoints |-> "ok"]
         /\ raise' = [e \in Endpoints |-> FALSE]
         /\ lostSave' \in [Endpoints -> BOOLEAN]
         /\ \A e \in Endpoints : lostSave'[e] <=> lostSave[e] \/ MailUnsaved(e)
         /\ UNCHANGED <<row, enabled, flagged, latest, acked, mailed>>
<1>1. /\ loop' = "down" /\ stopping' = FALSE /\ pause' = 0
      /\ phase' = [e \in Endpoints |-> "idle"]
      /\ verdict' = [e \in Endpoints |-> "ok"]
      /\ raise' = [e \in Endpoints |-> FALSE]
  BY DEF ProcessGone
<1>2. nextCheck' = [e \in {} |-> 0]
  BY DEF ProcessGone
<1>3. DOMAIN nextCheck' = {}
  BY <1>2, Zenon
<1>4. lostSave' = [e \in Endpoints |-> lostSave[e] \/ MailUnsaved(e)]
  BY DEF ProcessGone
<1>5. lostSave' \in [Endpoints -> BOOLEAN]
  <2>1. \A e \in Endpoints : (lostSave[e] \/ MailUnsaved(e)) \in BOOLEAN
    BY Zenon DEF MailUnsaved
  <2>2. QED
    BY <1>4, <2>1, Zenon
<1>6. \A e \in Endpoints : lostSave'[e] <=> lostSave[e] \/ MailUnsaved(e)
  BY <1>4, Zenon
<1>7. UNCHANGED <<row, enabled, flagged, latest, acked, mailed>>
  BY DEF ProcessGone, dbVars
<1>8. QED
  BY <1>1, <1>3, <1>5, <1>6, <1>7

LEMMA TypeStep == TypeOK /\ [Next]_vars => TypeOK'
<1> SUFFICES ASSUME TypeOK, [Next]_vars PROVE TypeOK'
  OBVIOUS
<1> USE DEF dbVars, loopVars, checkVars, observers, vars
<1>1. CASE Start
  BY <1>1 DEF Start, TypeOK, LoopPause
<1>2. CASE RequestStop
  BY <1>2 DEF RequestStop, TypeOK
<1>3. ASSUME ProcessGone PROVE TypeOK'
  <2>1. /\ DOMAIN nextCheck' \subseteq Endpoints
        /\ \A e \in DOMAIN nextCheck' : nextCheck'[e] \in 0..MaxInterval
    BY <1>3, ProcessGoneEffect
  <2>2. /\ phase' \in [Endpoints -> Phases]
        /\ verdict' \in [Endpoints -> Verdicts]
        /\ raise' \in [Endpoints -> BOOLEAN]
    BY <1>3, ProcessGoneEffect DEF Phases, Verdicts
  <2>3. /\ loop' \in {"down", "sleeping", "batch"}
        /\ stopping' \in BOOLEAN
        /\ pause' \in 0..LoopPause
        /\ lostSave' \in [Endpoints -> BOOLEAN]
        /\ UNCHANGED <<row, enabled, flagged, latest, acked, mailed>>
    BY <1>3, ProcessGoneEffect DEF LoopPause
  <2>4. QED
    BY <2>1, <2>2, <2>3 DEF TypeOK
<1>4. CASE Tick
  <2>1. DOMAIN nextCheck' = DOMAIN nextCheck
    BY <1>4 DEF Tick
  <2>2. ASSUME NEW e \in DOMAIN nextCheck PROVE nextCheck'[e] \in 0..MaxInterval
    BY <1>4, WorkerAssumption DEF Tick, TypeOK
  <2>3. pause' \in 0..LoopPause
    BY <1>4 DEF Tick, TypeOK, LoopPause
  <2>4. QED
    BY <1>4, <2>1, <2>2, <2>3 DEF Tick, TypeOK
<1>5. CASE RunDueChecks
  <2>1. PICK interval \in [Endpoints -> 1..MaxInterval] :
          nextCheck' = [e \in Active |->
                          IF e \in Due THEN Stamp(interval[e]) ELSE nextCheck[e]]
    BY <1>5 DEF RunDueChecks
  <2>2. /\ DOMAIN nextCheck' \subseteq Endpoints
        /\ \A e \in DOMAIN nextCheck' : nextCheck'[e] \in 0..MaxInterval
    BY <2>1, WorkerAssumption DEF Active, Due, IsDue, Stamp, TypeOK
  <2>3. phase' \in [Endpoints -> Phases]
    BY <1>5 DEF RunDueChecks, TypeOK, Phases
  <2>4. QED
    BY <1>5, <2>2, <2>3 DEF RunDueChecks, TypeOK
<1>6. CASE LoadFaults \/ FinishRound
  BY <1>6 DEF LoadFaults, FinishRound, TypeOK, LoopPause
<1>7. ASSUME NEW e \in Endpoints, CheckStep(e) PROVE TypeOK'
  <2>1. CASE Probe(e)
    BY <2>1 DEF Probe, TypeOK, Phases, Verdicts
  <2>2. CASE LoadEndpoint(e)
    BY <2>2 DEF LoadEndpoint, TypeOK, Phases
  <2>3. CASE SendAlert(e)
    BY <2>3, WorkerAssumption DEF WorkerAssumption, SendAlert, SendAlertAsync, TypeOK, Phases
  <2>4. CASE SaveChanges(e)
    BY <2>4 DEF SaveChanges, FlagAfterSave, TypeOK, Phases, Verdicts
  <2>5. CASE NotifyHub(e)
    BY <2>5 DEF NotifyHub, CheckOver, TypeOK, Phases, Verdicts
  <2>6. CASE CheckFaults(e)
    BY <2>6 DEF CheckFaults, CheckOver, MailUnsaved, TypeOK, Phases, Verdicts
  <2>7. QED
    BY <1>7, <2>1, <2>2, <2>3, <2>4, <2>5, <2>6 DEF CheckStep
<1>8. ASSUME NEW e \in Endpoints, AdminStep(e) PROVE TypeOK'
  <2>1. CASE CreateEndpoint(e)
    BY <2>1 DEF CreateEndpoint, TypeOK
  <2>2. CASE SetEnabled(e)
    BY <2>2 DEF SetEnabled, TypeOK
  <2>3. CASE DeleteEndpoint(e)
    BY <2>3 DEF DeleteEndpoint, TypeOK
  <2>4. CASE Acknowledge(e)
    BY <2>4, WorkerAssumption DEF WorkerAssumption, Acknowledge, TypeOK
  <2>5. QED
    BY <1>8, <2>1, <2>2, <2>3, <2>4 DEF AdminStep
<1>9. CASE UNCHANGED vars
  BY <1>9 DEF TypeOK
<1>10. QED
  BY <1>1, <1>2, <1>3, <1>4, <1>5, <1>6, <1>7, <1>8, <1>9
  DEF Next, Exit, Crash

(* Type correctness of every behaviour. *)
THEOREM TypeCorrect == Spec => []TypeOK
<1>1. QED
  BY TypeInit, TypeStep, PTL DEF Spec

-----------------------------------------------------------------------------
(* The inductive invariant, one action after the other.  A step of e's check or
   of an administrator on e leaves every other endpoint's part alone. *)

LEMMA InvInit == Init => IInv
<1> SUFFICES ASSUME Init PROVE IInv
  OBVIOUS
<1>1. TypeOK
  BY TypeInit
<1>2. RestsBetweenRounds
  BY Zenon DEF Init, RestsBetweenRounds, NoChecks
<1>3. ASSUME NEW e \in Endpoints PROVE EndpointInv(e)
  <2>1. /\ phase[e] = "idle" /\ verdict[e] = "ok" /\ ~raise[e]
        /\ ~flagged[e] /\ latest[e] = "none" /\ mailed[e] = 0
    BY <1>3, Zenon DEF Init
  <2>2. QED
    BY <2>1 DEF EndpointInv, ChecksARow, CancelledByStop, RaisedForFailure, AlertsUnflagged,
         RaisesUnflagged, SkippedAlertWasSet, FlagIsFresh, MailIsRemembered,
         AlertsAgainAfterLoss
<1>4. QED
  BY <1>1, <1>2, <1>3 DEF IInv

(* The part of the step that concerns one endpoint's check. *)
LEMMA CheckStepInv ==
  ASSUME TypeOK, TypeOK', NEW e \in Endpoints, CheckStep(e),
         NEW d \in Endpoints, EndpointInv(d)
  PROVE  EndpointInv(d)'
<1> USE DEF EndpointInv, ChecksARow, CancelledByStop, RaisedForFailure, AlertsUnflagged,
        RaisesUnflagged, SkippedAlertWasSet, FlagIsFresh, MailIsRemembered,
        AlertsAgainAfterLoss, MailUnsaved, TypeOK,
        dbVars, loopVars, checkVars, observers
<1>1. CASE Probe(e)
  BY <1>1 DEF Probe
<1>2. CASE LoadEndpoint(e)
  BY <1>2 DEF LoadEndpoint, NeedsAlert, TokenAllows
<1>3. CASE SendAlert(e)
  BY <1>3, WorkerAssumption DEF WorkerAssumption, SendAlert, SendAlertAsync
<1>4. CASE SaveChanges(e)
  BY <1>4 DEF SaveChanges, FlagAfterSave, TokenAllows
<1>5. CASE NotifyHub(e)
  BY <1>5 DEF NotifyHub, CheckOver
<1>6. CASE CheckFaults(e)
  BY <1>6 DEF CheckFaults, CheckOver
<1>7. QED
  BY <1>1, <1>2, <1>3, <1>4, <1>5, <1>6 DEF CheckStep

LEMMA AdminStepInv ==
  ASSUME TypeOK, TypeOK', NEW e \in Endpoints, AdminStep(e),
         NEW d \in Endpoints, EndpointInv(d)
  PROVE  EndpointInv(d)'
<1> USE DEF EndpointInv, ChecksARow, CancelledByStop, RaisedForFailure, AlertsUnflagged,
        RaisesUnflagged, SkippedAlertWasSet, FlagIsFresh, MailIsRemembered,
        AlertsAgainAfterLoss, MailUnsaved, TypeOK,
        dbVars, loopVars, checkVars, observers
<1>1. CASE CreateEndpoint(e)
  BY <1>1 DEF CreateEndpoint
<1>2. CASE SetEnabled(e)
  BY <1>2 DEF SetEnabled
<1>3. CASE DeleteEndpoint(e)
  BY <1>3 DEF DeleteEndpoint
<1>4. CASE Acknowledge(e)
  BY <1>4 DEF Acknowledge
<1>5. QED
  BY <1>1, <1>2, <1>3, <1>4 DEF AdminStep

(* The loop and the process: no step of theirs touches a row, and each check is
   started on an idle endpoint or dropped with the process. *)
LEMMA LoopStepInv ==
  ASSUME TypeOK, TypeOK', RestsBetweenRounds, NEW d \in Endpoints, EndpointInv(d),
         Start \/ RequestStop \/ Tick \/ RunDueChecks \/ LoadFaults \/ FinishRound
           \/ ProcessGone
  PROVE  EndpointInv(d)'
<1> USE DEF EndpointInv, ChecksARow, CancelledByStop, RaisedForFailure,
        AlertsUnflagged, RaisesUnflagged, SkippedAlertWasSet, FlagIsFresh,
        MailIsRemembered, AlertsAgainAfterLoss, MailUnsaved, TypeOK,
        dbVars, loopVars, checkVars, observers
<1>1. CASE Start
  BY <1>1 DEF Start
<1>2. CASE RequestStop
  BY <1>2 DEF RequestStop
<1>3. CASE Tick
  <2>1. UNCHANGED <<loop, stopping, dbVars, checkVars, observers>>
    BY <1>3 DEF Tick
  <2>2. QED
    BY <2>1
<1>4. CASE RunDueChecks
  <2>1. /\ phase[d] = "idle"
        /\ phase'[d] = phase[d] \/ (phase'[d] = "probing" /\ row[d] = "present")
        /\ UNCHANGED <<stopping, verdict, raise, dbVars, observers>>
    BY <1>4 DEF RunDueChecks, RestsBetweenRounds, NoChecks, Due, Active
  <2>2. QED
    BY <2>1
<1>5. CASE LoadFaults \/ FinishRound
  BY <1>5 DEF LoadFaults, FinishRound
<1>6. CASE ProcessGone
  <2>1. /\ phase'[d] = "idle" /\ verdict'[d] = "ok" /\ ~raise'[d]
        /\ lostSave'[d] <=> lostSave[d] \/ MailUnsaved(d)
        /\ UNCHANGED <<row, enabled, flagged, latest, acked, mailed>>
    BY <1>6, ProcessGoneEffect
  <2>2. QED
    BY <2>1
<1>7. QED
  BY <1>1, <1>2, <1>3, <1>4, <1>5, <1>6

(* Checks are started by RunDueChecks, which enters the round; FinishRound leaves
   it when none is in flight. *)
LEMMA RestStep == TypeOK /\ RestsBetweenRounds /\ [Next]_vars => RestsBetweenRounds'
<1> SUFFICES ASSUME TypeOK, RestsBetweenRounds, [Next]_vars
             PROVE  RestsBetweenRounds'
  OBVIOUS
<1> USE DEF RestsBetweenRounds, NoChecks, TypeOK,
        dbVars, loopVars, checkVars, observers, vars
<1>1. CASE Start \/ RequestStop \/ LoadFaults \/ FinishRound
  BY <1>1 DEF Start, RequestStop, LoadFaults, FinishRound, RoundIsOver
<1>2. CASE Tick
  BY <1>2 DEF Tick
<1>3. CASE RunDueChecks
  BY <1>3 DEF RunDueChecks
<1>4. ASSUME ProcessGone PROVE RestsBetweenRounds'
  BY <1>4, ProcessGoneEffect
<1>5. ASSUME NEW e \in Endpoints, CheckStep(e) PROVE RestsBetweenRounds'
  <2>1. phase[e] # "idle" /\ UNCHANGED loop
    BY <1>5 DEF CheckStep, Probe, LoadEndpoint, SendAlert, SaveChanges, NotifyHub,
         CheckFaults
  <2>2. QED
    BY <2>1
<1>6. ASSUME NEW e \in Endpoints, AdminStep(e) PROVE RestsBetweenRounds'
  BY <1>6 DEF AdminStep, CreateEndpoint, SetEnabled, DeleteEndpoint, Acknowledge
<1>7. CASE UNCHANGED vars
  BY <1>7
<1>8. QED
  BY <1>1, <1>2, <1>3, <1>4, <1>5, <1>6, <1>7 DEF Next, Exit, Crash

LEMMA InvStep == IInv /\ [Next]_vars => IInv'
<1> SUFFICES ASSUME IInv, [Next]_vars PROVE IInv'
  OBVIOUS
<1>1. TypeOK /\ TypeOK'
  BY TypeStep DEF IInv
<1>2. RestsBetweenRounds /\ RestsBetweenRounds'
  BY RestStep DEF IInv
<1>3. ASSUME NEW d \in Endpoints PROVE EndpointInv(d)'
  <2>1. EndpointInv(d)
    BY DEF IInv
  <2>2. ASSUME NEW e \in Endpoints, CheckStep(e) PROVE EndpointInv(d)'
    BY <1>1, <2>1, <2>2, CheckStepInv
  <2>3. ASSUME NEW e \in Endpoints, AdminStep(e) PROVE EndpointInv(d)'
    BY <1>1, <2>1, <2>3, AdminStepInv
  <2>4. ASSUME Start \/ RequestStop \/ Tick \/ RunDueChecks \/ LoadFaults \/ FinishRound
               \/ ProcessGone
        PROVE  EndpointInv(d)'
    BY <1>1, <1>2, <2>1, <2>4, LoopStepInv
  <2>5. CASE UNCHANGED vars
    BY <2>1, <2>5 DEF vars, dbVars, loopVars, checkVars, observers, EndpointInv,
         ChecksARow, CancelledByStop, RaisedForFailure, AlertsUnflagged,
         RaisesUnflagged, SkippedAlertWasSet, FlagIsFresh, MailIsRemembered,
         AlertsAgainAfterLoss, MailUnsaved
  <2>6. QED
    BY <2>2, <2>3, <2>4, <2>5 DEF Next, Exit, Crash
<1>4. QED
  BY <1>1, <1>2, <1>3 DEF IInv

LEMMA Invariance == Spec => []IInv
<1>1. QED
  BY InvInit, InvStep, PTL DEF Spec

-----------------------------------------------------------------------------
(* The newest stored result of an endpoint is never an unflagged failure, unless
   its alert was acknowledged: result and flag are one transaction. *)
THEOREM FailureIsFlagged == Spec => []UnflaggedFailureWasAcknowledged
<1>1. IInv => UnflaggedFailureWasAcknowledged
  BY DEF IInv, EndpointInv, UnflaggedFailureWasAcknowledged
<1>2. QED
  BY <1>1, Invariance, PTL

(* At most one mail per incident, but for saves that were lost after the mail. *)
THEOREM MailsOncePerIncident == Spec => []OneMailPerIncident
<1>1. IInv => OneMailPerIncident
  BY DEF IInv, EndpointInv, OneMailPerIncident
<1>2. QED
  BY <1>1, Invariance, PTL

(* Stopping the service never stores an outage. *)
THEOREM StopStoresNoOutage == Spec => []ShutdownIsNoOutage
<1>1. IInv => ShutdownIsNoOutage
  BY DEF IInv, EndpointInv, ShutdownIsNoOutage
<1>2. QED
  BY <1>1, Invariance, PTL

(* A mail is counted only by a check that is alerting, and such a check's row
   carries no flag. *)
THEOREM MailsOnlyUnflagged == Spec => NoMailWhileFlagged
<1>1. ASSUME IInv, [Next]_vars, NEW d \in Endpoints, mailed'[d] > mailed[d]
      PROVE  ~flagged[d]
  <2> USE <1>1 DEF vars, dbVars, loopVars, checkVars, observers
  <2>1. mailed \in [Endpoints -> 0..MailCap]
    BY DEF IInv, TypeOK
  <2>2. ASSUME UNCHANGED mailed PROVE FALSE
    BY <2>1, <2>2, WorkerAssumption DEF WorkerAssumption
  <2>3. ~(Start \/ RequestStop \/ ProcessGone \/ Tick \/ RunDueChecks \/ LoadFaults
          \/ FinishRound)
    BY <2>2 DEF Start, RequestStop, ProcessGone, Tick, RunDueChecks, LoadFaults,
         FinishRound
  <2>4. PICK e \in Endpoints : CheckStep(e) \/ AdminStep(e)
    BY <2>2, <2>3 DEF Next, Exit, Crash
  <2>5. ~AdminStep(e)
    <3>1. ASSUME Acknowledge(e) PROVE FALSE
      BY <2>1, <3>1, WorkerAssumption DEF WorkerAssumption, Acknowledge
    <3>2. QED
      BY <2>2, <3>1 DEF AdminStep, CreateEndpoint, SetEnabled, DeleteEndpoint
  <2>6. SendAlert(e)
    BY <2>2, <2>4, <2>5 DEF CheckStep, Probe, LoadEndpoint, SaveChanges, NotifyHub,
         CheckFaults
  <2>7. d = e /\ phase[d] = "alerting"
    BY <2>1, <2>6, WorkerAssumption DEF WorkerAssumption, SendAlert, SendAlertAsync
  <2>8. QED
    BY <2>7 DEF IInv, EndpointInv, AlertsUnflagged
<1>2. IInv /\ [Next]_vars
        => [\A e \in Endpoints : mailed'[e] > mailed[e] => ~flagged[e]]_vars
  BY <1>1
<1>3. QED
  BY <1>2, Invariance, PTL DEF NoMailWhileFlagged, Spec

(* A round starts only between rounds, and no check outlives its round. *)
THEOREM NoOverlap == Spec => RoundsDoNotOverlap
<1>1. IInv => (RunDueChecks => NoChecks)
  BY DEF IInv, RestsBetweenRounds, RunDueChecks
<1>2. IInv /\ [Next]_vars => [RunDueChecks => NoChecks]_vars
  BY <1>1
<1>3. QED
  BY <1>2, Invariance, PTL DEF RoundsDoNotOverlap, Spec

-----------------------------------------------------------------------------
(* Refinement: every step of the worker, of its process and of the
   administrators is a step of the alert ledger or leaves it as it is. *)

LEMMA SaveIsRecorded ==
  ASSUME IInv, NEW e \in Endpoints, SaveChanges(e)
  PROVE  \/ Ledger!RecordSuccess(e)
         \/ Ledger!RecordFailure(e)
         \/ Ledger!RecordAcknowledgedFailure(e)
<1> USE DEF IInv, TypeOK, EndpointInv
<1>1. /\ latest' = [latest EXCEPT ![e] = verdict[e]]
      /\ flagged' = [flagged EXCEPT ![e] = flagged[e] \/ raise[e]]
      /\ acked' = [acked EXCEPT ![e] = acked[e] /\ ~(flagged[e] \/ raise[e])]
      /\ phase[e] = "saving" /\ ~stopping /\ row[e] = "present"
  BY DEF SaveChanges, FlagAfterSave, TokenAllows
<1>2. verdict[e] \in {"ok", "fail"}
  BY <1>1 DEF Verdicts, CancelledByStop
<1>3. CASE verdict[e] = "ok"
  <2>1. ~raise[e]
    BY <1>3 DEF RaisedForFailure
  <2>2. flagged' = flagged /\ acked' = acked
    BY <1>1, <2>1 DEF FlagIsFresh
  <2>3. QED
    BY <1>1, <1>3, <2>2 DEF Ledger!RecordSuccess
<1>4. CASE verdict[e] = "fail" /\ (flagged[e] \/ raise[e])
  <2>1. flagged' = [flagged EXCEPT ![e] = TRUE] /\ acked' = [acked EXCEPT ![e] = FALSE]
    BY <1>1, <1>4
  <2>2. QED
    BY <1>1, <1>4, <2>1 DEF Ledger!RecordFailure
<1>5. CASE verdict[e] = "fail" /\ ~(flagged[e] \/ raise[e])
  <2>1. acked[e]
    BY <1>1, <1>5 DEF SkippedAlertWasSet
  <2>2. flagged' = flagged /\ acked' = acked
    BY <1>1, <1>5, <2>1
  <2>3. QED
    BY <1>1, <1>5, <2>1, <2>2 DEF Ledger!RecordAcknowledgedFailure
<1>6. QED
  BY <1>2, <1>3, <1>4, <1>5

LEMMA LedgerStep == IInv /\ [Next]_vars => [Ledger!LedgerNext]_Ledger!ledgerVars
<1> SUFFICES ASSUME IInv, [Next]_vars
             PROVE  [Ledger!LedgerNext]_Ledger!ledgerVars
  OBVIOUS
<1> USE DEF vars, dbVars, loopVars, checkVars, observers
<1>1. ASSUME UNCHANGED <<latest, flagged, acked>>
      PROVE  [Ledger!LedgerNext]_Ledger!ledgerVars
  BY <1>1 DEF Ledger!ledgerVars
<1>2. CASE Start \/ RequestStop \/ ProcessGone \/ Tick \/ RunDueChecks \/ LoadFaults
           \/ FinishRound
  BY <1>1, <1>2 DEF Start, RequestStop, ProcessGone, Tick, RunDueChecks, LoadFaults,
     FinishRound
<1>3. ASSUME NEW e \in Endpoints, CheckStep(e)
      PROVE  [Ledger!LedgerNext]_Ledger!ledgerVars
  <2>1. CASE SaveChanges(e)
    BY <2>1, SaveIsRecorded DEF Ledger!LedgerNext
  <2>2. CASE ~SaveChanges(e)
    BY <1>1, <1>3, <2>2 DEF CheckStep, Probe, LoadEndpoint, SendAlert, NotifyHub,
         CheckFaults
  <2>3. QED
    BY <2>1, <2>2
<1>4. ASSUME NEW e \in Endpoints, AdminStep(e)
      PROVE  [Ledger!LedgerNext]_Ledger!ledgerVars
  <2>1. CASE DeleteEndpoint(e)
    BY <2>1 DEF DeleteEndpoint, Ledger!Remove, Ledger!LedgerNext
  <2>2. CASE Acknowledge(e)
    BY <2>2 DEF Acknowledge, Ledger!Acknowledge, Ledger!LedgerNext
  <2>3. CASE CreateEndpoint(e) \/ SetEnabled(e)
    BY <1>1, <2>3 DEF CreateEndpoint, SetEnabled
  <2>4. QED
    BY <1>4, <2>1, <2>2, <2>3 DEF AdminStep
<1>5. CASE UNCHANGED vars
  BY <1>1, <1>5
<1>6. QED
  BY <1>2, <1>3, <1>4, <1>5 DEF Next, Exit, Crash

(* The worker and its rows implement the alert ledger. *)
THEOREM WorkerImplementsLedger == Spec => AlertLedgerSpec
<1>1. Init => Ledger!LedgerInit
  BY Zenon DEF Init, Ledger!LedgerInit
<1>2. QED
  BY <1>1, LedgerStep, Invariance, PTL DEF Spec, AlertLedgerSpec, Ledger!LedgerSpec

-----------------------------------------------------------------------------
(* Progress.  The provers do not know ENABLED, so the fairness of a check is written out with
   its guard: a check in flight has always a step it can take. *)
CheckFairness(e) == []<>(phase[e] = "idle") \/ []<><<CheckStep(e)>>_vars

(* Outside a check's own steps it is begun by a round, or dropped with the process. *)
LEMMA OthersLeaveCheck ==
  ASSUME IInv, [Next]_vars, NEW e \in Endpoints, ~CheckStep(e)
  PROVE  \/ phase'[e] = phase[e] /\ raise'[e] = raise[e]
         \/ loop # "batch" /\ phase[e] = "idle" /\ phase'[e] = "probing"
         \/ loop' = "down" /\ phase'[e] = "idle"
<1> USE DEF vars, dbVars, loopVars, checkVars, observers
<1>1. CASE Start \/ RequestStop \/ Tick \/ LoadFaults \/ FinishRound \/ UNCHANGED vars
  BY <1>1 DEF Start, RequestStop, Tick, LoadFaults, FinishRound
<1>2. CASE RunDueChecks
  <2>1. loop # "batch" /\ phase[e] = "idle" /\ UNCHANGED raise
    BY <1>2 DEF RunDueChecks, IInv, RestsBetweenRounds, NoChecks
  <2>2. phase'[e] \in {"probing", phase[e]}
    BY <1>2 DEF RunDueChecks
  <2>3. QED
    BY <2>1, <2>2
<1>3. CASE ProcessGone
  BY <1>3 DEF ProcessGone
<1>4. ASSUME NEW d \in Endpoints, CheckStep(d)
      PROVE  phase'[e] = phase[e] /\ raise'[e] = raise[e]
  BY <1>4 DEF CheckStep, Probe, LoadEndpoint, SendAlert, SaveChanges, NotifyHub, CheckFaults,
     CheckOver, IInv, TypeOK
<1>5. ASSUME NEW d \in Endpoints, AdminStep(d)
      PROVE  phase'[e] = phase[e] /\ raise'[e] = raise[e]
  BY <1>5 DEF AdminStep, CreateEndpoint, SetEnabled, DeleteEndpoint, Acknowledge
<1>6. QED
  BY <1>1, <1>2, <1>3, <1>4, <1>5 DEF Next, Exit, Crash

(* A check's own steps take it one way. *)
LEMMA CheckAdvances ==
  ASSUME IInv, NEW e \in Endpoints, CheckStep(e)
  PROVE  /\ phase[e] = "probing" => phase'[e] = "probed"
         /\ phase[e] = "probed" => phase'[e] \in {"alerting", "saving", "idle"}
         /\ phase[e] = "alerting" => phase'[e] \in {"saving", "idle"}
         /\ phase[e] = "saving" => phase'[e] \in {"notifying", "idle"}
         /\ phase[e] = "notifying" => phase'[e] = "idle"
         /\ phase[e] # "idle"
         /\ UNCHANGED loop
<1> USE DEF IInv, TypeOK, CheckOver, loopVars
<1>1. CASE Probe(e)
  BY <1>1 DEF Probe
<1>2. CASE LoadEndpoint(e)
  BY <1>2 DEF LoadEndpoint
<1>3. CASE SendAlert(e)
  BY <1>3 DEF SendAlert
<1>4. CASE SaveChanges(e)
  BY <1>4 DEF SaveChanges
<1>5. CASE NotifyHub(e)
  BY <1>5 DEF NotifyHub
<1>6. CASE CheckFaults(e)
  BY <1>6 DEF CheckFaults
<1>7. QED
  BY <1>1, <1>2, <1>3, <1>4, <1>5, <1>6 DEF CheckStep

(* Every check ends, whatever it meets and whatever the others do; and a round begins none
   anew, so one that lasted for ever would have nothing left to wait for.  That all checks of
   a round are over at once is then a matter of there being finitely many. *)
THEOREM ChecksEnd ==
  ASSUME NEW e \in Endpoints
  PROVE  Spec /\ CheckFairness(e) =>
           /\ []<>(phase[e] = "idle")
           /\ <>[](loop = "batch") => <>[](phase[e] = "idle")
<1> DEFINE Idle == phase[e] = "idle"
           Probing == phase[e] = "probing"
           Probed == phase[e] = "probed"
           Alerting == phase[e] = "alerting"
           Saving == phase[e] = "saving"
           Notifying == phase[e] = "notifying"
           Batch == loop = "batch"
           Move == CheckStep(e)
<1>1. /\ IInv => Idle \/ Probing \/ Probed \/ Alerting \/ Saving \/ Notifying
      /\ Probing => ~Probed /\ ~Alerting /\ ~Saving /\ ~Notifying /\ ~Idle
      /\ Probed => ~Alerting /\ ~Saving /\ ~Notifying /\ ~Idle
      /\ Alerting => ~Saving /\ ~Notifying /\ ~Idle
      /\ Saving => ~Notifying /\ ~Idle
      /\ Notifying => ~Idle
  BY DEF IInv, TypeOK, Phases
<1>2. IInv /\ IInv' /\ [Next]_vars =>
        /\ Probing => (Probing' /\ ~<<Move>>_vars) \/ Probed' \/ Idle'
        /\ Probed => (Probed' /\ ~<<Move>>_vars) \/ Alerting' \/ Saving' \/ Idle'
        /\ Alerting => (Alerting' /\ ~<<Move>>_vars) \/ Saving' \/ Idle'
        /\ Saving => (Saving' /\ ~<<Move>>_vars) \/ Notifying' \/ Idle'
        /\ Notifying => (Notifying' /\ ~<<Move>>_vars) \/ Idle'
        /\ Idle /\ Batch /\ Batch' => Idle'
  <2> SUFFICES ASSUME IInv, [Next]_vars
               PROVE  /\ Probing => (Probing' /\ ~Move) \/ Probed' \/ Idle'
                      /\ Probed => (Probed' /\ ~Move) \/ Alerting' \/ Saving' \/ Idle'
                      /\ Alerting => (Alerting' /\ ~Move) \/ Saving' \/ Idle'
                      /\ Saving => (Saving' /\ ~Move) \/ Notifying' \/ Idle'
                      /\ Notifying => (Notifying' /\ ~Move) \/ Idle'
                      /\ Idle /\ Batch /\ Batch' => Idle'
    OBVIOUS
  <2>1. CASE Move
    BY <2>1, CheckAdvances
  <2>2. CASE ~Move
    BY <2>2, OthersLeaveCheck
  <2>3. QED
    BY <2>1, <2>2
<1> DEFINE H == []IInv /\ [][Next]_vars /\ ([]<>Idle \/ []<><<Move>>_vars)
<1>3. H /\ <>[]~Idle
        => <>[](~Idle /\ (Probed \/ Alerting \/ Saving \/ Notifying))
  BY <1>1, <1>2, PTL
<1>4. H /\ <>[](~Idle /\ (Probed \/ Alerting \/ Saving \/ Notifying))
        => <>[](~Idle /\ (Alerting \/ Saving \/ Notifying))
  BY <1>1, <1>2, PTL
<1>5. H /\ <>[](~Idle /\ (Alerting \/ Saving \/ Notifying))
        => <>[](~Idle /\ (Saving \/ Notifying))
  BY <1>1, <1>2, PTL
<1>6. H /\ <>[](~Idle /\ (Saving \/ Notifying)) => <>[](~Idle /\ Notifying)
  BY <1>1, <1>2, PTL
<1>7. H => []<>Idle
  BY <1>1, <1>2, <1>3, <1>4, <1>5, <1>6, PTL
<1>8. H /\ <>[]Batch => <>[]Idle
  BY <1>2, <1>7, PTL
<1>9. QED
  BY <1>7, <1>8, Invariance, PTL DEF Spec, CheckFairness

(* LastingFailureIsFlagged of any one endpoint that keeps being checked: if its row stays and
   in the end every check of it fails and none faults, its alert is active again and again,
   however often it is acknowledged, and whatever the other checks do. *)
THEOREM LastingFailureIsFlaggedByEach ==
  ASSUME NEW e \in Endpoints
  PROVE  Spec /\ CheckFairness(e) =>
           (StaysActive(e) /\ []<>(phase[e] = "probing")
            /\ <>[](phase[e] \in {"probed", "saving"} => verdict[e] = "fail")
            /\ <>[][~CheckFaults(e)]_vars
              => []<>flagged[e])
<1> DEFINE Idle == phase[e] = "idle"
           Probing == phase[e] = "probing"
           Probed == phase[e] = "probed"
           Alerting == phase[e] = "alerting"
           Raises == phase[e] = "saving" /\ raise[e]
           Served == e \in Active /\ loop # "down" /\ ~stopping
           Fails == phase[e] \in {"probed", "saving"} => verdict[e] = "fail"
           NoFault == ~CheckFaults(e)
           Flag == flagged[e]
           Move == CheckStep(e)
<1>1. /\ Probing => ~Probed /\ ~Alerting /\ ~Raises /\ ~Idle
      /\ Probed => ~Alerting /\ ~Raises /\ ~Idle
      /\ Alerting => ~Raises /\ ~Idle
      /\ Raises => ~Idle
  OBVIOUS
<1>2. IInv /\ IInv' /\ [Next]_vars /\ [NoFault]_vars /\ Served /\ Served' /\ Fails /\ ~Flag =>
        /\ Probing => (Probing' /\ ~<<Move>>_vars) \/ Probed'
        /\ Probed => (Probed' /\ ~<<Move>>_vars) \/ Alerting'
        /\ Alerting => (Alerting' /\ ~<<Move>>_vars) \/ Raises'
        /\ Raises => (Raises' /\ ~<<Move>>_vars) \/ Flag'
  <2> SUFFICES ASSUME IInv, [Next]_vars, [NoFault]_vars, Served, Served', Fails, ~Flag
               PROVE  /\ Probing => (Probing' /\ ~<<Move>>_vars) \/ Probed'
                      /\ Probed => (Probed' /\ ~<<Move>>_vars) \/ Alerting'
                      /\ Alerting => (Alerting' /\ ~<<Move>>_vars) \/ Raises'
                      /\ Raises => (Raises' /\ ~<<Move>>_vars) \/ Flag'
    OBVIOUS
  <2>1. CASE ~Move
    BY <2>1, OthersLeaveCheck
  <2>2. CASE UNCHANGED vars
    BY <2>2 DEF vars, checkVars
  <2>3. CASE Move /\ ~(UNCHANGED vars)
    <3> USE DEF IInv, TypeOK, CheckOver
    <3>1. ~CheckFaults(e)
      BY <2>3
    <3>2. CASE Probe(e)
      BY <3>2 DEF Probe
    <3>3. CASE LoadEndpoint(e)
      BY <3>3 DEF LoadEndpoint, NeedsAlert, Active
    <3>4. CASE SendAlert(e)
      BY <3>4 DEF SendAlert
    <3>5. CASE SaveChanges(e)
      BY <3>5 DEF SaveChanges, FlagAfterSave
    <3>6. CASE NotifyHub(e)
      BY <3>6 DEF NotifyHub
    <3>7. QED
      BY <2>3, <3>1, <3>2, <3>3, <3>4, <3>5, <3>6 DEF CheckStep
  <2>4. QED
    BY <2>1, <2>2, <2>3
<1> DEFINE H == /\ []IInv /\ [][Next]_vars /\ ([]<>Idle \/ []<><<Move>>_vars)
                /\ <>[]Served /\ []<>Probing /\ <>[]Fails /\ <>[][NoFault]_vars
                /\ <>[]~Flag
<1>3. H => <>[](Probing \/ Probed \/ Alerting \/ Raises)
  BY <1>1, <1>2, PTL
<1>4. H => <>[](Probed \/ Alerting \/ Raises)
  BY <1>1, <1>2, <1>3, PTL
<1>5. H => FALSE
  BY <1>1, <1>2, <1>4, PTL
<1>6. QED
  BY <1>5, Invariance, PTL DEF Spec, CheckFairness, StaysActive

=============================================================================
