----------------------------- MODULE AlertLedger -----------------------------
(***************************************************************************)
(* What the dashboard's users are promised about the alert flag of an      *)
(* endpoint (MonitoredEndpoint.AlertSentAt), whatever the monitoring loop  *)
(* does underneath: the flag goes up in the same step that records a       *)
(* failure, a success never touches it, only an administrator or the       *)
(* removal of the endpoint takes it down, and an endpoint whose latest     *)
(* result is a failure is flagged unless its alert was acknowledged.       *)
(***************************************************************************)

CONSTANT Endpoints

VARIABLES
  latest,   \* latest[e]: the outcome of the newest recorded result of e
  flagged,  \* flagged[e]: an alert of e is active
  acked     \* acked[e]: the last alert of e was acknowledged, none raised since

ledgerVars == <<latest, flagged, acked>>

LedgerInit ==
  /\ latest = [e \in Endpoints |-> "none"]
  /\ flagged = [e \in Endpoints |-> FALSE]
  /\ acked = [e \in Endpoints |-> FALSE]

(* A successful check is recorded; an active alert waits for acknowledgement. *)
RecordSuccess(e) ==
  /\ latest' = [latest EXCEPT ![e] = "ok"]
  /\ UNCHANGED <<flagged, acked>>

(* A failed check is recorded together with the flag. *)
RecordFailure(e) ==
  /\ latest' = [latest EXCEPT ![e] = "fail"]
  /\ flagged' = [flagged EXCEPT ![e] = TRUE]
  /\ acked' = [acked EXCEPT ![e] = FALSE]

(* The check had seen the alert active, and it was acknowledged before the
   result was stored: the failure is recorded without a flag. *)
RecordAcknowledgedFailure(e) ==
  /\ acked[e] /\ ~flagged[e]
  /\ latest' = [latest EXCEPT ![e] = "fail"]
  /\ UNCHANGED <<flagged, acked>>

Acknowledge(e) ==
  /\ flagged[e]
  /\ flagged' = [flagged EXCEPT ![e] = FALSE]
  /\ acked' = [acked EXCEPT ![e] = TRUE]
  /\ UNCHANGED latest

(* The endpoint is deleted, its results with it. *)
Remove(e) ==
  /\ latest' = [latest EXCEPT ![e] = "none"]
  /\ flagged' = [flagged EXCEPT ![e] = FALSE]
  /\ acked' = [acked EXCEPT ![e] = FALSE]

LedgerNext ==
  \E e \in Endpoints :
    \/ RecordSuccess(e)
    \/ RecordFailure(e)
    \/ RecordAcknowledgedFailure(e)
    \/ Acknowledge(e)
    \/ Remove(e)

LedgerSpec == LedgerInit /\ [][LedgerNext]_ledgerVars

=============================================================================
