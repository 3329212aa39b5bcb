----------------------------- MODULE PageSession -----------------------------
(***************************************************************************)
(* What somebody in front of an open page is promised, however often the   *)
(* connection under it breaks: the page is either usable or covered by the *)
(* reconnect dialog, and a dialog that goes away gives back the work it    *)
(* covered if the server still has it.  No component persists what it      *)
(* holds, so otherwise the page that appears begins anew, like one that    *)
(* was loaded, and work that was let go never comes back.                  *)
(***************************************************************************)
EXTENDS Naturals

VARIABLES
  view,  \* "loading", "usable" or "blocked"
  work,  \* names the work on the page: what the circuit's components hold
  kept   \* the server still has it

sessionVars == <<view, work, kept>>

SessionInit == view = "loading" /\ work = 0 /\ kept = FALSE

Anew == work' \in Nat /\ work' > work /\ kept' = TRUE

(* The page is there, with nothing entered on it yet. *)
Open == view = "loading" /\ view' = "usable" /\ Anew

(* The connection is lost and the dialog covers the page; a pause lets go of the work. *)
Block ==
  /\ view = "usable" /\ view' = "blocked"
  /\ UNCHANGED work
  /\ kept' => kept

(* The dialog goes away over a page that works again. *)
Unblock ==
  /\ view = "blocked" /\ view' = "usable"
  /\ IF kept THEN UNCHANGED <<work, kept>> ELSE Anew

Reload == view \in {"usable", "blocked"} /\ view' = "loading" /\ UNCHANGED <<work, kept>>

(* The server lets go of the work, whatever the page shows. *)
LetGo == kept /\ kept' = FALSE /\ UNCHANGED <<view, work>>

SessionNext == Open \/ Block \/ Unblock \/ Reload \/ LetGo

SessionSpec == SessionInit /\ [][SessionNext]_sessionVars

=============================================================================
