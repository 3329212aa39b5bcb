---------------------------- MODULE FailureTimeline ----------------------------
(***************************************************************************)
(* The live refresh of the dashboard's failure timeline                    *)
(* (FailureTimeline.razor): check-completed notices arrive on the hub's    *)
(* threads, a flag lets one of them queue a refresh, the refresh waits five*)
(* seconds, reads the database and swaps the chart in, and its finally     *)
(* block lowers the flag again.                                            *)
(*                                                                         *)
(* The chart is abstracted to the number of results the database held when *)
(* it was read: what it shows is older or newer, nothing else matters here.*)
(***************************************************************************)
EXTENDS Naturals

CONSTANTS
  Threads,      \* hub threads that raise OnEndpointChecked
  Refreshes,    \* identities of queued refreshes, a bound on those in flight
  MaxResults,   \* bound on the results stored
  ReadsFail     \* whether a database read may throw

ASSUME TimelineAssumption == MaxResults \in Nat /\ ReadsFail \in BOOLEAN

VARIABLES
  saved,          \* results stored so far; result v is the v-th
  notices,        \* stored results whose notice is on its way
  page,           \* "closed" or "open"
  told,           \* the newest result the open page was told of
  handler,        \* handler[t]: "set" between reading the flag and raising it
  refreshQueued,  \* _refreshQueued
  refresh,        \* refresh[k]: stage of a queued refresh, and what it read
  reload,         \* the load of the page's opening or of its buttons
  chart           \* the number of results the shown chart was built from

pageVars == <<page, told, handler, refreshQueued, refresh, reload, chart>>
vars == <<saved, notices, pageVars>>

Stages == {"none", "delaying", "loading", "finally"}
Loads == [stage : Stages, read : 0..MaxResults]
NoLoad == [stage |-> "none", read |-> 0]

TypeOK ==
  /\ saved \in 0..MaxResults
  /\ notices \subseteq 1..saved
  /\ page \in {"closed", "open"}
  /\ told \in 0..saved
  /\ handler \in [Threads -> {"idle", "set"}]
  /\ refreshQueued \in BOOLEAN
  /\ refresh \in [Refreshes -> Loads]
  /\ reload \in Loads
  /\ chart \in 0..saved

FreshPage ==
  /\ told' = 0
  /\ handler' = [t \in Threads |-> "idle"]
  /\ refreshQueued' = FALSE
  /\ refresh' = [k \in Refreshes |-> NoLoad]
  /\ chart' = 0

Init ==
  /\ saved = 0
  /\ notices = {}
  /\ page = "closed"
  /\ told = 0
  /\ handler = [t \in Threads |-> "idle"]
  /\ refreshQueued = FALSE
  /\ refresh = [k \in Refreshes |-> NoLoad]
  /\ reload = NoLoad
  /\ chart = 0

-----------------------------------------------------------------------------
(* The worker stores a result and then tells the hub, which may not hear it. *)

StoreResult ==
  /\ saved < MaxResults
  /\ saved' = saved + 1
  /\ notices' \in {notices, notices \union {saved'}}
  /\ UNCHANGED pageVars

(* OnInitializedAsync subscribes, then loads. *)
OpenPage ==
  /\ page = "closed"
  /\ page' = "open"
  /\ FreshPage
  /\ reload' = [stage |-> "delaying", read |-> 0]
  /\ UNCHANGED <<saved, notices>>

(* Dispose unsubscribes; nobody sees what its refreshes still do. *)
ClosePage ==
  /\ page = "open"
  /\ page' = "closed"
  /\ FreshPage
  /\ reload' = NoLoad
  /\ UNCHANGED <<saved, notices>>

-----------------------------------------------------------------------------
(* OnEndpointChecked, on the hub's thread. *)

(* The first half reads the flag; a notice that finds it raised is dropped. *)
ReadFlag(t) ==
  /\ page = "open" /\ handler[t] = "idle"
  /\ \E v \in notices :
       /\ notices' = notices \ {v}
       /\ told' = IF v > told THEN v ELSE told
  /\ handler' = [handler EXCEPT ![t] = IF refreshQueued THEN "idle" ELSE "set"]
  /\ UNCHANGED <<saved, page, refreshQueued, refresh, reload, chart>>

(* The second half raises it and queues the refresh. *)
QueueUnlessReloading(t) ==
  /\ handler[t] = "set"
  /\ \E k \in Refreshes :
       /\ refresh[k].stage = "none"
       /\ refresh' = IF reload.stage # "none" THEN refresh
                     ELSE [refresh EXCEPT ![k].stage = "delaying"]
  /\ refreshQueued' = TRUE
  /\ handler' = [handler EXCEPT ![t] = "idle"]
  /\ UNCHANGED <<saved, notices, page, told, reload, chart>>
QueueRefresh(t) ==
  /\ handler[t] = "set"
  /\ \E k \in Refreshes :
       /\ refresh[k].stage = "none"
       /\ refresh' = [refresh EXCEPT ![k].stage = "delaying"]
  /\ refreshQueued' = TRUE
  /\ handler' = [handler EXCEPT ![t] = "idle"]
  /\ UNCHANGED <<saved, notices, page, told, reload, chart>>

-----------------------------------------------------------------------------
(* LoadAsync reads the database, and shows what it read some time later. *)

ReadsUncommitted == [stage |-> "loading", read |-> saved + 1]
Reads == [stage |-> "loading", read |-> saved]

(* The five seconds are over. *)
RefreshReads(k) ==
  /\ refresh[k].stage = "delaying"
  /\ refresh' = [refresh EXCEPT ![k] = Reads]
  /\ UNCHANGED <<saved, notices, page, told, handler, refreshQueued, reload, chart>>

RefreshShows(k) ==
  /\ refresh[k].stage = "loading"
  /\ chart' = refresh[k].read
  /\ refresh' = [refresh EXCEPT ![k].stage = "finally"]
  /\ UNCHANGED <<saved, notices, page, told, handler, refreshQueued, reload>>

AfterFaultNothing == NoLoad
AfterFault == [stage |-> "finally", read |-> 0]

RefreshFaults(k) ==
  /\ ReadsFail
  /\ refresh[k].stage \in {"delaying", "loading"}
  /\ refresh' = [refresh EXCEPT ![k] = AfterFault]
  /\ UNCHANGED <<saved, notices, page, told, handler, refreshQueued, reload, chart>>

RefreshFinally(k) ==
  /\ refresh[k].stage = "finally"
  /\ refreshQueued' = FALSE
  /\ refresh' = [refresh EXCEPT ![k] = NoLoad]
  /\ UNCHANGED <<saved, notices, page, told, handler, reload, chart>>

(* The refresh button, or another granularity: a load outside the throttle. *)
Reload ==
  /\ page = "open" /\ reload.stage = "none"
  /\ reload' = Reads
  /\ UNCHANGED <<saved, notices, page, told, handler, refreshQueued, refresh, chart>>

InitialLoad ==
  /\ reload.stage = "delaying"
  /\ reload' = Reads
  /\ UNCHANGED <<saved, notices, page, told, handler, refreshQueued, refresh, chart>>

ReloadShows ==
  /\ reload.stage = "loading"
  /\ chart' = reload.read
  /\ reload' = NoLoad
  /\ UNCHANGED <<saved, notices, page, told, handler, refreshQueued, refresh>>

-----------------------------------------------------------------------------
RefreshStep(k) ==
  RefreshReads(k) \/ RefreshShows(k) \/ RefreshFaults(k) \/ RefreshFinally(k)

Next ==
  \/ StoreResult
  \/ OpenPage \/ ClosePage
  \/ \E t \in Threads : ReadFlag(t) \/ QueueRefresh(t)
  \/ \E k \in Refreshes : RefreshStep(k)
  \/ Reload \/ InitialLoad \/ ReloadShows

Spec == Init /\ [][Next]_vars

(* Handlers and queued tasks run to their end.  Nothing makes a check complete, a
   page open or a user press a button. *)
Fairness ==
  /\ \A t \in Threads : WF_vars(QueueRefresh(t))
  /\ \A k \in Refreshes : WF_vars(RefreshStep(k))
  /\ WF_vars(InitialLoad) /\ WF_vars(ReloadShows)

FairSpec == Spec /\ Fairness

-----------------------------------------------------------------------------
(* The throttle cannot jam: while the flag is up a refresh is under way that will
   lower it, also after reads that failed. *)
FlagHasRefresh ==
  refreshQueued => \E k \in Refreshes : refresh[k].stage # "none"

(* A refresh whose read failed; any other that was queued for a notice has read
   at least one result. *)
Faulted(k) == refresh[k].stage = "finally" /\ refresh[k].read = 0

(* A notice that queues a refresh, or is dropped because one still waits, is not
   lost: the chart comes to show its result, unless the page is closed or the
   read fails. *)
NoticesInDelayAreShown ==
  \A v \in 1..MaxResults :
    (/\ told = v
     /\ \/ \E t \in Threads : handler[t] = "set"
        \/ \E k \in Refreshes : refresh[k].stage = "delaying")
      ~> (chart >= v \/ page = "closed" \/ \E k \in Refreshes : Faulted(k))

(* What the comment on the throttle says of every dropped notice: the trailing
   reload "always reads the latest data, so notifications dropped during the
   window are still reflected". *)
DroppedNoticesAreShown ==
  \A v \in 1..MaxResults :
    <>[](page = "open") /\ <>(told = v) => <>(chart >= v)

=============================================================================
