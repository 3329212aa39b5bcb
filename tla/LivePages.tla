------------------------------- MODULE LivePages -------------------------------
(***************************************************************************)
(* A browser's circuit that shows the dashboard (Home.razor) or the system *)
(* overview (SystemOverview.razor): pages that load rows of the database   *)
(* and are told by events of the hub when to read again.                   *)
(*                                                                         *)
(* What a page runs waits for its dispatcher, and to wait there or on the  *)
(* way is the same.  The database calls of a handler are awaited, but      *)
(* SQLite's provider completes them before they return, so the dispatcher  *)
(* turns to the next handler only at its end or its delay.  Other programs *)
(* and pages write between any two queries of it.                          *)
(*                                                                         *)
(* The rows change as AlertLedger says.  A result is known by its number.  *)
(* The overview's list of browsers changes and is announced like the state *)
(* of the link, which stands for both.                                     *)
(***************************************************************************)
EXTENDS Naturals

CONSTANTS
  Endpoints,    \* the row ids that are ever used
  MaxResults,   \* bound on the results stored of an endpoint
  NoEndpoint    \* "of" of a job that is about no endpoint in particular

ASSUME PagesAssumption ==
  /\ MaxResults \in Nat
  /\ NoEndpoint \notin Endpoints

VARIABLES
  (* the database *)
  listing,      \* "absent", "listed" (IsEnabled), "unlisted" or "deleted"
  stored,       \* stored[e]: number of results of e
  lastFailure,  \* lastFailure[e]: the newest that is a failure, 0 without one
  latest, flagged, acked,   \* the alert ledger
  (* on the way to the page *)
  linkUp,       \* MonitoringServiceLinkRegistry.IsConnected
  linkEvents,   \* the page has to run OnRegistryChanged
  notices,      \* notices[e]: stored results whose notice is on its way
  (* the page *)
  page,         \* "closed", "home" or "system"
  work,         \* the handler that runs, and what it has read
  shown,        \* the rows on the page
  shownLink,    \* the state of the link in the overview's graph
  lit,          \* _highlightedRows, or _pulsingEdges
  pulsing,      \* the edges of the shown graph that pulse
  delays,       \* delays[e]: handlers that wait to put e's light out
  timer,        \* "off", "waiting", "ticked" or "ended" by a fault
  (* observers *)
  unannounced,  \* endpoints that changed without a notice since they were read
  linkMissed,   \* a reading that was to follow a change of the link failed
  stuck         \* endpoints whose handler failed after it had lit them

ledgerVars == <<latest, flagged, acked>>
dbVars == <<listing, stored, lastFailure, ledgerVars>>
linkVars == <<linkUp, linkEvents>>
lightVars == <<lit, pulsing, delays, stuck>>
screenVars == <<shown, shownLink, linkMissed>>
pageVars == <<page, work, screenVars, lightVars, timer>>
vars == <<dbVars, linkVars, notices, pageVars, unannounced>>

Ledger == INSTANCE AlertLedger
            WITH Endpoints <- Endpoints, latest <- latest, flagged <- flagged, acked <- acked

Triggers == {"open", "reload", "acknowledge", "notice", "registry", "tick"}
Jobs == [do : Triggers, of : Endpoints \union {NoEndpoint}]
Job(trigger) == [do |-> trigger, of |-> NoEndpoint]
JobOf(trigger, e) == [do |-> trigger, of |-> e]

Row == [alert : BOOLEAN, result : 0..MaxResults, lastFailure : 0..MaxResults]
Rows == UNION {[S -> Row] : S \in SUBSET Endpoints}
NoRows == [e \in {} |-> 0]

Idle == [stage |-> "idle", job |-> Job("open"), rows |-> NoRows, link |-> FALSE]

TypeOK ==
  /\ listing \in [Endpoints -> {"absent", "listed", "unlisted", "deleted"}]
  /\ stored \in [Endpoints -> 0..MaxResults]
  /\ lastFailure \in [Endpoints -> 0..MaxResults]
  /\ \A e \in Endpoints : lastFailure[e] <= stored[e]
  /\ latest \in [Endpoints -> {"none", "ok", "fail"}]
  /\ flagged \in [Endpoints -> BOOLEAN] /\ acked \in [Endpoints -> BOOLEAN]
  /\ linkUp \in BOOLEAN /\ linkEvents \in BOOLEAN
  /\ notices \in [Endpoints -> 0..MaxResults]
  /\ page \in {"closed", "home", "system"}
  /\ work.stage \in {"idle", "find", "save", "endpoints", "results", "failures"}
  /\ work.job \in Jobs /\ work.rows \in Rows /\ work.link \in BOOLEAN
  /\ shown \in Rows
  /\ shownLink \in BOOLEAN /\ linkMissed \in BOOLEAN
  /\ {lit, pulsing, unannounced, stuck} \subseteq SUBSET Endpoints
  /\ \A e \in DOMAIN shown : shown[e].result <= stored[e]
  /\ delays \in [Endpoints -> 0..MaxResults]
  /\ timer \in {"off", "waiting", "ticked", "ended"}

ClosedPage ==
  /\ page' = "closed"
  /\ work' = Idle
  /\ shown' = NoRows /\ shownLink' = FALSE /\ linkMissed' = FALSE
  /\ lit' = {} /\ pulsing' = {} /\ stuck' = {}
  /\ delays' = [e \in Endpoints |-> 0]
  /\ timer' = "off"

Init ==
  /\ listing = [e \in Endpoints |-> "absent"]
  /\ stored = [e \in Endpoints |-> 0]
  /\ lastFailure = [e \in Endpoints |-> 0]
  /\ Ledger!LedgerInit
  /\ linkUp = FALSE /\ linkEvents = FALSE
  /\ notices = [e \in Endpoints |-> 0]
  /\ page = "closed"
  /\ work = Idle
  /\ shown = NoRows /\ shownLink = FALSE /\ linkMissed = FALSE
  /\ lit = {} /\ pulsing = {} /\ stuck = {}
  /\ delays = [e \in Endpoints |-> 0]
  /\ timer = "off"
  /\ unannounced = {}

-----------------------------------------------------------------------------
(* The other writers of the rows.  Only the worker announces what it wrote. *)

(* A result of a check, perhaps of one that began before e was switched off. *)
StoreResult(e) ==
  /\ listing[e] \in {"listed", "unlisted"} /\ stored[e] < MaxResults
  /\ stored' = [stored EXCEPT ![e] = @ + 1]
  /\ \/ /\ Ledger!RecordSuccess(e)
        /\ UNCHANGED lastFailure
     \/ /\ Ledger!RecordFailure(e) \/ Ledger!RecordAcknowledgedFailure(e)
        /\ lastFailure' = [lastFailure EXCEPT ![e] = stored'[e]]
  /\ notices' = [notices EXCEPT ![e] = @ + 1]
  /\ UNCHANGED <<listing, linkVars, pageVars, unannounced>>

(* The worker is not connected, or the connection breaks on the way. *)
LoseNotice(e) ==
  /\ notices[e] > 0
  /\ notices' = [notices EXCEPT ![e] = @ - 1]
  /\ unannounced' = unannounced \union {e}
  /\ UNCHANGED <<dbVars, linkVars, pageVars>>

ListOrUnlist(e) ==
  /\ listing[e] # "deleted"
  /\ listing' = [listing EXCEPT ![e] = IF @ = "listed" THEN "unlisted" ELSE "listed"]
  /\ unannounced' = unannounced \union {e}
  /\ UNCHANGED <<stored, lastFailure, ledgerVars, linkVars, notices, pageVars>>

DeleteEndpoint(e) ==
  /\ listing[e] \in {"listed", "unlisted"}
  /\ listing' = [listing EXCEPT ![e] = "deleted"]
  /\ Ledger!Remove(e)
  /\ unannounced' = unannounced \union {e}
  /\ UNCHANGED <<stored, lastFailure, linkVars, notices, pageVars>>

AcknowledgeElsewhere(e) ==
  /\ Ledger!Acknowledge(e)
  /\ unannounced' = unannounced \union {e}
  /\ UNCHANGED <<listing, stored, lastFailure, linkVars, notices, pageVars>>

Writers(e) ==
  \/ StoreResult(e) \/ LoseNotice(e)
  \/ ListOrUnlist(e) \/ DeleteEndpoint(e) \/ AcknowledgeElsewhere(e)

-----------------------------------------------------------------------------
(* What the page is told, and what it begins when its dispatcher is free. *)

(* The endpoints a job reads: its own, or all. *)
Scope(job) == IF job.do = "notice" /\ page = "home" THEN {job.of} ELSE Endpoints

Free == page # "closed" /\ work = Idle

(* The overview takes the link's state before it asks the database. *)
Begin(job) ==
  work' = [stage |-> IF job.do = "acknowledge" THEN "find" ELSE "endpoints",
           job |-> job, rows |-> NoRows, link |-> linkUp]

(* OnInitializedAsync subscribes before it reads anything. *)
OpenPage ==
  /\ page = "closed"
  /\ page' \in {"home", "system"}
  /\ Begin(Job("open"))
  /\ linkEvents' = FALSE
  /\ UNCHANGED <<dbVars, linkUp, notices, screenVars, lightVars, timer, unannounced>>

SubscribedOnceLoaded == page # "closed" /\ ~(work # Idle /\ work.job.do = "open")
Subscribed == page # "closed"

(* NotifyCheckCompleted: the registry notes the signal, and the notifier tells the
   page.  The overview lights the edge before it reads. *)
NoticeArrives(e) ==
  /\ notices[e] > 0 /\ Free
  /\ notices' = [notices EXCEPT ![e] = @ - 1]
  /\ Begin(JobOf("notice", e))
  /\ IF page = "system" THEN lit' = lit \union {e} /\ linkEvents' = TRUE
                        ELSE UNCHANGED <<lit, linkEvents>>
  /\ UNCHANGED <<dbVars, linkUp, page, screenVars, pulsing, delays, stuck, timer, unannounced>>

NobodyListens(e) ==
  /\ notices[e] > 0 /\ ~Subscribed
  /\ notices' = [notices EXCEPT ![e] = @ - 1]
  /\ UNCHANGED <<dbVars, linkVars, pageVars, unannounced>>

(* MarkConnected or MarkDisconnected of the first or last connection. *)
LinkChanges ==
  /\ linkUp' = ~linkUp
  /\ linkEvents' = (linkEvents \/ (Subscribed /\ page = "system"))
  /\ UNCHANGED <<dbVars, notices, pageVars, unannounced>>

OnRegistryChanged ==
  /\ linkEvents /\ Free
  /\ linkEvents' = FALSE
  /\ Begin(Job("registry"))
  /\ UNCHANGED <<dbVars, linkUp, notices, page, screenVars, lightVars, timer, unannounced>>

(* Thirty seconds; the loop waits until the handler has ended. *)
TimerTicks ==
  /\ timer = "waiting" /\ Free
  /\ timer' = "ticked"
  /\ Begin(Job("tick"))
  /\ UNCHANGED <<dbVars, linkVars, notices, page, screenVars, lightVars, unannounced>>

Click ==
  /\ page = "home" /\ Free
  /\ \/ Begin(Job("reload"))
     \/ \E e \in DOMAIN shown : shown[e].alert /\ Begin(JobOf("acknowledge", e))
  /\ UNCHANGED <<dbVars, linkVars, notices, page, screenVars, lightVars, timer, unannounced>>

(* A second after a notice was shown the light goes out, in the set and in whatever
   graph is shown by then. *)
DimOnlySet(e) == lit' = lit \ {e} /\ UNCHANGED pulsing
Dim(e) == lit' = lit \ {e} /\ pulsing' = pulsing \ {e}

Calm(e) ==
  /\ delays[e] > 0 /\ Free
  /\ delays' = [delays EXCEPT ![e] = @ - 1]
  /\ Dim(e)
  /\ stuck' = stuck \ {e}
  /\ UNCHANGED <<dbVars, linkVars, notices, page, work, screenVars, timer, unannounced>>

ClosePage ==
  /\ page # "closed"
  /\ ClosedPage
  /\ linkEvents' = FALSE
  /\ UNCHANGED <<dbVars, linkUp, notices, unannounced>>

-----------------------------------------------------------------------------
(* What it does then. *)

(* AcknowledgeAsync: FindAsync, and SaveChangesAsync if there was an alert to clear. *)
FindEndpoint ==
  /\ work.stage = "find"
  /\ LET e == work.job.of IN
       work' = IF listing[e] = "deleted" THEN Idle
               ELSE [work EXCEPT !.stage = IF flagged[e] THEN "save" ELSE "endpoints"]
  /\ UNCHANGED <<dbVars, linkVars, notices, page, screenVars, lightVars, timer,
                 unannounced>>

AfterAcknowledgeNothing == Idle
AfterAcknowledge == [work EXCEPT !.stage = "endpoints"]

SaveAcknowledge ==
  /\ work.stage = "save" /\ listing[work.job.of] # "deleted"
  /\ IF flagged[work.job.of] THEN Ledger!Acknowledge(work.job.of) ELSE UNCHANGED ledgerVars
  /\ work' = AfterAcknowledge
  /\ UNCHANGED <<listing, stored, lastFailure, linkVars, notices, page, screenVars,
                 lightVars, timer, unannounced>>

Listed == {e \in Endpoints : listing[e] = "listed"}

(* RefreshRowAsync is about one row, and asks no more if it is not there. *)
RefreshesOneRow == page = "home" /\ work.job.do = "notice"

ReadEndpoints ==
  /\ work.stage = "endpoints"
  /\ RefreshesOneRow => work.job.of \in Listed
  /\ LET S == Scope(work.job) \intersect Listed IN
       work' = [work EXCEPT
                  !.stage = "results",
                  !.rows = [e \in S |->
                              [alert |-> flagged[e], result |-> 0, lastFailure |-> 0]]]
  /\ unannounced' = unannounced \ Scope(work.job)
  /\ UNCHANGED <<dbVars, linkVars, notices, page, screenVars, lightVars, timer>>

(* Deleting an endpoint deletes its results. *)
ReadUncommitted(e) == stored[e] + 1
ReadLatest(e) == IF listing[e] = "deleted" THEN 0 ELSE stored[e]
ReadLastFailure(e) == IF listing[e] = "deleted" THEN 0 ELSE lastFailure[e]

WithResults(rows) == [e \in DOMAIN rows |-> [rows[e] EXCEPT !.result = ReadLatest(e)]]
WithFailures(rows) ==
  [e \in DOMAIN rows |-> [rows[e] EXCEPT !.lastFailure = ReadLastFailure(e)]]

ReadResults ==
  /\ page = "home" /\ work.stage = "results"
  /\ work' = [work EXCEPT !.stage = "failures", !.rows = WithResults(@)]
  /\ UNCHANGED <<dbVars, linkVars, notices, page, screenVars, lightVars, timer,
                 unannounced>>

(* A refreshed row replaces its predecessor, a load all of them. *)
ShowRows(rows) ==
  shown' = [e \in (DOMAIN shown \ Scope(work.job)) \union DOMAIN rows |->
              IF e \in DOMAIN rows THEN rows[e] ELSE shown[e]]

Delay == delays' = IF work.job.do = "notice"
                     THEN [delays EXCEPT ![work.job.of] = @ + 1] ELSE delays

Highlight == lit' = IF work.job.do = "notice" THEN lit \union {work.job.of} ELSE lit

HomeShows ==
  /\ page = "home" /\ work.stage = "failures"
  /\ ShowRows(WithFailures(work.rows))
  /\ Highlight /\ Delay
  /\ work' = Idle
  /\ UNCHANGED <<dbVars, linkVars, notices, page, shownLink, linkMissed, pulsing,
                 stuck, timer, unannounced>>

RemoveRow ==
  /\ work.stage = "endpoints" /\ RefreshesOneRow /\ work.job.of \notin Listed
  /\ ShowRows(NoRows)
  /\ unannounced' = unannounced \ {work.job.of}
  /\ Highlight /\ Delay
  /\ work' = Idle
  /\ UNCHANGED <<dbVars, linkVars, notices, page, shownLink, linkMissed, pulsing,
                 stuck, timer>>

AfterTickOnce == IF work.job.do = "open" THEN "waiting" ELSE timer
AfterTick == IF work.job.do \in {"open", "tick"} THEN "waiting" ELSE timer

OverviewShows ==
  /\ page = "system" /\ work.stage = "results"
  /\ ShowRows(WithResults(work.rows))
  /\ shownLink' = work.link /\ linkMissed' = FALSE
  /\ pulsing' = lit \intersect DOMAIN work.rows
  /\ Delay
  /\ timer' = AfterTick
  /\ work' = Idle
  /\ UNCHANGED <<dbVars, linkVars, notices, page, lit, stuck, unannounced>>

(* A query or a save throws.  What the framework called ends the circuit; nobody
   awaits the handler of an event, and the timer's loop is left. *)
CircuitFaults ==
  /\ work.stage # "idle" /\ work.job.do \in {"open", "reload", "acknowledge"}
  /\ ClosedPage
  /\ linkEvents' = FALSE
  /\ UNCHANGED <<dbVars, linkUp, notices, unannounced>>

EventFaults ==
  /\ work.stage # "idle" /\ work.job.do \in {"notice", "registry"}
  /\ work' = Idle
  /\ unannounced' = unannounced \union Scope(work.job)
  /\ linkMissed' = (page = "system")
  /\ stuck' = IF page = "system" THEN stuck \union ({work.job.of} \ {NoEndpoint}) ELSE stuck
  /\ UNCHANGED <<dbVars, linkVars, notices, page, shown, shownLink, lit, pulsing,
                 delays, timer>>

TickFaults ==
  /\ work.stage # "idle" /\ work.job.do = "tick"
  /\ work' = Idle
  /\ timer' = "ended"
  /\ unannounced' = Endpoints /\ linkMissed' = TRUE
  /\ UNCHANGED <<dbVars, linkVars, notices, page, shown, shownLink, lightVars>>

WorkStep ==
  \/ FindEndpoint \/ SaveAcknowledge
  \/ ReadEndpoints \/ ReadResults \/ HomeShows \/ RemoveRow \/ OverviewShows
  \/ CircuitFaults \/ EventFaults \/ TickFaults

-----------------------------------------------------------------------------
Next ==
  \/ \E e \in Endpoints :
       Writers(e) \/ NoticeArrives(e) \/ NobodyListens(e) \/ Calm(e)
  \/ LinkChanges \/ OnRegistryChanged
  \/ TimerTicks
  \/ OpenPage \/ ClosePage \/ Click
  \/ WorkStep

Spec == Init /\ [][Next]_vars

(* A handler runs to its end, and the dispatcher serves the waiting in their order, so
   the timer gets its turn however often others come. *)
Fairness == WF_vars(WorkStep) /\ SF_vars(TimerTicks)

FairSpec == Spec /\ Fairness

-----------------------------------------------------------------------------
(* A job that will still read, or is reading, e. *)
Awaited(e) ==
  \/ notices[e] > 0
  \/ work.stage # "idle" /\ e \in Scope(work.job)

CurrentRow(e) ==
  [alert |-> flagged[e], result |-> ReadLatest(e),
   lastFailure |-> IF page = "home" THEN ReadLastFailure(e) ELSE 0]

(* Once a page has followed the notices of an endpoint, its row is what the database
   holds: a mixture of two states, read by queries that a save came between, is always
   repaired, the page's own acknowledgement is shown, and nothing stored while the page
   was opening is missed.  Excepted is what nobody announces, or whose reading failed. *)
ShownRowsAreCurrent ==
  page # "closed" =>
    \A e \in Endpoints \ unannounced :
      Awaited(e) \/ IF e \in Listed THEN e \in DOMAIN shown /\ shown[e] = CurrentRow(e)
                                    ELSE e \notin DOMAIN shown

(* The same of the link in the overview's graph, whose reading is taken before the
   queries that follow it. *)
ShownLinkIsCurrent ==
  page = "system" =>
    \/ shownLink = linkUp \/ linkEvents \/ linkMissed
    \/ work.stage # "idle" /\ work.link = linkUp

(* A highlight or a pulse has somebody who will end it, although every handler that
   runs in between may replace the graph; unless a reading failed after it was lit. *)
LightsGoOut ==
  \A e \in lit \union pulsing :
    \/ delays[e] > 0 \/ e \in stuck
    \/ work.stage # "idle" /\ work.job = JobOf("notice", e)

(* The overview's timer reads again and again, until one of its readings fails. *)
TimerKeepsRefreshing ==
  <>[](page = "system" /\ timer # "ended") => []<>(work.job.do = "tick")

=============================================================================
