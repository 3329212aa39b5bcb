---------------------------- MODULE LivePagesProofs ----------------------------
(***************************************************************************)
(* What LivePages claims of a page's rows, of the link it shows and of its *)
(* lights, for any endpoints and any number of results.  What makes it     *)
(* inductive is the handler under way: which of the rows it has read are   *)
(* still those of the database, and whose notice will repair the others.   *)
(***************************************************************************)
EXTENDS LivePages, TLAPS

Stages == {"idle", "find", "save", "endpoints", "results", "failures"}
Works == [stage : Stages, job : Jobs, rows : Rows, link : BOOLEAN]
Busy == work.stage # "idle"

DatabaseOK ==
  /\ listing \in [Endpoints -> {"absent", "listed", "unlisted", "deleted"}]
  /\ stored \in [Endpoints -> 0..MaxResults]
  /\ lastFailure \in [Endpoints -> 0..MaxResults]
  /\ \A e \in Endpoints : lastFailure[e] <= stored[e]
  /\ latest \in [Endpoints -> {"none", "ok", "fail"}]
  /\ flagged \in [Endpoints -> BOOLEAN] /\ acked \in [Endpoints -> BOOLEAN]
  /\ linkUp \in BOOLEAN
  /\ unannounced \subseteq Endpoints

(* Each notice on its way, being handled or waiting to be calmed is of a result of its
   own. *)
Pending(e) == IF Busy /\ work.job = JobOf("notice", e) THEN 1 ELSE 0
NoticesOK ==
  /\ notices \in [Endpoints -> Nat] /\ delays \in [Endpoints -> Nat]
  /\ \A e \in Endpoints : notices[e] + Pending(e) + delays[e] <= stored[e]

ScreenOK ==
  /\ page \in {"closed", "home", "system"}
  /\ shown \in Rows /\ shownLink \in BOOLEAN /\ linkMissed \in BOOLEAN
  /\ \A e \in DOMAIN shown : shown[e].result <= stored[e]
  /\ lit \subseteq Endpoints /\ pulsing \subseteq Endpoints /\ stuck \subseteq Endpoints
  /\ timer \in {"off", "waiting", "ticked", "ended"}
  /\ timer = "waiting" => page = "system"
  /\ linkEvents \in BOOLEAN
  /\ linkEvents => page = "system"

(* A handler runs on an open page, and is one that this page has. *)
WorkOK ==
  /\ work \in Works
  /\ work.stage = "idle" => work = Idle
  /\ page = "closed" => work.stage = "idle"
  /\ work.job.do \in {"notice", "acknowledge"} => work.job.of \in Endpoints
  /\ Busy /\ page = "home" => work.job.do \in {"open", "reload", "acknowledge", "notice"}
  /\ Busy /\ page = "system" => work.job.do \in {"open", "notice", "registry", "tick"}
  /\ work.stage \in {"find", "save"} => page = "home" /\ work.job.do = "acknowledge"
  /\ work.stage = "failures" => page = "home"
  /\ DOMAIN work.rows \subseteq Scope(work.job)
  /\ \A e \in DOMAIN work.rows : work.rows[e].result <= stored[e]

(* The state of the link a handler has taken is the present one, or the page is told. *)
LinkFollows ==
  page = "system" =>
    /\ shownLink = linkUp \/ linkEvents \/ linkMissed \/ (Busy /\ work.link = linkUp)
    /\ Busy => linkEvents \/ work.link = linkUp

(* The dashboard lights a row only when it is done. *)
LightsOK ==
  \A e \in lit \union pulsing :
    /\ \/ delays[e] > 0 \/ e \in stuck
       \/ Busy /\ work.job = JobOf("notice", e)
    /\ page # "system" => delays[e] > 0

IsShown(e) ==
  IF e \in Listed THEN e \in DOMAIN shown /\ shown[e] = CurrentRow(e)
                  ELSE e \notin DOMAIN shown

(* What the handler would have read of e by now if it had begun just now. *)
IsRead(e) ==
  IF e \in Listed
    THEN /\ e \in DOMAIN work.rows
         /\ work.rows[e] = [alert |-> flagged[e], lastFailure |-> 0,
                            result |-> IF work.stage = "failures" THEN ReadLatest(e) ELSE 0]
    ELSE e \notin DOMAIN work.rows

(* An endpoint whose last change was announced, and whose notices have all come. *)
Followed(e) == page # "closed" /\ e \notin unannounced /\ notices[e] = 0

RowsFollow ==
  \A e \in Endpoints : Followed(e) =>
    /\ work.stage \in {"idle", "find"} \/ e \notin Scope(work.job) => IsShown(e)
    /\ work.stage \in {"results", "failures"} /\ e \in Scope(work.job) => IsRead(e)

TypeInv == DatabaseOK /\ NoticesOK /\ ScreenOK /\ WorkOK


-----------------------------------------------------------------------------
(* Rows, jobs and handlers. *)
LEMMA RowsAre ==
  ASSUME NEW r \in Rows
  PROVE  DOMAIN r \subseteq Endpoints /\ r \in [DOMAIN r -> Row]
BY DEF Rows

LEMMA AreRows ==
  ASSUME NEW S \in SUBSET Endpoints, NEW f \in [S -> Row]
  PROVE  f \in Rows
BY DEF Rows

LEMMA NoRowsOK == NoRows \in Rows /\ DOMAIN NoRows = {}
<1>1. NoRows \in [{} -> Row] /\ {} \in SUBSET Endpoints /\ DOMAIN NoRows = {}
  BY DEF NoRows
<1>2. QED
  BY <1>1, AreRows

LEMMA JobsOK ==
  /\ \A t \in Triggers : Job(t) \in Jobs /\ Job(t).do = t /\ Job(t).of = NoEndpoint
  /\ \A t \in Triggers, e \in Endpoints :
       JobOf(t, e) \in Jobs /\ JobOf(t, e).do = t /\ JobOf(t, e).of = e
BY DEF Job, JobOf, Jobs

LEMMA IdleOK ==
  /\ Idle \in Works /\ Idle.stage = "idle" /\ Idle.rows = NoRows
  /\ Idle.job.do = "open"
<1>1. Job("open") \in Jobs /\ Job("open").do = "open"
  BY JobsOK DEF Triggers
<1>2. QED
  BY <1>1, NoRowsOK DEF Idle, Works, Stages

LEMMA BeginOK ==
  ASSUME NEW job \in Jobs, linkUp \in BOOLEAN, Begin(job)
  PROVE  /\ work' \in Works /\ work'.job = job /\ work'.rows = NoRows
         /\ work'.link = linkUp /\ work'.stage \in {"find", "endpoints"}
         /\ work'.stage = "find" <=> job.do = "acknowledge"
BY NoRowsOK DEF Begin, Works, Stages

LEMMA RowOK ==
  ASSUME DatabaseOK, NEW r \in Rows, NEW e \in DOMAIN r, r[e].result <= stored[e]
  PROVE  /\ e \in Endpoints
         /\ ReadLatest(e) \in 0 .. MaxResults /\ ReadLatest(e) <= stored[e]
         /\ ReadLastFailure(e) \in 0 .. MaxResults
         /\ r[e].alert \in BOOLEAN /\ r[e].result \in 0 .. MaxResults
         /\ r[e].lastFailure \in 0 .. MaxResults
BY RowsAre, PagesAssumption DEF DatabaseOK, ReadLatest, ReadLastFailure, Row, PagesAssumption

LEMMA WithResultsOK ==
  ASSUME DatabaseOK, NEW r \in Rows, \A e \in DOMAIN r : r[e].result <= stored[e]
  PROVE  /\ WithResults(r) \in Rows /\ DOMAIN WithResults(r) = DOMAIN r
         /\ \A e \in DOMAIN r :
              /\ WithResults(r)[e] = [r[e] EXCEPT !.result = ReadLatest(e)]
              /\ WithResults(r)[e].result <= stored[e]
<1>1. DOMAIN r \subseteq Endpoints /\ r \in [DOMAIN r -> Row]
  BY RowsAre
<1>2. \A e \in DOMAIN r :
        /\ [r[e] EXCEPT !.result = ReadLatest(e)] \in Row
        /\ [r[e] EXCEPT !.result = ReadLatest(e)].result <= stored[e]
  BY <1>1, RowOK DEF Row
<1>3. /\ WithResults(r) \in [DOMAIN r -> Row] /\ DOMAIN WithResults(r) = DOMAIN r
      /\ \A e \in DOMAIN r : WithResults(r)[e] = [r[e] EXCEPT !.result = ReadLatest(e)]
  BY <1>2 DEF WithResults
<1>4. QED
  BY <1>1, <1>2, <1>3, AreRows

LEMMA WithFailuresOK ==
  ASSUME DatabaseOK, NEW r \in Rows, \A e \in DOMAIN r : r[e].result <= stored[e]
  PROVE  /\ WithFailures(r) \in Rows /\ DOMAIN WithFailures(r) = DOMAIN r
         /\ \A e \in DOMAIN r :
              /\ WithFailures(r)[e] = [r[e] EXCEPT !.lastFailure = ReadLastFailure(e)]
              /\ WithFailures(r)[e].result <= stored[e]
<1>1. DOMAIN r \subseteq Endpoints /\ r \in [DOMAIN r -> Row]
  BY RowsAre
<1>2. \A e \in DOMAIN r :
        /\ [r[e] EXCEPT !.lastFailure = ReadLastFailure(e)] \in Row
        /\ [r[e] EXCEPT !.lastFailure = ReadLastFailure(e)].result <= stored[e]
  BY <1>1, RowOK DEF Row
<1>3. /\ WithFailures(r) \in [DOMAIN r -> Row] /\ DOMAIN WithFailures(r) = DOMAIN r
      /\ \A e \in DOMAIN r :
           WithFailures(r)[e] = [r[e] EXCEPT !.lastFailure = ReadLastFailure(e)]
  BY <1>2 DEF WithFailures
<1>4. QED
  BY <1>1, <1>2, <1>3, AreRows

LEMMA ShowRowsOK ==
  ASSUME shown \in Rows, NEW rows \in Rows, ShowRows(rows)
  PROVE  /\ shown' \in Rows
         /\ DOMAIN shown' = (DOMAIN shown \ Scope(work.job)) \union DOMAIN rows
         /\ \A e \in DOMAIN rows : shown'[e] = rows[e]
         /\ \A e \in DOMAIN shown \ (Scope(work.job) \union DOMAIN rows) : shown'[e] = shown[e]
<1> DEFINE S == (DOMAIN shown \ Scope(work.job)) \union DOMAIN rows
<1>1. /\ S \in SUBSET Endpoints /\ shown \in [DOMAIN shown -> Row]
      /\ rows \in [DOMAIN rows -> Row]
  BY RowsAre
<1>2. shown' = [e \in S |-> IF e \in DOMAIN rows THEN rows[e] ELSE shown[e]]
  BY DEF ShowRows
<1>3. shown' \in [S -> Row]
  BY <1>1, <1>2
<1>4. QED
  BY <1>1, <1>2, <1>3, AreRows

(* Whether a notice of e is being handled. *)
LEMMA PendingIs ==
  ASSUME NEW e
  PROVE  /\ Pending(e) \in {0, 1}
         /\ Pending(e) = 1 <=> Busy /\ work.job = JobOf("notice", e)
BY DEF Pending

(* While the handler keeps its job, or there is none, what is in hand stays. *)
LEMMA PendingKept ==
  ASSUME NEW e, work.job' = work.job, Busy' <=> Busy
  PROVE  Pending(e)' = Pending(e)
BY DEF Pending

LEMMA PendingEnds ==
  ASSUME NEW e, ~Busy'
  PROVE  Pending(e)' = 0
BY DEF Pending

-----------------------------------------------------------------------------
(* The types, action by action: first the steps of others. *)
LEMMA WritersKeepTypes ==
  ASSUME TypeInv, NEW e \in Endpoints, Writers(e)
  PROVE  TypeInv'
<1> USE PagesAssumption DEF TypeInv, PagesAssumption, pageVars, screenVars, lightVars, linkVars
<1>1. /\ UNCHANGED <<page, work, shown, shownLink, linkMissed, lit, pulsing, delays, stuck,
                     timer, linkUp, linkEvents>>
      /\ \A d \in Endpoints : stored'[d] >= stored[d] /\ stored'[d] \in 0 .. MaxResults
      /\ \A d \in Endpoints : stored'[d] - notices'[d] >= stored[d] - notices[d]
      /\ notices' \in [Endpoints -> Nat]
  BY DEF Writers, StoreResult, LoseNotice, ListOrUnlist, DeleteEndpoint, AcknowledgeElsewhere,
         dbVars, DatabaseOK, NoticesOK
<1>2. DatabaseOK'
  <2> USE DEF DatabaseOK
  <2>1. CASE StoreResult(e)
    <3>1. stored' = [stored EXCEPT ![e] = @ + 1] /\ stored[e] + 1 \in 0 .. MaxResults
      BY <2>1 DEF StoreResult
    <3>2. /\ latest' \in [Endpoints -> {"none", "ok", "fail"}]
          /\ flagged' \in [Endpoints -> BOOLEAN] /\ acked' \in [Endpoints -> BOOLEAN]
      BY <2>1 DEF StoreResult, Ledger!RecordSuccess, Ledger!RecordFailure,
                  Ledger!RecordAcknowledgedFailure
    <3>3. lastFailure' = lastFailure \/ lastFailure' = [lastFailure EXCEPT ![e] = stored'[e]]
      BY <2>1 DEF StoreResult
    <3>4. /\ stored' \in [Endpoints -> 0 .. MaxResults]
          /\ lastFailure' \in [Endpoints -> 0 .. MaxResults]
          /\ \A d \in Endpoints : lastFailure'[d] <= stored'[d]
      BY <3>1, <3>3
    <3>5. QED
      BY <1>1, <2>1, <3>2, <3>4 DEF StoreResult
  <2>2. CASE LoseNotice(e)
    BY <1>1, <2>2 DEF LoseNotice, dbVars, ledgerVars
  <2>3. CASE ListOrUnlist(e)
    BY <1>1, <2>3 DEF ListOrUnlist, ledgerVars
  <2>4. CASE DeleteEndpoint(e)
    BY <1>1, <2>4 DEF DeleteEndpoint, Ledger!Remove
  <2>5. CASE AcknowledgeElsewhere(e)
    BY <1>1, <2>5 DEF AcknowledgeElsewhere, Ledger!Acknowledge
  <2>6. QED
    BY <2>1, <2>2, <2>3, <2>4, <2>5 DEF Writers
<1>3. NoticesOK'
  <2>1. \A d \in Endpoints : Pending(d)' = Pending(d) /\ Pending(d) \in {0, 1}
    BY <1>1, PendingIs, PendingKept DEF Busy
  <2>2. ASSUME NEW d \in Endpoints
        PROVE  notices'[d] + Pending(d)' + delays'[d] <= stored'[d]
    <3>1. notices[d] + Pending(d) + delays[d] <= stored[d]
      BY DEF NoticesOK
    <3>2. /\ notices[d] \in Nat /\ notices'[d] \in Nat /\ delays[d] \in Nat
          /\ stored[d] \in Nat /\ stored'[d] \in Nat /\ delays'[d] = delays[d]
          /\ stored'[d] - notices'[d] >= stored[d] - notices[d]
      BY <1>1 DEF NoticesOK, DatabaseOK
    <3>3. QED
      BY <2>1, <3>1, <3>2
  <2>3. QED
    BY <1>1, <2>2 DEF NoticesOK
<1>4. ScreenOK'
  <2>1. DOMAIN shown \subseteq Endpoints /\ shown \in [DOMAIN shown -> Row]
    BY RowsAre DEF ScreenOK
  <2>2. \A d \in DOMAIN shown : shown[d].result <= stored'[d]
    BY <1>1, <2>1 DEF ScreenOK, DatabaseOK, Row
  <2>3. QED
    BY <1>1, <2>2 DEF ScreenOK
<1>5. WorkOK'
  <2>1. work.rows \in Rows
    BY DEF WorkOK, Works
  <2>2. DOMAIN work.rows \subseteq Endpoints /\ work.rows \in [DOMAIN work.rows -> Row]
    BY <2>1, RowsAre
  <2>3. \A d \in DOMAIN work.rows : work.rows[d].result <= stored'[d]
    BY <1>1, <2>2 DEF WorkOK, DatabaseOK, Row
  <2>4. QED
    BY <1>1, <2>3 DEF WorkOK, Busy, Scope
<1>6. QED
  BY <1>2, <1>3, <1>4, <1>5

LEMMA FreeIsIdle ==
  ASSUME Free
  PROVE  page # "closed" /\ work = Idle /\ ~Busy
BY IdleOK DEF Free, Busy

LEMMA NobodyListensKeepsTypes ==
  ASSUME TypeInv, NEW e \in Endpoints, NobodyListens(e)
  PROVE  TypeInv'
<1>1. /\ UNCHANGED <<dbVars, linkVars, pageVars, unannounced>>
      /\ notices' = [notices EXCEPT ![e] = @ - 1] /\ notices[e] > 0
  BY DEF NobodyListens
<1>2. DatabaseOK' /\ ScreenOK' /\ WorkOK'
  BY <1>1 DEF TypeInv, DatabaseOK, ScreenOK, WorkOK, dbVars, linkVars, ledgerVars, pageVars,
              screenVars, lightVars, Busy, Scope
<1>3. NoticesOK'
  <2>1. \A d \in Endpoints : Pending(d)' = Pending(d) /\ Pending(d) \in {0, 1}
    BY <1>1, PendingIs, PendingKept DEF pageVars, Busy
  <2>2. /\ delays' = delays /\ stored' = stored
        /\ notices \in [Endpoints -> Nat] /\ delays \in [Endpoints -> Nat]
        /\ stored \in [Endpoints -> Nat]
    BY <1>1 DEF pageVars, lightVars, dbVars, TypeInv, NoticesOK, DatabaseOK
  <2>3. notices' \in [Endpoints -> Nat] /\ \A d \in Endpoints : notices'[d] <= notices[d]
    BY <1>1, <2>2
  <2>4. QED
    BY <2>1, <2>2, <2>3 DEF TypeInv, NoticesOK
<1>4. QED
  BY <1>2, <1>3 DEF TypeInv

LEMMA LinkChangesKeepsTypes ==
  ASSUME TypeInv, LinkChanges
  PROVE  TypeInv'
<1>1. /\ UNCHANGED <<dbVars, notices, pageVars, unannounced>>
      /\ linkUp' \in BOOLEAN /\ linkEvents' \in BOOLEAN
      /\ linkEvents' => linkEvents \/ page = "system"
  BY DEF LinkChanges, TypeInv, ScreenOK
<1>2. DatabaseOK' /\ ScreenOK' /\ WorkOK'
  BY <1>1 DEF TypeInv, DatabaseOK, ScreenOK, WorkOK, dbVars, ledgerVars, pageVars,
              screenVars, lightVars, Busy, Scope
<1>3. NoticesOK'
  BY <1>1, PendingKept DEF TypeInv, NoticesOK, dbVars, pageVars, lightVars, Busy
<1>4. QED
  BY <1>2, <1>3 DEF TypeInv

LEMMA CalmKeepsTypes ==
  ASSUME TypeInv, NEW e \in Endpoints, Calm(e)
  PROVE  TypeInv'
<1>1. /\ UNCHANGED <<dbVars, linkVars, notices, page, work, screenVars, timer, unannounced>>
      /\ delays' = [delays EXCEPT ![e] = @ - 1] /\ delays[e] > 0
      /\ lit' = lit \ {e} /\ pulsing' = pulsing \ {e} /\ stuck' = stuck \ {e}
  BY DEF Calm, Dim
<1>2. DatabaseOK' /\ ScreenOK' /\ WorkOK'
  BY <1>1 DEF TypeInv, DatabaseOK, ScreenOK, WorkOK, dbVars, linkVars, ledgerVars,
              screenVars, Busy, Scope
<1>3. NoticesOK'
  <2>1. \A d \in Endpoints : Pending(d)' = Pending(d) /\ Pending(d) \in {0, 1}
    BY <1>1, PendingIs, PendingKept DEF Busy
  <2>2. /\ notices' = notices /\ stored' = stored
        /\ notices \in [Endpoints -> Nat] /\ delays \in [Endpoints -> Nat]
        /\ stored \in [Endpoints -> Nat]
    BY <1>1 DEF dbVars, TypeInv, NoticesOK, DatabaseOK
  <2>3. delays' \in [Endpoints -> Nat] /\ \A d \in Endpoints : delays'[d] <= delays[d]
    BY <1>1, <2>2
  <2>4. QED
    BY <2>1, <2>2, <2>3 DEF TypeInv, NoticesOK
<1>4. QED
  BY <1>2, <1>3 DEF TypeInv

(* A page that is closed, by its user or by a fault, keeps nothing. *)
LEMMA ClosedKeepsTypes ==
  ASSUME TypeInv, ClosedPage, linkEvents' = FALSE, UNCHANGED <<dbVars, linkUp, notices>>,
         unannounced' = unannounced
  PROVE  TypeInv'
<1>1. /\ page' = "closed" /\ work' = Idle /\ shown' = NoRows /\ shownLink' = FALSE
      /\ linkMissed' = FALSE /\ lit' = {} /\ pulsing' = {} /\ stuck' = {}
      /\ delays' = [e \in Endpoints |-> 0] /\ timer' = "off"
  BY DEF ClosedPage
<1>2. DatabaseOK'
  BY DEF TypeInv, DatabaseOK, dbVars, ledgerVars
<1>3. ScreenOK'
  BY <1>1, NoRowsOK DEF ScreenOK
<1>4. WorkOK'
  BY <1>1, IdleOK, NoRowsOK DEF WorkOK, Busy
<1>5. NoticesOK'
  <2>1. \A e \in Endpoints : Pending(e)' = 0
    BY <1>1, IdleOK, PendingEnds DEF Busy
  <2>2. \A e \in Endpoints : Pending(e) \in {0, 1}
    BY PendingIs
  <2>3. stored' = stored /\ notices' = notices /\ stored \in [Endpoints -> Nat]
    BY DEF dbVars, TypeInv, DatabaseOK
  <2>4. QED
    BY <1>1, <2>1, <2>2, <2>3 DEF TypeInv, NoticesOK
<1>6. QED
  BY <1>2, <1>3, <1>4, <1>5 DEF TypeInv

(* What begins a handler: the page has it, and a notice in hand was one on its way. *)
LEMMA BegunKeepsTypes ==
  ASSUME TypeInv, ~Busy, NEW job \in Jobs, Begin(job),
         UNCHANGED <<dbVars, linkUp, screenVars, pulsing, delays, stuck, unannounced>>,
         page' \in {"home", "system"}, page = "closed" \/ page' = page,
         job.do \in {"notice", "acknowledge"} => job.of \in Endpoints,
         page' = "home" => job.do \in {"open", "reload", "acknowledge", "notice"},
         page' = "system" => job.do \in {"open", "notice", "registry", "tick"},
         notices' \in [Endpoints -> Nat],
         \A e \in Endpoints :
           notices'[e] <= IF job = JobOf("notice", e) THEN notices[e] - 1 ELSE notices[e],
         linkEvents' \in BOOLEAN, linkEvents' => page' = "system",
         timer' \in {timer, "ticked"}, lit' \subseteq Endpoints
  PROVE  TypeInv' /\ Busy'
<1>1. /\ work' \in Works /\ work'.job = job /\ work'.rows = NoRows /\ Busy'
      /\ work'.stage \in {"find", "endpoints"}
      /\ work'.stage = "find" <=> job.do = "acknowledge"
  BY BeginOK DEF TypeInv, DatabaseOK, Busy
<1>2. DatabaseOK'
  BY DEF TypeInv, DatabaseOK, dbVars, ledgerVars
<1>3. ScreenOK'
  BY DEF TypeInv, ScreenOK, screenVars, dbVars
<1>4. WorkOK'
  BY <1>1, NoRowsOK DEF WorkOK, Busy
<1>5. NoticesOK'
  <2>1. ASSUME NEW e \in Endpoints
        PROVE  notices'[e] + Pending(e)' + delays'[e] <= stored'[e]
    <3>1. Pending(e) = 0
      BY DEF Pending
    <3>2. Pending(e)' = IF job = JobOf("notice", e) THEN 1 ELSE 0
      BY <1>1 DEF Pending
    <3>3. /\ notices[e] \in Nat /\ delays[e] \in Nat /\ stored[e] \in Nat
          /\ notices'[e] \in Nat /\ delays' = delays /\ stored' = stored
          /\ notices[e] + Pending(e) + delays[e] <= stored[e]
      BY DEF TypeInv, NoticesOK, DatabaseOK, dbVars
    <3>4. QED
      BY <3>1, <3>2, <3>3
  <2>2. QED
    BY <2>1 DEF TypeInv, NoticesOK
<1>6. QED
  BY <1>1, <1>2, <1>3, <1>4, <1>5 DEF TypeInv

LEMMA OpenPageKeepsTypes ==
  ASSUME TypeInv, OpenPage
  PROVE  TypeInv' /\ Busy' /\ page = "closed" /\ page' \in {"home", "system"}
<1>1. /\ Job("open") \in Jobs /\ Job("open").do = "open" /\ Job("open").of = NoEndpoint
      /\ \A e \in Endpoints : Job("open") # JobOf("notice", e)
  BY JobsOK DEF Triggers
<1>2. /\ Begin(Job("open")) /\ page = "closed" /\ page' \in {"home", "system"}
      /\ linkEvents' = FALSE
      /\ UNCHANGED <<dbVars, linkUp, notices, screenVars, lightVars, timer, unannounced>>
  BY DEF OpenPage
<1>3. ~Busy
  BY <1>2 DEF TypeInv, WorkOK, Busy
<1>4. linkEvents' \in BOOLEAN /\ ~linkEvents'
  BY <1>2, Zenon
<1>5. /\ notices' \in [Endpoints -> Nat] /\ timer' = timer /\ lit' = lit
      /\ lit' \subseteq Endpoints
      /\ \A e \in Endpoints : notices'[e] <= notices[e]
  BY <1>2 DEF lightVars, TypeInv, NoticesOK, ScreenOK
<1>6. QED
  BY <1>1, <1>2, <1>3, <1>4, <1>5, BegunKeepsTypes DEF lightVars

LEMMA NoticeArrivesKeepsTypes ==
  ASSUME TypeInv, NEW e \in Endpoints, NoticeArrives(e)
  PROVE  TypeInv' /\ Busy' /\ ~Busy
<1>1. /\ JobOf("notice", e) \in Jobs /\ JobOf("notice", e).do = "notice"
      /\ \A d \in Endpoints : JobOf("notice", d).of = d
  BY JobsOK DEF Triggers
<1>2. /\ Begin(JobOf("notice", e)) /\ notices[e] > 0 /\ page # "closed" /\ ~Busy
      /\ notices' = [notices EXCEPT ![e] = @ - 1]
      /\ UNCHANGED <<dbVars, linkUp, page, screenVars, pulsing, delays, stuck, timer,
                     unannounced>>
  BY FreeIsIdle DEF NoticeArrives
<1>3. /\ lit' \subseteq Endpoints
      /\ linkEvents' \in BOOLEAN /\ (linkEvents' => page' = "system")
  <2>1. CASE page = "system"
    <3>1. lit' = lit \union {e} /\ linkEvents' = TRUE
      BY <2>1 DEF NoticeArrives
    <3>2. linkEvents' \in BOOLEAN
      BY <3>1, Zenon
    <3>3. QED
      BY <1>2, <2>1, <3>1, <3>2 DEF TypeInv, ScreenOK
  <2>2. CASE page # "system"
    <3>1. lit' = lit /\ linkEvents' = linkEvents
      BY <2>2 DEF NoticeArrives
    <3>2. QED
      BY <1>2, <3>1 DEF TypeInv, ScreenOK
  <2>3. QED
    BY <2>1, <2>2
<1>4. \A d \in Endpoints :
        notices'[d] <= IF JobOf("notice", e) = JobOf("notice", d) THEN notices[d] - 1
                                                                   ELSE notices[d]
  BY <1>1, <1>2 DEF TypeInv, NoticesOK
<1>5. notices' \in [Endpoints -> Nat] /\ page' \in {"home", "system"} /\ page' = page
  BY <1>2 DEF TypeInv, NoticesOK, ScreenOK
<1>6. QED
  BY <1>1, <1>2, <1>3, <1>4, <1>5, BegunKeepsTypes

LEMMA OnRegistryChangedKeepsTypes ==
  ASSUME TypeInv, OnRegistryChanged
  PROVE  TypeInv' /\ Busy' /\ ~Busy /\ page = "system"
<1>1. /\ Job("registry") \in Jobs /\ Job("registry").do = "registry"
      /\ \A e \in Endpoints : Job("registry") # JobOf("notice", e)
  BY JobsOK DEF Triggers
<1>2. /\ Begin(Job("registry")) /\ linkEvents /\ ~Busy /\ linkEvents' = FALSE
      /\ UNCHANGED <<dbVars, linkUp, notices, page, screenVars, lightVars, timer,
                     unannounced>>
  BY FreeIsIdle DEF OnRegistryChanged
<1>3. page = "system"
  BY <1>2 DEF TypeInv, ScreenOK
<1>4. linkEvents' \in BOOLEAN /\ ~linkEvents'
  BY <1>2, Zenon
<1>5. /\ notices' \in [Endpoints -> Nat] /\ timer' = timer /\ lit' = lit
      /\ lit' \subseteq Endpoints
      /\ \A e \in Endpoints : notices'[e] <= notices[e]
  BY <1>2 DEF lightVars, TypeInv, NoticesOK, ScreenOK
<1>6. QED
  BY <1>1, <1>2, <1>3, <1>4, <1>5, BegunKeepsTypes DEF lightVars

LEMMA TimerTicksKeepsTypes ==
  ASSUME TypeInv, TimerTicks
  PROVE  TypeInv' /\ Busy' /\ ~Busy /\ page = "system"
<1>1. /\ Job("tick") \in Jobs /\ Job("tick").do = "tick"
      /\ \A e \in Endpoints : Job("tick") # JobOf("notice", e)
  BY JobsOK DEF Triggers
<1>2. /\ Begin(Job("tick")) /\ timer = "waiting" /\ ~Busy /\ timer' = "ticked"
      /\ UNCHANGED <<dbVars, linkVars, notices, page, screenVars, lightVars, unannounced>>
  BY FreeIsIdle DEF TimerTicks
<1>3. page = "system"
  BY <1>2 DEF TypeInv, ScreenOK
<1>4. QED
  BY <1>1, <1>2, <1>3, BegunKeepsTypes DEF lightVars, linkVars, TypeInv, NoticesOK, ScreenOK

LEMMA ClickKeepsTypes ==
  ASSUME TypeInv, Click
  PROVE  /\ TypeInv' /\ Busy' /\ ~Busy /\ page = "home"
         /\ work'.job.do \in {"reload", "acknowledge"}
<1>1. PICK job \in Jobs : /\ Begin(job) /\ job.do \in {"reload", "acknowledge"}
                          /\ job.do = "acknowledge" => job.of \in Endpoints
  <2>1. CASE Begin(Job("reload"))
    BY <2>1, JobsOK DEF Triggers
  <2>2. CASE \E e \in DOMAIN shown : Begin(JobOf("acknowledge", e))
    BY <2>2, JobsOK, RowsAre DEF Triggers, TypeInv, ScreenOK
  <2>3. QED
    BY <2>1, <2>2 DEF Click
<1>2. /\ page = "home" /\ ~Busy
      /\ UNCHANGED <<dbVars, linkVars, notices, page, screenVars, lightVars, timer,
                     unannounced>>
  BY FreeIsIdle DEF Click
<1>3. \A e \in Endpoints : job # JobOf("notice", e)
  BY <1>1, JobsOK, ZenonT(60) DEF Triggers
<1>4. work'.job = job
  BY <1>1, BeginOK DEF TypeInv, DatabaseOK
<1>5. QED
  BY <1>1, <1>2, <1>3, <1>4, BegunKeepsTypes DEF lightVars, linkVars, TypeInv, NoticesOK,
     ScreenOK

-----------------------------------------------------------------------------
(* The steps of a handler. *)

(* A handler that goes on keeps its job. *)
LEMMA GoesOnKeepsTypes ==
  ASSUME TypeInv, Busy, DatabaseOK',
         work' \in Works, work'.job = work.job, work'.stage # "idle",
         work'.stage \in {"find", "save"} => work.stage \in {"find", "save"},
         work'.stage = "failures" => page = "home",
         DOMAIN work'.rows \subseteq Scope(work.job),
         \A e \in DOMAIN work'.rows : work'.rows[e].result <= stored[e],
         UNCHANGED <<stored, linkVars, notices, page, screenVars, lightVars, timer>>
  PROVE  TypeInv' /\ Busy'
<1>1. ScreenOK' /\ Busy' /\ Scope(work.job)' = Scope(work.job)
  BY DEF TypeInv, ScreenOK, screenVars, lightVars, linkVars, Busy, Scope
<1>2. WorkOK'
  BY <1>1 DEF TypeInv, WorkOK, Busy, Scope
<1>3. NoticesOK'
  BY <1>1, PendingKept DEF TypeInv, NoticesOK, lightVars
<1>4. QED
  BY <1>1, <1>2, <1>3 DEF TypeInv

(* One that ends gives its notice to a delay, or nobody. *)
LEMMA EndsKeepsTypes ==
  ASSUME TypeInv, work' = Idle, page' = page, DatabaseOK', ScreenOK',
         UNCHANGED <<stored, notices>>,
         delays' \in [Endpoints -> Nat],
         \A e \in Endpoints : delays'[e] <= delays[e] + Pending(e)
  PROVE  TypeInv' /\ ~Busy'
<1>1. ~Busy'
  BY IdleOK DEF Busy
<1>2. WorkOK'
  BY <1>1, IdleOK, NoRowsOK DEF WorkOK, Busy
<1>3. NoticesOK'
  <2>1. ASSUME NEW e \in Endpoints
        PROVE  notices'[e] + Pending(e)' + delays'[e] <= stored'[e]
    <3>1. Pending(e)' = 0 /\ Pending(e) \in {0, 1}
      BY <1>1, PendingIs, PendingEnds
    <3>2. /\ notices[e] \in Nat /\ delays[e] \in Nat /\ stored[e] \in Nat
          /\ delays'[e] \in Nat /\ delays'[e] <= delays[e] + Pending(e)
          /\ notices[e] + Pending(e) + delays[e] <= stored[e]
      BY DEF TypeInv, NoticesOK, DatabaseOK
    <3>3. QED
      BY <3>1, <3>2
  <2>2. QED
    BY <2>1 DEF TypeInv, NoticesOK
<1>4. QED
  BY <1>1, <1>2, <1>3 DEF TypeInv

LEMMA SameDatabase ==
  ASSUME DatabaseOK, UNCHANGED <<dbVars, linkUp>>, unannounced' \subseteq Endpoints
  PROVE  DatabaseOK'
BY DEF DatabaseOK, dbVars, ledgerVars

LEMMA ScopeIs ==
  ASSUME WorkOK, Busy
  PROVE  /\ Scope(work.job) \subseteq Endpoints
         /\ page # "closed"
         /\ RefreshesOneRow => Scope(work.job) = {work.job.of} /\ work.job.of \in Endpoints
         /\ ~RefreshesOneRow => Scope(work.job) = Endpoints
BY DEF WorkOK, Busy, Scope, RefreshesOneRow

LEMMA FindEndpointKeepsTypes ==
  ASSUME TypeInv, FindEndpoint
  PROVE  /\ TypeInv' /\ page = "home" /\ Scope(work.job) = Endpoints
         /\ \/ work' = Idle
            \/ work'.stage \in {"save", "endpoints"} /\ work'.job = work.job /\ Busy'
<1>1. /\ work.stage = "find" /\ Busy /\ page = "home" /\ work.job.do = "acknowledge"
      /\ work \in Works
      /\ UNCHANGED <<dbVars, linkVars, notices, page, screenVars, lightVars, timer,
                     unannounced>>
  BY DEF FindEndpoint, TypeInv, WorkOK, Busy
<1>2. DatabaseOK' /\ Scope(work.job) = Endpoints
  BY <1>1, SameDatabase DEF linkVars, TypeInv, DatabaseOK, Scope
<1>3. CASE work' = Idle
  <2>1. ScreenOK'
    BY <1>1 DEF TypeInv, ScreenOK, screenVars, lightVars, linkVars, dbVars
  <2>2. \A e \in Endpoints : delays'[e] <= delays[e] + Pending(e)
    BY <1>1, PendingIs DEF lightVars, TypeInv, NoticesOK
  <2>3. QED
    BY <1>1, <1>2, <1>3, <2>1, <2>2, EndsKeepsTypes DEF dbVars, lightVars, TypeInv, NoticesOK
<1>4. CASE \E s \in {"save", "endpoints"} : work' = [work EXCEPT !.stage = s]
  <2>1. /\ work' \in Works /\ work'.job = work.job /\ work'.rows = work.rows
        /\ work'.stage \in {"save", "endpoints"}
    BY <1>1, <1>4 DEF Works, Stages
  <2>2. /\ DOMAIN work'.rows \subseteq Scope(work.job)
        /\ \A e \in DOMAIN work'.rows : work'.rows[e].result <= stored[e]
    BY <2>1 DEF TypeInv, WorkOK
  <2>3. QED
    BY <1>1, <1>2, <2>1, <2>2, GoesOnKeepsTypes DEF dbVars
<1>5. QED
  BY <1>3, <1>4 DEF FindEndpoint

LEMMA SaveAcknowledgeKeepsTypes ==
  ASSUME TypeInv, SaveAcknowledge
  PROVE  /\ TypeInv' /\ page = "home" /\ Scope(work.job) = Endpoints
         /\ Busy' /\ work'.stage = "endpoints" /\ work'.job = work.job
<1>1. /\ work.stage = "save" /\ Busy /\ page = "home" /\ work.job.do = "acknowledge"
      /\ work \in Works /\ work.job.of \in Endpoints
      /\ work' = [work EXCEPT !.stage = "endpoints"]
      /\ UNCHANGED <<listing, stored, lastFailure, linkVars, notices, page, screenVars,
                     lightVars, timer, unannounced>>
  BY DEF SaveAcknowledge, AfterAcknowledge, TypeInv, WorkOK, Busy
<1>2. DatabaseOK' /\ Scope(work.job) = Endpoints
  BY <1>1 DEF SaveAcknowledge, Ledger!Acknowledge, ledgerVars, linkVars, TypeInv,
     DatabaseOK, Scope
<1>3. /\ work' \in Works /\ work'.job = work.job /\ work'.rows = work.rows
      /\ work'.stage = "endpoints"
  BY <1>1 DEF Works, Stages
<1>4. /\ DOMAIN work'.rows \subseteq Scope(work.job)
      /\ \A e \in DOMAIN work'.rows : work'.rows[e].result <= stored[e]
  BY <1>3 DEF TypeInv, WorkOK
<1>5. QED
  BY <1>1, <1>2, <1>3, <1>4, GoesOnKeepsTypes

LEMMA ReadEndpointsKeepsTypes ==
  ASSUME TypeInv, ReadEndpoints
  PROVE  /\ TypeInv' /\ Busy /\ Busy'
         /\ work'.stage = "results" /\ work'.job = work.job /\ work'.link = work.link
         /\ DOMAIN work'.rows = Scope(work.job) \intersect Listed
         /\ \A e \in DOMAIN work'.rows :
              work'.rows[e] = [alert |-> flagged[e], result |-> 0, lastFailure |-> 0]
<1> DEFINE S == Scope(work.job) \intersect Listed
           rows == [e \in S |-> [alert |-> flagged[e], result |-> 0, lastFailure |-> 0]]
<1>1. /\ work.stage = "endpoints" /\ Busy /\ work \in Works
      /\ work' = [work EXCEPT !.stage = "results", !.rows = rows]
      /\ unannounced' = unannounced \ Scope(work.job)
      /\ UNCHANGED <<dbVars, linkVars, notices, page, screenVars, lightVars, timer>>
  BY DEF ReadEndpoints, TypeInv, WorkOK, Busy
<1>2. DatabaseOK'
  BY <1>1, SameDatabase DEF linkVars, TypeInv, DatabaseOK
<1>3. rows \in Rows /\ DOMAIN rows = S
  <2>1. S \in SUBSET Endpoints
    BY DEF Listed
  <2>2. rows \in [S -> Row]
    BY <2>1, PagesAssumption DEF Row, TypeInv, DatabaseOK, PagesAssumption
  <2>3. QED
    BY <2>1, <2>2, AreRows
<1>4. /\ work' \in Works /\ work'.job = work.job /\ work'.rows = rows
      /\ work'.stage = "results" /\ work'.link = work.link
  BY <1>1, <1>3 DEF Works, Stages
<1>5. \A e \in DOMAIN work'.rows :
         /\ work'.rows[e] = [alert |-> flagged[e], result |-> 0, lastFailure |-> 0]
         /\ work'.rows[e].result <= stored[e]
  <2>1. \A e \in S : rows[e] = [alert |-> flagged[e], result |-> 0, lastFailure |-> 0]
    OBVIOUS
  <2>2. S \subseteq Endpoints /\ stored \in [Endpoints -> Nat]
    BY DEF Listed, TypeInv, DatabaseOK
  <2>3. \A e \in DOMAIN work'.rows :
          work'.rows[e] = [alert |-> flagged[e], result |-> 0, lastFailure |-> 0]
    BY <1>3, <1>4, <2>1
  <2>4. \A e \in DOMAIN work'.rows : work'.rows[e].result = 0 /\ stored[e] >= 0
    BY <1>3, <1>4, <2>2, <2>3
  <2>5. QED
    BY <2>3, <2>4
<1>6. QED
  BY <1>1, <1>2, <1>3, <1>4, <1>5, GoesOnKeepsTypes DEF dbVars

LEMMA ReadResultsKeepsTypes ==
  ASSUME TypeInv, ReadResults
  PROVE  /\ TypeInv' /\ Busy /\ Busy' /\ page = "home"
         /\ work'.stage = "failures" /\ work'.job = work.job /\ work'.link = work.link
         /\ work'.rows = WithResults(work.rows)
<1>1. /\ work.stage = "results" /\ Busy /\ work \in Works /\ page = "home"
      /\ work' = [work EXCEPT !.stage = "failures", !.rows = WithResults(@)]
      /\ UNCHANGED <<dbVars, linkVars, notices, page, screenVars, lightVars, timer,
                     unannounced>>
  BY DEF ReadResults, TypeInv, WorkOK, Busy
<1>2. DatabaseOK'
  BY <1>1, SameDatabase DEF linkVars, TypeInv, DatabaseOK
<1>3. work.rows \in Rows /\ \A e \in DOMAIN work.rows : work.rows[e].result <= stored[e]
  BY DEF TypeInv, WorkOK, Works
<1>4. /\ WithResults(work.rows) \in Rows
      /\ DOMAIN WithResults(work.rows) = DOMAIN work.rows
      /\ \A e \in DOMAIN work.rows : WithResults(work.rows)[e].result <= stored[e]
  BY <1>3, WithResultsOK DEF TypeInv
<1>5. /\ work' \in Works /\ work'.job = work.job /\ work'.rows = WithResults(work.rows)
      /\ work'.stage = "failures" /\ work'.link = work.link
  BY <1>1, <1>4 DEF Works, Stages
<1>6. DOMAIN work'.rows \subseteq Scope(work.job)
  BY <1>4, <1>5 DEF TypeInv, WorkOK
<1>7. QED
  BY <1>1, <1>2, <1>4, <1>5, <1>6, GoesOnKeepsTypes DEF dbVars

LEMMA NoticeJob ==
  ASSUME NEW job \in Jobs, job.do = "notice"
  PROVE  job = JobOf("notice", job.of)
BY DEF Jobs, JobOf

LEMMA DelayOK ==
  ASSUME TypeInv, Busy, Delay
  PROVE  /\ delays' \in [Endpoints -> Nat]
         /\ \A e \in Endpoints :
              /\ delays'[e] <= delays[e] + Pending(e) /\ delays'[e] >= delays[e]
              /\ work.job = JobOf("notice", e) => delays'[e] > 0
<1>1. delays \in [Endpoints -> Nat] /\ work.job \in Jobs
  BY DEF TypeInv, NoticesOK, WorkOK, Works
<1>2. CASE work.job.do = "notice"
  <2>1. work.job.of \in Endpoints /\ work.job = JobOf("notice", work.job.of)
    BY <1>1, <1>2, NoticeJob DEF TypeInv, WorkOK
  <2>2. delays' = [delays EXCEPT ![work.job.of] = @ + 1]
    BY <1>2 DEF Delay
  <2>3. Pending(work.job.of) = 1 /\ \A e \in Endpoints : Pending(e) \in {0, 1}
    BY <2>1, PendingIs
  <2>4. ASSUME NEW e \in Endpoints, work.job = JobOf("notice", e)
        PROVE  e = work.job.of
    BY <2>4, JobsOK DEF Triggers
  <2>5. delays' \in [Endpoints -> Nat]
    BY <1>1, <2>1, <2>2
  <2>6. ASSUME NEW e \in Endpoints
        PROVE  /\ delays'[e] <= delays[e] + Pending(e) /\ delays'[e] >= delays[e]
               /\ work.job = JobOf("notice", e) => delays'[e] > 0
    <3>1. CASE e = work.job.of
      <4>1. delays'[e] = delays[e] + 1 /\ delays[e] \in Nat /\ Pending(e) = 1
        BY <1>1, <2>1, <2>2, <2>3, <3>1
      <4>2. QED
        BY <4>1
    <3>2. CASE e # work.job.of
      <4>1. delays'[e] = delays[e] /\ delays[e] \in Nat /\ Pending(e) \in {0, 1}
        BY <1>1, <2>1, <2>2, <2>3, <3>2
      <4>2. QED
        BY <2>4, <3>2, <4>1
    <3>3. QED
      BY <3>1, <3>2
  <2>7. QED
    BY <2>5, <2>6
<1>3. CASE work.job.do # "notice"
  <2>1. delays' = delays
    BY <1>3 DEF Delay
  <2>2. ASSUME NEW e \in Endpoints
        PROVE  /\ delays'[e] <= delays[e] + Pending(e) /\ delays'[e] >= delays[e]
               /\ work.job # JobOf("notice", e)
    <3>1. JobOf("notice", e).do = "notice"
      BY JobsOK DEF Triggers
    <3>2. delays'[e] = delays[e] /\ delays[e] \in Nat /\ Pending(e) \in {0, 1}
      BY <1>1, <2>1, PendingIs
    <3>3. QED
      BY <1>3, <3>1, <3>2
  <2>3. QED
    BY <1>1, <2>1, <2>2
<1>4. QED
  BY <1>2, <1>3

LEMMA HighlightOK ==
  ASSUME TypeInv, Highlight
  PROVE  /\ lit' \subseteq Endpoints
         /\ \A e \in lit' : e \in lit \/ work.job = JobOf("notice", e)
<1>1. work.job \in Jobs
  BY DEF TypeInv, WorkOK, Works
<1>2. CASE work.job.do = "notice"
  BY <1>1, <1>2, NoticeJob DEF Highlight, TypeInv, WorkOK, ScreenOK
<1>3. CASE work.job.do # "notice"
  BY <1>3 DEF Highlight, TypeInv, ScreenOK
<1>4. QED
  BY <1>2, <1>3

(* What a handler shows at its end. *)
ShownAfter(rows) ==
  /\ DOMAIN shown' = (DOMAIN shown \ Scope(work.job)) \union DOMAIN rows
  /\ \A e \in DOMAIN rows : shown'[e] = rows[e]
  /\ \A e \in DOMAIN shown \ (Scope(work.job) \union DOMAIN rows) : shown'[e] = shown[e]

LEMMA ShownTypes ==
  ASSUME TypeInv, NEW rows \in Rows, \A e \in DOMAIN rows : rows[e].result <= stored[e],
         ShowRows(rows)
  PROVE  /\ shown' \in Rows /\ ShownAfter(rows)
         /\ \A e \in DOMAIN shown' : shown'[e].result <= stored[e]
<1>1. shown' \in Rows /\ ShownAfter(rows)
  BY ShowRowsOK DEF TypeInv, ScreenOK, ShownAfter
<1>2. \A e \in DOMAIN shown' :
        e \in DOMAIN rows \/ (e \in DOMAIN shown /\ shown'[e] = shown[e])
  BY <1>1 DEF ShownAfter
<1>3. QED
  BY <1>1, <1>2 DEF ShownAfter, TypeInv, ScreenOK

LEMMA HomeShowsKeepsTypes ==
  ASSUME TypeInv, HomeShows
  PROVE  TypeInv' /\ Busy /\ ~Busy' /\ ShownAfter(WithFailures(work.rows))
<1>1. /\ work.stage = "failures" /\ Busy /\ page = "home" /\ work \in Works
      /\ ShowRows(WithFailures(work.rows)) /\ Highlight /\ Delay /\ work' = Idle
      /\ UNCHANGED <<dbVars, linkVars, notices, page, shownLink, linkMissed, pulsing,
                     stuck, timer, unannounced>>
  BY DEF HomeShows, TypeInv, WorkOK, Busy
<1>2. DatabaseOK'
  BY <1>1, SameDatabase DEF linkVars, TypeInv, DatabaseOK
<1>3. work.rows \in Rows /\ \A e \in DOMAIN work.rows : work.rows[e].result <= stored[e]
  BY DEF TypeInv, WorkOK, Works
<1>4. /\ shown' \in Rows /\ ShownAfter(WithFailures(work.rows))
      /\ \A e \in DOMAIN shown' : shown'[e].result <= stored[e]
  BY <1>1, <1>3, WithFailuresOK, ShownTypes DEF TypeInv
<1>5. ScreenOK'
  BY <1>1, <1>4, HighlightOK DEF TypeInv, ScreenOK, linkVars, dbVars
<1>6. QED
  BY <1>1, <1>2, <1>4, <1>5, DelayOK, EndsKeepsTypes DEF dbVars

LEMMA RemoveRowKeepsTypes ==
  ASSUME TypeInv, RemoveRow
  PROVE  TypeInv' /\ Busy /\ ~Busy' /\ ShownAfter(NoRows)
<1>1. /\ work.stage = "endpoints" /\ Busy /\ page = "home" /\ work \in Works
      /\ ShowRows(NoRows) /\ Highlight /\ Delay /\ work' = Idle
      /\ unannounced' = unannounced \ {work.job.of}
      /\ UNCHANGED <<dbVars, linkVars, notices, page, shownLink, linkMissed, pulsing,
                     stuck, timer>>
  BY DEF RemoveRow, RefreshesOneRow, TypeInv, WorkOK, Busy
<1>2. DatabaseOK'
  BY <1>1, SameDatabase DEF linkVars, TypeInv, DatabaseOK
<1>3. /\ shown' \in Rows /\ ShownAfter(NoRows)
      /\ \A e \in DOMAIN shown' : shown'[e].result <= stored[e]
  BY <1>1, NoRowsOK, ShownTypes
<1>4. ScreenOK'
  BY <1>1, <1>3, HighlightOK DEF TypeInv, ScreenOK, linkVars, dbVars
<1>5. QED
  BY <1>1, <1>2, <1>3, <1>4, DelayOK, EndsKeepsTypes DEF dbVars

LEMMA OverviewShowsKeepsTypes ==
  ASSUME TypeInv, OverviewShows
  PROVE  TypeInv' /\ Busy /\ ~Busy' /\ ShownAfter(WithResults(work.rows))
<1>1. /\ work.stage = "results" /\ Busy /\ page = "system" /\ work \in Works
      /\ ShowRows(WithResults(work.rows)) /\ Delay /\ work' = Idle
      /\ shownLink' = work.link /\ linkMissed' = FALSE
      /\ pulsing' = lit \intersect DOMAIN work.rows
      /\ timer' \in {"waiting", timer}
      /\ UNCHANGED <<dbVars, linkVars, notices, page, lit, stuck, unannounced>>
  BY DEF OverviewShows, AfterTick, TypeInv, WorkOK, Busy
<1>2. DatabaseOK'
  BY <1>1, SameDatabase DEF linkVars, TypeInv, DatabaseOK
<1>3. work.rows \in Rows /\ \A e \in DOMAIN work.rows : work.rows[e].result <= stored[e]
  BY DEF TypeInv, WorkOK, Works
<1>4. /\ shown' \in Rows /\ ShownAfter(WithResults(work.rows))
      /\ \A e \in DOMAIN shown' : shown'[e].result <= stored[e]
  BY <1>1, <1>3, WithResultsOK, ShownTypes DEF TypeInv
<1>5. shownLink' \in BOOLEAN /\ linkMissed' \in BOOLEAN
  <2>1. work.link \in BOOLEAN
    BY <1>1 DEF Works
  <2>2. QED
    BY <1>1, <2>1, Zenon
<1>6. ScreenOK'
  BY <1>1, <1>4, <1>5 DEF TypeInv, ScreenOK, linkVars, dbVars
<1>7. QED
  BY <1>1, <1>2, <1>4, <1>6, DelayOK, EndsKeepsTypes DEF dbVars

LEMMA CircuitFaultsKeepsTypes ==
  ASSUME TypeInv, ClosePage \/ CircuitFaults
  PROVE  TypeInv' /\ page' = "closed" /\ lit' = {} /\ pulsing' = {}
BY ClosedKeepsTypes DEF ClosePage, CircuitFaults, ClosedPage

(* The two faults a page survives. *)
LEMMA FaultsKeepTypes ==
  ASSUME TypeInv, EventFaults \/ TickFaults
  PROVE  TypeInv' /\ Busy /\ ~Busy'
<1>1. /\ Busy /\ work' = Idle
      /\ unannounced' \in {unannounced \union Scope(work.job), Endpoints}
      /\ UNCHANGED <<dbVars, linkVars, notices, page, shown, shownLink, lit, pulsing, delays>>
      /\ timer' \in {timer, "ended"}
  BY DEF EventFaults, TickFaults, Busy, lightVars
<1>2. DatabaseOK'
  BY <1>1, SameDatabase, ScopeIs DEF linkVars, TypeInv, DatabaseOK
<1>3. stuck' \subseteq Endpoints
  BY DEF EventFaults, TickFaults, lightVars, TypeInv, ScreenOK, WorkOK, Works, Jobs
<1>4. linkMissed' \in BOOLEAN
  <2>1. CASE EventFaults
    BY <2>1, Zenon DEF EventFaults
  <2>2. CASE TickFaults
    BY <2>2, Zenon DEF TickFaults
  <2>3. QED
    BY <2>1, <2>2
<1>5. ScreenOK'
  BY <1>1, <1>3, <1>4 DEF TypeInv, ScreenOK, linkVars, dbVars
<1>6. \A e \in Endpoints : delays'[e] <= delays[e] + Pending(e)
  BY <1>1, PendingIs DEF TypeInv, NoticesOK
<1>7. QED
  BY <1>1, <1>2, <1>5, <1>6, EndsKeepsTypes DEF dbVars, TypeInv, NoticesOK

LEMMA TypesKept == TypeInv /\ [Next]_vars => TypeInv'
<1> SUFFICES ASSUME TypeInv, [Next]_vars PROVE TypeInv'
  OBVIOUS
<1>1. CASE Next
  BY <1>1, WritersKeepTypes, NoticeArrivesKeepsTypes, NobodyListensKeepsTypes, CalmKeepsTypes,
     LinkChangesKeepsTypes, OnRegistryChangedKeepsTypes, TimerTicksKeepsTypes,
     OpenPageKeepsTypes, ClickKeepsTypes, FindEndpointKeepsTypes, SaveAcknowledgeKeepsTypes,
     ReadEndpointsKeepsTypes,
     ReadResultsKeepsTypes, HomeShowsKeepsTypes, RemoveRowKeepsTypes, OverviewShowsKeepsTypes,
     CircuitFaultsKeepsTypes, FaultsKeepTypes
  DEF Next, WorkStep
<1>2. CASE UNCHANGED vars
  <2>1. DatabaseOK' /\ ScreenOK' /\ WorkOK'
    BY <1>2 DEF vars, TypeInv, DatabaseOK, ScreenOK, WorkOK, dbVars, ledgerVars, linkVars,
                pageVars, screenVars, lightVars, Busy, Scope
  <2>2. NoticesOK'
    BY <1>2, PendingKept DEF vars, TypeInv, NoticesOK, dbVars, pageVars, lightVars, Busy
  <2>3. QED
    BY <2>1, <2>2 DEF TypeInv
<1>3. QED
  BY <1>1, <1>2

-----------------------------------------------------------------------------
(* The link: whoever takes its state takes the present one, and a change after that
   has the page told. *)
LEMMA BeginTakesLink ==
  ASSUME TypeInv, NEW job, Begin(job)
  PROVE  work'.link = linkUp /\ Busy'
BY DEF Begin, Busy

LEMMA LinkFollowsKept ==
  ASSUME TypeInv, LinkFollows, [Next]_vars
  PROVE  LinkFollows'
<1> USE DEF LinkFollows
<1>1. CASE UNCHANGED <<linkUp, linkEvents, page, work, shownLink, linkMissed>>
  BY <1>1 DEF Busy
<1>2. ASSUME NEW e \in Endpoints, NoticeArrives(e) PROVE LinkFollows'
  <2>1. page' = page /\ linkUp' = linkUp /\ (page = "system" => linkEvents' = TRUE)
    BY <1>2 DEF NoticeArrives
  <2>2. QED
    BY <2>1
<1>3. CASE LinkChanges
  <2>1. page' = page /\ (page = "system" => linkEvents')
    BY <1>3 DEF LinkChanges, pageVars, Subscribed
  <2>2. QED
    BY <2>1
<1>4. CASE OnRegistryChanged \/ TimerTicks
  <2>1. \E job : Begin(job)
    BY <1>4 DEF OnRegistryChanged, TimerTicks
  <2>2. page' = page /\ linkUp' = linkUp
    BY <1>4 DEF OnRegistryChanged, TimerTicks, linkVars
  <2>3. QED
    BY <2>1, <2>2, BeginTakesLink
<1>5. CASE OpenPage
  BY <1>5, BeginTakesLink DEF OpenPage
<1>6. CASE Click
  BY <1>6 DEF Click
<1>7. CASE ClosePage \/ CircuitFaults
  BY <1>7 DEF ClosePage, CircuitFaults, ClosedPage
<1>8. CASE FindEndpoint \/ SaveAcknowledge
  BY <1>8, FindEndpointKeepsTypes, SaveAcknowledgeKeepsTypes DEF FindEndpoint, SaveAcknowledge
<1>9. CASE ReadEndpoints
  <2>1. /\ UNCHANGED <<linkUp, linkEvents, page, shownLink, linkMissed>>
        /\ Busy /\ Busy' /\ work'.link = work.link
    BY <1>9, ReadEndpointsKeepsTypes DEF ReadEndpoints, linkVars, screenVars
  <2>2. QED
    BY <2>1
<1>10. CASE ReadResults \/ HomeShows \/ RemoveRow
  <2>1. page = "home" /\ page' = page
    BY <1>10 DEF ReadResults, HomeShows, RemoveRow, RefreshesOneRow
  <2>2. QED
    BY <2>1
<1>11. CASE OverviewShows
  <2>1. /\ UNCHANGED <<linkUp, linkEvents, page>>
        /\ Busy /\ ~Busy' /\ shownLink' = work.link
    BY <1>11, OverviewShowsKeepsTypes DEF OverviewShows, linkVars
  <2>2. QED
    BY <2>1
<1>12. CASE EventFaults \/ TickFaults
  <2>1. page' = page /\ ~Busy' /\ (page = "system" => linkMissed')
    BY <1>12, FaultsKeepTypes DEF EventFaults, TickFaults
  <2>2. QED
    BY <2>1
<1>13. CASE UNCHANGED vars
  BY <1>1, <1>13 DEF vars, linkVars, pageVars, screenVars
<1>14. ASSUME NEW e \in Endpoints, Writers(e) \/ NobodyListens(e) \/ Calm(e) PROVE LinkFollows'
  <2>1. UNCHANGED <<linkUp, linkEvents, page, work, shownLink, linkMissed>>
    BY <1>14 DEF Writers, StoreResult, LoseNotice, ListOrUnlist, DeleteEndpoint,
       AcknowledgeElsewhere, NobodyListens, Calm, linkVars, pageVars, screenVars
  <2>2. QED
    BY <1>1, <2>1
<1>15. QED
  BY <1>2, <1>3, <1>4, <1>5, <1>6, <1>7, <1>8, <1>9, <1>10, <1>11, <1>12, <1>13, <1>14
  DEF Next, WorkStep

-----------------------------------------------------------------------------
(* The lights: the notice in hand that lit one has it put out, or fails. *)
LEMMA LightsKept ==
  ASSUME TypeInv, LightsOK, [Next]_vars
  PROVE  LightsOK'
<1> USE DEF LightsOK
<1>1. CASE UNCHANGED <<page, lit, pulsing, delays, stuck, work>>
  BY <1>1 DEF Busy
<1>2. ASSUME NEW e \in Endpoints, NoticeArrives(e) PROVE LightsOK'
  <2>1. /\ UNCHANGED <<page, pulsing, delays, stuck>> /\ Busy' /\ ~Busy
        /\ lit' = IF page = "system" THEN lit \union {e} ELSE lit
    BY <1>2, NoticeArrivesKeepsTypes DEF NoticeArrives
  <2>2. work'.job = JobOf("notice", e)
    BY <1>2 DEF NoticeArrives, Begin
  <2>3. QED
    BY <2>1, <2>2
<1>3. CASE OnRegistryChanged \/ TimerTicks \/ Click
  <2>1. UNCHANGED <<page, lit, pulsing, delays, stuck>> /\ ~Busy
    BY <1>3, FreeIsIdle DEF OnRegistryChanged, TimerTicks, Click, lightVars
  <2>2. QED
    BY <2>1
<1>4. CASE OpenPage
  <2>1. UNCHANGED <<lit, pulsing, delays, stuck>> /\ page = "closed"
    BY <1>4 DEF OpenPage, lightVars
  <2>2. QED
    BY <2>1
<1>5. CASE ClosePage \/ CircuitFaults
  BY <1>5, CircuitFaultsKeepsTypes
<1>6. CASE FindEndpoint \/ SaveAcknowledge
  <2>1. UNCHANGED <<page, lit, pulsing, delays, stuck>> /\ page = "home"
    BY <1>6, FindEndpointKeepsTypes, SaveAcknowledgeKeepsTypes
    DEF FindEndpoint, SaveAcknowledge, lightVars
  <2>2. QED
    BY <2>1
<1>7. CASE ReadEndpoints \/ ReadResults
  <2>1. /\ UNCHANGED <<page, lit, pulsing, delays, stuck>>
        /\ work'.job = work.job /\ (Busy => Busy')
    BY <1>7, ReadEndpointsKeepsTypes, ReadResultsKeepsTypes DEF ReadEndpoints,
       ReadResults, lightVars
  <2>2. QED
    BY <2>1
<1>8. CASE HomeShows \/ RemoveRow
  <2>1. /\ UNCHANGED <<page, pulsing, stuck>> /\ page = "home"
        /\ Busy /\ Delay /\ Highlight
    BY <1>8, HomeShowsKeepsTypes, RemoveRowKeepsTypes
    DEF HomeShows, RemoveRow, RefreshesOneRow
  <2>2. ASSUME NEW e \in lit' \union pulsing'
        PROVE  delays'[e] > 0
    <3>1. e \in Endpoints /\ delays \in [Endpoints -> Nat]
      BY <2>1, <2>2, HighlightOK DEF TypeInv, ScreenOK, NoticesOK
    <3>2. e \in lit \union pulsing \/ work.job = JobOf("notice", e)
      BY <2>1, <2>2, HighlightOK
    <3>3. CASE e \in lit \union pulsing
      <4>1. delays[e] > 0
        BY <2>1, <3>3
      <4>2. QED
        BY <2>1, <3>1, <4>1, DelayOK
    <3>4. QED
      BY <2>1, <3>1, <3>2, <3>3, DelayOK
  <2>3. QED
    BY <2>1, <2>2
<1>9. CASE OverviewShows
  <2>1. /\ UNCHANGED <<page, lit, stuck>> /\ page = "system"
        /\ Busy /\ Delay /\ pulsing' \subseteq lit
    BY <1>9, OverviewShowsKeepsTypes DEF OverviewShows
  <2>2. ASSUME NEW e \in lit
        PROVE  delays'[e] > 0 \/ e \in stuck'
    <3>1. e \in Endpoints /\ delays \in [Endpoints -> Nat]
      BY <2>2 DEF TypeInv, ScreenOK, NoticesOK
    <3>2. delays[e] > 0 => delays'[e] > 0
      BY <2>1, <3>1, DelayOK
    <3>3. QED
      BY <2>1, <2>2, <3>1, <3>2, DelayOK
  <2>3. QED
    BY <2>1, <2>2
<1>10. CASE EventFaults
  <2>1. /\ UNCHANGED <<page, lit, pulsing, delays>> /\ stuck \subseteq stuck'
        /\ page = "system" => stuck' = stuck \union ({work.job.of} \ {NoEndpoint})
    BY <1>10 DEF EventFaults
  <2>2. ASSUME NEW e \in lit \union pulsing, work.job = JobOf("notice", e), page = "system"
        PROVE  e \in stuck'
    <3>1. e \in Endpoints /\ work.job.of = e
      BY <2>2, JobsOK DEF Triggers, TypeInv, ScreenOK
    <3>2. QED
      BY <2>1, <2>2, <3>1, PagesAssumption DEF PagesAssumption
  <2>3. QED
    BY <2>1, <2>2
<1>11. CASE TickFaults
  <2>1. UNCHANGED <<page, lit, pulsing, delays, stuck>> /\ work.job.do = "tick"
    BY <1>11 DEF TickFaults, lightVars
  <2>2. \A e \in lit \union pulsing : work.job # JobOf("notice", e)
    BY <2>1, JobsOK DEF Triggers, TypeInv, ScreenOK
  <2>3. QED
    BY <2>1, <2>2
<1>12. ASSUME NEW e \in Endpoints, Calm(e) PROVE LightsOK'
  <2>1. /\ delays' = [delays EXCEPT ![e] = @ - 1] /\ work' = work /\ page' = page
        /\ lit' = lit \ {e} /\ pulsing' = pulsing \ {e} /\ stuck' = stuck \ {e}
        /\ delays \in [Endpoints -> Nat]
        /\ lit \union pulsing \subseteq Endpoints
    BY <1>12 DEF Calm, Dim, TypeInv, NoticesOK, ScreenOK
  <2>2. \A d \in Endpoints \ {e} : delays'[d] = delays[d]
    BY <2>1
  <2>3. Busy' <=> Busy
    BY <2>1 DEF Busy
  <2>4. QED
    BY <2>1, <2>2, <2>3
<1>13. ASSUME NEW e \in Endpoints, Writers(e) \/ NobodyListens(e) PROVE LightsOK'
  <2>1. UNCHANGED <<page, lit, pulsing, delays, stuck, work>>
    BY <1>13 DEF Writers, StoreResult, LoseNotice, ListOrUnlist, DeleteEndpoint,
       AcknowledgeElsewhere, NobodyListens, pageVars, lightVars
  <2>2. QED
    BY <1>1, <2>1
<1>14. CASE LinkChanges \/ UNCHANGED vars
  BY <1>1, <1>14 DEF LinkChanges, vars, pageVars, lightVars
<1>15. QED
  BY <1>2, <1>3, <1>4, <1>5, <1>6, <1>7, <1>8, <1>9, <1>10, <1>11, <1>12, <1>13, <1>14
  DEF Next, WorkStep

-----------------------------------------------------------------------------
(* The rows.  RowsFollow, of one endpoint. *)
RowFollows(e) ==
  Followed(e) =>
    /\ work.stage \in {"idle", "find"} \/ e \notin Scope(work.job) => IsShown(e)
    /\ work.stage \in {"results", "failures"} /\ e \in Scope(work.job) => IsRead(e)

(* A step that does nothing to e in the database. *)
SameInDatabase(e) ==
  /\ listing'[e] = listing[e] /\ stored'[e] = stored[e]
  /\ lastFailure'[e] = lastFailure[e] /\ flagged'[e] = flagged[e]

LEMMA SameReadings ==
  ASSUME NEW e \in Endpoints, SameInDatabase(e)
  PROVE  /\ ReadLatest(e)' = ReadLatest(e) /\ ReadLastFailure(e)' = ReadLastFailure(e)
         /\ e \in Listed' <=> e \in Listed
         /\ page' = page => CurrentRow(e)' = CurrentRow(e)
BY DEF SameInDatabase, ReadLatest, ReadLastFailure, Listed, CurrentRow

LEMMA SameShown ==
  ASSUME NEW e \in Endpoints, SameInDatabase(e), page' = page, shown' = shown
  PROVE  IsShown(e)' <=> IsShown(e)
BY SameReadings DEF IsShown

LEMMA SameRow ==
  ASSUME NEW e \in Endpoints, SameInDatabase(e), RowFollows(e),
         UNCHANGED <<page, shown, work>>, Followed(e)' => Followed(e)
  PROVE  RowFollows(e)'
<1>1. IsShown(e)' <=> IsShown(e)
  BY SameShown
<1>2. IsRead(e)' <=> IsRead(e)
  BY SameReadings DEF IsRead, SameInDatabase
<1>3. QED
  BY <1>1, <1>2 DEF RowFollows, Scope

LEMMA UntouchedDatabase ==
  ASSUME UNCHANGED dbVars
  PROVE  \A e \in Endpoints : SameInDatabase(e)
BY DEF SameInDatabase, dbVars, ledgerVars

LEMMA WritersKeepRow ==
  ASSUME TypeInv, NEW d \in Endpoints, RowFollows(d), NEW e \in Endpoints, Writers(e)
  PROVE  RowFollows(d)'
<1>1. UNCHANGED <<page, shown, work>>
  BY DEF Writers, StoreResult, LoseNotice, ListOrUnlist, DeleteEndpoint, AcknowledgeElsewhere,
         pageVars, screenVars
<1>2. CASE d = e
  <2>1. CASE StoreResult(e)
    <3>1. notices'[e] = notices[e] + 1 /\ notices[e] \in Nat
      BY <2>1 DEF StoreResult, TypeInv, NoticesOK
    <3>2. QED
      BY <1>2, <3>1 DEF RowFollows, Followed
  <2>2. CASE ~StoreResult(e)
    <3>1. e \in unannounced'
      BY <2>2 DEF Writers, LoseNotice, ListOrUnlist, DeleteEndpoint, AcknowledgeElsewhere
    <3>2. QED
      BY <1>2, <3>1 DEF RowFollows, Followed
  <2>3. QED
    BY <2>1, <2>2
<1>3. CASE d # e
  <2>1. SameInDatabase(d)
    <3>1. /\ listing'[d] = listing[d] /\ stored'[d] = stored[d]
          /\ lastFailure'[d] = lastFailure[d]
      BY <1>3 DEF Writers, StoreResult, LoseNotice, ListOrUnlist, DeleteEndpoint,
         AcknowledgeElsewhere, dbVars, TypeInv, DatabaseOK
    <3>2. flagged'[d] = flagged[d]
      BY <1>3 DEF Writers, StoreResult, LoseNotice, ListOrUnlist, DeleteEndpoint,
         AcknowledgeElsewhere, dbVars, ledgerVars, TypeInv, DatabaseOK, Ledger!RecordSuccess,
         Ledger!RecordFailure, Ledger!RecordAcknowledgedFailure, Ledger!Remove,
         Ledger!Acknowledge
    <3>3. QED
      BY <3>1, <3>2 DEF SameInDatabase
  <2>2. unannounced \subseteq unannounced' /\ notices'[d] = notices[d]
    BY <1>3 DEF Writers, StoreResult, LoseNotice, ListOrUnlist, DeleteEndpoint,
       AcknowledgeElsewhere, TypeInv, NoticesOK
  <2>3. Followed(d)' => Followed(d)
    BY <1>1, <2>2 DEF Followed
  <2>4. QED
    BY <1>1, <2>1, <2>3, SameRow
<1>4. QED
  BY <1>2, <1>3

LEMMA BeginsKeepRow ==
  ASSUME TypeInv, NEW d \in Endpoints, RowFollows(d),
         \/ OpenPage \/ OnRegistryChanged \/ TimerTicks \/ Click
         \/ \E e \in Endpoints : NoticeArrives(e)
  PROVE  RowFollows(d)'
<1>1. CASE OpenPage
  <2>1. work'.job = Job("open") /\ work'.stage = "endpoints" /\ Job("open").do = "open"
    BY <1>1, JobsOK DEF OpenPage, Begin, Triggers
  <2>2. QED
    BY <2>1 DEF RowFollows, Scope
<1>2. CASE OnRegistryChanged \/ TimerTicks
  <2>1. /\ Job("registry").do = "registry" /\ Job("tick").do = "tick"
        /\ work'.job \in {Job("registry"), Job("tick")} /\ work'.stage = "endpoints"
    BY <1>2, JobsOK DEF OnRegistryChanged, TimerTicks, Begin, Triggers
  <2>2. QED
    BY <2>1 DEF RowFollows, Scope
<1>3. CASE Click
  <2>1. /\ work'.job.do \in {"reload", "acknowledge"}
        /\ UNCHANGED <<dbVars, page, shown, notices, unannounced>> /\ work.stage = "idle"
    BY <1>3, ClickKeepsTypes, FreeIsIdle DEF Click, screenVars, Busy
  <2>2. work'.stage \in {"find", "endpoints"} /\ d \in Scope(work.job)'
    BY <1>3, <2>1 DEF Click, Begin, Scope
  <2>3. IsShown(d)' <=> IsShown(d)
    BY <2>1, SameShown, UntouchedDatabase
  <2>4. QED
    BY <2>1, <2>2, <2>3 DEF RowFollows, Followed
<1>4. ASSUME NEW e \in Endpoints, NoticeArrives(e) PROVE RowFollows(d)'
  <2>1. /\ work'.job = JobOf("notice", e) /\ work'.stage = "endpoints"
        /\ JobOf("notice", e).do = "notice" /\ JobOf("notice", e).of = e
    BY <1>4, JobsOK DEF NoticeArrives, Begin, Triggers
  <2>2. /\ UNCHANGED <<dbVars, page, shown, unannounced>> /\ work.stage = "idle"
        /\ d # e => notices'[d] = notices[d]
    BY <1>4, FreeIsIdle DEF NoticeArrives, screenVars, Busy, TypeInv, NoticesOK
  <2>3. IsShown(d)' <=> IsShown(d)
    BY <2>2, SameShown, UntouchedDatabase
  <2>4. d \notin Scope(work.job)' => d # e
    BY <2>1 DEF Scope
  <2>5. QED
    BY <2>1, <2>2, <2>3, <2>4 DEF RowFollows, Followed
<1>5. QED
  BY <1>1, <1>2, <1>3, <1>4

LEMMA ReadingKeepsRow ==
  ASSUME TypeInv, NEW d \in Endpoints, RowFollows(d),
         FindEndpoint \/ SaveAcknowledge \/ ReadEndpoints \/ ReadResults
  PROVE  RowFollows(d)'
<1>1. CASE FindEndpoint
  <2>1. /\ UNCHANGED <<dbVars, page, shown, notices, unannounced>> /\ work.stage = "find"
    BY <1>1 DEF FindEndpoint, screenVars
  <2>2. IsShown(d)' <=> IsShown(d)
    BY <2>1, SameShown, UntouchedDatabase
  <2>3. CASE work' = Idle
    BY <2>1, <2>2, <2>3, IdleOK DEF RowFollows, Followed
  <2>4. CASE work' # Idle
    <3>1. work'.stage \in {"save", "endpoints"} /\ d \in Scope(work.job)'
      BY <1>1, <2>1, <2>4, FindEndpointKeepsTypes DEF Scope
    <3>2. QED
      BY <3>1 DEF RowFollows
  <2>5. QED
    BY <2>3, <2>4
<1>2. CASE SaveAcknowledge
  <2>1. work'.stage = "endpoints" /\ d \in Scope(work.job)'
    BY <1>2, SaveAcknowledgeKeepsTypes DEF Scope, SaveAcknowledge
  <2>2. QED
    BY <2>1 DEF RowFollows
<1>3. CASE ReadEndpoints
  <2>1. /\ UNCHANGED <<dbVars, page, shown, notices>> /\ work.stage = "endpoints"
        /\ unannounced' = unannounced \ Scope(work.job)
    BY <1>3 DEF ReadEndpoints, screenVars
  <2>2. /\ work'.stage = "results" /\ work'.job = work.job
        /\ DOMAIN work'.rows = Scope(work.job) \intersect Listed
        /\ \A e \in DOMAIN work'.rows :
             work'.rows[e] = [alert |-> flagged[e], result |-> 0, lastFailure |-> 0]
        /\ Scope(work.job)' = Scope(work.job)
    BY <1>3, <2>1, ReadEndpointsKeepsTypes DEF Scope
  <2>3. IsShown(d)' <=> IsShown(d)
    BY <2>1, SameShown, UntouchedDatabase
  <2>4. CASE d \in Scope(work.job)
    <3>1. flagged' = flagged /\ Listed' = Listed
      BY <2>1 DEF dbVars, ledgerVars, Listed
    <3>2. IsRead(d)'
      BY <2>2, <2>4, <3>1 DEF IsRead
    <3>3. QED
      BY <2>2, <2>4, <3>2 DEF RowFollows
  <2>5. CASE d \notin Scope(work.job)
    BY <2>1, <2>2, <2>3, <2>5 DEF RowFollows, Followed
  <2>6. QED
    BY <2>4, <2>5
<1>4. CASE ReadResults
  <2>1. /\ UNCHANGED <<dbVars, page, shown, notices, unannounced>> /\ work.stage = "results"
    BY <1>4 DEF ReadResults, screenVars
  <2>2. /\ work'.stage = "failures" /\ work'.job = work.job
        /\ work'.rows = WithResults(work.rows) /\ Scope(work.job)' = Scope(work.job)
    BY <1>4, <2>1, ReadResultsKeepsTypes DEF Scope
  <2>3. /\ DOMAIN work'.rows = DOMAIN work.rows
        /\ \A e \in DOMAIN work.rows :
             work'.rows[e] = [work.rows[e] EXCEPT !.result = ReadLatest(e)]
    BY <2>2, WithResultsOK DEF TypeInv, WorkOK, Works
  <2>4. /\ IsShown(d)' <=> IsShown(d)
        /\ ReadLatest(d)' = ReadLatest(d) /\ flagged'[d] = flagged[d]
        /\ d \in Listed' <=> d \in Listed
    BY <2>1, SameShown, UntouchedDatabase, SameReadings DEF SameInDatabase
  <2>5. ASSUME d \in Scope(work.job), IsRead(d)
        PROVE  IsRead(d)'
    <3>1. CASE d \in Listed
      <4>1. d \in DOMAIN work.rows
            /\ work.rows[d] = [alert |-> flagged[d], lastFailure |-> 0, result |-> 0]
        BY <2>1, <2>5, <3>1 DEF IsRead
      <4>2. work'.rows[d] = [alert |-> flagged[d], lastFailure |-> 0, result |-> ReadLatest(d)]
        BY <2>3, <4>1
      <4>3. QED
        BY <2>2, <2>3, <2>4, <3>1, <4>1, <4>2 DEF IsRead
    <3>2. CASE d \notin Listed
      BY <2>3, <2>4, <2>5, <3>2 DEF IsRead
    <3>3. QED
      BY <3>1, <3>2
  <2>6. QED
    BY <2>1, <2>2, <2>4, <2>5 DEF RowFollows, Followed
<1>5. QED
  BY <1>1, <1>2, <1>3, <1>4

LEMMA EndKeepsRow ==
  ASSUME TypeInv, NEW d \in Endpoints, RowFollows(d), UNCHANGED <<dbVars, notices, page>>,
         work' = Idle, NEW rows, ShownAfter(rows), DOMAIN rows \subseteq Scope(work.job),
         d \notin Scope(work.job) => (d \in unannounced' <=> d \in unannounced),
         d \in Scope(work.job) /\ Followed(d)' =>
           IF d \in Listed THEN d \in DOMAIN rows /\ rows[d] = CurrentRow(d)
                           ELSE d \notin DOMAIN rows
  PROVE  RowFollows(d)'
<1>1. SameInDatabase(d)
  BY UntouchedDatabase
<1>2. d \in Listed' <=> d \in Listed
  BY <1>1, SameReadings
<1>3. CurrentRow(d)' = CurrentRow(d)
  BY <1>1, SameReadings
<1>4. CASE d \in Scope(work.job)
  <2>1. Followed(d)' => IsShown(d)'
    BY <1>2, <1>3, <1>4 DEF ShownAfter, IsShown
  <2>2. QED
    BY <2>1, IdleOK DEF RowFollows
<1>5. CASE d \notin Scope(work.job)
  <2>1. /\ d \in DOMAIN shown' <=> d \in DOMAIN shown
        /\ d \in DOMAIN shown => shown'[d] = shown[d]
    BY <1>5 DEF ShownAfter
  <2>2. IsShown(d) => IsShown(d)'
    BY <1>2, <1>3, <2>1 DEF IsShown
  <2>3. Followed(d)' => Followed(d)
    BY <1>5 DEF Followed
  <2>4. QED
    BY <1>5, <2>2, <2>3, IdleOK DEF RowFollows
<1>6. QED
  BY <1>4, <1>5

LEMMA ShowingKeepsRow ==
  ASSUME TypeInv, NEW d \in Endpoints, RowFollows(d), HomeShows \/ RemoveRow \/ OverviewShows
  PROVE  RowFollows(d)'
<1>1. work.rows \in Rows /\ \A e \in DOMAIN work.rows : work.rows[e].result <= stored[e]
  BY DEF TypeInv, WorkOK, Works
<1>2. DOMAIN work.rows \subseteq Scope(work.job)
  BY DEF TypeInv, WorkOK
<1>3. CASE HomeShows
  <2>1. /\ UNCHANGED <<dbVars, notices, page, unannounced>> /\ work' = Idle
        /\ work.stage = "failures" /\ page = "home"
    BY <1>3 DEF HomeShows
  <2>2. Followed(d)' => Followed(d)
    BY <2>1 DEF Followed
  <2>3. /\ DOMAIN WithFailures(work.rows) = DOMAIN work.rows
        /\ \A e \in DOMAIN work.rows : WithFailures(work.rows)[e]
             = [work.rows[e] EXCEPT !.lastFailure = ReadLastFailure(e)]
    BY <1>1, WithFailuresOK DEF TypeInv
  <2>4. ASSUME d \in Scope(work.job), Followed(d), d \in Listed
        PROVE  d \in DOMAIN work.rows /\ WithFailures(work.rows)[d] = CurrentRow(d)
    <3>1. /\ d \in DOMAIN work.rows
          /\ work.rows[d] = [alert |-> flagged[d], lastFailure |-> 0, result |-> ReadLatest(d)]
      BY <2>1, <2>4 DEF RowFollows, IsRead
    <3>2. WithFailures(work.rows)[d] = [alert |-> flagged[d],
                                        lastFailure |-> ReadLastFailure(d),
                                        result |-> ReadLatest(d)]
      BY <2>3, <3>1
    <3>3. QED
      BY <2>1, <3>1, <3>2 DEF CurrentRow
  <2>5. ASSUME d \in Scope(work.job), Followed(d), d \notin Listed
        PROVE  d \notin DOMAIN work.rows
    BY <2>1, <2>5 DEF RowFollows, IsRead
  <2>6. QED
    BY <1>2, <1>3, <2>1, <2>2, <2>3, <2>4, <2>5, HomeShowsKeepsTypes, EndKeepsRow
<1>4. CASE OverviewShows
  <2>1. /\ UNCHANGED <<dbVars, notices, page, unannounced>> /\ work' = Idle
        /\ work.stage = "results" /\ page = "system"
    BY <1>4 DEF OverviewShows
  <2>2. Followed(d)' => Followed(d)
    BY <2>1 DEF Followed
  <2>3. /\ DOMAIN WithResults(work.rows) = DOMAIN work.rows
        /\ \A e \in DOMAIN work.rows : WithResults(work.rows)[e]
             = [work.rows[e] EXCEPT !.result = ReadLatest(e)]
    BY <1>1, WithResultsOK DEF TypeInv
  <2>4. ASSUME d \in Scope(work.job), Followed(d), d \in Listed
        PROVE  d \in DOMAIN work.rows /\ WithResults(work.rows)[d] = CurrentRow(d)
    <3>1. /\ d \in DOMAIN work.rows
          /\ work.rows[d] = [alert |-> flagged[d], lastFailure |-> 0, result |-> 0]
      BY <2>1, <2>4 DEF RowFollows, IsRead
    <3>2. WithResults(work.rows)[d] = [alert |-> flagged[d], lastFailure |-> 0,
                                       result |-> ReadLatest(d)]
      BY <2>3, <3>1
    <3>3. QED
      BY <2>1, <3>1, <3>2 DEF CurrentRow
  <2>5. ASSUME d \in Scope(work.job), Followed(d), d \notin Listed
        PROVE  d \notin DOMAIN work.rows
    BY <2>1, <2>5 DEF RowFollows, IsRead
  <2>6. QED
    BY <1>2, <1>4, <2>1, <2>2, <2>3, <2>4, <2>5, OverviewShowsKeepsTypes, EndKeepsRow
<1>5. CASE RemoveRow
  <2>1. /\ UNCHANGED <<dbVars, notices, page>> /\ work' = Idle /\ RefreshesOneRow
        /\ unannounced' = unannounced \ {work.job.of} /\ work.job.of \notin Listed
    BY <1>5 DEF RemoveRow
  <2>2. Scope(work.job) = {work.job.of}
    BY <1>5, <2>1, RemoveRowKeepsTypes, ScopeIs DEF TypeInv
  <2>3. QED
    BY <1>5, <2>1, <2>2, NoRowsOK, RemoveRowKeepsTypes, EndKeepsRow
<1>6. QED
  BY <1>3, <1>4, <1>5

LEMMA FaultsKeepRow ==
  ASSUME TypeInv, NEW d \in Endpoints, RowFollows(d), EventFaults \/ TickFaults
  PROVE  RowFollows(d)'
<1>1. /\ UNCHANGED <<dbVars, notices, page, shown>> /\ work' = Idle
      /\ unannounced \subseteq unannounced' /\ Scope(work.job) \subseteq unannounced'
  BY FaultsKeepTypes, ScopeIs DEF EventFaults, TickFaults, TypeInv, DatabaseOK
<1>2. IsShown(d)' <=> IsShown(d)
  BY <1>1, SameShown, UntouchedDatabase
<1>3. QED
  BY <1>1, <1>2, IdleOK DEF RowFollows, Followed

LEMMA RowsFollowKept ==
  ASSUME TypeInv, RowsFollow, [Next]_vars
  PROVE  RowsFollow'
<1> SUFFICES ASSUME NEW d \in Endpoints, RowFollows(d) PROVE RowFollows(d)'
  BY DEF RowsFollow, RowFollows
<1>1. ASSUME NEW e \in Endpoints, NobodyListens(e) \/ Calm(e) PROVE RowFollows(d)'
  <2>1. CASE NobodyListens(e)
    BY <2>1 DEF NobodyListens, Subscribed, pageVars, RowFollows, Followed
  <2>2. CASE Calm(e)
    <3>1. UNCHANGED <<dbVars, page, shown, work, notices, unannounced>>
      BY <2>2 DEF Calm, screenVars
    <3>2. QED
      BY <3>1, UntouchedDatabase, SameRow DEF Followed
  <2>3. QED
    BY <1>1, <2>1, <2>2
<1>2. CASE LinkChanges \/ UNCHANGED vars
  <2>1. UNCHANGED <<dbVars, page, shown, work, notices, unannounced>>
    BY <1>2 DEF LinkChanges, vars, pageVars, screenVars
  <2>2. QED
    BY <2>1, UntouchedDatabase, SameRow DEF Followed
<1>3. CASE ClosePage \/ CircuitFaults
  BY <1>3, CircuitFaultsKeepsTypes DEF RowFollows, Followed
<1>4. QED
  BY <1>1, <1>2, <1>3, WritersKeepRow, BeginsKeepRow, ReadingKeepsRow, ShowingKeepsRow,
     FaultsKeepRow
  DEF Next, WorkStep

-----------------------------------------------------------------------------
(* Time on the page: while a handler runs nothing else changes the rows, so what it has
   read is at least as new as what it replaces. *)
BehindOK ==
  /\ page = "closed" => DOMAIN shown = {}
  /\ \A e \in DOMAIN work.rows : work.rows[e].lastFailure = 0
  /\ \A e \in DOMAIN shown :
       /\ page = "system" => shown[e].lastFailure = 0
       /\ \/ listing[e] = "deleted"
          \/ /\ shown[e].lastFailure <= lastFailure[e]
             /\ work.stage = "failures" /\ e \in DOMAIN work.rows
                  => shown[e].result <= work.rows[e].result

(* An endpoint's row, as long as it stays on the page, goes back to no older result and
   no older failure; but deleting an endpoint deletes its results under a handler that
   has its row already. *)
Forward(e) ==
  \/ listing[e] = "deleted"
  \/ /\ shown'[e].result >= shown[e].result
     /\ shown'[e].lastFailure >= shown[e].lastFailure
RowsNeverGoBack == [][\A e \in DOMAIN shown \intersect DOMAIN shown' : Forward(e)]_vars

LEMMA ShownIsRow ==
  ASSUME TypeInv, NEW e \in DOMAIN shown
  PROVE  /\ e \in Endpoints /\ shown[e].result \in Nat /\ shown[e].lastFailure \in Nat
         /\ shown[e].result <= stored[e] /\ stored[e] \in Nat /\ lastFailure[e] \in Nat
<1>1. shown \in Rows
  BY DEF TypeInv, ScreenOK
<1>2. e \in Endpoints /\ shown[e] \in Row
  BY <1>1, RowsAre
<1>3. shown[e].result \in Nat /\ shown[e].lastFailure \in Nat
  BY <1>2, PagesAssumption DEF Row, PagesAssumption
<1>4. QED
  BY <1>2, <1>3, PagesAssumption DEF TypeInv, ScreenOK, DatabaseOK, PagesAssumption

(* The database goes on, the page stays as it is. *)
LEMMA OthersLeaveBehind ==
  ASSUME TypeInv, BehindOK, UNCHANGED <<page, shown, work>>,
         \A e \in Endpoints : /\ lastFailure'[e] >= lastFailure[e]
                              /\ lastFailure'[e] \in Nat
                              /\ listing[e] = "deleted" => listing'[e] = "deleted"
  PROVE  BehindOK'
<1>1. ASSUME NEW e \in DOMAIN shown, listing[e] # "deleted"
      PROVE  shown[e].lastFailure <= lastFailure'[e]
  BY <1>1, ShownIsRow DEF BehindOK
<1>2. \A e \in DOMAIN shown : e \in Endpoints
  BY ShownIsRow
<1>3. QED
  BY <1>1, <1>2 DEF BehindOK

LEMMA WritersLeaveBehind ==
  ASSUME TypeInv, BehindOK, NEW d \in Endpoints, Writers(d)
  PROVE  BehindOK' /\ shown' = shown
<1>1. UNCHANGED <<page, shown, work>>
  BY DEF Writers, StoreResult, LoseNotice, ListOrUnlist, DeleteEndpoint, AcknowledgeElsewhere,
     pageVars, screenVars
<1>2. ASSUME NEW e \in Endpoints
      PROVE  /\ lastFailure'[e] >= lastFailure[e] /\ lastFailure'[e] \in Nat
             /\ listing[e] = "deleted" => listing'[e] = "deleted"
  <2>1. /\ lastFailure \in [Endpoints -> Nat] /\ stored \in [Endpoints -> Nat]
        /\ lastFailure[e] <= stored[e]
        /\ listing \in [Endpoints -> {"absent", "listed", "unlisted", "deleted"}]
    BY PagesAssumption DEF TypeInv, DatabaseOK, PagesAssumption
  <2>2. CASE StoreResult(d)
    <3>1. /\ stored' = [stored EXCEPT ![d] = @ + 1] /\ listing' = listing
          /\ \/ lastFailure' = lastFailure
             \/ lastFailure' = [lastFailure EXCEPT ![d] = stored'[d]]
      BY <2>2 DEF StoreResult
    <3>2. QED
      BY <2>1, <3>1
  <2>3. CASE LoseNotice(d) \/ ListOrUnlist(d) \/ DeleteEndpoint(d) \/ AcknowledgeElsewhere(d)
    <3>1. /\ lastFailure' = lastFailure
          /\ \/ listing' = listing \/ listing' = [listing EXCEPT ![d] = "deleted"]
             \/ listing[d] # "deleted" /\ \E l : listing' = [listing EXCEPT ![d] = l]
      BY <2>3 DEF LoseNotice, ListOrUnlist, DeleteEndpoint, AcknowledgeElsewhere, dbVars
    <3>2. QED
      BY <2>1, <3>1
  <2>4. QED
    BY <2>2, <2>3 DEF Writers
<1>3. QED
  BY <1>1, <1>2, OthersLeaveBehind

(* A step of a handler that shows nothing yet. *)
LEMMA ReadsLeaveBehind ==
  ASSUME TypeInv, BehindOK, UNCHANGED <<shown, lastFailure, listing>>,
         page' = page \/ (page = "closed" /\ Busy'),
         page' = "closed" => page = "closed",
         work'.stage # "failures", \A e \in DOMAIN work'.rows : work'.rows[e].lastFailure = 0
  PROVE  BehindOK'
BY DEF BehindOK

LEMMA BeginsLeaveBehind ==
  ASSUME TypeInv, BehindOK,
         OpenPage \/ OnRegistryChanged \/ TimerTicks \/ Click
           \/ \E e \in Endpoints : NoticeArrives(e)
  PROVE  BehindOK' /\ shown' = shown
<1>1. /\ \E job : Begin(job)
      /\ UNCHANGED <<shown, lastFailure, listing>>
      /\ page' = page \/ (page = "closed" /\ page' \in {"home", "system"})
  BY DEF OpenPage, OnRegistryChanged, TimerTicks, Click, NoticeArrives, screenVars, dbVars
<1>2. work'.stage \in {"find", "endpoints"} /\ work'.rows = NoRows
  BY <1>1 DEF Begin
<1>3. page' = "closed" => page = "closed"
  BY <1>1
<1>4. QED
  BY <1>1, <1>2, <1>3, NoRowsOK, ReadsLeaveBehind DEF Busy

LEMMA HandlersLeaveBehind ==
  ASSUME TypeInv, BehindOK, FindEndpoint \/ SaveAcknowledge \/ ReadEndpoints
  PROVE  BehindOK' /\ shown' = shown
<1>1. UNCHANGED <<shown, lastFailure, listing, page>>
  BY DEF FindEndpoint, SaveAcknowledge, ReadEndpoints, screenVars, dbVars
<1>2. CASE FindEndpoint \/ SaveAcknowledge
  <2>1. work \in Works
    BY DEF TypeInv, WorkOK
  <2>2. \/ work' = Idle
        \/ \E s \in {"save", "endpoints"} : work' = [work EXCEPT !.stage = s]
    BY <1>2 DEF FindEndpoint, SaveAcknowledge, AfterAcknowledge
  <2>3. work'.stage # "failures" /\ (work'.rows = NoRows \/ work'.rows = work.rows)
    BY <2>1, <2>2, IdleOK DEF Works
  <2>4. \A e \in DOMAIN work'.rows : work'.rows[e].lastFailure = 0
    BY <2>3, NoRowsOK DEF BehindOK
  <2>5. QED
    BY <1>1, <2>3, <2>4, ReadsLeaveBehind
<1>3. CASE ReadEndpoints
  <2>1. work'.stage = "results"
    BY <1>3, ReadEndpointsKeepsTypes
  <2>2. ASSUME NEW e \in DOMAIN work'.rows
        PROVE  work'.rows[e].lastFailure = 0
    <3>1. work'.rows[e] = [alert |-> flagged[e], result |-> 0, lastFailure |-> 0]
      BY <1>3, ReadEndpointsKeepsTypes
    <3>2. QED
      BY <3>1
  <2>3. QED
    BY <1>1, <2>1, <2>2, ReadsLeaveBehind
<1>4. QED
  BY <1>2, <1>3

LEMMA ReadResultsLeavesBehind ==
  ASSUME TypeInv, BehindOK, ReadResults
  PROVE  BehindOK' /\ shown' = shown
<1>1. /\ UNCHANGED <<shown, lastFailure, listing, stored, page>> /\ page = "home"
      /\ work'.rows = WithResults(work.rows)
  BY ReadResultsKeepsTypes DEF ReadResults, screenVars, dbVars
<1>2. work.rows \in Rows /\ \A e \in DOMAIN work.rows : work.rows[e].result <= stored[e]
  BY DEF TypeInv, WorkOK, Works
<1>3. /\ DOMAIN work'.rows = DOMAIN work.rows
      /\ \A e \in DOMAIN work.rows :
           work'.rows[e] = [work.rows[e] EXCEPT !.result = ReadLatest(e)]
  BY <1>1, <1>2, WithResultsOK DEF TypeInv
<1>4. \A e \in DOMAIN work.rows : work.rows[e] \in Row
  BY <1>2, RowsAre
<1>5. \A e \in DOMAIN work.rows :
        /\ work'.rows[e].lastFailure = work.rows[e].lastFailure
        /\ listing[e] # "deleted" => work'.rows[e].result = stored[e]
  BY <1>3, <1>4 DEF Row, ReadLatest
<1>6. \A e \in DOMAIN shown \intersect DOMAIN work'.rows :
        listing[e] # "deleted" => shown[e].result <= work'.rows[e].result
  BY <1>3, <1>5, ShownIsRow
<1>7. QED
  BY <1>1, <1>3, <1>5, <1>6 DEF BehindOK

LEMMA ShowsGoForward ==
  ASSUME TypeInv, BehindOK, HomeShows \/ RemoveRow \/ OverviewShows
  PROVE  BehindOK' /\ \A e \in DOMAIN shown \intersect DOMAIN shown' : Forward(e)
<1>1. /\ UNCHANGED <<lastFailure, listing, stored, page>> /\ page # "closed"
      /\ work' = Idle /\ work'.stage = "idle" /\ DOMAIN work'.rows = {}
  BY IdleOK, NoRowsOK DEF HomeShows, RemoveRow, RefreshesOneRow, OverviewShows, dbVars
<1>2. work.rows \in Rows /\ \A e \in DOMAIN work.rows : work.rows[e].result <= stored[e]
  BY DEF TypeInv, WorkOK, Works
<1>3. \A e \in DOMAIN work.rows : work.rows[e] \in Row
  BY <1>2, RowsAre
<1>4. \A e \in DOMAIN shown : shown[e].result \in Nat /\ shown[e].lastFailure \in Nat
  BY ShownIsRow
<1>5. ASSUME NEW rows, ShownAfter(rows),
             \A e \in DOMAIN rows :
               /\ page = "system" => rows[e].lastFailure = 0
               /\ listing[e] # "deleted" =>
                    /\ rows[e].lastFailure <= lastFailure[e]
                    /\ e \in DOMAIN shown => /\ shown[e].result <= rows[e].result
                                             /\ shown[e].lastFailure <= rows[e].lastFailure
      PROVE  BehindOK' /\ \A e \in DOMAIN shown \intersect DOMAIN shown' : Forward(e)
  <2>1. \A e \in DOMAIN shown' :
          \/ e \in DOMAIN rows /\ shown'[e] = rows[e]
          \/ e \in DOMAIN shown /\ shown'[e] = shown[e]
    BY <1>5 DEF ShownAfter
  <2>2. ASSUME NEW e \in DOMAIN shown'
        PROVE  /\ page = "system" => shown'[e].lastFailure = 0
               /\ listing[e] = "deleted" \/ shown'[e].lastFailure <= lastFailure[e]
    BY <1>5, <2>1, <2>2 DEF BehindOK
  <2>3. ASSUME NEW e \in DOMAIN shown \intersect DOMAIN shown'
        PROVE  Forward(e)
    <3>1. CASE shown'[e] = shown[e]
      BY <1>4, <3>1 DEF Forward
    <3>2. CASE e \in DOMAIN rows /\ shown'[e] = rows[e]
      BY <1>5, <3>2 DEF Forward
    <3>3. QED
      BY <2>1, <3>1, <3>2
  <2>4. QED
    BY <1>1, <2>2, <2>3 DEF BehindOK
<1>6. CASE HomeShows
  <2>1. /\ ShownAfter(WithFailures(work.rows)) /\ page = "home" /\ work.stage = "failures"
        /\ DOMAIN WithFailures(work.rows) = DOMAIN work.rows
        /\ \A e \in DOMAIN work.rows : WithFailures(work.rows)[e]
             = [work.rows[e] EXCEPT !.lastFailure = ReadLastFailure(e)]
    BY <1>2, <1>6, HomeShowsKeepsTypes, WithFailuresOK DEF TypeInv, HomeShows
  <2>2. \A e \in DOMAIN work.rows :
          /\ WithFailures(work.rows)[e].result = work.rows[e].result
          /\ WithFailures(work.rows)[e].lastFailure = ReadLastFailure(e)
    BY <1>3, <2>1 DEF Row
  <2>3. ASSUME NEW e \in DOMAIN work.rows, listing[e] # "deleted"
        PROVE  /\ WithFailures(work.rows)[e].lastFailure = lastFailure[e]
               /\ lastFailure[e] \in Nat
               /\ e \in DOMAIN shown => /\ shown[e].result <= work.rows[e].result
                                        /\ shown[e].lastFailure <= lastFailure[e]
    <3>1. lastFailure[e] \in Nat
      BY <1>2, RowsAre, PagesAssumption DEF TypeInv, DatabaseOK, PagesAssumption
    <3>2. QED
      BY <2>1, <2>2, <2>3, <3>1 DEF ReadLastFailure, BehindOK
  <2>4. QED
    BY <1>5, <2>1, <2>2, <2>3
<1>7. CASE RemoveRow
  BY <1>5, <1>7, RemoveRowKeepsTypes, NoRowsOK
<1>8. CASE OverviewShows
  <2>1. /\ ShownAfter(WithResults(work.rows)) /\ page = "system"
        /\ DOMAIN WithResults(work.rows) = DOMAIN work.rows
        /\ \A e \in DOMAIN work.rows : WithResults(work.rows)[e]
             = [work.rows[e] EXCEPT !.result = ReadLatest(e)]
    BY <1>2, <1>8, OverviewShowsKeepsTypes, WithResultsOK DEF TypeInv, OverviewShows
  <2>2. \A e \in DOMAIN work.rows :
          /\ WithResults(work.rows)[e].result = ReadLatest(e)
          /\ WithResults(work.rows)[e].lastFailure = 0
    BY <1>3, <2>1 DEF Row, BehindOK
  <2>3. ASSUME NEW e \in DOMAIN work.rows, listing[e] # "deleted"
        PROVE  /\ 0 <= lastFailure[e]
               /\ e \in DOMAIN shown => /\ shown[e].result <= ReadLatest(e)
                                        /\ shown[e].lastFailure <= 0
    <3>1. lastFailure[e] \in Nat
      BY <1>2, RowsAre, PagesAssumption DEF TypeInv, DatabaseOK, PagesAssumption
    <3>2. QED
      BY <2>1, <2>3, <3>1, ShownIsRow DEF ReadLatest, BehindOK
  <2>4. QED
    BY <1>5, <2>1, <2>2, <2>3
<1>9. QED
  BY <1>6, <1>7, <1>8

LEMMA BehindKept ==
  ASSUME TypeInv, BehindOK, [Next]_vars
  PROVE  BehindOK' /\ \A e \in DOMAIN shown \intersect DOMAIN shown' : Forward(e)
<1>1. ASSUME shown' = shown
      PROVE  \A e \in DOMAIN shown \intersect DOMAIN shown' : Forward(e)
  BY <1>1, ShownIsRow DEF Forward
<1>2. ASSUME UNCHANGED <<page, shown, work, lastFailure, listing>>
      PROVE  BehindOK' /\ shown' = shown
  BY <1>2 DEF BehindOK
<1>3. CASE ClosePage \/ CircuitFaults
  <2>1. page' = "closed" /\ work' = Idle /\ shown' = NoRows
    BY <1>3 DEF ClosePage, CircuitFaults, ClosedPage
  <2>2. QED
    BY <2>1, IdleOK, NoRowsOK DEF BehindOK
<1>4. CASE EventFaults \/ TickFaults
  <2>1. UNCHANGED <<page, shown, lastFailure, listing>> /\ work' = Idle
    BY <1>4 DEF EventFaults, TickFaults, dbVars
  <2>2. BehindOK'
    BY <2>1, IdleOK, NoRowsOK, ReadsLeaveBehind
  <2>3. QED
    BY <1>1, <2>1, <2>2
<1>5. ASSUME \/ \E e \in Endpoints : NobodyListens(e) \/ Calm(e)
             \/ LinkChanges \/ UNCHANGED vars
      PROVE  UNCHANGED <<page, shown, work, lastFailure, listing>>
  BY <1>5 DEF NobodyListens, Calm, LinkChanges, vars, pageVars, screenVars, dbVars
<1>6. QED
  BY <1>1, <1>2, <1>3, <1>4, <1>5, WritersLeaveBehind, BeginsLeaveBehind, HandlersLeaveBehind,
     ReadResultsLeavesBehind, ShowsGoForward
  DEF Next, WorkStep

-----------------------------------------------------------------------------
(* The overview's timer waits, is being served, or has ended; it starts with the first
   rendering. *)
TimerOK ==
  /\ page # "system" => timer = "off"
  /\ page = "system" => \/ timer \in {"waiting", "ended"}
                        \/ Busy /\ work.job.do \in {"open", "tick"}

LEMMA TimerKept ==
  ASSUME TypeInv, TimerOK, [Next]_vars
  PROVE  TimerOK'
<1>1. CASE OpenPage
  <2>1. work'.job = Job("open") /\ Busy' /\ timer' = timer /\ page = "closed"
    BY <1>1, OpenPageKeepsTypes DEF OpenPage, Begin
  <2>2. QED
    BY <1>1, <2>1, JobsOK DEF OpenPage, TimerOK, Triggers
<1>2. CASE TimerTicks
  <2>1. work'.job = Job("tick") /\ Busy' /\ page' = page /\ page = "system"
    BY <1>2, TimerTicksKeepsTypes DEF TimerTicks, Begin, TypeInv, ScreenOK
  <2>2. QED
    BY <2>1, JobsOK DEF TimerOK, Triggers
<1>3. ASSUME OnRegistryChanged \/ Click \/ \E e \in Endpoints : NoticeArrives(e)
      PROVE  TimerOK'
  <2>1. UNCHANGED <<page, timer>> /\ ~Busy
    BY <1>3, FreeIsIdle DEF OnRegistryChanged, Click, NoticeArrives
  <2>2. QED
    BY <2>1 DEF TimerOK
<1>4. CASE ClosePage \/ CircuitFaults
  BY <1>4 DEF ClosePage, CircuitFaults, ClosedPage, TimerOK
<1>5. CASE FindEndpoint \/ SaveAcknowledge \/ HomeShows \/ RemoveRow \/ ReadResults
  <2>1. UNCHANGED <<page, timer>> /\ page = "home"
    BY <1>5, FindEndpointKeepsTypes, SaveAcknowledgeKeepsTypes DEF FindEndpoint,
       SaveAcknowledge, HomeShows, RemoveRow, RefreshesOneRow, ReadResults
  <2>2. QED
    BY <2>1 DEF TimerOK
<1>6. CASE ReadEndpoints
  <2>1. UNCHANGED <<page, timer>> /\ Busy' /\ work'.job = work.job
    BY <1>6, ReadEndpointsKeepsTypes DEF ReadEndpoints
  <2>2. QED
    BY <2>1 DEF TimerOK
<1>7. CASE OverviewShows
  <2>1. /\ page' = page /\ page = "system"
        /\ timer' = IF work.job.do \in {"open", "tick"} THEN "waiting" ELSE timer
    BY <1>7 DEF OverviewShows, AfterTick
  <2>2. QED
    BY <2>1 DEF TimerOK
<1>8. CASE EventFaults
  <2>1. UNCHANGED <<page, timer>> /\ work.job.do \notin {"open", "tick"}
    BY <1>8 DEF EventFaults
  <2>2. QED
    BY <2>1 DEF TimerOK
<1>9. CASE TickFaults
  <2>1. page' = page /\ timer' = "ended" /\ page = "system"
    BY <1>9 DEF TickFaults, TypeInv, ScreenOK, WorkOK, Busy
  <2>2. QED
    BY <2>1 DEF TimerOK
<1>10. CASE UNCHANGED <<page, timer, work>>
  BY <1>10 DEF TimerOK, Busy
<1>11. ASSUME \/ \E e \in Endpoints : Writers(e) \/ NobodyListens(e) \/ Calm(e)
              \/ LinkChanges \/ UNCHANGED vars
       PROVE  UNCHANGED <<page, timer, work>>
  BY <1>11 DEF Writers, StoreResult, LoseNotice, ListOrUnlist, DeleteEndpoint,
     AcknowledgeElsewhere, NobodyListens, Calm, LinkChanges, vars, pageVars
<1>12. QED
  BY <1>1, <1>2, <1>3, <1>4, <1>5, <1>6, <1>7, <1>8, <1>9, <1>10, <1>11 DEF Next, WorkStep

-----------------------------------------------------------------------------
PagesInv == TypeInv /\ LinkFollows /\ LightsOK /\ RowsFollow /\ BehindOK /\ TimerOK

LEMMA InitOK == Init => PagesInv
<1> SUFFICES ASSUME Init PROVE PagesInv
  OBVIOUS
<1>1. page = "closed" /\ work = Idle /\ shown = NoRows /\ timer = "off"
  BY DEF Init
<1>2. /\ linkUp \in BOOLEAN /\ linkEvents \in BOOLEAN /\ shownLink \in BOOLEAN
      /\ linkMissed \in BOOLEAN
  BY Zenon DEF Init
<1>3. ~linkEvents
  BY DEF Init
<1>4. DatabaseOK
  BY <1>2, PagesAssumption DEF Init, DatabaseOK, Ledger!LedgerInit, PagesAssumption
<1>5. ScreenOK
  BY <1>1, <1>2, <1>3, NoRowsOK DEF Init, ScreenOK
<1>6. WorkOK
  BY <1>1, IdleOK, NoRowsOK DEF WorkOK, Busy
<1>7. NoticesOK
  BY <1>1, IdleOK DEF Init, NoticesOK, Pending, Busy
<1>8. LinkFollows /\ LightsOK /\ RowsFollow
  BY <1>1 DEF Init, LinkFollows, LightsOK, RowsFollow, Followed
<1>9. BehindOK /\ TimerOK
  BY <1>1, IdleOK, NoRowsOK DEF BehindOK, TimerOK
<1>10. QED
  BY <1>4, <1>5, <1>6, <1>7, <1>8, <1>9 DEF PagesInv, TypeInv

(* What holds of every handler under way, whatever comes between its readings. *)
THEOREM InvariantHolds == Spec => []PagesInv
<1>1. PagesInv /\ [Next]_vars => PagesInv'
  BY TypesKept, LinkFollowsKept, LightsKept, RowsFollowKept, BehindKept, TimerKept DEF PagesInv
<1>2. QED
  BY InitOK, <1>1, PTL DEF Spec

(* Every variable keeps its type; in particular a page never shows a result that is not
   stored (the queries of Home.razor and SystemOverview.razor). *)
THEOREM TypeCorrect == Spec => []TypeOK
<1>1. PagesInv => TypeOK
  <2> SUFFICES ASSUME PagesInv PROVE TypeOK
    OBVIOUS
  <2>1. /\ notices \in [Endpoints -> 0 .. MaxResults]
        /\ delays \in [Endpoints -> 0 .. MaxResults]
    <3>1. ASSUME NEW e \in Endpoints
          PROVE  notices[e] \in 0 .. MaxResults /\ delays[e] \in 0 .. MaxResults
      <4>1. /\ notices[e] \in Nat /\ delays[e] \in Nat /\ stored[e] \in 0 .. MaxResults
            /\ notices[e] + Pending(e) + delays[e] <= stored[e] /\ Pending(e) \in {0, 1}
        BY PendingIs DEF PagesInv, TypeInv, NoticesOK, DatabaseOK
      <4>2. QED
        BY <4>1, PagesAssumption DEF PagesAssumption
    <3>2. QED
      BY <3>1 DEF PagesInv, TypeInv, NoticesOK
  <2>2. /\ work.stage \in Stages /\ work.job \in Jobs /\ work.rows \in Rows
        /\ work.link \in BOOLEAN
    BY DEF PagesInv, TypeInv, WorkOK, Works
  <2>3. QED
    BY <2>1, <2>2 DEF PagesInv, TypeInv, DatabaseOK, ScreenOK, Stages, TypeOK
<1>2. QED
  BY <1>1, InvariantHolds, PTL

(* Once a page has followed the notices of an endpoint its row is the database's, for
   any number of endpoints and of results saved between the queries of
   LoadAsync, RefreshRowAsync and BuildModelAsync. *)
THEOREM RowsAreCurrent == Spec => []ShownRowsAreCurrent
<1>1. PagesInv => ShownRowsAreCurrent
  <2> SUFFICES ASSUME PagesInv, page # "closed", NEW e \in Endpoints \ unannounced, ~Awaited(e)
               PROVE  IsShown(e)
    BY DEF ShownRowsAreCurrent, IsShown
  <2>1. notices[e] = 0 /\ (work.stage = "idle" \/ e \notin Scope(work.job))
    BY DEF Awaited, PagesInv, TypeInv, NoticesOK
  <2>2. QED
    BY <2>1 DEF PagesInv, RowsFollow, Followed
<1>2. QED
  BY <1>1, InvariantHolds, PTL

(* The overview shows the present state of the link, or will have taken it again:
   SystemOverview.razor takes it before its queries, and OnRegistryChanged follows a
   change that comes while they run. *)
THEOREM LinkIsCurrent == Spec => []ShownLinkIsCurrent
<1>1. PagesInv => ShownLinkIsCurrent
  BY DEF PagesInv, LinkFollows, ShownLinkIsCurrent, Busy
<1>2. QED
  BY <1>1, InvariantHolds, PTL

(* No highlight and no pulse stays behind: each has a delay that will end it or a handler
   that will start one, unless a reading failed after the overview lit it. *)
THEOREM LightsEnd == Spec => []LightsGoOut
<1>1. PagesInv => LightsGoOut
  BY DEF PagesInv, LightsOK, LightsGoOut, Busy
<1>2. QED
  BY <1>1, InvariantHolds, PTL

(* What is on the page only gets newer: OnCheckCompleted's readings do not overlap, and
   LoadAsync, RefreshRowAsync and BuildModelAsync show what they read after the page was
   last changed. *)
THEOREM PagesOnlyAdvance == Spec => RowsNeverGoBack
<1>1. PagesInv /\ [Next]_vars =>
        [\A e \in DOMAIN shown \intersect DOMAIN shown' : Forward(e)]_vars
  BY BehindKept DEF PagesInv
<1>2. QED
  BY <1>1, InvariantHolds, PTL DEF Spec, RowsNeverGoBack

-----------------------------------------------------------------------------
(* Whoever writes the rows that the pages read does to the alert what the ledger allows:
   the check's save, AcknowledgeAsync of this page and of others, and the deletion. *)
THEOREM PagesKeepTheLedger == Spec => Ledger!LedgerSpec
<1>1. Init => Ledger!LedgerInit
  BY DEF Init
<1>2. PagesInv /\ [Next]_vars => [Ledger!LedgerNext]_ledgerVars
  <2> SUFFICES ASSUME PagesInv, [Next]_vars
               PROVE  Ledger!LedgerNext \/ UNCHANGED ledgerVars
    OBVIOUS
  <2>1. ASSUME NEW e \in Endpoints, Writers(e)
        PROVE  Ledger!LedgerNext \/ UNCHANGED ledgerVars
    BY <2>1 DEF Writers, StoreResult, LoseNotice, ListOrUnlist, DeleteEndpoint,
       AcknowledgeElsewhere, dbVars, Ledger!LedgerNext
  <2>2. CASE SaveAcknowledge
    <3>1. work.job.of \in Endpoints
      BY <2>2 DEF SaveAcknowledge, PagesInv, TypeInv, WorkOK
    <3>2. QED
      BY <2>2, <3>1 DEF SaveAcknowledge, Ledger!LedgerNext
  <2>3. ASSUME ~SaveAcknowledge, \A e \in Endpoints : ~Writers(e)
        PROVE  UNCHANGED ledgerVars
    BY <2>3 DEF Next, WorkStep, NoticeArrives, NobodyListens, Calm, LinkChanges,
       OnRegistryChanged, TimerTicks, OpenPage, ClosePage, Click, FindEndpoint, ReadEndpoints,
       ReadResults, HomeShows, RemoveRow, OverviewShows, CircuitFaults, EventFaults,
       TickFaults, vars, dbVars
  <2>4. QED
    BY <2>1, <2>2, <2>3
<1>3. QED
  BY <1>1, <1>2, InvariantHolds, PTL DEF Spec, Ledger!LedgerSpec, Ledger!ledgerVars, ledgerVars

-----------------------------------------------------------------------------
(* Progress.  The provers do not know ENABLED, so fairness is written out with the guard:
   WF_vars(WorkStep), which is possible exactly while a handler runs (one of the queries or
   a fault is), and SF_vars(TimerTicks). *)
HandlersRun == []<>(~Busy) \/ []<><<WorkStep>>_vars
TimerIsServed == <>[]~(timer = "waiting" /\ Free) \/ []<><<TimerTicks>>_vars

At(stage) == work.stage = stage

(* A handler goes through its stages and is done after five steps at most. *)
LEMMA StagesAdvance ==
  ASSUME TypeInv, [Next]_vars, Busy, Busy'
  PROVE  /\ UNCHANGED work \/ WorkStep
         /\ WorkStep => \/ At("find") /\ (At("save")' \/ At("endpoints")')
                        \/ At("save") /\ At("endpoints")'
                        \/ At("endpoints") /\ At("results")'
                        \/ At("results") /\ At("failures")'
<1>1. CASE WorkStep
  <2>1. ~(HomeShows \/ RemoveRow \/ OverviewShows \/ EventFaults \/ TickFaults)
    BY HomeShowsKeepsTypes, RemoveRowKeepsTypes, OverviewShowsKeepsTypes, FaultsKeepTypes
  <2>2. ~CircuitFaults
    BY IdleOK DEF CircuitFaults, ClosedPage, Busy
  <2>3. CASE FindEndpoint
    BY <1>1, <2>3, FindEndpointKeepsTypes, IdleOK DEF FindEndpoint, At, Busy
  <2>4. CASE SaveAcknowledge
    BY <1>1, <2>4, SaveAcknowledgeKeepsTypes DEF SaveAcknowledge, At
  <2>5. CASE ReadEndpoints
    BY <1>1, <2>5, ReadEndpointsKeepsTypes DEF ReadEndpoints, At
  <2>6. CASE ReadResults
    BY <1>1, <2>6, ReadResultsKeepsTypes DEF ReadResults, At
  <2>7. QED
    BY <1>1, <2>1, <2>2, <2>3, <2>4, <2>5, <2>6 DEF WorkStep
<1>2. ASSUME ~WorkStep
      PROVE  UNCHANGED work
  <2>1. ~ClosePage
    BY IdleOK DEF ClosePage, ClosedPage, Busy
  <2>2. ~(OpenPage \/ OnRegistryChanged \/ TimerTicks \/ Click)
    BY FreeIsIdle, OpenPageKeepsTypes DEF OnRegistryChanged, TimerTicks, Click, OpenPage,
       TypeInv, WorkOK, Busy
  <2>3. \A e \in Endpoints : ~NoticeArrives(e)
    BY FreeIsIdle DEF NoticeArrives
  <2>4. QED
    BY <1>2, <2>1, <2>2, <2>3 DEF Next, Writers, StoreResult, LoseNotice, ListOrUnlist,
       DeleteEndpoint, AcknowledgeElsewhere, NobodyListens, Calm, LinkChanges, vars, pageVars
<1>3. QED
  BY <1>1, <1>2

(* No handler holds the page for ever: LoadAsync, RefreshRowAsync, BuildModelAsync and
   AcknowledgeAsync end, whatever is written meanwhile. *)
THEOREM HandlersEnd == Spec /\ HandlersRun => []<>(~Busy)
<1> DEFINE A == At("find")
           B == At("save")
           C == At("endpoints")
           D == At("results")
           E == At("failures")
<1>1. PagesInv => (Busy <=> A \/ B \/ C \/ D \/ E)
  BY DEF PagesInv, TypeInv, WorkOK, Works, Stages, Busy, At
<1>2. PagesInv /\ [Next]_vars /\ Busy /\ Busy' =>
        \/ /\ (A <=> A') /\ (B <=> B') /\ (C <=> C') /\ (D <=> D') /\ (E <=> E')
           /\ ~<<WorkStep>>_vars
        \/ A /\ (B' \/ C')
        \/ B /\ C'
        \/ C /\ D'
        \/ D /\ E'
  BY StagesAdvance DEF PagesInv, At
<1>3. /\ A => ~B /\ ~C /\ ~D /\ ~E
      /\ B => ~C /\ ~D /\ ~E
      /\ C => ~D /\ ~E
      /\ D => ~E
  BY DEF At
<1>4. QED
  BY <1>1, <1>2, <1>3, InvariantHolds, PTL DEF Spec, HandlersRun

(* The overview reads again and again while it is open and its loop lives: StartRefreshLoop
   waits for the handler, and no handler stays. *)
THEOREM TimerGoesOn == Spec /\ HandlersRun /\ TimerIsServed => TimerKeepsRefreshing
<1> DEFINE Ticks == work.job.do = "tick"
           Reads == page = "system" /\ timer # "ended"
           Ready == timer = "waiting" /\ Free
<1>1. PagesInv /\ Reads /\ ~Busy => Ready
  BY DEF PagesInv, TimerOK, TypeInv, WorkOK, Free, Busy
<1>2. <<TimerTicks>>_vars => Ticks'
  BY JobsOK DEF TimerTicks, Begin, Triggers
<1>3. QED
  BY <1>1, <1>2, HandlersEnd, InvariantHolds, PTL DEF TimerIsServed, TimerKeepsRefreshing

=============================================================================
