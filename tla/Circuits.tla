------------------------------- MODULE Circuits -------------------------------
(***************************************************************************)
(* An open page of the web application and its Blazor circuits: the script *)
(* of the reconnect dialog in the browser (ReconnectModal.razor.js), and   *)
(* on the server the circuit handler that keeps ConnectedClientRegistry,   *)
(* the list of browsers the system overview shows.                         *)
(*                                                                         *)
(* Blazor itself lies between the two.  It is modelled as the script and   *)
(* the handler use it: it reports a state and sets the dialog's class      *)
(* before it does, answers reconnect() and resumeCircuit() with true,      *)
(* false or an exception, and calls the handlers of a circuit one after    *)
(* the other.  The script runs to its next await in one step, and what     *)
(* follows an await runs together with the answer.                         *)
(***************************************************************************)
EXTENDS Naturals, Sequences

CONSTANTS
  MaxCircuits,  \* bound on the circuits ever opened
  MaxFaults,    \* bound on outages, broken connections, pauses and reloads by hand
  MaxRetries,   \* bound on retry() calls in flight
  OwnIps        \* what a circuit's own request may carry: {"unknown"} under IIS

ASSUME CircuitsAssumption ==
  /\ MaxCircuits \in Nat \ {0}
  /\ MaxFaults \in Nat
  /\ MaxRetries \in Nat \ {0}
  /\ OwnIps \subseteq {"unknown", "address"}

Ids == 1 .. MaxCircuits

VARIABLES
  page,       \* the page in the browser
  reachable,  \* the server runs and the network reaches it
  faults,     \* faults so far
  circuit,    \* circuit[c]: what the server has of circuit c
  calls,      \* calls[c]: calls of TrackingCircuitHandler that Blazor has to make
  context,    \* context[c]: CircuitContext.CircuitId is set
  rendered,   \* rendered[c]: the first render of c is over
  client      \* client[c]: the entry of c in the registry, NoClient without one

serverVars == <<circuit, calls>>
registryVars == <<context, rendered, client>>
vars == <<page, reachable, faults, serverVars, registryVars>>

NoClient == [listed |-> FALSE]
Clients == [listed : {TRUE}, ip : {"unknown", "address"},
            state : {"Connected", "Reconnecting"}]

Pages ==
  [link : {"loading", "up", "down"},   \* the page's connection, as the browser sees it
   mine : 0 .. MaxCircuits,            \* its circuit, 0 before the first
   visible : BOOLEAN,                  \* document.visibilityState = "visible"
   dialog : BOOLEAN,                   \* the modal dialog is open
   class : {"hide", "show", "failed", "paused", "resume-failed"},
   listening : BOOLEAN,                \* the visibilitychange listener is registered
   auto : BOOLEAN,                     \* Blazor tries by itself
   reconnecting : 0 .. MaxRetries,     \* retry() calls that await reconnect()
   resuming : 0 .. MaxRetries,         \* retry() calls that await resumeCircuit()
   resume : BOOLEAN]                   \* resume() awaits resumeCircuit()

TypeOK ==
  /\ page \in Pages
  /\ page.reconnecting + page.resuming <= MaxRetries
  /\ reachable \in BOOLEAN
  /\ faults \in 0 .. MaxFaults
  /\ circuit \in [Ids -> {"none", "connected", "idle", "saved", "gone"}]
  /\ calls \in [Ids -> Seq({"opened", "up", "down", "closed"})]
  /\ context \in [Ids -> BOOLEAN]
  /\ rendered \in [Ids -> BOOLEAN]
  /\ client \in [Ids -> Clients \union {NoClient}]

(* A page that is being loaded: no script of an earlier one is left. *)
NewPage(visible, mine) ==
  [link |-> "loading", mine |-> mine, visible |-> visible, dialog |-> FALSE,
   class |-> "hide", listening |-> FALSE, auto |-> FALSE,
   reconnecting |-> 0, resuming |-> 0, resume |-> FALSE]

Init ==
  /\ page = NewPage(TRUE, 0)
  /\ reachable = TRUE
  /\ faults = 0
  /\ circuit = [c \in Ids |-> "none"]
  /\ calls = [c \in Ids |-> <<>>]
  /\ context = [c \in Ids |-> FALSE]
  /\ rendered = [c \in Ids |-> FALSE]
  /\ client = [c \in Ids |-> NoClient]

-----------------------------------------------------------------------------
(* The script, as functions from the page before to the page after. *)

reload(p) == NewPage(p.visible, p.mine)

handleUnlessRejected(p, state) ==
  CASE state = "show"     -> [p EXCEPT !.dialog = TRUE]
    [] state = "hide"     -> [p EXCEPT !.dialog = FALSE]
    [] state = "failed"   -> [p EXCEPT !.listening = TRUE]
    [] state = "rejected" -> p
handleReconnectStateChanged(p, state) ==
  CASE state = "show"     -> [p EXCEPT !.dialog = TRUE]
    [] state = "hide"     -> [p EXCEPT !.dialog = FALSE]
    [] state = "failed"   -> [p EXCEPT !.listening = TRUE]
    [] state = "rejected" -> reload(p)

retry(p) == [p EXCEPT !.listening = FALSE, !.reconnecting = @ + 1]

(* Both calls throw when the server is not reached. *)
retryThrowsUnheard(p) == p
retryThrows(p) == [p EXCEPT !.listening = TRUE]

retryResumedStaysOpen(p) == p
retryResumed(p) == [p EXCEPT !.dialog = FALSE]

resumeThrows(p) ==
  [p EXCEPT !.resume = FALSE, !.class = IF @ = "paused" THEN "resume-failed" ELSE @]

(* visibilitychange, to whichever handler is registered. *)
retryOncePerListener(p) ==
  IF p.listening /\ p.visible THEN retry(retry(p)) ELSE p
retryWhenDocumentBecomesVisible(p) ==
  IF p.listening /\ p.visible THEN retry(p) ELSE p

-----------------------------------------------------------------------------
(* What Blazor keeps on the server, and what it tells the page. *)

Mine == page.mine
Retained == Mine # 0 /\ circuit[Mine] \in {"connected", "idle"}
Saved == Mine # 0 /\ circuit[Mine] = "saved"
Unused == {c \in Ids : circuit[c] = "none"}
Spent == Unused = {}

Call(c, names) == calls' = [calls EXCEPT ![c] = @ \o names]

Lost(p) ==
  handleReconnectStateChanged([p EXCEPT !.link = "down", !.auto = TRUE, !.class = "show"],
                              "show")
Connected(p) ==
  handleReconnectStateChanged([p EXCEPT !.link = "up", !.auto = FALSE, !.class = "hide"],
                              "hide")

(* The page's circuit gets its new connection, perhaps before the server has noticed
   that the old one broke. *)
Rejoin ==
  /\ reachable /\ Retained
  /\ circuit' = [circuit EXCEPT ![Mine] = "connected"]
  /\ Call(Mine, IF circuit[Mine] = "idle" THEN <<"up">> ELSE <<"down", "up">>)

IsNext(c) == c \in Unused /\ \A d \in Unused : c <= d

(* A new circuit takes the place of the saved one, which is used up.  No component
   persists its fields, so its page is rendered as a loaded one is. *)
ResumeAs(c) ==
  /\ reachable /\ Saved /\ IsNext(c)
  /\ circuit' = [circuit EXCEPT ![c] = "connected", ![Mine] = "gone"]
  /\ Call(c, <<"opened", "up">>)

(* A new circuit for a new page. *)
LoadPage ==
  /\ page.link = "loading" /\ reachable
  /\ \E c \in Ids :
       /\ IsNext(c)
       /\ circuit' = [circuit EXCEPT ![c] = "connected"]
       /\ Call(c, <<"opened", "up">>)
       /\ page' = [page EXCEPT !.link = "up", !.mine = c]
  /\ UNCHANGED <<reachable, faults, registryVars>>

(* Blazor's own attempts begin with the loss of the connection and end with it back,
   refused, or given up. *)
NoticeLoss ==
  /\ page.link = "up"
  /\ ~reachable \/ circuit[Mine] # "connected"
  /\ page' = Lost(page)
  /\ UNCHANGED <<reachable, faults, serverVars, registryVars>>

AutoRejoin ==
  /\ page.auto /\ Rejoin
  /\ page' = Connected(page)
  /\ UNCHANGED <<reachable, faults, registryVars>>

AutoResume ==
  /\ page.auto
  /\ \E c \in Ids : ResumeAs(c) /\ page' = Connected([page EXCEPT !.mine = c])
  /\ UNCHANGED <<reachable, faults, registryVars>>

AutoRejected ==
  /\ page.auto /\ reachable /\ ~Retained
  /\ page' = handleReconnectStateChanged(page, "rejected")
  /\ UNCHANGED <<reachable, faults, serverVars, registryVars>>

AutoGivesUp ==
  /\ page.auto /\ ~reachable
  /\ page' = handleReconnectStateChanged(
               [page EXCEPT !.auto = FALSE, !.class = "failed"], "failed")
  /\ UNCHANGED <<reachable, faults, serverVars, registryVars>>

AutoStep == AutoRejoin \/ AutoResume \/ AutoRejected \/ AutoGivesUp

-----------------------------------------------------------------------------
(* The answers retry() and resume() wait for. *)

AfterReconnect == [page EXCEPT !.reconnecting = @ - 1]
AfterResume == [page EXCEPT !.resuming = @ - 1]

(* true: also when something else has connected the page meanwhile. *)
ReconnectSucceeds ==
  /\ page.reconnecting > 0
  /\ \/ /\ page.link = "up"
        /\ page' = AfterReconnect
        /\ UNCHANGED serverVars
     \/ /\ page.link = "down" /\ Rejoin
        /\ page' = Connected(AfterReconnect)
  /\ UNCHANGED <<reachable, faults, registryVars>>

(* false: the server does not have the circuit any more. *)
ReconnectRefused ==
  /\ page.reconnecting > 0 /\ page.link = "down" /\ reachable /\ ~Retained
  /\ page' = [AfterReconnect EXCEPT !.resuming = @ + 1]
  /\ UNCHANGED <<reachable, faults, serverVars, registryVars>>

RetryThrows ==
  /\ ~reachable
  /\ \/ page.reconnecting > 0 /\ page' = retryThrows(AfterReconnect)
     \/ page.resuming > 0 /\ page' = retryThrows(AfterResume)
  /\ UNCHANGED <<reachable, faults, serverVars, registryVars>>

(* Blazor may or may not report "hide" here; the script closes the dialog itself. *)
RetryResumes ==
  /\ page.resuming > 0
  /\ \/ /\ page.link = "up"
        /\ page' = retryResumed(AfterResume)
        /\ UNCHANGED serverVars
     \/ /\ page.link = "down"
        /\ \E c \in Ids :
             /\ ResumeAs(c)
             /\ LET p == [AfterResume EXCEPT !.mine = c]
                IN  page' \in {retryResumed(Connected(p)),
                               retryResumed([p EXCEPT !.link = "up", !.auto = FALSE])}
  /\ UNCHANGED <<reachable, faults, registryVars>>

(* resumeCircuit() of a page another call has connected: nothing is said of it. *)
Refused == reachable /\ (page.link = "up" \/ ~Saved)

RetryResumeRefused ==
  /\ page.resuming > 0 /\ Refused
  /\ page' = reload(page)
  /\ UNCHANGED <<reachable, faults, serverVars, registryVars>>

ResumeSucceeds ==
  /\ page.resume
  /\ LET p == [page EXCEPT !.resume = FALSE]
     IN  \/ page.link = "up" /\ page' = p /\ UNCHANGED serverVars
         \/ /\ page.link = "down"
            /\ \E c \in Ids : ResumeAs(c) /\ page' = Connected([p EXCEPT !.mine = c])
  /\ UNCHANGED <<reachable, faults, registryVars>>

ResumeRefused ==
  /\ page.resume /\ Refused
  /\ page' = reload(page)
  /\ UNCHANGED <<reachable, faults, serverVars, registryVars>>

ResumeThrows ==
  /\ page.resume /\ ~reachable
  /\ page' = resumeThrows(page)
  /\ UNCHANGED <<reachable, faults, serverVars, registryVars>>

RetryAnswered ==
  ReconnectSucceeds \/ ReconnectRefused \/ RetryThrows \/ RetryResumes \/ RetryResumeRefused
ResumeAnswered == ResumeSucceeds \/ ResumeRefused \/ ResumeThrows

-----------------------------------------------------------------------------
(* The user: a button shows only in the classes it is for. *)

RoomForRetry == page.reconnecting + page.resuming < MaxRetries

ClickRetry ==
  /\ page.visible /\ page.dialog /\ page.class = "failed" /\ RoomForRetry
  /\ page' = retry(page)
  /\ UNCHANGED <<reachable, faults, serverVars, registryVars>>

ClickResume ==
  /\ page.visible /\ page.dialog /\ page.class \in {"paused", "resume-failed"}
  /\ ~page.resume
  /\ page' = [page EXCEPT !.resume = TRUE]
  /\ UNCHANGED <<reachable, faults, serverVars, registryVars>>

SwitchTab ==
  /\ page.listening => RoomForRetry
  /\ page' = retryWhenDocumentBecomesVisible([page EXCEPT !.visible = ~@])
  /\ UNCHANGED <<reachable, faults, serverVars, registryVars>>

-----------------------------------------------------------------------------
(* TrackingCircuitHandler, ClientInfoReporter and the registry. *)

OnCircuitOpenedAsync(c) ==
  \E ip \in OwnIps :
    client' = [client EXCEPT ![c] = [listed |-> TRUE, ip |-> ip, state |-> "Connected"]]

SetStateAnew(c, state) ==
  client' = IF client[c].listed
            THEN [client EXCEPT ![c] = [listed |-> TRUE, ip |-> "unknown", state |-> state]]
            ELSE client
SetState(c, state) ==
  client' = IF client[c].listed THEN [client EXCEPT ![c].state = state] ELSE client

SetRemoteIp(c, ip) ==
  client' = IF client[c].listed THEN [client EXCEPT ![c].ip = ip] ELSE client

RemoveConnected(c) ==
  client' = IF client[c] # NoClient /\ client[c].state = "Connected"
            THEN [client EXCEPT ![c] = NoClient] ELSE client
Remove(c) == client' = [client EXCEPT ![c] = NoClient]

CallHandler(c) ==
  /\ calls[c] # <<>>
  /\ calls' = [calls EXCEPT ![c] = Tail(@)]
  /\ context' = [context EXCEPT ![c] = @ \/ Head(calls[c]) = "opened"]
  /\ \/ Head(calls[c]) = "opened" /\ OnCircuitOpenedAsync(c)
     \/ Head(calls[c]) = "up" /\ SetState(c, "Connected")
     \/ Head(calls[c]) = "down" /\ SetState(c, "Reconnecting")
     \/ Head(calls[c]) = "closed" /\ Remove(c)
  /\ UNCHANGED <<page, reachable, faults, circuit, rendered>>

(* Components are first rendered once the circuit has been opened. *)
OnAfterRender(c) ==
  /\ ~rendered[c]
  /\ IF calls[c] = <<>> THEN circuit[c] \in {"connected", "idle"}
     ELSE Head(calls[c]) # "opened"
  /\ rendered' = [rendered EXCEPT ![c] = TRUE]
  /\ IF context[c] THEN SetRemoteIp(c, "address") ELSE UNCHANGED client
  /\ UNCHANGED <<page, reachable, faults, serverVars, context>>

-----------------------------------------------------------------------------
(* What happens to circuits and connections. *)

Fault == faults < MaxFaults /\ faults' = faults + 1

(* A connection breaks, and the server notices first, or the browser does. *)
ServerNoticesLoss(c) ==
  /\ circuit[c] = "connected"
  /\ IF reachable /\ page.link = "up" /\ Mine = c THEN Fault ELSE UNCHANGED faults
  /\ circuit' = [circuit EXCEPT ![c] = "idle"]
  /\ Call(c, <<"down">>)
  /\ UNCHANGED <<page, reachable, registryVars>>

BreakConnection ==
  /\ page.link = "up" /\ Fault
  /\ page' = Lost(page)
  /\ UNCHANGED <<reachable, serverVars, registryVars>>

(* Nobody came back within DisconnectedCircuitRetentionPeriod. *)
Evict(c) ==
  /\ circuit[c] = "idle"
  /\ \E s \in {"saved", "gone"} : circuit' = [circuit EXCEPT ![c] = s]
  /\ Call(c, <<"down", "closed">>)
  /\ UNCHANGED <<page, reachable, faults, registryVars>>

Expire(c) ==
  /\ circuit[c] = "saved"
  /\ circuit' = [circuit EXCEPT ![c] = "gone"]
  /\ UNCHANGED <<page, reachable, faults, calls, registryVars>>

(* The server pauses the session of a page that works. *)
Pause ==
  /\ page.link = "up" /\ reachable /\ circuit[Mine] = "connected" /\ Fault
  /\ circuit' = [circuit EXCEPT ![Mine] = "saved"]
  /\ Call(Mine, <<"down", "closed">>)
  /\ page' = handleReconnectStateChanged(
               [page EXCEPT !.link = "down", !.class = "paused"], "show")
  /\ UNCHANGED <<reachable, registryVars>>

ReloadByHand ==
  /\ page.link # "loading" /\ Fault
  /\ page' = reload(page)
  /\ UNCHANGED <<reachable, serverVars, registryVars>>

NetworkFails ==
  /\ reachable /\ Fault
  /\ reachable' = FALSE
  /\ UNCHANGED <<page, serverVars, registryVars>>

(* The process ends, and with it everything the server holds. *)
ServerEnds ==
  /\ reachable /\ Fault
  /\ reachable' = FALSE
  /\ circuit' = [c \in Ids |-> IF circuit[c] = "none" THEN "none" ELSE "gone"]
  /\ calls' = [c \in Ids |-> <<>>]
  /\ client' = [c \in Ids |-> NoClient]
  /\ UNCHANGED <<page, context, rendered>>

ServerIsBack ==
  /\ ~reachable
  /\ reachable' = TRUE
  /\ UNCHANGED <<page, faults, serverVars, registryVars>>

-----------------------------------------------------------------------------
ScriptStep == AutoStep \/ RetryAnswered \/ ResumeAnswered
UserStep == ClickRetry \/ ClickResume \/ SwitchTab \/ ReloadByHand
CircuitStep(c) ==
  CallHandler(c) \/ OnAfterRender(c) \/ ServerNoticesLoss(c) \/ Evict(c) \/ Expire(c)

Next ==
  \/ LoadPage \/ NoticeLoss \/ BreakConnection \/ Pause
  \/ ScriptStep \/ UserStep
  \/ \E c \in Ids : CircuitStep(c)
  \/ NetworkFails \/ ServerEnds \/ ServerIsBack

(* Blazor's calls end, a broken connection is noticed, a page that is loaded comes
   when the server is there. *)
Fairness ==
  /\ WF_vars(LoadPage)
  /\ WF_vars(NoticeLoss)
  /\ WF_vars(AutoStep)
  /\ WF_vars(RetryAnswered)
  /\ WF_vars(ResumeAnswered)

Spec == Init /\ [][Next]_vars /\ Fairness

-----------------------------------------------------------------------------
(* To somebody in front of it, the page is what PageSession promises. *)
View ==
  IF page.link = "loading" THEN "loading"
  ELSE IF page.link = "up" /\ ~page.dialog THEN "usable"
  ELSE IF page.link = "down" /\ page.dialog THEN "blocked"
  ELSE "broken"

(* What its components hold is the circuit's, and ends with it. *)
Session == INSTANCE PageSession WITH view <- View, work <- Mine, kept <- Retained
SessionSpec == Session!SessionSpec

(* A page without connection always has a way on: Blazor still tries, a call is in
   flight, the return of the user starts one, or the Resume button is there.  Two
   retries in flight take the listener away and put it back in any order. *)
NoDeadEnd ==
  page.link = "down" =>
    \/ page.auto \/ page.reconnecting + page.resuming > 0 \/ page.resume
    \/ page.class = "failed" /\ page.listening
    \/ page.class \in {"paused", "resume-failed"}

(* Whenever the calls of a circuit have been made, the overview lists it exactly if
   the server still holds it, and as what it is. *)
Listing(c) ==
  IF circuit[c] = "connected" THEN "Connected"
  ELSE IF circuit[c] = "idle" THEN "Reconnecting" ELSE "none"

ListedAsItIs ==
  \A c \in Ids : calls[c] = <<>> =>
    IF Listing(c) = "none" THEN ~client[c].listed
    ELSE client[c].listed /\ client[c].state = Listing(c)

(* The address that only the page request knew stays with the entry through every
   later change of its state. *)
AddressIsKept ==
  \A c \in Ids : rendered[c] /\ client[c].listed => client[c].ip = "address"

(* If in the end the server stays reachable, the user comes back to the tab again and
   again and presses Resume, every page gets its connection back or is loaded anew. *)
UserComesBack ==
  []<>page.visible /\ []<>~page.visible /\ SF_vars(ClickResume)

PageComesBack ==
  <>[]reachable /\ UserComesBack => []<>(page.link = "up" \/ Spent)

=============================================================================
