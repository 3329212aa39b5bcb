------------------------------- MODULE HubLink -------------------------------
(***************************************************************************)
(* The SignalR link from the monitoring service to the web application:    *)
(* MonitoringHubClient (its HubConnection with automatic reconnect and its *)
(* retry loop), the connections as the web server sees them (MonitoringHub)*)
(* and the MonitoringServiceLinkRegistry that the overview page reads.     *)
(*                                                                         *)
(* Client and server learn of a lost connection at different times, so the *)
(* server may hold several connections of the one client.  HubConnection   *)
(* and the server's connection handling are the framework's; the states    *)
(* and callbacks modelled of them are those the code relies on.            *)
(***************************************************************************)
EXTENDS Naturals, FiniteSets

CONSTANTS
  Connections,   \* connection ids; one is used again once both ends dropped it
  NoConnection

ASSUME LinkAssumption == IsFiniteSet(Connections) /\ NoConnection \notin Connections

VARIABLES
  (* the monitoring service *)
  retry,        \* where ConnectWithRetryAsync stands; "off" without a process
  client,       \* HubConnection.State
  mine,         \* the connection the client holds
  (* the web application *)
  webUp,        \* the web process runs
  server,       \* server[c]: before, between and after the hub's callbacks
  inFlight,     \* connections that carry an unprocessed NotifyCheckCompleted
  count,        \* _connectionCount
  connectedAt,  \* ConnectedAt is not null
  lastSignalAt  \* LastSignalAt is not null

clientVars == <<retry, client, mine>>
serverVars == <<webUp, server, inFlight>>
registryVars == <<count, connectedAt, lastSignalAt>>
vars == <<clientVars, serverVars, registryVars>>

TypeOK ==
  /\ retry \in {"off", "checking", "starting", "waiting", "cancelled"}
  /\ client \in {"disconnected", "connecting", "connected", "reconnecting"}
  /\ mine \in Connections \union {NoConnection}
  /\ webUp \in BOOLEAN
  /\ server \in [Connections -> {"closed", "opening", "open"}]
  /\ inFlight \subseteq Connections
  /\ count \in 0..Cardinality(Connections)
  /\ connectedAt \in BOOLEAN
  /\ lastSignalAt \in BOOLEAN

Init ==
  /\ retry = "off"
  /\ client = "disconnected"
  /\ mine = NoConnection
  /\ webUp = FALSE
  /\ server = [c \in Connections |-> "closed"]
  /\ inFlight = {}
  /\ count = 0
  /\ connectedAt = FALSE
  /\ lastSignalAt = FALSE

-----------------------------------------------------------------------------
(* MonitoringServiceLinkRegistry. *)

MarkConnectedOnce == count' = 1 /\ connectedAt' = TRUE
MarkConnected ==
  /\ count' = count + 1
  /\ connectedAt' = (connectedAt \/ count' = 1)

MarkDisconnectedAlways ==
  /\ count' = IF count > 0 THEN count - 1 ELSE 0
  /\ connectedAt' = FALSE
MarkDisconnectedLast ==
  /\ count' = IF count > 1 THEN count ELSE 0
  /\ connectedAt' = (connectedAt /\ count' # 0)
MarkDisconnected ==
  /\ count' = IF count > 0 THEN count - 1 ELSE 0
  /\ connectedAt' = (connectedAt /\ count' # 0)

MarkSignal == lastSignalAt' = TRUE

IsConnected == count > 0

-----------------------------------------------------------------------------
(* The server's connections. *)

Free == {c \in Connections : server[c] = "closed" /\ c # mine}

(* The handshake of a new connection is answered; the hub's OnConnectedAsync
   runs later. *)
Accept(c) ==
  /\ webUp /\ c \in Free
  /\ server' = [server EXCEPT ![c] = "opening"]
  /\ UNCHANGED <<webUp, inFlight>>

OnConnectedAsync(c) ==
  /\ server[c] = "opening"
  /\ server' = [server EXCEPT ![c] = "open"]
  /\ MarkConnected
  /\ UNCHANGED <<webUp, inFlight, lastSignalAt, clientVars>>

(* The server learns that c is gone, or gives it up for want of keep-alives. *)
OnDisconnectedAsync(c) ==
  /\ server[c] = "open"
  /\ server' = [server EXCEPT ![c] = "closed"]
  /\ inFlight' = inFlight \ {c}
  /\ MarkDisconnected
  /\ UNCHANGED <<webUp, lastSignalAt, clientVars>>

(* The hub runs one invocation of a connection at a time, after its
   OnConnectedAsync. *)
NotifyCheckCompleted(c) ==
  /\ server[c] = "open" /\ c \in inFlight
  /\ inFlight' = inFlight \ {c}
  /\ MarkSignal
  /\ UNCHANGED <<webUp, server, count, connectedAt, clientVars>>

WebStarts ==
  /\ ~webUp
  /\ webUp' = TRUE
  /\ UNCHANGED <<server, inFlight, registryVars, clientVars>>

(* The registry is a singleton in memory. *)
WebStops ==
  /\ webUp
  /\ webUp' = FALSE
  /\ server' = [c \in Connections |-> "closed"]
  /\ inFlight' = {}
  /\ count' = 0
  /\ connectedAt' = FALSE
  /\ lastSignalAt' = FALSE
  /\ UNCHANGED clientVars

-----------------------------------------------------------------------------
(* The client. *)

StartAsync ==
  /\ retry = "off"
  /\ retry' = "checking"
  /\ UNCHANGED <<client, mine, serverVars, registryVars>>

(* StopAsync, or the end of the process. *)
StopAsync ==
  /\ retry # "off"
  /\ retry' = "off"
  /\ client' = "disconnected"
  /\ mine' = NoConnection
  /\ UNCHANGED <<serverVars, registryVars>>

MayStartUnlessConnected == client # "connected"
MayStart == client = "disconnected"

(* The loop starts the connection unless it is up or reconnects by itself. *)
CheckState ==
  /\ retry = "checking"
  /\ IF MayStart
       THEN retry' = "starting" /\ client' = "connecting"
       ELSE retry' = "waiting" /\ UNCHANGED client
  /\ UNCHANGED <<mine, serverVars, registryVars>>

AfterStartDone == "done"
AfterStart == "waiting"

StartSucceeds ==
  /\ retry = "starting"
  /\ \E c \in Connections : Accept(c) /\ mine' = c
  /\ client' = "connected"
  /\ retry' = AfterStart
  /\ UNCHANGED registryVars

(* Refused, unreachable, not found: logged, and tried again. *)
StartFails ==
  /\ retry = "starting"
  /\ client' = "disconnected"
  /\ retry' = "waiting"
  /\ UNCHANGED <<mine, serverVars, registryVars>>

(* A web application that accepts the request and does not answer makes the
   HTTP client time out, with the OperationCanceledException that the loop
   takes for its own cancellation. *)
StartTimesOut ==
  /\ retry = "starting"
  /\ client' = "disconnected"
  /\ retry' = "cancelled"
  /\ UNCHANGED <<mine, serverVars, registryVars>>

(* Half a minute later. *)
Wake ==
  /\ retry = "waiting"
  /\ retry' = "checking"
  /\ UNCHANGED <<client, mine, serverVars, registryVars>>

(* A handshake whose answer does not reach the client: the server holds a
   connection nobody uses. *)
LoseAnswer ==
  /\ client \in {"connecting", "reconnecting"}
  /\ \E c \in Connections : Accept(c)
  /\ UNCHANGED <<clientVars, registryVars>>

LoseConnection ==
  /\ client = "connected"
  /\ client' = "reconnecting"
  /\ mine' = NoConnection
  /\ UNCHANGED <<retry, serverVars, registryVars>>

NetworkDrop == mine # NoConnection /\ server[mine] # "closed" /\ LoseConnection
NoticeClosed == mine # NoConnection /\ server[mine] = "closed" /\ LoseConnection

Reconnect ==
  /\ client = "reconnecting"
  /\ \E c \in Connections : Accept(c) /\ mine' = c
  /\ client' = "connected"
  /\ UNCHANGED <<retry, registryVars>>

(* WithAutomaticReconnect has used up its attempts: Closed. *)
GiveUp ==
  /\ client = "reconnecting"
  /\ client' = "disconnected"
  /\ UNCHANGED <<retry, mine, serverVars, registryVars>>

(* NotifyCheckCompletedAsync; without a connection it does nothing. *)
SendCheckCompleted ==
  /\ client = "connected" /\ server[mine] # "closed"
  /\ inFlight' = inFlight \union {mine}
  /\ UNCHANGED <<webUp, server, registryVars, clientVars>>

-----------------------------------------------------------------------------
StartEnds == StartSucceeds \/ StartFails \/ StartTimesOut
ReconnectEnds == Reconnect \/ GiveUp

ClientStep ==
  \/ StartAsync \/ StopAsync
  \/ CheckState \/ StartEnds \/ Wake
  \/ LoseAnswer \/ NetworkDrop \/ NoticeClosed \/ ReconnectEnds
  \/ SendCheckCompleted

ServerStep ==
  \/ WebStarts \/ WebStops
  \/ \E c \in Connections :
       OnConnectedAsync(c) \/ OnDisconnectedAsync(c) \/ NotifyCheckCompleted(c)

Next == ClientStep \/ ServerStep

Spec == Init /\ [][Next]_vars

(* The loop and its delay are one task, an attempt to connect ends, callbacks of
   the hub run, and keep-alives let either end notice that the other has gone.
   Nothing makes a process start or an attempt succeed. *)
Fairness ==
  /\ WF_vars(CheckState)
  /\ WF_vars(StartEnds)
  /\ WF_vars(Wake)
  /\ WF_vars(NoticeClosed)
  /\ WF_vars(ReconnectEnds)
  /\ \A c \in Connections :
       /\ WF_vars(OnConnectedAsync(c))
       /\ WF_vars(c # mine /\ OnDisconnectedAsync(c))

FairSpec == Spec /\ Fairness

-----------------------------------------------------------------------------
(* The registry counts exactly the connections whose OnConnectedAsync ran and
   whose OnDisconnectedAsync did not, however reconnects and closes overlap. *)
CountIsOpenConnections ==
  count = Cardinality({c \in Connections : server[c] = "open"})

(* The overview's "connected since" is there exactly while the link is up: an old
   connection's late close does not blank a link that has already come back. *)
SinceIffConnected == connectedAt <=> IsConnected

StaysUp == <>[](webUp /\ retry # "off")

(* From some time on no attempt fails and the network drops nothing. *)
NetworkHeals ==
  <>[][/\ ~StartFails /\ ~LoseAnswer /\ ~NetworkDrop
       /\ ~(mine # NoConnection /\ OnDisconnectedAsync(mine))]_vars

Linked ==
  /\ client = "connected"
  /\ {c \in Connections : server[c] = "open"} = {mine}
  /\ count = 1

(* Once both processes stay up and the network heals, the link comes up for good,
   after any number of failed starts and given-up reconnects, and the registry
   forgets the connections that died; unless a timeout has cancelled the loop. *)
LinkComesBack ==
  StaysUp /\ NetworkHeals /\ <>[](retry # "cancelled") => <>[]Linked

(* What doc/SIGNALR.md says of the retry loop, which "attempts to connect every
   30 s until it succeeds". *)
RetriesUntilConnected ==
  StaysUp /\ NetworkHeals /\ <>[][~StartTimesOut]_vars => <>[]Linked

=============================================================================
