---------------------------- MODULE HubLinkProofs ----------------------------
(***************************************************************************)
(* What holds of the link and its registry for every finite set of         *)
(* connections.                                                            *)
(***************************************************************************)
EXTENDS HubLink, FiniteSetTheorems, TLAPS

Open == {c \in Connections : server[c] = "open"}

LinkInv ==
  /\ retry \in {"off", "checking", "starting", "waiting", "cancelled"}
  /\ client \in {"disconnected", "connecting", "connected", "reconnecting"}
  /\ mine \in Connections \union {NoConnection}
  /\ webUp \in BOOLEAN
  /\ server \in [Connections -> {"closed", "opening", "open"}]
  /\ inFlight \subseteq Connections
  /\ connectedAt \in BOOLEAN
  /\ lastSignalAt \in BOOLEAN
  /\ count = Cardinality(Open)
  /\ connectedAt <=> count > 0
  /\ client = "connected" => mine \in Connections

(* The number of open connections is a natural number, at most that of all. *)
LEMMA OpenIsBounded ==
  /\ IsFiniteSet(Open)
  /\ Cardinality(Open) \in 0..Cardinality(Connections)
<1>1. IsFiniteSet(Open) /\ Cardinality(Open) <= Cardinality(Connections)
  BY LinkAssumption, FS_Subset DEF Open
<1>2. Cardinality(Open) \in Nat /\ Cardinality(Connections) \in Nat
  BY <1>1, LinkAssumption, FS_CardinalityType
<1>3. QED
  BY <1>1, <1>2

LEMMA InvInit == Init => LinkInv
<1> SUFFICES ASSUME Init PROVE LinkInv
  OBVIOUS
<1>1. Open = {}
  BY DEF Init, Open
<1>2. Cardinality(Open) = 0
  BY <1>1, FS_EmptySet
<1>3. /\ retry = "off" /\ client = "disconnected" /\ mine = NoConnection
      /\ server \in [Connections -> {"closed", "opening", "open"}]
      /\ inFlight = {} /\ count = 0
  BY DEF Init
<1>4. webUp = FALSE /\ connectedAt = FALSE /\ lastSignalAt = FALSE
  BY Zenon DEF Init
<1>5. webUp \in BOOLEAN /\ connectedAt \in BOOLEAN /\ lastSignalAt \in BOOLEAN
  BY <1>4, Zenon
<1>6. connectedAt <=> count > 0
  BY <1>3, <1>4
<1>7. QED
  BY <1>2, <1>3, <1>5, <1>6 DEF LinkInv

(* A connection whose OnConnectedAsync runs is one more, and ConnectedAt is set
   from then on. *)
LEMMA ConnectedKeepsInv ==
  ASSUME LinkInv, NEW c \in Connections, OnConnectedAsync(c)
  PROVE  LinkInv'
<1> USE DEF LinkInv, OnConnectedAsync, MarkConnected, clientVars
<1>1. Open' = Open \union {c} /\ c \notin Open
  BY DEF Open
<1>2. Cardinality(Open') = Cardinality(Open) + 1
  BY <1>1, OpenIsBounded, FS_AddElement
<1>3. count \in Nat /\ count' = count + 1
  BY OpenIsBounded
<1>4. connectedAt' <=> (connectedAt \/ count' = 1)
  BY Zenon
<1>5. connectedAt' \in BOOLEAN
  BY Zenon
<1>6. connectedAt' <=> count' > 0
  BY <1>3, <1>4
<1>7. server' \in [Connections -> {"closed", "opening", "open"}]
  OBVIOUS
<1>8. QED
  BY <1>2, <1>3, <1>5, <1>6, <1>7

(* One less when OnDisconnectedAsync runs; ConnectedAt goes with the last. *)
LEMMA DisconnectedKeepsInv ==
  ASSUME LinkInv, NEW c \in Connections, OnDisconnectedAsync(c)
  PROVE  LinkInv'
<1> USE DEF LinkInv, OnDisconnectedAsync, MarkDisconnected, clientVars
<1>1. Open' = Open \ {c} /\ c \in Open
  BY DEF Open
<1>2. Cardinality(Open') = Cardinality(Open) - 1
  BY <1>1, OpenIsBounded, FS_RemoveElement
<1>3. count \in Nat /\ count > 0
  BY <1>1, OpenIsBounded, FS_EmptySet
<1>4. count' = count - 1
  BY <1>3
<1>5. connectedAt' <=> (connectedAt /\ count' # 0)
  BY Zenon
<1>6. connectedAt' \in BOOLEAN
  BY Zenon
<1>7. connectedAt' <=> count' > 0
  BY <1>3, <1>4, <1>5
<1>8. server' \in [Connections -> {"closed", "opening", "open"}]
  OBVIOUS
<1>9. QED
  BY <1>2, <1>4, <1>6, <1>7, <1>8

(* The web process takes its connections and its registry with it. *)
LEMMA WebStopsKeepsInv ==
  ASSUME LinkInv, WebStops
  PROVE  LinkInv'
<1> USE DEF LinkInv, WebStops, clientVars
<1>1. Open' = {}
  BY DEF Open
<1>2. Cardinality(Open') = 0 /\ count' = 0
  BY <1>1, FS_EmptySet
<1>3. webUp' = FALSE /\ connectedAt' = FALSE /\ lastSignalAt' = FALSE
  BY Zenon
<1>4. webUp' \in BOOLEAN /\ connectedAt' \in BOOLEAN /\ lastSignalAt' \in BOOLEAN
  BY <1>3, Zenon
<1>5. QED
  BY <1>2, <1>3, <1>4

(* No step of the client opens or closes a connection at the hub: an accepted one
   is not open before its OnConnectedAsync. *)
LEMMA ClientStepKeepsInv ==
  ASSUME LinkInv, ClientStep
  PROVE  LinkInv'
<1> USE DEF LinkInv, clientVars, serverVars, registryVars
<1>1. ASSUME NEW c \in Connections, Accept(c)
      PROVE  /\ Open' = Open
             /\ server' \in [Connections -> {"closed", "opening", "open"}]
             /\ UNCHANGED <<webUp, inFlight>>
  BY <1>1 DEF Accept, Free, Open
<1>2. ASSUME UNCHANGED server PROVE Open' = Open
  BY <1>2 DEF Open
<1>3. CASE StartAsync \/ StopAsync \/ CheckState \/ Wake
  BY <1>2, <1>3 DEF StartAsync, StopAsync, CheckState, Wake
<1>4. CASE StartEnds
  BY <1>1, <1>2, <1>4
  DEF StartEnds, StartSucceeds, StartFails, StartTimesOut, AfterStart
<1>5. CASE LoseAnswer
  BY <1>1, <1>5 DEF LoseAnswer
<1>6. CASE NetworkDrop \/ NoticeClosed
  BY <1>2, <1>6 DEF NetworkDrop, NoticeClosed, LoseConnection
<1>7. CASE ReconnectEnds
  BY <1>1, <1>2, <1>7 DEF ReconnectEnds, Reconnect, GiveUp
<1>8. CASE SendCheckCompleted
  BY <1>2, <1>8 DEF SendCheckCompleted
<1>9. QED
  BY <1>3, <1>4, <1>5, <1>6, <1>7, <1>8 DEF ClientStep

LEMMA InvStep == LinkInv /\ [Next]_vars => LinkInv'
<1> SUFFICES ASSUME LinkInv, [Next]_vars PROVE LinkInv'
  OBVIOUS
<1>1. CASE ClientStep
  BY <1>1, ClientStepKeepsInv
<1>2. ASSUME NEW c \in Connections, NotifyCheckCompleted(c) PROVE LinkInv'
  <2>1. /\ UNCHANGED <<webUp, server, count, connectedAt, retry, client, mine>>
        /\ inFlight' = inFlight \ {c}
        /\ lastSignalAt' = TRUE
    BY <1>2 DEF NotifyCheckCompleted, MarkSignal, clientVars
  <2>2. lastSignalAt' \in BOOLEAN
    BY <2>1, Zenon
  <2>3. Open' = Open
    BY <2>1 DEF Open
  <2>4. QED
    BY <2>1, <2>2, <2>3 DEF LinkInv
<1>3. CASE WebStarts
  BY <1>3 DEF WebStarts, LinkInv, Open, registryVars, clientVars
<1>4. CASE UNCHANGED vars
  BY <1>4 DEF vars, LinkInv, Open, clientVars, serverVars, registryVars
<1>5. QED
  BY <1>1, <1>2, <1>3, <1>4, ConnectedKeepsInv, DisconnectedKeepsInv, WebStopsKeepsInv
  DEF Next, ServerStep

LEMMA Invariance == Spec => []LinkInv
<1>1. QED
  BY InvInit, InvStep, PTL DEF Spec

(* Every variable keeps its type, and the count stays within the number of
   connections there are. *)
THEOREM TypeCorrect == Spec => []TypeOK
<1>1. LinkInv => TypeOK
  BY OpenIsBounded DEF LinkInv, TypeOK
<1>2. QED
  BY <1>1, Invariance, PTL

(* The registry counts exactly the connections that are open at the hub. *)
THEOREM CountIsExact == Spec => []CountIsOpenConnections
<1>1. LinkInv => CountIsOpenConnections
  BY DEF LinkInv, CountIsOpenConnections, Open
<1>2. QED
  BY <1>1, Invariance, PTL

(* ConnectedAt is set exactly while the link is up. *)
THEOREM SinceIsExact == Spec => []SinceIffConnected
<1>1. LinkInv => SinceIffConnected
  BY DEF LinkInv, SinceIffConnected, IsConnected
<1>2. QED
  BY <1>1, Invariance, PTL

-----------------------------------------------------------------------------
(* How the ends of the link fit together: the loop starts the HubConnection only while it
   is down and nobody else does, exactly a connected client holds a connection, a process
   that has ended holds none, and no notification is under way on a closed connection. *)
Coherent ==
  /\ retry = "starting" <=> client = "connecting"
  /\ client = "connected" <=> mine \in Connections
  /\ retry = "off" => client = "disconnected"
  /\ ~webUp => \A c \in Connections : server[c] = "closed"
  /\ \A c \in inFlight : server[c] # "closed"

LEMMA CoherentStep ==
  ASSUME LinkInv, Coherent, [Next]_vars
  PROVE  Coherent'
<1> USE LinkAssumption DEF LinkInv, Coherent, clientVars, serverVars, registryVars
<1>1. CASE StartAsync \/ StopAsync \/ CheckState \/ Wake
  BY <1>1 DEF StartAsync, StopAsync, CheckState, MayStart, Wake
<1>2. CASE StartSucceeds
  BY <1>2 DEF StartSucceeds, AfterStart, Accept, Free
<1>3. CASE StartFails \/ StartTimesOut
  BY <1>3 DEF StartFails, StartTimesOut
<1>4. CASE LoseAnswer
  BY <1>4 DEF LoseAnswer, Accept, Free
<1>5. CASE NetworkDrop \/ NoticeClosed
  BY <1>5 DEF NetworkDrop, NoticeClosed, LoseConnection
<1>6. CASE ReconnectEnds
  BY <1>6 DEF ReconnectEnds, Reconnect, GiveUp, Accept, Free
<1>7. CASE SendCheckCompleted
  BY <1>7 DEF SendCheckCompleted
<1>8. CASE WebStarts \/ WebStops
  BY <1>8 DEF WebStarts, WebStops
<1>9. ASSUME NEW c \in Connections,
             OnConnectedAsync(c) \/ OnDisconnectedAsync(c) \/ NotifyCheckCompleted(c)
      PROVE  Coherent'
  BY <1>9 DEF OnConnectedAsync, OnDisconnectedAsync, NotifyCheckCompleted
<1>10. CASE UNCHANGED vars
  BY <1>10 DEF vars
<1>11. QED
  BY <1>1, <1>2, <1>3, <1>4, <1>5, <1>6, <1>7, <1>8, <1>9, <1>10
  DEF Next, ClientStep, StartEnds, ServerStep

THEOREM EndsFitTogether == Spec => []Coherent
<1>1. Init => Coherent
  BY LinkAssumption DEF Init, Coherent
<1>2. QED
  BY <1>1, CoherentStep, Invariance, PTL DEF Spec

-----------------------------------------------------------------------------
(* Progress.  The provers do not know ENABLED, so HubLink's Fairness is written out with the
   guards of the actions, and of the connections' callbacks only those of c. *)
LinkFairness(c) ==
  /\ []<>(retry # "checking") \/ []<><<CheckState>>_vars
  /\ []<>(retry # "starting") \/ []<><<StartEnds>>_vars
  /\ []<>(retry # "waiting") \/ []<><<Wake>>_vars
  /\ []<>~(mine # NoConnection /\ server[mine] = "closed") \/ []<><<NoticeClosed>>_vars
  /\ []<>(client # "reconnecting") \/ []<><<ReconnectEnds>>_vars
  /\ []<>(server[c] # "opening") \/ []<><<OnConnectedAsync(c)>>_vars
  /\ \/ []<>~(c # mine /\ server[c] = "open")
     \/ []<><<c # mine /\ OnDisconnectedAsync(c)>>_vars

(* Both processes run and the loop has not been cancelled. *)
Running == webUp /\ retry \notin {"off", "cancelled"}

(* What NetworkHeals asks of a step. *)
Healed ==
  /\ ~StartFails /\ ~LoseAnswer /\ ~NetworkDrop
  /\ ~(mine # NoConnection /\ OnDisconnectedAsync(mine))

(* The client holds a connection that the server has not given up. *)
Attached == client = "connected" /\ server[mine] # "closed"
(* The client has not noticed that the server has. *)
Orphaned == client = "connected" /\ server[mine] = "closed"
Down(at) == client = "disconnected" /\ retry = at

(* Where the client can be while both processes run. *)
LEMMA ClientStages ==
  ASSUME LinkInv, Coherent, Running
  PROVE  \/ Attached
         \/ Orphaned
         \/ client = "reconnecting"
         \/ Down("waiting")
         \/ Down("checking")
         \/ retry = "starting" /\ client = "connecting"
BY DEF LinkInv, Coherent, Running, Attached, Orphaned, Down

(* On a healed network a connection that is attached stays so, and is the same. *)
LEMMA AttachedStays ==
  ASSUME LinkInv, Coherent, Attached, [Next]_vars, [Healed]_vars, Running, Running'
  PROVE  Attached' /\ UNCHANGED mine
<1> USE LinkAssumption
    DEF LinkInv, Coherent, Attached, Running, Healed, clientVars, serverVars, registryVars
<1>1. mine \in Connections /\ mine # NoConnection
  OBVIOUS
<1>2. CASE StartAsync \/ StopAsync \/ CheckState \/ Wake
  BY <1>2 DEF StartAsync, StopAsync, CheckState, MayStart, Wake
<1>3. CASE WebStarts \/ WebStops
  BY <1>3 DEF WebStarts, WebStops
<1>4. CASE NetworkDrop \/ NoticeClosed
  BY <1>1, <1>4 DEF NetworkDrop, NoticeClosed, LoseConnection, vars
<1>5. ~StartEnds /\ ~LoseAnswer /\ ~ReconnectEnds
  BY DEF StartEnds, StartSucceeds, StartFails, StartTimesOut, LoseAnswer, ReconnectEnds,
     Reconnect, GiveUp
<1>6. CASE SendCheckCompleted
  BY <1>6 DEF SendCheckCompleted
<1>7. ASSUME NEW c \in Connections, OnConnectedAsync(c) PROVE Attached' /\ UNCHANGED mine
  BY <1>1, <1>7 DEF OnConnectedAsync
<1>8. ASSUME NEW c \in Connections, OnDisconnectedAsync(c) PROVE Attached' /\ UNCHANGED mine
  <2>1. vars' # vars
    BY <1>8 DEF OnDisconnectedAsync, vars
  <2>2. c # mine
    BY <1>1, <1>8, <2>1
  <2>3. QED
    BY <1>1, <1>8, <2>2 DEF OnDisconnectedAsync
<1>9. ASSUME NEW c \in Connections, NotifyCheckCompleted(c)
      PROVE  Attached' /\ UNCHANGED mine
  BY <1>1, <1>9 DEF NotifyCheckCompleted
<1>10. CASE UNCHANGED vars
  BY <1>10 DEF vars
<1>11. QED
  BY <1>2, <1>3, <1>4, <1>5, <1>6, <1>7, <1>8, <1>9, <1>10 DEF Next, ClientStep, ServerStep

(* Until then the client goes on from one stage to the next, by the steps that are sure to
   come, and never back. *)
LEMMA ClientGoesOn ==
  ASSUME LinkInv, Coherent, ~Attached, [Next]_vars, [Healed]_vars, Running, Running'
  PROVE  /\ Orphaned => \/ Orphaned' /\ ~<<NoticeClosed>>_vars
                        \/ (client = "reconnecting")'
         /\ client = "reconnecting" => \/ (client = "reconnecting")' /\ ~<<ReconnectEnds>>_vars
                                       \/ Attached' \/ Down("waiting")' \/ Down("checking")'
         /\ Down("waiting") => \/ Down("waiting")' /\ ~<<Wake>>_vars
                               \/ Down("checking")'
         /\ Down("checking") => \/ Down("checking")' /\ ~<<CheckState>>_vars
                                \/ (retry = "starting")'
         /\ retry = "starting" => \/ (retry = "starting")' /\ ~<<StartEnds>>_vars
                                  \/ Attached'
<1> USE LinkAssumption
    DEF LinkInv, Coherent, Attached, Orphaned, Down, Running, Healed, clientVars, serverVars,
        registryVars
<1> DEFINE Goal ==
  /\ Orphaned => \/ Orphaned' /\ ~<<NoticeClosed>>_vars
                 \/ (client = "reconnecting")'
  /\ client = "reconnecting" => \/ (client = "reconnecting")' /\ ~<<ReconnectEnds>>_vars
                                \/ Attached' \/ Down("waiting")' \/ Down("checking")'
  /\ Down("waiting") => \/ Down("waiting")' /\ ~<<Wake>>_vars
                        \/ Down("checking")'
  /\ Down("checking") => \/ Down("checking")' /\ ~<<CheckState>>_vars
                         \/ (retry = "starting")'
  /\ retry = "starting" => \/ (retry = "starting")' /\ ~<<StartEnds>>_vars
                           \/ Attached'
<1> USE DEF NoticeClosed, LoseConnection, ReconnectEnds, Reconnect, GiveUp, Wake, CheckState,
        MayStart, StartEnds, StartSucceeds, StartFails, StartTimesOut, AfterStart, Accept, Free
<1>1. CASE StartAsync \/ StopAsync
  BY <1>1 DEF StartAsync, StopAsync
<1>2. CASE CheckState
  BY <1>2
<1>3. CASE Wake
  BY <1>3
<1>4. CASE StartEnds
  BY <1>4 DEF vars
<1>5. CASE LoseAnswer \/ NetworkDrop
  BY <1>5 DEF LoseAnswer, NetworkDrop, vars
<1>6. CASE NoticeClosed
  BY <1>6
<1>7. CASE ReconnectEnds
  BY <1>7
<1>8. CASE SendCheckCompleted
  BY <1>8 DEF SendCheckCompleted
<1>9. CASE WebStarts \/ WebStops
  BY <1>9 DEF WebStarts, WebStops
<1>10. ASSUME NEW c \in Connections,
              OnConnectedAsync(c) \/ OnDisconnectedAsync(c) \/ NotifyCheckCompleted(c)
       PROVE  Goal
  BY <1>10 DEF OnConnectedAsync, OnDisconnectedAsync, NotifyCheckCompleted
<1>11. CASE UNCHANGED vars
  BY <1>11 DEF vars
<1>12. QED
  BY <1>1, <1>2, <1>3, <1>4, <1>5, <1>6, <1>7, <1>8, <1>9, <1>10, <1>11
  DEF Next, ClientStep, ServerStep

(* Once the client is attached, no connection comes into being: c opens if it is on its
   way, and is closed if it is not the client's. *)
LEMMA ConnectionGoesOn ==
  ASSUME LinkInv, Coherent, Attached, [Next]_vars, [Healed]_vars, Running, Running',
         NEW c \in Connections
  PROVE  /\ server[c] = "opening" =>
              \/ (server[c] = "opening")' /\ ~<<OnConnectedAsync(c)>>_vars
              \/ (server[c] = "open")'
         /\ server[c] = "open" =>
              \/ (server[c] = "open")' /\ ~<<c # mine /\ OnDisconnectedAsync(c)>>_vars
              \/ c # mine /\ (server[c] = "closed")'
         /\ c # mine /\ server[c] = "closed" => (server[c] = "closed")'
<1> USE LinkAssumption
    DEF LinkInv, Coherent, Attached, Running, Healed, clientVars, serverVars, registryVars
<1> DEFINE Goal ==
  /\ server[c] = "opening" =>
       \/ (server[c] = "opening")' /\ ~<<OnConnectedAsync(c)>>_vars
       \/ (server[c] = "open")'
  /\ server[c] = "open" =>
       \/ (server[c] = "open")' /\ ~<<c # mine /\ OnDisconnectedAsync(c)>>_vars
       \/ c # mine /\ (server[c] = "closed")'
  /\ c # mine /\ server[c] = "closed" => (server[c] = "closed")'
<1>1. mine \in Connections /\ mine # NoConnection
  OBVIOUS
<1>2. ASSUME NEW d \in Connections, OnConnectedAsync(d) PROVE Goal
  BY <1>2 DEF OnConnectedAsync, OnDisconnectedAsync
<1>3. ASSUME NEW d \in Connections, OnDisconnectedAsync(d) PROVE Goal
  <2>1. vars' # vars
    BY <1>3 DEF OnDisconnectedAsync, vars
  <2>2. d # mine
    BY <1>1, <1>3, <2>1
  <2>3. QED
    BY <1>3, <2>2 DEF OnConnectedAsync, OnDisconnectedAsync
<1>4. ASSUME NEW d \in Connections, NotifyCheckCompleted(d) PROVE Goal
  BY <1>4 DEF NotifyCheckCompleted, OnConnectedAsync, OnDisconnectedAsync
<1>5. ASSUME UNCHANGED server PROVE Goal
  BY <1>5 DEF OnConnectedAsync, OnDisconnectedAsync
<1>6. ~StartEnds /\ ~LoseAnswer /\ ~ReconnectEnds
  BY DEF StartEnds, StartSucceeds, StartFails, StartTimesOut, LoseAnswer, ReconnectEnds,
     Reconnect, GiveUp
<1>7. CASE ClientStep
  BY <1>5, <1>6, <1>7 DEF ClientStep, StartAsync, StopAsync, CheckState, Wake, NetworkDrop,
     NoticeClosed, LoseConnection, SendCheckCompleted
<1>8. CASE WebStarts \/ WebStops
  BY <1>8 DEF WebStarts, WebStops
<1>9. CASE UNCHANGED vars
  BY <1>5, <1>9 DEF vars
<1>10. QED
  BY <1>2, <1>3, <1>4, <1>7, <1>8, <1>9 DEF Next, ServerStep

(* What Linked says of one connection: if it is the client's it is open at the hub and
   the overview shows the link, and if it is not it is closed. *)
LinkedBy(c) ==
  /\ client = "connected"
  /\ IF mine = c THEN server[c] = "open" /\ IsConnected /\ connectedAt
                 ELSE server[c] = "closed"

(* LinkComesBack of any one connection: after any number of failed starts and given-up
   reconnects the client is connected for good, and a connection that died is forgotten.
   That all of them are is then a matter of there being finitely many. *)
THEOREM LinkComesBackByEach ==
  ASSUME NEW c \in Connections
  PROVE  Spec /\ LinkFairness(c) =>
           (StaysUp /\ NetworkHeals /\ <>[](retry # "cancelled") => <>[]LinkedBy(c))
<1> DEFINE Re == client = "reconnecting"
           Waits == Down("waiting")
           Checks == Down("checking")
           Starts == retry = "starting"
           Mine == mine = c
           Opening == server[c] = "opening"
           Open1 == server[c] = "open"
           Closed == server[c] = "closed"
           Inv == LinkInv /\ Coherent
<1>1. Spec => []Inv
  BY Invariance, EndsFitTogether, PTL
<1>2. StaysUp /\ <>[](retry # "cancelled") => <>[]Running
  <2>1. webUp /\ retry # "off" /\ retry # "cancelled" => Running
    BY DEF Running
  <2>2. QED
    BY <2>1, PTL DEF StaysUp
<1>3. NetworkHeals => <>[][Healed]_vars
  BY PTL DEF NetworkHeals, Healed
<1>4. Inv /\ Running => Attached \/ Orphaned \/ Re \/ Waits \/ Checks \/ Starts
  BY ClientStages
<1>5. Inv /\ [Next]_vars /\ [Healed]_vars /\ Running /\ Running' /\ Attached
        => /\ Attached' /\ (Mine <=> Mine')
           /\ Opening => (Opening' /\ ~<<OnConnectedAsync(c)>>_vars) \/ Open1'
           /\ Open1 => \/ Open1' /\ ~<<c # mine /\ OnDisconnectedAsync(c)>>_vars
                       \/ ~Mine /\ Closed'
           /\ ~Mine /\ Closed => Closed'
  BY AttachedStays, ConnectionGoesOn
<1>6. Inv /\ [Next]_vars /\ [Healed]_vars /\ Running /\ Running' /\ ~Attached
        => /\ Orphaned => (Orphaned' /\ ~<<NoticeClosed>>_vars) \/ Re'
           /\ Re => (Re' /\ ~<<ReconnectEnds>>_vars) \/ Attached' \/ Waits' \/ Checks'
           /\ Waits => (Waits' /\ ~<<Wake>>_vars) \/ Checks'
           /\ Checks => (Checks' /\ ~<<CheckState>>_vars) \/ Starts'
           /\ Starts => (Starts' /\ ~<<StartEnds>>_vars) \/ Attached'
  BY ClientGoesOn
<1>7. /\ Inv /\ Orphaned => ~~(mine # NoConnection /\ server[mine] = "closed")
      /\ Re => ~(client # "reconnecting")
      /\ Waits => ~(retry # "waiting")
      /\ Checks => ~(retry # "checking")
      /\ Starts => ~(retry # "starting")
      /\ Opening => ~(server[c] # "opening")
      /\ Open1 /\ ~Mine => ~~(c # mine /\ server[c] = "open")
  BY LinkAssumption DEF Coherent, Orphaned, Down
<1>8. Inv /\ Attached => (Opening \/ Open1 \/ Closed) /\ (Mine => ~Closed)
  BY DEF LinkInv, Attached
<1>9. Inv /\ Attached /\ ((Mine /\ Open1) \/ (~Mine /\ Closed)) => LinkedBy(c)
  <2> SUFFICES ASSUME Inv, Attached, (Mine /\ Open1) \/ (~Mine /\ Closed)
               PROVE  LinkedBy(c)
    OBVIOUS
  <2>1. Open1 => Cardinality(Open) > 0
    <3>1. Open1 => Open # {}
      BY DEF Open
    <3>2. QED
      BY <3>1, OpenIsBounded, FS_EmptySet
  <2>2. QED
    BY <2>1 DEF LinkInv, Attached, LinkedBy, IsConnected
<1> DEFINE Healthy == <>[]Running /\ <>[][Healed]_vars
           ByStart == Attached \/ Starts
           ByCheck == ByStart \/ Checks
           ByWait == ByCheck \/ Waits
           ByReconnect == ByWait \/ Re
<1>10. Spec /\ LinkFairness(c) /\ Healthy => <>[]Attached
  <2>1. Spec /\ LinkFairness(c) /\ Healthy => <>[]ByReconnect
    BY <1>1, <1>4, <1>5, <1>6, <1>7, PTL DEF Spec, LinkFairness
  <2>2. Spec /\ LinkFairness(c) /\ Healthy /\ <>[]ByReconnect => <>[]ByWait
    BY <1>1, <1>5, <1>6, <1>7, PTL DEF Spec, LinkFairness
  <2>3. Spec /\ LinkFairness(c) /\ Healthy /\ <>[]ByWait => <>[]ByCheck
    BY <1>1, <1>5, <1>6, <1>7, PTL DEF Spec, LinkFairness
  <2>4. Spec /\ LinkFairness(c) /\ Healthy /\ <>[]ByCheck => <>[]ByStart
    BY <1>1, <1>5, <1>6, <1>7, PTL DEF Spec, LinkFairness
  <2>5. Spec /\ LinkFairness(c) /\ Healthy /\ <>[]ByStart => <>[]Attached
    BY <1>1, <1>5, <1>6, <1>7, PTL DEF Spec, LinkFairness
  <2>6. QED
    BY <2>1, <2>2, <2>3, <2>4, <2>5, PTL
<1>11. Spec /\ LinkFairness(c) /\ Healthy /\ <>[]Attached
         => <>[]((Mine /\ Open1) \/ (~Mine /\ Closed))
  BY <1>1, <1>5, <1>7, <1>8, PTL DEF Spec, LinkFairness
<1>12. QED
  BY <1>1, <1>2, <1>3, <1>9, <1>10, <1>11, PTL

=============================================================================
