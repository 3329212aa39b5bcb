---------------------------- MODULE CircuitsProofs ----------------------------
(***************************************************************************)
(* Theorems about Circuits.  The inductive invariant has three parts: what *)
(* holds of the page by itself (PageOK), which circuits are used and which *)
(* is the page's (CircuitsOK), and what relates a circuit's state, the calls *)
(* its handler has yet to get and its entry in the registry (RegistryOK).  *)
(* The first two give the refinement of PageSession, the third what the    *)
(* system overview shows.                                                  *)
(***************************************************************************)
EXTENDS Circuits, SequenceTheorems, TLAPS

(* What holds of the page by itself: the dialog is open exactly while the
   connection is lost, Blazor tries only then, and a page that is being loaded is a
   new one. *)
PageOK(p) ==
  /\ p \in Pages
  /\ p.reconnecting + p.resuming <= MaxRetries
  /\ p.link = "loading" =>
       /\ ~p.auto /\ ~p.listening /\ ~p.dialog /\ ~p.resume
       /\ p.reconnecting = 0 /\ p.resuming = 0
  /\ p.link # "loading" => p.mine # 0
  /\ p.link = "up" => ~p.dialog /\ ~p.auto
  /\ p.link = "down" => p.dialog
  /\ p.link = "down" /\ ~p.auto => p.class \in {"failed", "paused", "resume-failed"}
  /\ p.link = "down" /\ p.class = "failed" =>
       p.listening \/ p.reconnecting + p.resuming > 0

LEMMA NewPageOK ==
  ASSUME NEW v \in BOOLEAN, NEW m \in 0 .. MaxCircuits
  PROVE  PageOK(NewPage(v, m)) /\ NewPage(v, m).mine = m /\ NewPage(v, m).link = "loading"
BY CircuitsAssumption DEF CircuitsAssumption, PageOK, NewPage, Pages

LEMMA ReloadOK ==
  ASSUME NEW p \in Pages
  PROVE  PageOK(reload(p)) /\ reload(p).mine = p.mine /\ reload(p).link = "loading"
<1>1. p.visible \in BOOLEAN /\ p.mine \in 0 .. MaxCircuits
  BY DEF Pages
<1>2. QED
  BY <1>1, NewPageOK DEF reload

(* Losing the connection of a page that has one. *)
LEMMA LostOK ==
  ASSUME NEW p, PageOK(p), p.link = "up"
  PROVE  PageOK(Lost(p)) /\ Lost(p).mine = p.mine /\ Lost(p).link = "down"
BY DEF PageOK, Lost, handleReconnectStateChanged, Pages

(* Blazor connects a page to a circuit. *)
LEMMA ConnectedOK ==
  ASSUME NEW p \in Pages, p.reconnecting + p.resuming <= MaxRetries, p.mine # 0
  PROVE  PageOK(Connected(p)) /\ Connected(p).mine = p.mine /\ Connected(p).link = "up"
BY DEF PageOK, Connected, handleReconnectStateChanged, Pages

LEMMA RetryOK ==
  ASSUME NEW p, PageOK(p), p.link # "loading", p.reconnecting + p.resuming < MaxRetries
  PROVE  PageOK(retry(p)) /\ retry(p).mine = p.mine /\ retry(p).link = p.link
<1>1. p.reconnecting \in 0 .. MaxRetries /\ p.resuming \in 0 .. MaxRetries
  BY DEF Pages, PageOK
<1>2. p.reconnecting + 1 \in 0 .. MaxRetries
  BY <1>1, CircuitsAssumption DEF CircuitsAssumption
<1>3. retry(p) \in Pages
  BY <1>2 DEF retry, Pages, PageOK
<1>4. /\ retry(p).reconnecting = p.reconnecting + 1
      /\ \A f \in {"link", "mine", "visible", "dialog", "class", "auto", "resuming", "resume"} :
           retry(p)[f] = p[f]
  BY DEF retry, Pages, PageOK
<1>5. QED
  BY <1>1, <1>3, <1>4, CircuitsAssumption DEF CircuitsAssumption, PageOK

(* How a step that gives the page no connection moves it. *)
Moves(p, q) ==
  /\ PageOK(q)
  /\ \/ q.link = p.link
     \/ p.link = "up" /\ q.link = "down"
     \/ p.link # "loading" /\ q.link = "loading"

(* How a connection to a circuit moves it. *)
Uncovers(p, q) == PageOK(q) /\ p.link = "down" /\ q.link = "up"

SamePageCircuit == page'.mine = page.mine

LEMMA AnsweredIsTyped ==
  ASSUME PageOK(page)
  PROVE  /\ page.reconnecting > 0 =>
              /\ AfterReconnect \in Pages
              /\ AfterReconnect.reconnecting = page.reconnecting - 1
              /\ \A f \in {"link", "mine", "visible", "dialog", "class", "listening",
                           "auto", "resuming", "resume"} : AfterReconnect[f] = page[f]
         /\ page.resuming > 0 =>
              /\ AfterResume \in Pages
              /\ AfterResume.resuming = page.resuming - 1
              /\ \A f \in {"link", "mine", "visible", "dialog", "class", "listening",
                           "auto", "reconnecting", "resume"} : AfterResume[f] = page[f]
BY CircuitsAssumption DEF CircuitsAssumption, AfterReconnect, AfterResume, PageOK, Pages

(* While the page is loading nothing of an earlier page is in flight. *)
LEMMA LoadingIsIdle ==
  ASSUME PageOK(page), page.link = "loading"
  PROVE  /\ ~page.auto /\ ~page.listening /\ ~page.dialog /\ ~page.resume
         /\ page.reconnecting = 0 /\ page.resuming = 0
BY DEF PageOK

LEMMA AutoMoves ==
  ASSUME PageOK(page), AutoRejected \/ AutoGivesUp
  PROVE  Moves(page, page') /\ SamePageCircuit /\ UNCHANGED serverVars
<1>1. page \in Pages /\ page.link # "loading"
  BY LoadingIsIdle DEF PageOK, AutoRejected, AutoGivesUp
<1>2. CASE AutoRejected
  BY <1>1, <1>2, ReloadOK DEF AutoRejected, handleReconnectStateChanged, Moves, SamePageCircuit
<1>3. CASE AutoGivesUp
  <2>1. page' = [page EXCEPT !.auto = FALSE, !.class = "failed", !.listening = TRUE]
    BY <1>1, <1>3 DEF AutoGivesUp, handleReconnectStateChanged, Pages
  <2>2. PageOK(page') /\ page'.link = page.link /\ page'.mine = page.mine
    BY <1>1, <2>1 DEF PageOK, Pages
  <2>3. QED
    BY <1>3, <2>2 DEF Moves, SamePageCircuit, AutoGivesUp
<1>4. QED
  BY <1>2, <1>3

LEMMA RetryAnswerMoves ==
  ASSUME PageOK(page), ReconnectRefused \/ RetryThrows \/ RetryResumeRefused
  PROVE  Moves(page, page') /\ SamePageCircuit /\ UNCHANGED serverVars
<1>1. page \in Pages /\ page.link # "loading"
      /\ page.reconnecting \in 0 .. MaxRetries /\ page.resuming \in 0 .. MaxRetries
  BY LoadingIsIdle DEF PageOK, Pages, ReconnectRefused, RetryThrows, RetryResumeRefused
<1>2. CASE ReconnectRefused
  <2>1. page' = [page EXCEPT !.reconnecting = @ - 1, !.resuming = @ + 1]
    BY <1>1, <1>2 DEF ReconnectRefused, AfterReconnect, Pages
  <2>2. page.reconnecting > 0 /\ page.link = "down"
    BY <1>2 DEF ReconnectRefused
  <2>3. page.reconnecting - 1 \in 0 .. MaxRetries /\ page.resuming + 1 \in 0 .. MaxRetries
    BY <1>1, <2>2, CircuitsAssumption DEF CircuitsAssumption, PageOK
  <2>4. /\ page' \in Pages
        /\ page'.reconnecting = page.reconnecting - 1 /\ page'.resuming = page.resuming + 1
        /\ \A f \in {"link", "mine", "dialog", "class", "listening", "auto", "resume"} :
             page'[f] = page[f]
    BY <1>1, <2>1, <2>3 DEF Pages
  <2>5. page'.reconnecting + page'.resuming = page.reconnecting + page.resuming
    BY <1>1, <2>4
  <2>6. PageOK(page')
    BY <1>1, <2>2, <2>4, <2>5 DEF PageOK
  <2>7. QED
    BY <1>2, <2>4, <2>6 DEF Moves, SamePageCircuit, ReconnectRefused
<1>3. CASE RetryThrows
  <2>1. CASE page.reconnecting > 0 /\ page' = retryThrows(AfterReconnect)
    <3> DEFINE p == AfterReconnect
    <3>1. p \in Pages /\ p.reconnecting + p.resuming <= page.reconnecting + page.resuming
          /\ \A f \in {"link", "mine", "dialog", "class", "auto", "resume"} : p[f] = page[f]
      BY <1>1, <2>1, AnsweredIsTyped
    <3>2. retryThrows(p) \in Pages /\ retryThrows(p).listening
          /\ \A f \in {"link", "mine", "dialog", "class", "auto", "resume", "reconnecting",
                       "resuming"} : retryThrows(p)[f] = p[f]
      BY <3>1 DEF retryThrows, Pages
    <3>3. p.reconnecting \in Nat /\ p.resuming \in Nat
      BY <3>1, CircuitsAssumption DEF CircuitsAssumption, Pages
    <3>4. p.reconnecting + p.resuming <= MaxRetries
      BY <1>1, <3>1, <3>3, CircuitsAssumption DEF CircuitsAssumption, PageOK
    <3>5. PageOK(retryThrows(p))
      BY <1>1, <3>1, <3>2, <3>4 DEF PageOK
    <3>6. QED
      BY <1>3, <2>1, <3>1, <3>2, <3>5 DEF Moves, SamePageCircuit, RetryThrows
  <2>2. CASE page.resuming > 0 /\ page' = retryThrows(AfterResume)
    <3> DEFINE p == AfterResume
    <3>1. p \in Pages /\ p.reconnecting + p.resuming <= page.reconnecting + page.resuming
          /\ \A f \in {"link", "mine", "dialog", "class", "auto", "resume"} : p[f] = page[f]
      BY <1>1, <2>2, AnsweredIsTyped
    <3>2. retryThrows(p) \in Pages /\ retryThrows(p).listening
          /\ \A f \in {"link", "mine", "dialog", "class", "auto", "resume", "reconnecting",
                       "resuming"} : retryThrows(p)[f] = p[f]
      BY <3>1 DEF retryThrows, Pages
    <3>3. p.reconnecting \in Nat /\ p.resuming \in Nat
      BY <3>1, CircuitsAssumption DEF CircuitsAssumption, Pages
    <3>4. p.reconnecting + p.resuming <= MaxRetries
      BY <1>1, <3>1, <3>3, CircuitsAssumption DEF CircuitsAssumption, PageOK
    <3>5. PageOK(retryThrows(p))
      BY <1>1, <3>1, <3>2, <3>4 DEF PageOK
    <3>6. QED
      BY <1>3, <2>2, <3>1, <3>2, <3>5 DEF Moves, SamePageCircuit, RetryThrows
  <2>3. QED
    BY <1>3, <2>1, <2>2 DEF RetryThrows
<1>4. CASE RetryResumeRefused
  BY <1>1, <1>4, ReloadOK DEF RetryResumeRefused, Moves, SamePageCircuit
<1>5. QED
  BY <1>2, <1>3, <1>4

LEMMA ResumeAnswerMoves ==
  ASSUME PageOK(page), ResumeRefused \/ ResumeThrows
  PROVE  Moves(page, page') /\ SamePageCircuit /\ UNCHANGED serverVars
<1>1. page \in Pages /\ page.link # "loading"
  BY LoadingIsIdle DEF PageOK, ResumeRefused, ResumeThrows
<1>2. CASE ResumeRefused
  BY <1>1, <1>2, ReloadOK DEF ResumeRefused, Moves, SamePageCircuit
<1>3. CASE ResumeThrows
  <2>1. PageOK(page') /\ page'.link = page.link /\ page'.mine = page.mine
    BY <1>1, <1>3 DEF ResumeThrows, resumeThrows, PageOK, Pages
  <2>2. QED
    BY <1>3, <2>1 DEF Moves, SamePageCircuit, ResumeThrows
<1>4. QED
  BY <1>2, <1>3

LEMMA UserMoves ==
  ASSUME PageOK(page), UserStep
  PROVE  Moves(page, page') /\ SamePageCircuit /\ UNCHANGED serverVars
<1>1. page \in Pages
  BY DEF PageOK
<1>2. CASE ClickRetry
  <2>1. page.link # "loading"
    BY <1>2, LoadingIsIdle DEF ClickRetry
  <2>2. QED
    BY <1>2, <2>1, RetryOK DEF ClickRetry, RoomForRetry, Moves, SamePageCircuit
<1>3. CASE ClickResume
  <2>1. page.link # "loading"
    BY <1>3, LoadingIsIdle DEF ClickResume
  <2>2. PageOK(page') /\ page'.link = page.link /\ page'.mine = page.mine
    BY <1>1, <1>3, <2>1 DEF ClickResume, PageOK, Pages
  <2>3. QED
    BY <1>3, <2>2 DEF Moves, SamePageCircuit, ClickResume
<1>4. CASE SwitchTab
  <2> DEFINE p == [page EXCEPT !.visible = ~@]
  <2>1. PageOK(p) /\ p.link = page.link /\ p.mine = page.mine
        /\ p.reconnecting = page.reconnecting /\ p.resuming = page.resuming
        /\ p.listening = page.listening
    BY <1>1 DEF PageOK, Pages
  <2>2. CASE p.listening /\ p.visible
    <3>1. page.link # "loading" /\ p.reconnecting + p.resuming < MaxRetries
      BY <1>4, <2>1, <2>2, LoadingIsIdle DEF SwitchTab, RoomForRetry
    <3>2. PageOK(retry(p)) /\ retry(p).mine = p.mine /\ retry(p).link = p.link
      BY <2>1, <3>1, RetryOK
    <3>3. page' = retry(p)
      BY <1>4, <2>2 DEF SwitchTab, retryWhenDocumentBecomesVisible
    <3>4. QED
      BY <1>4, <2>1, <3>2, <3>3 DEF Moves, SamePageCircuit, SwitchTab
  <2>3. CASE ~(p.listening /\ p.visible)
    <3>1. page' = p
      BY <1>4, <2>3 DEF SwitchTab, retryWhenDocumentBecomesVisible
    <3>2. QED
      BY <1>4, <2>1, <3>1 DEF Moves, SamePageCircuit, SwitchTab
  <2>4. QED
    BY <2>2, <2>3
<1>5. CASE ReloadByHand
  BY <1>1, <1>5, ReloadOK DEF ReloadByHand, Moves, SamePageCircuit
<1>6. QED
  BY <1>2, <1>3, <1>4, <1>5 DEF UserStep

(* The page notices the loss of its connection, or is paused. *)
LEMMA LossMoves ==
  ASSUME PageOK(page), NoticeLoss \/ BreakConnection \/ Pause
  PROVE  /\ Moves(page, page') /\ SamePageCircuit
         /\ page.link = "up" /\ page'.link = "down"
<1>1. page \in Pages /\ page.link = "up"
  BY DEF PageOK, NoticeLoss, BreakConnection, Pause
<1>2. CASE NoticeLoss \/ BreakConnection
  BY <1>1, <1>2, LostOK DEF NoticeLoss, BreakConnection, serverVars, Moves, SamePageCircuit
<1>3. CASE Pause
  <2>1. page' = [page EXCEPT !.link = "down", !.class = "paused", !.dialog = TRUE]
    BY <1>1, <1>3 DEF Pause, handleReconnectStateChanged, Pages
  <2>2. PageOK(page') /\ page'.link = "down" /\ page'.mine = page.mine
    BY <1>1, <2>1 DEF PageOK, Pages
  <2>3. QED
    BY <1>1, <1>3, <2>2 DEF Moves, SamePageCircuit, Pause
<1>4. QED
  BY <1>2, <1>3

(* The page is connected to the circuit it has, or to one that takes its place. *)
LEMMA ConnectMoves ==
  ASSUME PageOK(page),
         AutoRejoin \/ AutoResume \/ ReconnectSucceeds \/ RetryResumes \/ ResumeSucceeds
  PROVE  \/ Moves(page, page') /\ SamePageCircuit /\ UNCHANGED serverVars
         \/ Uncovers(page, page') /\ SamePageCircuit /\ Rejoin
         \/ Uncovers(page, page') /\ \E c \in Ids : ResumeAs(c) /\ page'.mine = c
<1>1. page \in Pages /\ page.reconnecting + page.resuming <= MaxRetries
      /\ page.link # "loading" /\ page.mine # 0
      /\ page.reconnecting \in 0 .. MaxRetries /\ page.resuming \in 0 .. MaxRetries
  BY LoadingIsIdle DEF PageOK, Pages, AutoRejoin, AutoResume, ReconnectSucceeds, RetryResumes,
                       ResumeSucceeds
<1>2. ASSUME NEW p \in Pages, p.link = page.link, p.mine # 0,
             p.reconnecting + p.resuming <= MaxRetries,
             page.link = "down" \/ page.auto
      PROVE  Uncovers(page, Connected(p)) /\ Connected(p).mine = p.mine
  BY <1>1, <1>2, ConnectedOK DEF Uncovers, PageOK, Pages
<1>3. CASE AutoRejoin
  BY <1>1, <1>2, <1>3 DEF AutoRejoin, SamePageCircuit
<1>4. CASE AutoResume
  <2>1. PICK c \in Ids : ResumeAs(c) /\ page' = Connected([page EXCEPT !.mine = c])
    BY <1>4 DEF AutoResume
  <2> DEFINE p == [page EXCEPT !.mine = c]
  <2>2. p \in Pages /\ p.link = page.link /\ p.mine = c /\ c # 0
        /\ p.reconnecting + p.resuming <= MaxRetries
    BY <1>1 DEF Pages, Ids
  <2>3. QED
    BY <1>2, <1>4, <2>1, <2>2 DEF AutoResume
<1>5. CASE ReconnectSucceeds
  <2> DEFINE p == AfterReconnect
  <2>1. p \in Pages /\ p.reconnecting = page.reconnecting - 1
        /\ \A f \in {"link", "mine", "visible", "dialog", "class", "listening",
                     "auto", "resuming", "resume"} : p[f] = page[f]
    BY <1>5, AnsweredIsTyped DEF ReconnectSucceeds
  <2>2. p.reconnecting + p.resuming <= MaxRetries
    BY <1>1, <2>1, CircuitsAssumption DEF CircuitsAssumption
  <2>3. CASE page.link = "up" /\ page' = p /\ UNCHANGED serverVars
    <3>1. PageOK(p)
      BY <2>1, <2>2, <2>3 DEF PageOK
    <3>2. QED
      BY <2>1, <2>3, <3>1 DEF Moves, SamePageCircuit
  <2>4. CASE page.link = "down" /\ Rejoin /\ page' = Connected(p)
    BY <1>1, <1>2, <2>1, <2>2, <2>4 DEF SamePageCircuit
  <2>5. QED
    BY <1>5, <2>3, <2>4 DEF ReconnectSucceeds
<1>6. CASE RetryResumes
  <2> DEFINE q == AfterResume
  <2>1. q \in Pages /\ q.resuming = page.resuming - 1
        /\ \A f \in {"link", "mine", "visible", "dialog", "class", "listening",
                     "auto", "reconnecting", "resume"} : q[f] = page[f]
    BY <1>6, AnsweredIsTyped DEF RetryResumes
  <2>2. q.reconnecting + q.resuming <= MaxRetries
    BY <1>1, <2>1, CircuitsAssumption DEF CircuitsAssumption
  <2>3. ASSUME NEW p, PageOK(p), p.link = "up"
        PROVE  PageOK(retryResumed(p)) /\ retryResumed(p).link = "up"
               /\ retryResumed(p).mine = p.mine
    BY <2>3 DEF retryResumed, PageOK, Pages
  <2>4. CASE page.link = "up" /\ page' = retryResumed(q) /\ UNCHANGED serverVars
    <3>1. PageOK(q) /\ q.link = "up" /\ q.mine = page.mine
      BY <2>1, <2>2, <2>4 DEF PageOK
    <3>2. PageOK(page') /\ page'.link = "up" /\ page'.mine = page.mine
      BY <2>3, <2>4, <3>1
    <3>3. QED
      BY <2>4, <3>2 DEF Moves, SamePageCircuit
  <2>5. ASSUME page.link = "down", NEW c \in Ids, ResumeAs(c),
               page' \in {retryResumed(Connected([q EXCEPT !.mine = c])),
                          retryResumed([[q EXCEPT !.mine = c]
                                          EXCEPT !.link = "up", !.auto = FALSE])}
        PROVE  Uncovers(page, page') /\ page'.mine = c
    <3> DEFINE p == [q EXCEPT !.mine = c]
               r == [p EXCEPT !.link = "up", !.auto = FALSE]
    <3>1. p \in Pages /\ p.mine = c /\ c # 0
          /\ \A f \in {"link", "visible", "dialog", "class", "listening",
                     "auto", "reconnecting", "resuming", "resume"} : p[f] = q[f]
      BY <2>1 DEF Pages, Ids
    <3>2. PageOK(Connected(p)) /\ Connected(p).mine = c /\ Connected(p).link = "up"
      BY <2>2, <3>1, ConnectedOK
    <3>3. /\ retryResumed(r) \in Pages /\ retryResumed(r).mine = c
          /\ retryResumed(r).link = "up"
          /\ ~retryResumed(r).dialog /\ ~retryResumed(r).auto
          /\ retryResumed(r).reconnecting = q.reconnecting
          /\ retryResumed(r).resuming = q.resuming
      BY <3>1 DEF retryResumed, Pages
    <3>4. PageOK(retryResumed(r))
      BY <2>2, <3>1, <3>3 DEF PageOK
    <3>5. PageOK(page') /\ page'.link = "up" /\ page'.mine = c
      BY <2>3, <2>5, <3>2, <3>3, <3>4
    <3>6. QED
      BY <2>5, <3>5 DEF Uncovers
  <2>6. QED
    BY <1>6, <2>4, <2>5 DEF RetryResumes, SamePageCircuit
<1>7. CASE ResumeSucceeds
  <2> DEFINE p == [page EXCEPT !.resume = FALSE]
  <2>1. p \in Pages /\ \A f \in {"link", "mine", "visible", "dialog", "class", "listening",
                     "auto", "reconnecting", "resuming"} : p[f] = page[f]
    BY <1>1 DEF Pages
  <2>2. CASE page.link = "up" /\ page' = p /\ UNCHANGED serverVars
    <3>1. PageOK(p)
      BY <1>1, <2>1, <2>2 DEF PageOK
    <3>2. QED
      BY <2>1, <2>2, <3>1 DEF Moves, SamePageCircuit
  <2>3. ASSUME page.link = "down", NEW c \in Ids, ResumeAs(c),
               page' = Connected([p EXCEPT !.mine = c])
        PROVE  Uncovers(page, page') /\ page'.mine = c
    <3> DEFINE q == [p EXCEPT !.mine = c]
    <3>0. /\ p \in Pages
          /\ \A f \in {"link", "reconnecting", "resuming"} : p[f] = page[f]
      BY <2>1
    <3>1. /\ q \in Pages /\ q.mine = c /\ c # 0
          /\ \A f \in {"link", "reconnecting", "resuming"} : q[f] = p[f]
      <4> HIDE DEF p
      <4> QED  BY <3>0 DEF Pages, Ids
    <3>2. QED
      BY <1>1, <1>2, <2>3, <3>0, <3>1
  <2>4. QED
    BY <1>7, <2>2, <2>3 DEF ResumeSucceeds, SamePageCircuit
<1>8. QED
  BY <1>3, <1>4, <1>5, <1>6, <1>7

-----------------------------------------------------------------------------
Handlers == {"opened", "up", "down", "closed"}
States == {"none", "connected", "idle", "saved", "gone"}
Held(s) == s \in {"connected", "idle"}
StateOf(s) == IF s = "connected" THEN "Connected" ELSE "Reconnecting"

(* The call that leaves the registry as it has to be for a circuit in state s. *)
LastCall(s) ==
  IF s = "connected" THEN "up" ELSE IF s = "idle" THEN "down" ELSE "closed"

(* What holds of one circuit: its state s, the calls q still to be made, whether
   CircuitContext is set (x), whether it was rendered (r), its entry l. *)
EntryOK(s, q, x, r, l) ==
  /\ s \in States /\ q \in Seq(Handlers) /\ x \in BOOLEAN /\ r \in BOOLEAN
  /\ l \in Clients \union {NoClient}
  /\ s = "none" => Len(q) = 0 /\ ~x /\ ~r /\ l = NoClient
  /\ \A i \in 2 .. Len(q) : q[i] # "opened"
  /\ \A i \in 1 .. Len(q) - 1 : q[i] # "closed"
  /\ Len(q) > 0 => q[Len(q)] = LastCall(s)
  /\ Held(s) /\ (Len(q) > 0 => q[1] # "opened") => l \in Clients
  /\ Len(q) = 0 => IF Held(s) THEN l.state = StateOf(s) ELSE l = NoClient
  /\ l # NoClient => x
  /\ r /\ Len(q) > 0 => q[1] # "opened"
  /\ r /\ l # NoClient => l.ip = "address"

(* Blazor adds calls for a circuit it holds. *)
LEMMA CallsAddedOK ==
  ASSUME NEW s, NEW q, NEW x, NEW r, NEW l, EntryOK(s, q, x, r, l), Held(s),
         NEW t \in States, NEW e \in Seq(Handlers), Len(e) > 0,
         \A i \in 1 .. Len(e) : e[i] # "opened",
         \A i \in 1 .. Len(e) - 1 : e[i] # "closed",
         e[Len(e)] = LastCall(t), t # "none"
  PROVE  EntryOK(t, q \o e, x, r, l)
<1>1. Len(q) > 0 => q[Len(q)] # "closed"
  BY DEF EntryOK, Held, LastCall
<1>2. /\ q \o e \in Seq(Handlers) /\ Len(q \o e) = Len(q) + Len(e)
      /\ Len(q) \in Nat /\ Len(e) \in Nat
      /\ \A i \in 1 .. Len(q) + Len(e) :
           (q \o e)[i] = IF i <= Len(q) THEN q[i] ELSE e[i - Len(q)]
  BY ConcatProperties, LenProperties DEF EntryOK
<1>3. \A i \in 2 .. Len(q \o e) : (q \o e)[i] # "opened"
  <2> TAKE i \in 2 .. Len(q \o e)
  <2>1. i <= Len(q) \/ i - Len(q) \in 1 .. Len(e)
    BY <1>2
  <2>2. QED
    BY <1>2, <2>1 DEF EntryOK
<1>4. \A i \in 1 .. Len(q \o e) - 1 : (q \o e)[i] # "closed"
  <2> TAKE i \in 1 .. Len(q \o e) - 1
  <2>1. i \in 1 .. Len(q) \/ i - Len(q) \in 1 .. Len(e) - 1
    BY <1>2
  <2>2. CASE i \in 1 .. Len(q)
    <3>1. i \in 1 .. Len(q) - 1 \/ i = Len(q)
      BY <1>2, <2>2
    <3>2. QED
      BY <1>1, <1>2, <2>2, <3>1 DEF EntryOK
  <2>3. CASE ~(i <= Len(q)) /\ i - Len(q) \in 1 .. Len(e) - 1
    BY <1>2, <2>3
  <2>4. QED
    BY <1>2, <2>1, <2>2, <2>3
<1>5. (q \o e)[Len(q \o e)] = LastCall(t)
  BY <1>2
<1>6. Len(q \o e) > 0 /\ (Len(q) > 0 => (q \o e)[1] = q[1])
      /\ (Len(q) = 0 => (q \o e)[1] # "opened")
  BY <1>2
<1>7. QED
  BY <1>2, <1>3, <1>4, <1>5, <1>6 DEF EntryOK, Held

(* A circuit is opened. *)
LEMMA OpenedOK ==
  ASSUME NEW q, NEW x, NEW r, NEW l, EntryOK("none", q, x, r, l),
         NEW e \in Seq(Handlers), Len(e) = 2, e[1] = "opened", e[2] = "up"
  PROVE  EntryOK("connected", q \o e, x, r, l)
<1>1. q \in Seq(Handlers) /\ Len(q) = 0 /\ ~x /\ ~r /\ l = NoClient
      /\ x \in BOOLEAN /\ r \in BOOLEAN
  BY DEF EntryOK
<1>2. /\ q \o e \in Seq(Handlers) /\ Len(q \o e) = Len(q) + Len(e)
      /\ \A i \in 1 .. Len(q) + Len(e) :
           (q \o e)[i] = IF i <= Len(q) THEN q[i] ELSE e[i - Len(q)]
  BY <1>1, ConcatProperties
<1>3. Len(q \o e) = 2 /\ (q \o e)[1] = "opened" /\ (q \o e)[2] = "up"
  <2>1. 1 - Len(q) = 1 /\ 2 - Len(q) = 2 /\ Len(q) + Len(e) = 2
    BY <1>1
  <2>2. (q \o e)[1] = e[1 - Len(q)] /\ (q \o e)[2] = e[2 - Len(q)]
    BY <1>1, <1>2
  <2> QED  BY <1>2, <2>1, <2>2
<1> DEFINE f == q \o e
<1>4. /\ \A i \in 2 .. Len(f) : f[i] # "opened"
      /\ \A i \in 1 .. Len(f) - 1 : f[i] # "closed"
      /\ f[Len(f)] = LastCall("connected") /\ Len(f) > 0 /\ f[1] = "opened"
      /\ f \in Seq(Handlers)
  <2>1. \A i \in 2 .. Len(f) : i = 2
    BY <1>3
  <2>2. \A i \in 1 .. Len(f) - 1 : i = 1
    BY <1>3
  <2> QED  BY <1>2, <1>3, <2>1, <2>2 DEF LastCall
<1>5. EntryOK("connected", f, x, r, l)
  <2> HIDE DEF f
  <2> QED  BY <1>1, <1>4 DEF EntryOK, States
<1> QED  BY <1>5

(* Blazor makes the next call. *)
LEMMA CallMadeOK ==
  ASSUME NEW s, NEW q, NEW x, NEW r, NEW l, EntryOK(s, q, x, r, l), Len(q) > 0,
         NEW m \in Clients \union {NoClient},
         \/ q[1] = "opened" /\ m \in Clients /\ m.state = "Connected"
         \/ /\ \/ q[1] = "up" /\ (l \in Clients => m.state = "Connected")
               \/ q[1] = "down" /\ (l \in Clients => m.state = "Reconnecting")
            /\ l \in Clients <=> m \in Clients
            /\ l \in Clients => m.ip = l.ip
         \/ q[1] = "closed" /\ m = NoClient
  PROVE  EntryOK(s, Tail(q), x \/ q[1] = "opened", r, m)
<1>0. l \in Clients => l # NoClient
  BY DEF Clients, NoClient
<1>13. m \in Clients => m # NoClient
  BY DEF Clients, NoClient
<1>1. q \in Seq(Handlers) /\ Len(q) \in Nat /\ q # <<>> /\ s # "none"
  <2>1. q \in Seq(Handlers) /\ s # "none"
    BY DEF EntryOK
  <2> QED  BY <2>1, LenProperties, EmptySeq
<1>2. /\ Tail(q) \in Seq(Handlers) /\ Len(Tail(q)) = Len(q) - 1
      /\ \A i \in 1 .. Len(q) - 1 : Tail(q)[i] = q[i + 1]
  BY <1>1, HeadTailProperties
<1>3. \A i \in 1 .. Len(Tail(q)) : Tail(q)[i] # "opened"
  BY <1>1, <1>2 DEF EntryOK
<1>4. \A i \in 1 .. Len(Tail(q)) - 1 : Tail(q)[i] # "closed"
  BY <1>1, <1>2 DEF EntryOK
<1>5. Len(Tail(q)) > 0 => Tail(q)[Len(Tail(q))] = LastCall(s)
  BY <1>1, <1>2 DEF EntryOK
<1>6. Held(s) => m \in Clients
  BY <1>0, <1>1 DEF EntryOK, Held, LastCall
<1>7. Len(Tail(q)) = 0 => q[1] = LastCall(s)
  <2>1. Len(Tail(q)) = 0 => Len(q) = 1
    <3>1. Len(q) \in Nat /\ Len(Tail(q)) = Len(q) - 1
      BY <1>1, <1>2
    <3> DEFINE k == Len(Tail(q))
               n == Len(q)
    <3>2. n \in Nat /\ k = n - 1
      BY <3>1
    <3>3. k = 0 => n = 1
      <4> HIDE DEF k, n
      <4> QED  BY <3>2
    <3> QED  BY <3>3
  <2>2. q[Len(q)] = LastCall(s)
    BY DEF EntryOK
  <2> QED  BY <2>1, <2>2
<1>8. Len(Tail(q)) = 0 => IF Held(s) THEN m.state = StateOf(s) ELSE m = NoClient
  BY <1>0, <1>1, <1>6, <1>7 DEF EntryOK, Held, LastCall, StateOf, States
<1>9. m # NoClient => (x \/ q[1] = "opened")
  BY <1>0, <1>13 DEF EntryOK
<1>10. r /\ m # NoClient => m.ip = "address"
  BY <1>0, <1>13, <1>1 DEF EntryOK
<1>11. (x \/ q[1] = "opened") \in BOOLEAN /\ s \in States /\ r \in BOOLEAN
  BY DEF EntryOK
<1>12. QED
  BY <1>1, <1>2, <1>3, <1>4, <1>5, <1>6, <1>8, <1>9, <1>10, <1>11 DEF EntryOK

-----------------------------------------------------------------------------
(* The circuits are used up in order, and the page's is one that was used. *)
CircuitsOK ==
  /\ circuit \in [Ids -> States]
  /\ \A c, d \in Ids : c <= d /\ circuit[c] = "none" => circuit[d] = "none"
  /\ Mine # 0 => circuit[Mine] # "none"

SessionStep == [Session!SessionNext]_<<View, Mine, Retained>>

LEMMA ViewOf ==
  ASSUME NEW p, PageOK(p)
  PROVE  /\ p.link \in {"loading", "up", "down"} /\ p.mine \in 0 .. MaxCircuits
         /\ p.link = "up" => ~p.dialog
         /\ p.link = "down" => p.dialog
         /\ p.link # "loading" => p.mine # 0
BY DEF PageOK, Pages

LEMMA ViewIs ==
  ASSUME PageOK(page)
  PROVE  View = IF page.link = "loading" THEN "loading"
                ELSE IF page.link = "up" THEN "usable" ELSE "blocked"
BY ViewOf DEF View

(* What the server may let go of in a step that gives the page no connection. *)
LetsGo ==
  \/ Retained' = Retained
  \/ /\ Retained /\ Retained' = FALSE
     /\ \/ page'.link = page.link
        \/ page.link = "up" /\ page'.link = "down"

(* A step that keeps the circuit and moves the page is one of PageSession, or none. *)
LEMMA MovesAreSessionSteps ==
  ASSUME PageOK(page), Moves(page, page'), Mine' = Mine, LetsGo
  PROVE  SessionStep
<1>1. PageOK(page')
  BY DEF Moves
<1>2. /\ View = IF page.link = "loading" THEN "loading"
                ELSE IF page.link = "up" THEN "usable" ELSE "blocked"
      /\ View' = IF page'.link = "loading" THEN "loading"
                 ELSE IF page'.link = "up" THEN "usable" ELSE "blocked"
      /\ page.link \in {"loading", "up", "down"}
  BY <1>1, ViewIs, ViewOf DEF View
<1> HIDE DEF View, Mine, Retained
<1>3. CASE page'.link = page.link
  BY <1>2, <1>3 DEF LetsGo, SessionStep, Session!SessionNext, Session!LetGo
<1>4. CASE page.link = "up" /\ page'.link = "down"
  BY <1>2, <1>4 DEF LetsGo, SessionStep, Session!SessionNext, Session!Block
<1>5. CASE page.link # "loading" /\ page'.link = "loading"
  BY <1>2, <1>5 DEF LetsGo, SessionStep, Session!SessionNext, Session!Reload
<1>6. QED
  BY <1>3, <1>4, <1>5 DEF Moves

(* The page's circuit stays the page's in a step that begins no other. *)
LEMMA CircuitsKept ==
  ASSUME CircuitsOK, PageOK(page), PageOK(page'), SamePageCircuit,
         circuit' \in [Ids -> States],
         \A c \in Ids : circuit'[c] = "none" <=> circuit[c] = "none"
  PROVE  CircuitsOK' /\ Mine' = Mine
<1>1. Mine' = Mine /\ (Mine # 0 => Mine \in Ids)
  BY ViewOf, CircuitsAssumption DEF SamePageCircuit, Mine, Ids, CircuitsAssumption
<1>2. CircuitsOK'
  BY <1>1 DEF CircuitsOK
<1>3. QED
  BY <1>1, <1>2

(* The dialog goes away over the work it covered, which the server has kept. *)
LEMMA RejoinGivesBack ==
  ASSUME CircuitsOK, PageOK(page), Uncovers(page, page'), SamePageCircuit, Rejoin
  PROVE  CircuitsOK' /\ SessionStep
<1>1. /\ Mine \in Ids /\ Mine' = Mine /\ Mine # 0
      /\ circuit' = [circuit EXCEPT ![Mine] = "connected"]
      /\ circuit[Mine] \in {"connected", "idle"}
  BY ViewOf, CircuitsAssumption
  DEF Rejoin, Retained, SamePageCircuit, Mine, Ids, CircuitsAssumption
<1>2. /\ circuit' \in [Ids -> States]
      /\ \A c \in Ids : circuit'[c] = "none" <=> circuit[c] = "none"
  BY <1>1 DEF CircuitsOK, States
<1>3. CircuitsOK'
  BY <1>2, CircuitsKept DEF Uncovers
<1>4. Retained = TRUE /\ Retained' = TRUE
  BY <1>1 DEF Retained, CircuitsOK
<1>5. View = "blocked" /\ View' = "usable"
  BY ViewOf DEF Uncovers, View
<1>6. Session!Unblock
  BY <1>1, <1>4, <1>5 DEF Session!Unblock
<1>7. QED
  BY <1>3, <1>6 DEF SessionStep, Session!SessionNext

(* It goes away over a page that begins anew, whose work the server had let go. *)
LEMMA ResumedPageBeginsAnew ==
  ASSUME CircuitsOK, PageOK(page), Uncovers(page, page'), NEW c \in Ids, ResumeAs(c),
         page'.mine = c
  PROVE  CircuitsOK' /\ SessionStep
<1>1. Mine \in Ids /\ Mine # 0 /\ circuit[Mine] = "saved" /\ circuit[c] = "none" /\ c # Mine
      /\ Ids \subseteq Nat /\ c # 0
  BY ViewOf, CircuitsAssumption
  DEF Mine, Ids, CircuitsAssumption, ResumeAs, Saved, IsNext, Unused
<1>2. circuit' = [circuit EXCEPT ![c] = "connected", ![Mine] = "gone"] /\ Mine' = c
      /\ \A d \in Ids : circuit[d] = "none" => c <= d
  BY DEF ResumeAs, IsNext, Unused, Mine
<1>3. circuit' \in [Ids -> States]
      /\ \A d \in Ids : circuit'[d] = "none" <=> circuit[d] = "none" /\ d # c
  BY <1>1, <1>2 DEF CircuitsOK, States
<1>4. Mine < c /\ c \in Nat /\ Mine \in Nat
  BY <1>1 DEF CircuitsOK
<1>5. \A d, e \in Ids : d <= e /\ circuit'[d] = "none" => circuit'[e] = "none"
  BY <1>1, <1>2, <1>3 DEF CircuitsOK
<1>6. CircuitsOK'
  BY <1>1, <1>2, <1>3, <1>5 DEF CircuitsOK
<1>7. Retained = FALSE /\ Retained' = TRUE
  <2>1. circuit'[c] = "connected"
    BY <1>1, <1>2 DEF CircuitsOK
  <2>2. QED
    BY <1>1, <1>2, <2>1 DEF Retained
<1>8. View = "blocked" /\ View' = "usable"
  BY ViewOf DEF Uncovers, View
<1>9. Session!Unblock
  BY <1>2, <1>4, <1>7, <1>8 DEF Session!Unblock, Session!Anew
<1>10. QED
  BY <1>6, <1>9 DEF SessionStep, Session!SessionNext

(* A page that is loaded begins with new work. *)
LEMMA LoadedPageBeginsAnew ==
  ASSUME CircuitsOK, PageOK(page), LoadPage
  PROVE  PageOK(page') /\ CircuitsOK' /\ SessionStep
<1>1. PICK c \in Ids :
        /\ IsNext(c)
        /\ circuit' = [circuit EXCEPT ![c] = "connected"]
        /\ page' = [page EXCEPT !.link = "up", !.mine = c]
  BY DEF LoadPage
<1>2. /\ page.link = "loading" /\ Mine \in 0 .. MaxCircuits /\ c # 0 /\ Ids \subseteq Nat
      /\ circuit[c] = "none" /\ \A d \in Ids : circuit[d] = "none" => c <= d
      /\ Mine # 0 => Mine \in Ids
  BY <1>1, ViewOf, CircuitsAssumption
  DEF LoadPage, Mine, Ids, IsNext, Unused, CircuitsAssumption
<1>3. /\ page' \in Pages /\ page'.link = "up" /\ page'.mine = c
      /\ \A f \in {"dialog", "reconnecting", "resuming", "auto", "listening", "class"} :
           page'[f] = page[f]
  <2>1. page \in Pages /\ c \in 0 .. MaxCircuits
    BY DEF PageOK, Ids
  <2> QED  BY <1>1, <2>1 DEF Pages
<1>4. PageOK(page')
  BY <1>2, <1>3, LoadingIsIdle DEF PageOK
<1>5. circuit' \in [Ids -> States]
      /\ \A d \in Ids : circuit'[d] = "none" <=> circuit[d] = "none" /\ d # c
  BY <1>1 DEF CircuitsOK, States, Ids
<1>6. \A d, e \in Ids : d <= e /\ circuit'[d] = "none" => circuit'[e] = "none"
  BY <1>2, <1>5 DEF CircuitsOK
<1>7. Mine' = c
  BY <1>3 DEF Mine
<1>8. CircuitsOK'
  BY <1>1, <1>5, <1>6, <1>7 DEF CircuitsOK
<1>9. Mine < c /\ c \in Nat /\ Mine \in Nat
  BY <1>2, CircuitsAssumption DEF CircuitsOK, CircuitsAssumption
<1>10. Retained' = TRUE
  BY <1>1, <1>2, <1>7 DEF Retained, CircuitsOK
<1>11. View = "loading" /\ View' = "usable"
  BY <1>2, <1>3, LoadingIsIdle DEF View
<1>12. Session!Open
  BY <1>7, <1>9, <1>10, <1>11 DEF Session!Open, Session!Anew
<1>13. QED
  BY <1>4, <1>8, <1>12 DEF SessionStep, Session!SessionNext

(* The steps of Blazor, the handler and the network that concern a page at work. *)
ServerStep ==
  \/ \E c \in Ids : CircuitStep(c)
  \/ NetworkFails \/ ServerEnds \/ ServerIsBack

LEMMA ServerStepsKeepPage ==
  ASSUME CircuitsOK, PageOK(page), ServerStep
  PROVE  /\ page' = page /\ circuit' \in [Ids -> States]
         /\ \A c \in Ids : circuit'[c] = "none" <=> circuit[c] = "none"
         /\ \A c \in Ids : Held(circuit'[c]) => Held(circuit[c])
<1>1. circuit \in [Ids -> States]
  BY DEF CircuitsOK
<1>2. CASE NetworkFails \/ ServerIsBack
  BY <1>1, <1>2 DEF NetworkFails, ServerIsBack, serverVars
<1>3. CASE ServerEnds
  BY <1>1, <1>3 DEF ServerEnds, States, Held
<1>4. ASSUME NEW c \in Ids, CallHandler(c) \/ OnAfterRender(c)
      PROVE  UNCHANGED <<page, circuit>>
  BY <1>4 DEF CallHandler, OnAfterRender, serverVars
<1>5. ASSUME NEW c \in Ids, ServerNoticesLoss(c) \/ Evict(c) \/ Expire(c)
      PROVE  /\ UNCHANGED page /\ circuit[c] # "none"
             /\ \E s \in States \ {"none"} :
                  circuit' = [circuit EXCEPT ![c] = s] /\ (Held(s) => Held(circuit[c]))
  BY <1>1, <1>5 DEF ServerNoticesLoss, Evict, Expire, States, Held
<1>6. QED
  BY <1>1, <1>2, <1>3, <1>4, <1>5 DEF ServerStep, CircuitStep, States

LEMMA PageSteps ==
  ASSUME CircuitsOK, PageOK(page), [Next]_vars
  PROVE  PageOK(page') /\ CircuitsOK' /\ SessionStep
<1>0. circuit \in [Ids -> States] /\ (Mine # 0 => Mine \in Ids /\ circuit[Mine] # "none")
  BY ViewOf, CircuitsAssumption DEF CircuitsOK, Mine, Ids, CircuitsAssumption
<1>1. CASE LoadPage
  BY <1>1, LoadedPageBeginsAnew
<1>2. ASSUME PageOK(page'), Moves(page, page'), SamePageCircuit, UNCHANGED serverVars
      PROVE  PageOK(page') /\ CircuitsOK' /\ SessionStep
  <2>1. circuit' = circuit
    BY <1>2 DEF serverVars
  <2>2. CircuitsOK' /\ Mine' = Mine
    BY <1>0, <1>2, <2>1, CircuitsKept
  <2>3. LetsGo
    BY <2>1, <2>2 DEF LetsGo, Retained
  <2>4. QED
    BY <1>2, <2>2, <2>3, MovesAreSessionSteps
<1>3. CASE AutoRejected \/ AutoGivesUp
  BY <1>2, <1>3, AutoMoves DEF Moves
<1>4. CASE ReconnectRefused \/ RetryThrows \/ RetryResumeRefused
  BY <1>2, <1>4, RetryAnswerMoves DEF Moves
<1>5. CASE ResumeRefused \/ ResumeThrows
  BY <1>2, <1>5, ResumeAnswerMoves DEF Moves
<1>6. CASE UserStep
  BY <1>2, <1>6, UserMoves DEF Moves
<1>7. CASE NoticeLoss \/ BreakConnection \/ Pause
  <2>1. /\ Moves(page, page') /\ SamePageCircuit /\ PageOK(page')
        /\ page.link = "up" /\ page'.link = "down"
    BY <1>7, LossMoves DEF Moves
  <2>2. /\ circuit' \in [Ids -> States]
        /\ \A c \in Ids : circuit'[c] = "none" <=> circuit[c] = "none"
        /\ \A c \in Ids : Held(circuit'[c]) => Held(circuit[c])
    BY <1>0, <1>7 DEF NoticeLoss, BreakConnection, Pause, serverVars, States, Held
  <2>3. CircuitsOK' /\ Mine' = Mine
    BY <2>1, <2>2, CircuitsKept
  <2>4. LetsGo
    BY <1>0, <2>1, <2>2, <2>3 DEF LetsGo, Retained, Held
  <2>5. QED
    BY <2>1, <2>3, <2>4, MovesAreSessionSteps
<1>8. CASE AutoRejoin \/ AutoResume \/ ReconnectSucceeds \/ RetryResumes \/ ResumeSucceeds
  <2>1. CASE Moves(page, page') /\ SamePageCircuit /\ UNCHANGED serverVars
    BY <1>2, <2>1 DEF Moves
  <2>2. CASE Uncovers(page, page') /\ SamePageCircuit /\ Rejoin
    BY <2>2, RejoinGivesBack DEF Uncovers
  <2>3. CASE Uncovers(page, page') /\ \E c \in Ids : ResumeAs(c) /\ page'.mine = c
    BY <2>3, ResumedPageBeginsAnew DEF Uncovers
  <2>4. QED
    BY <1>8, <2>1, <2>2, <2>3, ConnectMoves
<1>9. CASE ServerStep \/ UNCHANGED vars
  <2>1. /\ page' = page /\ circuit' \in [Ids -> States]
        /\ \A c \in Ids : circuit'[c] = "none" <=> circuit[c] = "none"
        /\ \A c \in Ids : Held(circuit'[c]) => Held(circuit[c])
    BY <1>0, <1>9, ServerStepsKeepPage DEF vars, serverVars
  <2>2. CircuitsOK' /\ Mine' = Mine
    BY <2>1, CircuitsKept DEF SamePageCircuit
  <2>3. LetsGo
    BY <1>0, <2>1, <2>2 DEF LetsGo, Retained, Held
  <2>4. QED
    BY <2>1, <2>2, <2>3, MovesAreSessionSteps DEF Moves, SamePageCircuit
<1>10. QED
  BY <1>1, <1>3, <1>4, <1>5, <1>6, <1>7, <1>8, <1>9
  DEF Next, ScriptStep, AutoStep, RetryAnswered, ResumeAnswered, ServerStep

-----------------------------------------------------------------------------
(* A circuit that nobody can rejoin any more is forgotten. *)
LEMMA ForgottenOK ==
  ASSUME NEW q, NEW x, NEW r, NEW l, EntryOK("saved", q, x, r, l)
  PROVE  EntryOK("gone", q, x, r, l)
BY DEF EntryOK, Held, LastCall, StateOf, States

LEMMA RenderedOK ==
  ASSUME NEW s, NEW q, NEW x, NEW r, NEW l, EntryOK(s, q, x, r, l), s # "none",
         Len(q) > 0 => q[1] # "opened",
         NEW m \in Clients \union {NoClient},
         l = NoClient => m = NoClient,
         l # NoClient => m # NoClient /\ m.state = l.state /\ m.ip = "address"
  PROVE  EntryOK(s, q, x, TRUE, m)
BY DEF EntryOK

LEMMA EndedOK ==
  ASSUME NEW s, NEW q, NEW x, NEW r, NEW l, EntryOK(s, q, x, r, l)
  PROVE  EntryOK(IF s = "none" THEN "none" ELSE "gone", <<>>, x, r, NoClient)
BY EmptySeq DEF EntryOK, Held, States

Entry(c) == EntryOK(circuit[c], calls[c], context[c], rendered[c], client[c])

RegistryOK ==
  /\ circuit \in [Ids -> States]
  /\ calls \in [Ids -> Seq(Handlers)]
  /\ context \in [Ids -> BOOLEAN]
  /\ rendered \in [Ids -> BOOLEAN]
  /\ client \in [Ids -> Clients \union {NoClient}]
  /\ \A c \in Ids : Entry(c)

(* The handlers of one circuit are called, whatever becomes of it. *)
LEMMA CallsAdded ==
  ASSUME RegistryOK, NEW c \in Ids, Held(circuit[c]),
         NEW t \in {"connected", "idle", "saved", "gone"},
         NEW e \in {<<"up">>, <<"down">>, <<"down", "up">>, <<"down", "closed">>},
         e[Len(e)] = LastCall(t),
         circuit' = [circuit EXCEPT ![c] = t], Call(c, e), UNCHANGED registryVars
  PROVE  RegistryOK'
<1>1. e \in Seq(Handlers) /\ Len(e) > 0 /\ (\A i \in 1 .. Len(e) : e[i] # "opened")
      /\ (\A i \in 1 .. Len(e) - 1 : e[i] # "closed")
  <2>1. CASE e \in {<<"up">>, <<"down">>}
    <3>1. e \in Seq(Handlers) /\ Len(e) = 1 /\ e[1] \in {"up", "down"}
      BY <2>1 DEF Handlers
    <3> QED  BY <3>1
  <2>2. CASE e \in {<<"down", "up">>, <<"down", "closed">>}
    <3>1. e \in Seq(Handlers) /\ Len(e) = 2 /\ e[1] = "down" /\ e[2] \in {"up", "closed"}
      BY <2>2 DEF Handlers
    <3>2. \A i \in 1 .. Len(e) : i = 1 \/ i = 2
      BY <3>1
    <3>3. \A i \in 1 .. Len(e) - 1 : i = 1
      BY <3>1
    <3> QED  BY <3>1, <3>2, <3>3
  <2>3. QED
    BY <2>1, <2>2
<1>2. t \in States /\ t # "none" /\ Entry(c)
  BY DEF States, RegistryOK
<1>3. EntryOK(t, calls[c] \o e, context[c], rendered[c], client[c])
  BY <1>1, <1>2, CallsAddedOK DEF Entry
<1>4. calls[c] \o e \in Seq(Handlers)
  BY <1>3 DEF EntryOK
<1>5. /\ circuit' \in [Ids -> States] /\ calls' \in [Ids -> Seq(Handlers)]
      /\ circuit'[c] = t /\ calls'[c] = calls[c] \o e
      /\ \A d \in Ids \ {c} : circuit'[d] = circuit[d] /\ calls'[d] = calls[d]
  BY <1>2, <1>4 DEF RegistryOK, Call
<1>6. context' = context /\ rendered' = rendered /\ client' = client
  BY DEF registryVars
<1>7. \A d \in Ids : Entry(d)'
  <2> TAKE d \in Ids
  <2>1. CASE d = c
    BY <1>3, <1>5, <1>6, <2>1 DEF Entry
  <2>2. CASE d # c
    BY <1>5, <1>6, <2>2 DEF Entry, RegistryOK
  <2>3. QED
    BY <2>1, <2>2
<1>8. QED
  BY <1>5, <1>6, <1>7 DEF RegistryOK

LEMMA OpenedInPlaceOf ==
  ASSUME NEW f \in [Ids -> States], NEW b \in Ids, NEW c \in Ids, b # c, f[b] = "saved",
         NEW g, g = [f EXCEPT ![c] = "connected", ![b] = "gone"]
  PROVE  /\ g \in [Ids -> States] /\ g[c] = "connected"
         /\ \A d \in Ids \ {c} : g[d] = f[d] \/ (f[d] = "saved" /\ g[d] = "gone")
BY DEF States

LEMMA OpenedByItself ==
  ASSUME NEW f \in [Ids -> States], NEW c \in Ids,
         NEW g, g = [f EXCEPT ![c] = "connected"]
  PROVE  /\ g \in [Ids -> States] /\ g[c] = "connected"
         /\ \A d \in Ids \ {c} : g[d] = f[d]
BY DEF States

(* A circuit is opened, perhaps in place of another one. *)
LEMMA CircuitOpened ==
  ASSUME RegistryOK, NEW c \in Ids, circuit[c] = "none", Call(c, <<"opened", "up">>),
         \/ circuit' = [circuit EXCEPT ![c] = "connected"]
         \/ \E b \in Ids : /\ circuit[b] = "saved"
                           /\ circuit' = [circuit EXCEPT ![c] = "connected", ![b] = "gone"],
         UNCHANGED registryVars
  PROVE  RegistryOK'
<1> DEFINE e == <<"opened", "up">>
<1>1. e \in Seq(Handlers) /\ Len(e) = 2 /\ e[1] = "opened" /\ e[2] = "up"
  BY DEF Handlers
<1>2. EntryOK("connected", calls[c] \o e, context[c], rendered[c], client[c])
  <2> HIDE DEF e
  <2>1. EntryOK("none", calls[c], context[c], rendered[c], client[c])
    BY DEF RegistryOK, Entry
  <2> QED  BY <1>1, <2>1, OpenedOK
<1>3. calls[c] \o e \in Seq(Handlers)
  BY <1>2 DEF EntryOK
<1>4. /\ calls' \in [Ids -> Seq(Handlers)] /\ calls'[c] = calls[c] \o e
      /\ \A d \in Ids \ {c} : calls'[d] = calls[d]
  BY <1>3 DEF RegistryOK, Call
<1>5. /\ circuit' \in [Ids -> States] /\ circuit'[c] = "connected"
      /\ \A d \in Ids \ {c} : circuit'[d] = circuit[d]
                              \/ (circuit[d] = "saved" /\ circuit'[d] = "gone")
  <2>0. circuit \in [Ids -> States]
    BY DEF RegistryOK
  <2>1. CASE circuit' = [circuit EXCEPT ![c] = "connected"]
    <3>1. /\ circuit' \in [Ids -> States] /\ circuit'[c] = "connected"
          /\ \A d \in Ids \ {c} : circuit'[d] = circuit[d]
      BY <2>0, <2>1, OpenedByItself
    <3> QED  BY <3>1
  <2>2. CASE \E b \in Ids :
               /\ circuit[b] = "saved"
               /\ circuit' = [circuit EXCEPT ![c] = "connected", ![b] = "gone"]
    <3>1. PICK b \in Ids :
               /\ circuit[b] = "saved"
               /\ circuit' = [circuit EXCEPT ![c] = "connected", ![b] = "gone"]
      BY <2>2
    <3>2. b # c
      BY <3>1
    <3> QED  BY <2>0, <3>1, <3>2, OpenedInPlaceOf
  <2>3. QED
    BY <2>1, <2>2
<1>6. context' = context /\ rendered' = rendered /\ client' = client
  BY DEF registryVars
<1>7. \A d \in Ids : Entry(d)'
  <2> TAKE d \in Ids
  <2>1. CASE d = c
    BY <1>2, <1>4, <1>5, <1>6, <2>1 DEF Entry
  <2>2. CASE d # c
    BY <1>4, <1>5, <1>6, <2>2, ForgottenOK DEF Entry, RegistryOK
  <2>3. QED
    BY <2>1, <2>2
<1>8. QED
  BY <1>4, <1>5, <1>6, <1>7 DEF RegistryOK

LEMMA EntryKinds ==
  ASSUME NEW l \in Clients \union {NoClient}
  PROVE  /\ l \in Clients <=> l # NoClient
         /\ l \in Clients <=> l.listed
         /\ l \in Clients => l.ip \in {"unknown", "address"}
                             /\ l.state \in {"Connected", "Reconnecting"}
<1>1. NoClient.listed = FALSE
  BY DEF NoClient
<1>2. \A k \in Clients : k.listed = TRUE /\ k.ip \in {"unknown", "address"}
                        /\ k.state \in {"Connected", "Reconnecting"}
  BY DEF Clients
<1>3. QED
  BY <1>1, <1>2

(* One entry changes with one circuit, the others stay. *)
LEMMA OneEntryChanges ==
  ASSUME RegistryOK, NEW c \in Ids, UNCHANGED circuit,
         NEW q \in Seq(Handlers), NEW x \in BOOLEAN, NEW r \in BOOLEAN,
         NEW m \in Clients \union {NoClient}, EntryOK(circuit[c], q, x, r, m),
         calls' = [calls EXCEPT ![c] = q], context' = [context EXCEPT ![c] = x],
         rendered' = [rendered EXCEPT ![c] = r], client' = [client EXCEPT ![c] = m]
  PROVE  RegistryOK'
<1>1. /\ circuit' \in [Ids -> States] /\ calls' \in [Ids -> Seq(Handlers)]
      /\ context' \in [Ids -> BOOLEAN] /\ rendered' \in [Ids -> BOOLEAN]
      /\ client' \in [Ids -> Clients \union {NoClient}]
  BY DEF RegistryOK
<1>2. /\ calls'[c] = q /\ context'[c] = x /\ rendered'[c] = r /\ client'[c] = m
      /\ \A d \in Ids \ {c} : calls'[d] = calls[d] /\ context'[d] = context[d]
                              /\ rendered'[d] = rendered[d] /\ client'[d] = client[d]
  BY DEF RegistryOK
<1>3. \A d \in Ids : Entry(d)'
  <2> TAKE d \in Ids
  <2>1. CASE d = c
    BY <1>2, <2>1 DEF Entry
  <2>2. CASE d # c
    BY <1>2, <2>2 DEF Entry, RegistryOK
  <2>3. QED
    BY <2>1, <2>2
<1>4. QED
  BY <1>1, <1>3 DEF RegistryOK

LEMMA CallHandlerKeepsRegistry ==
  ASSUME RegistryOK, NEW c \in Ids, CallHandler(c)
  PROVE  RegistryOK'
<1> DEFINE q == calls[c]
           l == client[c]
           m == client'[c]
           x == context[c] \/ q[1] = "opened"
<1>1. /\ EntryOK(circuit[c], q, context[c], rendered[c], l)
      /\ q \in Seq(Handlers) /\ l \in Clients \union {NoClient} /\ q # <<>>
      /\ client \in [Ids -> Clients \union {NoClient}]
  BY DEF RegistryOK, Entry, CallHandler
<1>2. Len(q) > 0 /\ Head(q) = q[1] /\ Tail(q) \in Seq(Handlers)
  BY <1>1, EmptySeq, LenProperties, HeadTailProperties
<1>3. /\ client' = [client EXCEPT ![c] = m] /\ m \in Clients \union {NoClient}
      /\ \/ q[1] = "opened" /\ m \in Clients /\ m.state = "Connected"
         \/ /\ \/ q[1] = "up" /\ (l \in Clients => m.state = "Connected")
               \/ q[1] = "down" /\ (l \in Clients => m.state = "Reconnecting")
            /\ l \in Clients <=> m \in Clients
            /\ l \in Clients => m.ip = l.ip
         \/ q[1] = "closed" /\ m = NoClient
  <2>1. CASE q[1] = "opened" /\ OnCircuitOpenedAsync(c)
    <3>1. PICK ip \in OwnIps :
            client' = [client EXCEPT ![c] = [listed |-> TRUE, ip |-> ip,
                                             state |-> "Connected"]]
      BY <2>1 DEF OnCircuitOpenedAsync
    <3>2. [listed |-> TRUE, ip |-> ip, state |-> "Connected"] \in Clients
      BY CircuitsAssumption DEF CircuitsAssumption, Clients
    <3>3. QED
      BY <1>1, <2>1, <3>1, <3>2
  <2>2. ASSUME NEW s \in {"Connected", "Reconnecting"}, SetState(c, s)
        PROVE  /\ client' = [client EXCEPT ![c] = m] /\ m \in Clients \union {NoClient}
               /\ l \in Clients <=> m \in Clients
               /\ l \in Clients => m.ip = l.ip /\ m.state = s
    <3>1. CASE l.listed
      <4>1. client' = [client EXCEPT ![c] = [l EXCEPT !.state = s]]
        BY <2>2, <3>1 DEF SetState
      <4>2. l \in Clients
        BY <1>1, <3>1, EntryKinds
      <4>3. /\ [l EXCEPT !.state = s] \in Clients
            /\ [l EXCEPT !.state = s].state = s /\ [l EXCEPT !.state = s].ip = l.ip
        BY <4>2 DEF Clients
      <4>4. m = [l EXCEPT !.state = s]
        BY <1>1, <4>1
      <4>5. QED
        BY <4>1, <4>2, <4>3, <4>4
    <3>2. CASE ~l.listed
      <4>1. client' = client
        BY <2>2, <3>2 DEF SetState
      <4>2. QED
        BY <1>1, <3>2, <4>1, EntryKinds
    <3>3. QED
      BY <3>1, <3>2
  <2>3. CASE q[1] = "up" /\ SetState(c, "Connected")
    BY <2>2, <2>3
  <2>4. CASE q[1] = "down" /\ SetState(c, "Reconnecting")
    BY <2>2, <2>4
  <2>5. CASE q[1] = "closed" /\ Remove(c)
    BY <1>1, <2>5 DEF Remove
  <2>6. QED
    BY <1>2, <2>1, <2>3, <2>4, <2>5 DEF CallHandler
<1>4. EntryOK(circuit[c], Tail(q), x, rendered[c], m)
  BY <1>1, <1>2, <1>3, CallMadeOK
<1>5. /\ calls' = [calls EXCEPT ![c] = Tail(q)]
      /\ context' = [context EXCEPT ![c] = x]
      /\ rendered' = [rendered EXCEPT ![c] = rendered[c]]
      /\ circuit' = circuit
  BY <1>2 DEF CallHandler, RegistryOK
<1>6. x \in BOOLEAN /\ rendered[c] \in BOOLEAN
  BY DEF RegistryOK
<1>7. QED
  <2> HIDE DEF q, l, m, x
  <2> QED  BY <1>2, <1>3, <1>4, <1>5, <1>6, OneEntryChanges

LEMMA OnAfterRenderKeepsRegistry ==
  ASSUME RegistryOK, NEW c \in Ids, OnAfterRender(c)
  PROVE  RegistryOK'
<1> DEFINE q == calls[c]
           l == client[c]
           m == client'[c]
<1>1. /\ EntryOK(circuit[c], q, context[c], rendered[c], l)
      /\ q \in Seq(Handlers) /\ l \in Clients \union {NoClient}
      /\ client \in [Ids -> Clients \union {NoClient}]
  BY DEF RegistryOK, Entry
<1>2. Len(q) > 0 => q # <<>> /\ Head(q) = q[1]
  BY <1>1, EmptySeq, LenProperties, HeadTailProperties
<1>10. Len(q) \in Nat /\ (q # <<>> => Len(q) > 0)
  BY <1>1, EmptySeq, LenProperties
<1>3. circuit[c] # "none" /\ (Len(q) > 0 => q[1] # "opened")
  <2>1. CASE q = <<>>
    BY <1>2, <2>1 DEF OnAfterRender
  <2>2. CASE q # <<>>
    BY <1>1, <1>2, <1>10, <2>2 DEF OnAfterRender, EntryOK
  <2>3. QED
    BY <2>1, <2>2
<1>4. l # NoClient => context[c]
  BY <1>1 DEF EntryOK
<1>5. /\ client' = [client EXCEPT ![c] = m] /\ m \in Clients \union {NoClient}
      /\ l = NoClient => m = NoClient
      /\ l # NoClient => m # NoClient /\ m.state = l.state /\ m.ip = "address"
  <2>1. CASE l.listed
    <3>1. l \in Clients /\ l # NoClient
      BY <1>1, <2>1, EntryKinds
    <3>2. client' = [client EXCEPT ![c] = [l EXCEPT !.ip = "address"]]
      BY <1>4, <2>1, <3>1 DEF OnAfterRender, SetRemoteIp
    <3>3. /\ [l EXCEPT !.ip = "address"] \in Clients
          /\ [l EXCEPT !.ip = "address"].ip = "address"
          /\ [l EXCEPT !.ip = "address"].state = l.state
      BY <3>1 DEF Clients
    <3>4. m = [l EXCEPT !.ip = "address"]
      BY <1>1, <3>2
    <3>5. QED
      BY <3>1, <3>2, <3>3, <3>4, EntryKinds
  <2>2. CASE ~l.listed
    <3>1. client' = client /\ l = NoClient
      BY <1>1, <2>2, EntryKinds DEF OnAfterRender, SetRemoteIp
    <3>2. QED
      BY <1>1, <3>1
  <2>3. QED
    BY <2>1, <2>2
<1>6. EntryOK(circuit[c], q, context[c], TRUE, m)
  BY <1>1, <1>3, <1>5, RenderedOK
<1>7. /\ calls' = [calls EXCEPT ![c] = q]
      /\ context' = [context EXCEPT ![c] = context[c]]
      /\ rendered' = [rendered EXCEPT ![c] = TRUE]
      /\ circuit' = circuit
  BY DEF OnAfterRender, RegistryOK, serverVars
<1>8. context[c] \in BOOLEAN
  BY DEF RegistryOK
<1>9. QED
  <2> HIDE DEF q, l, m
  <2> QED  BY <1>1, <1>5, <1>6, <1>7, <1>8, OneEntryChanges

LEMMA ServerEndsKeepsRegistry ==
  ASSUME RegistryOK, ServerEnds
  PROVE  RegistryOK'
<1>1. /\ circuit' = [c \in Ids |-> IF circuit[c] = "none" THEN "none" ELSE "gone"]
      /\ calls' = [c \in Ids |-> <<>>] /\ client' = [c \in Ids |-> NoClient]
      /\ context' = context /\ rendered' = rendered
  BY DEF ServerEnds
<1>2. \A c \in Ids : Entry(c)'
  <2> TAKE c \in Ids
  <2>1. EntryOK(IF circuit[c] = "none" THEN "none" ELSE "gone", <<>>, context[c],
                rendered[c], NoClient)
    BY EndedOK DEF RegistryOK, Entry
  <2>2. QED
    BY <1>1, <2>1 DEF Entry
<1>3. <<>> \in Seq(Handlers)
  BY EmptySeq
<1>4. QED
  BY <1>1, <1>2, <1>3 DEF RegistryOK, States

LEMMA ExpireKeepsRegistry ==
  ASSUME RegistryOK, NEW c \in Ids, Expire(c)
  PROVE  RegistryOK'
<1>1. /\ circuit[c] = "saved" /\ circuit' = [circuit EXCEPT ![c] = "gone"]
      /\ calls' = calls /\ client' = client /\ context' = context /\ rendered' = rendered
  BY DEF Expire, registryVars
<1>2. \A d \in Ids : Entry(d)'
  <2> TAKE d \in Ids
  <2>1. circuit'[d] = circuit[d] \/ (circuit[d] = "saved" /\ circuit'[d] = "gone")
    BY <1>1 DEF RegistryOK
  <2>2. QED
    BY <1>1, <2>1, ForgottenOK DEF RegistryOK, Entry
<1>3. QED
  BY <1>1, <1>2 DEF RegistryOK, States

LEMMA ServerVarsKept ==
  ASSUME RegistryOK, UNCHANGED <<serverVars, registryVars>>
  PROVE  RegistryOK'
BY DEF RegistryOK, Entry, serverVars, registryVars

LEMMA RegistrySteps ==
  ASSUME CircuitsOK, PageOK(page), RegistryOK, [Next]_vars
  PROVE  RegistryOK'
<1>0. Mine # 0 => Mine \in Ids
  BY ViewOf, CircuitsAssumption DEF Mine, Ids, CircuitsAssumption
<1>1. ASSUME NEW c \in Ids, IsNext(c)
      PROVE  circuit[c] = "none"
  BY <1>1 DEF IsNext, Unused
<1>2. CASE LoadPage
  BY <1>1, <1>2, CircuitOpened DEF LoadPage
<1>3. ASSUME NEW c \in Ids, ResumeAs(c), UNCHANGED registryVars
      PROVE  RegistryOK'
  BY <1>0, <1>1, <1>3, CircuitOpened DEF ResumeAs, Saved
<1>4. ASSUME Rejoin, UNCHANGED registryVars
      PROVE  RegistryOK'
  <2>1. Mine \in Ids /\ circuit[Mine] \in {"connected", "idle"}
    BY <1>0, <1>4 DEF Rejoin, Retained
  <2>2. PICK e \in {<<"up">>, <<"down", "up">>} : Call(Mine, e)
    BY <1>4 DEF Rejoin
  <2>3. e[Len(e)] = LastCall("connected")
    BY <2>2 DEF LastCall
  <2>4. Held(circuit[Mine]) /\ circuit' = [circuit EXCEPT ![Mine] = "connected"]
    BY <1>4, <2>1 DEF Held, Rejoin
  <2>5. QED
    BY <1>4, <2>1, <2>2, <2>3, <2>4, CallsAdded
<1>5. CASE \/ NoticeLoss \/ BreakConnection \/ AutoRejected \/ AutoGivesUp
           \/ ReconnectRefused \/ RetryThrows \/ RetryResumeRefused
           \/ ResumeRefused \/ ResumeThrows \/ UserStep \/ NetworkFails \/ ServerIsBack
           \/ UNCHANGED vars
  BY <1>5, ServerVarsKept
  DEF NoticeLoss, BreakConnection, AutoRejected, AutoGivesUp, ReconnectRefused, RetryThrows,
      RetryResumeRefused, ResumeRefused, ResumeThrows, UserStep, ClickRetry, ClickResume,
      SwitchTab, ReloadByHand, NetworkFails, ServerIsBack, vars
<1>6. CASE AutoRejoin \/ AutoResume
  BY <1>3, <1>4, <1>6 DEF AutoRejoin, AutoResume
<1>7. CASE ReconnectSucceeds \/ RetryResumes \/ ResumeSucceeds
  BY <1>3, <1>4, <1>7, ServerVarsKept DEF ReconnectSucceeds, RetryResumes, ResumeSucceeds
<1>8. CASE Pause
  <2>1. Mine \in Ids /\ Held(circuit[Mine])
    BY <1>0, <1>8, ViewOf DEF Pause, Held, Mine
  <2>2. <<"down", "closed">>[Len(<<"down", "closed">>)] = LastCall("saved")
    BY DEF LastCall
  <2>3. Call(Mine, <<"down", "closed">>) /\ circuit' = [circuit EXCEPT ![Mine] = "saved"]
        /\ UNCHANGED registryVars
    BY <1>8 DEF Pause
  <2>4. QED
    BY <2>1, <2>2, <2>3, CallsAdded
<1>9. ASSUME NEW c \in Ids, ServerNoticesLoss(c)
      PROVE  RegistryOK'
  <2>1. <<"down">>[Len(<<"down">>)] = LastCall("idle") /\ Held(circuit[c])
    BY <1>9 DEF LastCall, ServerNoticesLoss, Held
  <2>2. Call(c, <<"down">>) /\ circuit' = [circuit EXCEPT ![c] = "idle"]
        /\ UNCHANGED registryVars
    BY <1>9 DEF ServerNoticesLoss
  <2>3. QED
    BY <2>1, <2>2, CallsAdded
<1>10. ASSUME NEW c \in Ids, Evict(c)
       PROVE  RegistryOK'
  <2>1. PICK t \in {"saved", "gone"} : circuit' = [circuit EXCEPT ![c] = t]
    BY <1>10 DEF Evict
  <2>2. <<"down", "closed">>[Len(<<"down", "closed">>)] = LastCall(t) /\ Held(circuit[c])
    BY <1>10 DEF LastCall, Evict, Held
  <2>3. Call(c, <<"down", "closed">>) /\ UNCHANGED registryVars
    BY <1>10 DEF Evict
  <2>4. QED
    BY <2>1, <2>2, <2>3, CallsAdded
<1>11. ASSUME NEW c \in Ids, CircuitStep(c)
       PROVE  RegistryOK'
  BY <1>9, <1>10, <1>11, CallHandlerKeepsRegistry, OnAfterRenderKeepsRegistry,
     ExpireKeepsRegistry DEF CircuitStep
<1>12. QED
  BY <1>2, <1>5, <1>6, <1>7, <1>8, <1>11, ServerEndsKeepsRegistry
  DEF Next, ScriptStep, AutoStep, RetryAnswered, ResumeAnswered

-----------------------------------------------------------------------------
Bounded == reachable \in BOOLEAN /\ faults \in 0 .. MaxFaults

CircuitsInv == PageOK(page) /\ CircuitsOK /\ RegistryOK /\ Bounded

LEMMA CircuitsInvInit ==
  ASSUME Init
  PROVE  CircuitsInv /\ Session!SessionInit
<1>1. PageOK(page) /\ Mine = 0 /\ page.link = "loading"
  <2>1. 0 \in 0 .. MaxCircuits /\ TRUE \in BOOLEAN
    BY CircuitsAssumption DEF CircuitsAssumption
  <2>2. page = NewPage(TRUE, 0)
    BY DEF Init
  <2>3. QED
    BY <2>1, <2>2, NewPageOK DEF Mine
<1>2. CircuitsOK
  BY <1>1, CircuitsAssumption DEF Init, CircuitsOK, States, CircuitsAssumption
<1>3. EntryOK("none", <<>>, FALSE, FALSE, NoClient)
  BY EmptySeq DEF EntryOK, States, Held
<1>4. RegistryOK
  BY <1>3, EmptySeq DEF Init, RegistryOK, Entry, States
<1>5. Bounded
  BY CircuitsAssumption DEF Init, Bounded, CircuitsAssumption
<1>6. QED
  BY <1>1, <1>2, <1>4, <1>5 DEF CircuitsInv, Session!SessionInit, View, Retained

LEMMA BoundedKept ==
  ASSUME Bounded, [Next]_vars
  PROVE  Bounded'
<1>1. CASE Fault /\ reachable' \in BOOLEAN
  BY <1>1, CircuitsAssumption DEF Bounded, Fault, CircuitsAssumption
<1>2. CASE UNCHANGED faults /\ reachable' \in BOOLEAN
  BY <1>2 DEF Bounded
<1>3. QED
  BY <1>1, <1>2
  DEF Bounded, Next, vars, LoadPage, NoticeLoss, BreakConnection, Pause, ScriptStep, AutoStep,
      AutoRejoin, AutoResume, AutoRejected, AutoGivesUp, RetryAnswered, ReconnectSucceeds,
      ReconnectRefused, RetryThrows, RetryResumes, RetryResumeRefused, ResumeAnswered,
      ResumeSucceeds, ResumeRefused, ResumeThrows, UserStep, ClickRetry, ClickResume,
      SwitchTab, ReloadByHand, CircuitStep, CallHandler, OnAfterRender, ServerNoticesLoss,
      Evict, Expire, NetworkFails, ServerEnds, ServerIsBack

LEMMA CircuitsInvStep ==
  ASSUME CircuitsInv, [Next]_vars
  PROVE  CircuitsInv' /\ SessionStep
BY PageSteps, RegistrySteps, BoundedKept DEF CircuitsInv

(* The invariant the others follow from. *)
THEOREM InvariantHolds == Spec => []CircuitsInv
<1>1. Init => CircuitsInv
  BY CircuitsInvInit
<1>2. CircuitsInv /\ [Next]_vars => CircuitsInv'
  BY CircuitsInvStep
<1>3. QED
  BY <1>1, <1>2, PTL DEF Spec

(* Every variable keeps its type; no two retries go beyond MaxRetries. *)
THEOREM TypeCorrect == Spec => []TypeOK
<1>1. CircuitsInv => TypeOK
  BY DEF CircuitsInv, PageOK, CircuitsOK, RegistryOK, Bounded, TypeOK, States, Handlers
<1>2. QED
  BY <1>1, InvariantHolds, PTL

(* Whatever order outages, retries and their answers come in, the script never leaves
   a page without connection and without anything that could bring it back. *)
THEOREM AlwaysAWayOn == Spec => []NoDeadEnd
<1>1. CircuitsInv => NoDeadEnd
  BY DEF CircuitsInv, PageOK, NoDeadEnd, Pages
<1>2. QED
  BY <1>1, InvariantHolds, PTL

(* Once its handler calls have been made, a circuit is listed exactly if the server
   still holds it, and as what it is: the registry's updates of absent and of removed
   entries lose nothing. *)
THEOREM OverviewIsRight == Spec => []ListedAsItIs
<1>1. CircuitsInv => ListedAsItIs
  <2> SUFFICES ASSUME CircuitsInv, NEW c \in Ids, calls[c] = <<>>
               PROVE  IF Listing(c) = "none" THEN ~client[c].listed
                      ELSE client[c].listed /\ client[c].state = Listing(c)
    BY DEF ListedAsItIs
  <2>1. EntryOK(circuit[c], calls[c], context[c], rendered[c], client[c])
        /\ client[c] \in Clients \union {NoClient} /\ Len(calls[c]) = 0
    BY EmptySeq DEF CircuitsInv, RegistryOK, Entry
  <2>2. IF Held(circuit[c]) THEN client[c] \in Clients /\ client[c].state = StateOf(circuit[c])
        ELSE client[c] = NoClient
    BY <2>1 DEF EntryOK
  <2>3. QED
    BY <2>1, <2>2, EntryKinds DEF Listing, Held, StateOf
<1>2. QED
  BY <1>1, InvariantHolds, PTL

(* No change of an entry's state drops the address the first render put there. *)
THEOREM AddressStays == Spec => []AddressIsKept
<1>1. CircuitsInv => AddressIsKept
  BY EntryKinds DEF CircuitsInv, RegistryOK, Entry, EntryOK, AddressIsKept
<1>2. QED
  BY <1>1, InvariantHolds, PTL

(* The page implements PageSession: the dialog covers it exactly while it has no
   connection, and goes away over the work it covered if the server still has it; a
   page that is resumed or loaded begins with new work, never with any from before. *)
THEOREM PageKeepsItsPromise == Spec => SessionSpec
<1>1. Init => Session!SessionInit
  BY CircuitsInvInit
<1>2. CircuitsInv /\ [Next]_vars => [Session!SessionNext]_(Session!sessionVars)
  BY CircuitsInvStep DEF SessionStep, Session!sessionVars
<1>3. QED
  BY <1>1, <1>2, InvariantHolds, PTL DEF Spec, SessionSpec, Session!SessionSpec

=============================================================================
