------------------------------- MODULE LogTail -------------------------------
(***************************************************************************)
(* The live log: entries of the monitoring service pass LogForwardChannel, *)
(* are sent in batches over the hub link and written into the web          *)
(* application's LogStreamService, where its own threads write theirs; an  *)
(* open Logs page is told of every entry and can read the buffer again.    *)
(*                                                                         *)
(* Entries are numbered by the order in which they were logged; level,     *)
(* category and text are left out, and with them the page's filters.  The  *)
(* link is abstracted to "up", "dead" (broken, not noticed yet) and        *)
(* "down"; HubLink says how it moves between them.                         *)
(***************************************************************************)
EXTENDS Naturals, SequencesExt

CONSTANTS
  ServiceEntries,   \* bound on what the monitoring service logs
  WebEntries,       \* bound on what the web application logs
  ChannelCapacity,  \* LogForwardChannel's bound, 1000
  BatchSize,        \* MaxLogBatchSize
  Capacity,         \* LogStreamService.Capacity, also the page's bound
  HubThreads,       \* threads running the hub, one per connection at a time
  NoThread,         \* conn while the link is not up
  WebThread         \* a thread of the web application that logs

ASSUME LogAssumption ==
  /\ {ServiceEntries, WebEntries} \subseteq Nat
  /\ {ChannelCapacity, BatchSize, Capacity} \subseteq Nat \ {0}
  /\ {NoThread, WebThread} \intersect HubThreads = {}

Threads == HubThreads \union {WebThread}
Entries == [from : {"service"}, nr : 1 .. ServiceEntries]
             \union [from : {"web"}, nr : 1 .. WebEntries]

VARIABLES
  logged,     \* logged[program]: how many entries it has logged so far
  channel,    \* LogForwardChannel
  forwarder,  \* ForwardLogsAsync: "waiting" or "draining"
  batch,      \* what it has read and not sent
  link,       \* "up", "dead" or "down"
  conn,       \* the thread that runs the hub for the link that is up
  todo,       \* todo[t]: entries thread t has still to write to the buffer
  announce,   \* announce[t]: the entry it has written and not announced
  buffer,     \* LogStreamService._buffer, oldest first
  page,       \* "closed", "resyncing" or "shown"
  paused,     \* _paused
  inserts,    \* insertions posted to the page's dispatcher
  view,       \* _entries, newest first
  cleared     \* observer: the entries ClearView removed since the last Resync

serviceVars == <<channel, forwarder, batch>>
linkVars == <<link, conn>>
streamVars == <<todo, announce, buffer>>
pageVars == <<page, paused, inserts, view, cleared>>
vars == <<logged, serviceVars, linkVars, streamVars, pageVars>>

AtMostOne == {<<>>} \union {<<e>> : e \in Entries}
Bounded(s, n) == Len(s) <= n /\ ToSet(s) \subseteq Entries

TypeOK ==
  /\ logged.service \in 0 .. ServiceEntries /\ logged.web \in 0 .. WebEntries
  /\ forwarder \in {"waiting", "draining"}
  /\ link \in {"up", "dead", "down"}
  /\ conn \in IF link = "up" THEN HubThreads ELSE {NoThread}
  /\ Bounded(channel, ChannelCapacity)
  /\ Bounded(batch, BatchSize)
  /\ Bounded(buffer, Capacity)
  /\ Bounded(view, Capacity)
  /\ \A t \in Threads : ToSet(todo[t]) \subseteq Entries /\ announce[t] \in AtMostOne
  /\ ToSet(inserts) \subseteq Entries
  /\ page \in {"closed", "resyncing", "shown"} /\ paused \in BOOLEAN
  /\ cleared \subseteq Entries

Init ==
  /\ logged = [service |-> 0, web |-> 0]
  /\ channel = <<>> /\ forwarder = "waiting" /\ batch = <<>>
  /\ link = "down" /\ conn = NoThread
  /\ todo = [t \in Threads |-> <<>>]
  /\ announce = [t \in Threads |-> <<>>]
  /\ buffer = <<>>
  /\ page = "closed" /\ paused = FALSE /\ inserts = <<>> /\ view = <<>>
  /\ cleared = {}

(* The newest n elements of an oldest-first sequence. *)
Newest(s, n) == IF Len(s) <= n THEN s ELSE SubSeq(s, Len(s) - n + 1, Len(s))

-----------------------------------------------------------------------------
(* The monitoring service: any of its threads logs, one task forwards. *)

DropWrite(s, e) == IF Len(s) < ChannelCapacity THEN Append(s, e) ELSE s
DropOldest(s, e) == Newest(Append(s, e), ChannelCapacity)

ServiceLogs ==
  /\ logged.service < ServiceEntries
  /\ logged' = [logged EXCEPT !.service = @ + 1]
  /\ channel' = DropOldest(channel, [from |-> "service", nr |-> logged'.service])
  /\ UNCHANGED <<forwarder, batch, linkVars, streamVars, pageVars>>

BatchKept(b) == b
BatchCleared(b) == <<>>

(* An entry is there to read and the client is, as far as it knows, connected. *)
StartBatch ==
  /\ forwarder = "waiting" /\ channel # <<>> /\ link # "down"
  /\ forwarder' = "draining"
  /\ batch' = BatchCleared(batch)
  /\ UNCHANGED <<logged, channel, linkVars, streamVars, pageVars>>

TryRead ==
  /\ forwarder = "draining" /\ channel # <<>> /\ Len(batch) < BatchSize
  /\ batch' = Append(batch, Head(channel))
  /\ channel' = Tail(channel)
  /\ UNCHANGED <<logged, forwarder, linkVars, streamVars, pageVars>>

BatchIsFull == channel = <<>> \/ Len(batch) = BatchSize

(* SendAsync returns; on a broken link nobody gets the batch. *)
SendSucceeds ==
  /\ forwarder = "draining" /\ BatchIsFull /\ link # "down"
  /\ forwarder' = "waiting"
  /\ todo' = IF link = "up" THEN [todo EXCEPT ![conn] = @ \o batch] ELSE todo
  /\ UNCHANGED <<logged, channel, batch, linkVars, announce, buffer, pageVars>>

AfterFaultEnd == "ended"
AfterFault == "waiting"

(* SendAsync throws: the link is no longer what it was at the start of the batch. *)
SendFails ==
  /\ forwarder = "draining" /\ BatchIsFull /\ link # "up"
  /\ forwarder' = AfterFault
  /\ UNCHANGED <<logged, channel, batch, linkVars, streamVars, pageVars>>

LoseLink(state) == link' = state /\ conn' = NoThread

(* The service stops, and a new process starts with an empty channel. *)
RestartService ==
  /\ channel' = <<>> /\ batch' = <<>> /\ forwarder' = "waiting"
  /\ LoseLink("down")
  /\ UNCHANGED <<logged, streamVars, pageVars>>

-----------------------------------------------------------------------------
(* The link.  The hub may still be working for the old connection when the new one is
   up. *)

LinkBreaks ==
  /\ link = "up"
  /\ LoseLink("dead")
  /\ UNCHANGED <<logged, serviceVars, streamVars, pageVars>>

NoticeBreak ==
  /\ link = "dead"
  /\ link' = "down"
  /\ UNCHANGED <<logged, serviceVars, conn, streamVars, pageVars>>

Connect ==
  /\ link = "down"
  /\ \E t \in HubThreads :
       /\ todo[t] = <<>> /\ announce[t] = <<>>
       /\ conn' = t
  /\ link' = "up"
  /\ UNCHANGED <<logged, serviceVars, streamVars, pageVars>>

-----------------------------------------------------------------------------
(* LogStreamService.Write, by a thread of the web application that logs and by those
   that run PublishLogs: into the buffer under the lock, then to whoever listens. *)

WebLogs ==
  /\ logged.web < WebEntries
  /\ todo[WebThread] = <<>> /\ announce[WebThread] = <<>>
  /\ logged' = [logged EXCEPT !.web = @ + 1]
  /\ todo' = [todo EXCEPT ![WebThread] = <<[from |-> "web", nr |-> logged'.web]>>]
  /\ UNCHANGED <<serviceVars, linkVars, announce, buffer, pageVars>>

Write(t) ==
  /\ announce[t] = <<>> /\ todo[t] # <<>>
  /\ buffer' = Newest(Append(buffer, Head(todo[t])), Capacity)
  /\ announce' = [announce EXCEPT ![t] = <<Head(todo[t])>>]
  /\ todo' = [todo EXCEPT ![t] = Tail(@)]
  /\ UNCHANGED <<logged, serviceVars, linkVars, pageVars>>

(* OnLogReceived runs on the writer's thread: it looks at _paused and posts the
   insertion to the page's dispatcher. *)
Listening == page # "closed" /\ ~paused

OnLogReceived(t) ==
  /\ announce[t] # <<>>
  /\ announce' = [announce EXCEPT ![t] = <<>>]
  /\ inserts' = IF Listening THEN inserts \o announce[t] ELSE inserts
  /\ UNCHANGED <<logged, serviceVars, linkVars, todo, buffer, page, paused, view, cleared>>

-----------------------------------------------------------------------------
(* The page, on its dispatcher: whatever is posted to it waits for the handler that
   runs, so a Resync under way is finished before the next insertion. *)

(* OnInitialized subscribes before it reads the buffer. *)
OpenPage ==
  /\ page = "closed"
  /\ page' = "resyncing"
  /\ UNCHANGED <<logged, serviceVars, linkVars, streamVars, paused, inserts, view, cleared>>

SnapshotAppended == view \o Reverse(buffer)
Snapshot == Reverse(buffer)

Resync ==
  /\ page = "resyncing"
  /\ page' = "shown"
  /\ view' = Snapshot
  /\ cleared' = {}
  /\ UNCHANGED <<logged, serviceVars, linkVars, streamVars, paused, inserts>>

InsertUntrimmed(s, e) == <<e>> \o s
InsertNewest(s, e) == SubSeq(<<e>> \o s, 1, IF Len(s) < Capacity THEN Len(s) + 1 ELSE Capacity)

HandleInsert ==
  /\ page = "shown" /\ inserts # <<>>
  /\ view' = InsertNewest(view, Head(inserts))
  /\ inserts' = Tail(inserts)
  /\ UNCHANGED <<logged, serviceVars, linkVars, streamVars, page, paused, cleared>>

Pause ==
  /\ page = "shown" /\ ~paused
  /\ paused' = TRUE
  /\ UNCHANGED <<logged, serviceVars, linkVars, streamVars, page, inserts, view, cleared>>

(* Resuming listens again before it reads the buffer. *)
AfterResumeAsShown == "shown"
AfterResume == "resyncing"

Resume ==
  /\ page = "shown" /\ paused
  /\ paused' = FALSE
  /\ page' = AfterResume
  /\ UNCHANGED <<logged, serviceVars, linkVars, streamVars, inserts, view, cleared>>

ClearView ==
  /\ page = "shown"
  /\ view' = <<>>
  /\ cleared' = ToSet(buffer)
  /\ UNCHANGED <<logged, serviceVars, linkVars, streamVars, page, paused, inserts>>

ClosePage ==
  /\ page = "shown"
  /\ page' = "closed" /\ paused' = FALSE /\ inserts' = <<>> /\ view' = <<>>
  /\ cleared' = {}
  /\ UNCHANGED <<logged, serviceVars, linkVars, streamVars>>

(* A new web process starts with an empty buffer, and the link to the old one is
   broken. *)
RestartWeb ==
  /\ IF link = "up" THEN LoseLink("dead") ELSE UNCHANGED linkVars
  /\ todo' = [t \in Threads |-> <<>>]
  /\ announce' = [t \in Threads |-> <<>>]
  /\ buffer' = <<>>
  /\ page' = "closed" /\ paused' = FALSE /\ inserts' = <<>> /\ view' = <<>>
  /\ cleared' = {}
  /\ UNCHANGED <<logged, serviceVars>>

-----------------------------------------------------------------------------
ForwarderStep == StartBatch \/ TryRead \/ SendSucceeds \/ SendFails
PageStep ==
  \/ OpenPage \/ Resync \/ HandleInsert \/ Pause \/ Resume \/ ClearView \/ ClosePage

Next ==
  \/ ServiceLogs \/ ForwarderStep \/ RestartService
  \/ LinkBreaks \/ NoticeBreak \/ Connect
  \/ WebLogs \/ \E t \in Threads : Write(t) \/ OnLogReceived(t)
  \/ PageStep \/ RestartWeb

Spec == Init /\ [][Next]_vars /\ WF_vars(ForwarderStep)

-----------------------------------------------------------------------------
(* No entry is delivered twice, whatever breaks: it is in the channel, in the batch being
   filled, with one of the threads that write, or in the buffer, once. *)
Filling == IF forwarder = "draining" THEN batch ELSE <<>>
PublishedOnce ==
  /\ \A t \in Threads : IsInjective(channel \o Filling \o todo[t] \o buffer)
  /\ \A t, u \in Threads : t # u => ToSet(todo[t]) \intersect ToSet(todo[u]) = {}

(* Whatever of the buffer a page that is not paused lacks was cleared from it, is on
   the way to it, or had to make room: the page listens before it reads the buffer,
   and before it catches up after a pause. *)
NothingIsMissed ==
  page = "shown" /\ ~paused =>
    \A e \in ToSet(buffer) :
      \/ e \in ToSet(view) \union ToSet(inserts) \union cleared
      \/ \E t \in Threads : announce[t] = <<e>>
      \/ Len(view) = Capacity

(* An entry whose announcement crosses a Resync is shown twice, but never more
   often. *)
ShownAtMostTwice ==
  \A i, j, k \in DOMAIN view : view[i] = view[j] /\ view[j] = view[k] => i = j \/ j = k \/ i = k

(* Each thread of the hub gets the service's entries in the order in which they were
   logged, ahead of all that are still to be sent, whatever batches fail and whatever
   connection comes next; and when the channel overflows it is the oldest that go. *)
InOrder(s) == \A i, j \in DOMAIN s : i < j => s[i].nr < s[j].nr
OrderIsKept ==
  /\ \A i \in DOMAIN channel : channel[i].nr = logged.service - Len(channel) + i
  /\ \A t \in HubThreads : InOrder(todo[t] \o Filling \o channel)

(* The forwarder outlives every failed send: once the link stays up, the channel is
   emptied. *)
ForwardingContinues == <>[](link = "up") => []<>(channel = <<>>)

=============================================================================
