# Verification of endpoint-monitoring

TLA+ modules of the parts of this repository whose correctness depends on what happens
in which order, the TLC configurations that check them, and TLAPS proofs of the most
important properties.  Paths are relative to the repository; `Web/`, `Service/` and
`Core/` stand for `src/EndpointMonitoring.Web/`, `src/EndpointMonitoring.MonitoringService/`
and `src/EndpointMonitoring.Core/`.  `PROJECT.json` maps every definition to its lines.

    tlc -workers 2 -config MonitoringWorker.cfg MonitoringWorker
    tlapm MonitoringWorkerProofs.tla

1. [The system](#1-the-system)
2. [Modules and how they correspond to the code](#2-modules-and-how-they-correspond-to-the-code)
3. [What the runs check](#3-what-the-runs-check)
4. [Fairness](#4-fairness)
5. [What is proved](#5-what-is-proved)
6. [Where code and documentation disagree](#6-where-code-and-documentation-disagree)
7. [Not modelled, and what could follow](#7-not-modelled-and-what-could-follow)

## 1. The system

Two .NET processes share one SQLite file.  The **monitoring service** checks endpoints
and mails alerts; the **web application** (Blazor Server) shows the results and lets
administrators edit endpoints and users.  They meet in three places:

- the database: tables `Endpoints`, `Results`, `Users`; every operation opens its own
  `AppDbContext`, reads, and ends with one `SaveChangesAsync`;
- the SignalR hub `/hubs/monitoring`, to which the service connects and sends
  `NotifyCheckCompleted` and `PublishLogs`;
- inside the web process, singletons that hub threads write and pages read:
  `MonitoringUpdateNotifier` (an event), `MonitoringServiceLinkRegistry`,
  `LogStreamService`, `ConnectedClientRegistry`.

```
 monitoring service                                web application
 EndpointMonitoringWorker --- NotifyCheckCompleted ---> MonitoringHub ---> notifier ---> open pages
   |    LogForwardChannel --- PublishLogs ------------>      |  \--> LogStreamService ---> Logs page
   |    MonitoringHubClient (connection, retry loop)         \-----> MonitoringServiceLinkRegistry
   v
 SQLite:  Endpoints, Results, Users  <--- administrators' pages, sign-in, seeding
```

### Components

| component | its state | operations | hard about it | correct when |
|---|---|---|---|---|
| Monitoring loop (`Service/EndpointMonitoringWorker.cs`) | `_nextCheck`, the checks in flight; rows of `Endpoints`, `Results` | load due endpoints, run their checks at once, wait for all; per check: probe, load the row, mail, save, notify | checks run concurrently and with administrators; a check can end after any step; mail before save; stop and crash | one mail per incident, result and alert stored together, no outage out of a stop, every enabled endpoint checked again and again |
| Endpoint administration (`Web/Components/Pages/Endpoints.razor`, `Dialogs/EndpointDialog.razor`, `Home.razor`) | the same rows | create, edit, switch, delete, acknowledge | the page's copy is older than the row | an acknowledgement is not lost, nor undone by a check that began before it |
| Hub link (`Service/SignalR/MonitoringHubClient.cs`, `Web/Hubs/MonitoringHub.cs`, `Web/Services/MonitoringServiceLinkRegistry.cs`) | connection state, retry task, connection count | start, retry every 30 s, automatic reconnect, hub callbacks | both ends learn of a break at different times, so connections of one client overlap | the count is that of the open connections, the link comes back |
| Failure timeline (`Web/Components/Shared/FailureTimeline.razor`) | `_refreshQueued`, the chart | notice, queued refresh, reloads | a notice is dropped while the flag is up; the flag is touched from hub threads without a lock | the throttle never jams, a notice in the delay is shown |
| User accounts (`Web/Auth/UserAuthService.cs`, `AuthBootstrapper.cs`) | table `Users` | create, update, enable, delete, OIDC upsert, seed | guard and save are two statements | usernames unique, an enabled administrator remains |
| Live log (`Core/Logging`, `Service/SignalR/LogForwardChannel.cs`, `Web/Services/LogStreamService.cs`, `Web/Components/Pages/Logs.razor`) | channel, batch, ring buffer, the page's list | log, forward, publish, announce, snapshot, pause, resume, clear | a snapshot races announcements; a send fails between two states of the link; overflow | nothing delivered twice, nothing missed by a listening page, the newest entries kept |
| Dashboard (`Home.razor`), system overview (`SystemOverview.razor`) | rows read by several queries | row refresh, reload, timer | saves between two queries of one reading; notices lost, or come while the page opens; a fault that ends the timer | rows and link shown are those of the database once the notices are followed; no pulse stays behind |
| Reconnect dialog (`Web/Components/Layout/ReconnectModal.razor.js`) | the dialog, its class, the `visibilitychange` listener, calls of Blazor in flight | retry, resume, reload, on Blazor's states, the buttons and a tab that becomes visible | several retries at once, an answer that comes when something else has connected the page; the circuit may be held, saved or gone | the dialog covers the page exactly while it has no connection; there is always a way back |
| Connected browsers (`ConnectedClientRegistry.cs`, `TrackingCircuitHandler.cs`, `ClientInfoReporter.razor`) | a dictionary of circuits | opened, down, up, closed, address reported | read and write back as two steps; a change for an entry that is not there yet, or gone | a circuit is listed exactly while the server holds it, as what it is, with its address |
| Start-up (`Program.cs` of both, `AuthBootstrapper.cs`) | the schema | create tables, add columns | two processes at once on an old database | who serves has the whole schema; both get there |
| Deployment (`deploy/deploy.ps1`) | service, site, files of the targets | stop, stash, clear, copy, restore, start | a failure at any step, a process that outlives its stop, a second run | no preserved file is lost, the script starts nothing half updated, the system comes back |
| Sessions (`CookieRevalidatingAuthStateProvider.cs`, `Login.razor`, `OidcRoleMapper.cs`) | cookies, circuits | sign in, revalidate every five minutes | a role changed after sign-in | see section 7 |
| Endpoint dialog and provider configuration, topology layout, providers, history and user pages, test mail, hosting | | | | pure functions, I/O or wiring; section 7 |

The hazards this code has (`PROJECT.json`, `hazards`) are what the properties are for;
each names its line and the properties that cover it, or why none does.

## 2. Modules and how they correspond to the code

| module | models | depends on |
|---|---|---|
| `AlertLedger` | what users are promised about the alert flag, without any loop | |
| `MonitoringWorker` | the loop, its checks, and the operations of the web application on the rows they read | `AlertLedger` (refined) |
| `HubLink` | client, server connections and registry of the hub link | |
| `FailureTimeline` | the throttled refresh of the chart | |
| `UserAccounts` | the `Users` table under concurrent sessions | |
| `LogTail` | the live log from the service's channel to an open page | |
| `LivePages` | a browser's circuit on the dashboard or the overview, told by the hub when to read again | `AlertLedger` (the rows change as it says) |
| `PageSession` | what somebody in front of an open page is promised, without circuits or calls | |
| `Circuits` | an open page, the script of its reconnect dialog, its circuits and the list of browsers on the server | `PageSession` (refined) |
| `StartUp` | the statements with which both programs bring the database's schema up to date | |
| `Deployment` | the update script and the files of its targets | `StartUp` (names of the programs) |
| `Rollout` | the installed system: the script stops and starts the programs, which start up and are then linked | `HubLink`, `StartUp`, `Deployment` (composed) |
| `MonitoringWorkerProofs`, `HubLinkProofs`, `FailureTimelineProofs`, `UserAccountsProofs`, `LogTailProofs`, `LivePagesProofs`, `CircuitsProofs`, `RolloutProofs` | theorems | the module of that name |

### How a step is cut

An action runs from one `await` (or unlocked access of another thread) to the next.
Database calls count as awaits.  Microsoft.Data.Sqlite runs them synchronously, which
excludes interleavings on one thread but none between threads or processes, so this admits
at least the orders the program has.  `LivePages` alone uses that it is so: what its property says,
that an older reading is never shown last, rests on a page's handlers not overlapping.  A `SaveChangesAsync` is one transaction and one
action: it checks that the row still exists (EF's concurrency exception for zero rows
affected) and writes only the columns the context saw change.  Handlers on a Blazor page's
dispatcher do not overlap between awaits.

### MonitoringWorker

| variables | code |
|---|---|
| `row`, `enabled`, `flagged` | a row of `Endpoints`, `IsEnabled`, `AlertSentAt is not null` |
| `latest` | `Success` of the endpoint's newest row in `Results`; `"cancelled"` would be a failure stored because the service was stopping |
| `loop`, `pause`, `stopping` | where `ExecuteAsync` stands, its `Task.Delay`, its token |
| `nextCheck` | `_nextCheck`, as ticks from now |
| `phase`, `verdict`, `raise` | where `CheckEndpointAsync` stands, its result, whether it assigned `AlertSentAt` |
| `acked`, `mailed`, `lostSave` | observers that no step reads |

`RunDueChecks`, `FinishRound` and `LoadFaults` are a round; `Probe`, `LoadEndpoint`,
`SendAlert`, `SaveChanges`, `NotifyHub` the steps of a check; `CheckFaults` every way it can
end early: a locked database, a deleted row, a cancelled token, a recipient whose address
does not parse.  `Crash` and `Exit` lose everything the process had.  The probe may end with
`"cancelled"` only while `stopping`, because providers pass the token on and the worker
catches whatever they throw.  Administrators' operations take effect with their save and so
need no state of their own here.

The observer `mailed` counts up to the constant `MailCap`, which is 2 in the safety run, whose
properties only tell "more than one", and 0 in the liveness run, whose properties say nothing of mails.
An incident is the time from one acknowledgement to the next, as the code has it.

### AlertLedger

The rows seen through `latest`, `flagged`, `acked`: a failure is recorded *together with*
the flag, a success leaves it alone, only acknowledging or deleting takes it down, and the
one failure that may be recorded without a flag is that of a check which had seen the alert
before it was acknowledged.  The refinement mapping is the identity on these three
variables; checks, rounds, mails and crashes stutter.

### HubLink

`retry` is `ConnectWithRetryAsync` (`"cancelled"` after the `return` of its catch for
`OperationCanceledException`), `client` and `mine` the `HubConnection` and its connection,
`server[c]` a connection on the web server before, between and after `OnConnectedAsync` and
`OnDisconnectedAsync`.  `count`, `connectedAt` and `lastSignalAt` are the registry's fields.  Its
methods hold a lock and so are one step each.  `StartTimesOut` is a start that ends with
`TaskCanceledException` because the server accepted the request and did not answer within
the HTTP client's timeout.  `Reconnect` and `GiveUp` are the framework's
`WithAutomaticReconnect`, modelled from the callbacks the code registers.

### FailureTimeline

A chart is the number of results the database held when it was read, so that "shows the
result of this notice" is `chart >= v`.  `handler[t]` is the gap between reading and raising
`_refreshQueued` on a hub thread, which is not locked: two notices may both queue a
refresh.  `refresh[k]` is the task of `OnEndpointChecked` from its delay over its read and
its assignment to its `finally`.  `reload` is a load outside the throttle.  A page that
closes drops everything, since what its tasks still do is seen by nobody.

### UserAccounts

`users` is the table, `nextId` its AUTOINCREMENT sequence.  A session does
`Begin` (read the row, decide what to write), `GuardLastAdminAsync` where the method calls
it, and `SaveChangesAsync`; `op[s]` is the pending write, because a tracked entity
is written column by column and not as the row is at the time.  `stale[s]` records that
another session saved in between.  `Throw` is any way the operation ends without a write:
the guard's exception, a row that is gone, the unique index, a locked file.  OIDC sign-ins
(`EnsureExternalUserAsync`) set the role without the guard, as in the code.
`EnsureUsersTableAndSeed` is a restart of the web application.

### LogTail

`channel` is the bounded channel with `DropOldest`, `forwarder` and `batch` the
`ForwardLogsAsync` task, whose list is reused and cleared at the start of a batch.  The link is
`"up"`, `"dead"` (broken, and the client does not know) or `"down"`; what moves it is
`HubLink`'s subject.  `todo[t]` and `announce[t]` are a thread inside `PublishLogs` or a logger of
the web application: `LogStreamService.Write` appends under a lock and raises its event after
it.  `inserts` is what the page's dispatcher has queued; `Resync` is the snapshot of opening
and resuming.  The page subscribes first and then reads, so an entry can arrive twice.

### LivePages

A circuit shows one page at a time, and pages of different circuits share nothing but what
they read, so one circuit is enough.  `work` is the handler its dispatcher runs, with the rows
as far as they are read: `ReadEndpoints`, `ReadResults` and the last query with the
assignment of what is shown (`HomeShows`, `OverviewShows`, `RemoveRow`).  Between any two come
the writers: the worker, whose results take the steps of `AlertLedger` and are announced, and
administrators elsewhere, who announce nothing.  A notice may be lost (`LoseNotice`: no
connection, or one that breaks).  A handler that waits for the dispatcher cannot be told from a notice still on
its way, so there is no queue.  Faults differ by who awaits the handler: one that
the framework called ends the circuit (`CircuitFaults`), one of an event is forgotten
(`EventFaults`), one of the timer leaves its loop (`TickFaults`).  A result is its
number, and a row is (alert, newest result, newest failure), which is what a mixture of two
readings gets wrong.  The overview's list of browsers is announced and read like the link
and not modelled besides it.  `unannounced`, `stuck` and `linkMissed` are observers of what nobody
announces and of failed readings.

### Circuits

`page` is what the browser has: its connection, the dialog and the class Blazor gives it, the
listener, and the calls in flight (`reconnecting`, `resuming` for `retry()`, `resume` for
`resume()`).  The functions of `ReconnectModal.razor.js` are operators from page to page
(`handleReconnectStateChanged`, `retry`, `retryThrows`, ...), and an action is an answer or
an event together with all that the script does up to its next `await`.

Blazor is external and modelled as this code uses it.  It sets the class before it reports a
state.  `reconnect()` is true where the page is connected in the end, false where the server
does not have the circuit, and throws where it is not reached; `resumeCircuit()` starts a new
circuit in the place of a saved one (`ResumeAs`), is false without any, and may or may not report `"hide"`.
What is saved is what components persist, and none persists anything: no field carries
`[PersistentState]`, and `Web/Program.cs` registers no persistent service.  A resumed page
therefore begins anew like a loaded one, and only `Rejoin`, the reconnection to a circuit the
server still holds, gives back what the page had.
`circuit[c]` is what the server holds of a circuit (`connected`, `idle` without connection,
`saved`, `gone`), `calls[c]` the handler calls
Blazor has still to make: one after the other and in order, because a circuit calls its handlers
on its dispatcher under a lock.  `Rejoin` may come before the server has noticed the
break, `Evict` after `DisconnectedCircuitRetentionPeriod`, `Pause` and `ServerEnds` at any time.
Of an entry in the registry the address and the state are kept; user, page and times
are set with them and nothing reads them.  Under IIS a circuit's own request carries no address
(`OwnIps = {"unknown"}`), so the one the first render reports is all there is.

### PageSession

A page is loading, usable, or covered by the dialog (`view`).  It carries `work`, what its
components hold, which the server still has or has let go of (`kept`).  `Block` covers the page and
leaves the work alone; `Unblock` gives back the same work if it is still kept, and otherwise the
page begins anew (`Anew`), as after `Open`.  What was let go of (`LetGo`, or a pause while the
dialog comes up) never comes back.  `Circuits` maps its page with `View`, its circuit `Mine` and
`Retained`, that the server holds it, connected or idle.  A dialog over a page that works, a page
without connection that nothing covers, or one that is given another circuit although its own is
still held, has no counterpart in `PageSession`.

### StartUp, Deployment and Rollout

`schema` is the set of the tables and columns that distinguish the database's versions, `boot[p]` the
statement program `p` has come to.  Every statement is an action, because each is a
transaction of its own; `EnsureCreated` is two, a look for tables and the transaction that
creates them all.  The database refuses an `ALTER TABLE` for a column that is there and
for a table that is not (`Refused`), which ends the process.  The service has no statement that
creates `Users`: on a database from before there were users it starts only after the web application has.

`at` and `todo` say where the script stands and for which program.  A file of the target is
told apart if the patterns preserve it, and is there as the administrator's own, as the
build's, or not at all; the rest is `build`.  `Throw` is any cmdlet that fails, in a deletion or a
copy after any part of it (`HalfDone`); nothing is cleaned up, so the stash stays in the
temporary folder.  `abandoned[p]` are the administrator's files that the target lacks and such a
stash has.  The database itself lies outside the targets (`doc/DEPLOYMENT.md:112`).

After `Stop` the process may be there still: for the web application the script waits for the
*pool* to report that it is stopped (`deploy.ps1:224-235`) and not for the worker process, and for
the service it goes on after a while with a warning (`:346`).  The files such a process runs from are
locked by Windows (external; the comment at `:157-160` counts on it), so a deletion does a part
and is tried again (`RemoveSome`, in `Rollout` while the process lives: `FilesLocked`).  It is
done once the process is gone, or given up after its last try, which is a `Throw`.

`Rollout` joins the two and `HubLink`: a program is alive while it boots and while it is up; `WebStarts` and
`StartAsync` of the link are the end of a boot (`Serves`).  `Start-Service` waits until the
service is up or gone and throws in the latter case, while IIS starts the web application at the next request.
Nobody checks that a build is complete before it is started (`Launch`): a program started by hand
after a failed run may run from half a copy, and then starts, serves, hangs or dies.  It is started
by hand once its old process is gone.

## 3. What the runs check

| run | module | distinct states | shows |
|---|---|---|---|
| `worker` | MonitoringWorker | 769,291 | alert flag, mails and results stay consistent whatever comes between two steps of a check, and the rows implement `AlertLedger` |
| `worker_liveness` | MonitoringWorker | 215,489 | an enabled endpoint is checked again and again, although each round waits for the checks of the other; a lasting failure gets its alert |
| `recovery_clears_alert` | MonitoringWorker | violated | section 6 |
| `hub_link` | Rollout | 373,360 | the registry counts the open connections; no update loses a file; the script starts no program on half an update; who serves has the whole schema; link and system come back |
| `hub_retry_cancelled` | HubLink | violated | section 6 |
| `timeline` | FailureTimeline | 10,095 | the throttle never jams; a notice that comes before a refresh reads is shown |
| `timeline_dropped` | FailureTimeline | violated | section 6 |
| `users` | UserAccounts | 683,897 | usernames stay unique; an operation no other save overlapped never removes the last administrator |
| `last_admin` | UserAccounts | violated | section 6 |
| `log_tail` | LogTail | 1,355,508 | no double delivery, nothing missed by a listening page, order kept up to the threads of the hub, forwarding goes on |
| `live_pages` | LivePages | 362,480 | rows and link shown are current once the notices are followed; pulses end; the timer goes on until a reading fails |
| `circuits` | Circuits | 609,436 | the page keeps `PageSession`'s promise and always has a way back; the overview lists its circuits as they are |

Deadlock is checked in every run.  Every property has a mutant in `PROJECT.json`: a
plausible bug of the code under which TLC finds the property violated.

### Properties worth a second look

- `OneMailPerIncident`: the mail goes out *before* the flag is saved, so a crash in between
  mails again.  The property says that this is the only way to a second mail; two rounds
  cannot overlap (`RoundsDoNotOverlap`), so two checks of one endpoint cannot both mail.
- `NoMailWhileFlagged`: the flag was read some awaits before the mail is sent; nothing but
  the check itself raises it, so the old reading is still right.
- `ShutdownIsNoOutage`: a stop cancels the probe, which *is* caught as a failed check; it is
  the cancelled token in the next statement that keeps it from being stored.  A call
  without the token would break it (that is its mutant).
- `NothingIsMissed`: whatever of the buffer a listening page lacks was cleared by the user,
  is on its way, or had to make room.  The order "subscribe, then read" is what it rests on.
- `OrderIsKept`: the channel drops, a batch takes in what comes while it is filled, a send fails and
  is not repeated, and the next connection's thread begins while the old one still writes; none of
  this makes a later entry overtake an earlier one on its way to a thread.  Between two threads the order is open.
- `FreshSavesKeepAnAdmin`: the strongest form of "an administrator remains" this code keeps.
- `NoDeadEnd`: the button and a tab that becomes visible start retries independently of each
  other, and each takes the listener away and may put it back.  However the two overlap, a page
  without connection keeps something that can bring it back.
- `SessionSpec`: in one branch the script closes the dialog itself, in the others Blazor's report
  does.  The refinement says that between them they close it exactly when the page works again, and
  that no order of retries, resumes and reports gives a page another circuit while the server holds
  its own: what was entered is lost only once the server has let go of it.  It is lost then, also
  by a resume.
- `AddressIsKept`: an entry is copied, changed and written back by calls from two sources, the
  handler and the first render.
- `FilesSurvive` and `RunsOnItsFiles`: within a run the files go from the target to the stash and back; what
  makes them last is that a failed run does *not* clean up.  A second run that succeeds does
  not bring them back: it preserves what the first has left.  Hence `abandoned` in both.
  `RunsOnItsFiles` says of each step what the script answers for: it starts no program on a target that is
  not complete, and leaves none started there.  A program comes to run on half an update only
  where somebody started it by hand, or because it outlived its stop and its files are being
  deleted; by the time a build is copied it is gone.
- `SystemComesBack`: two programs that add the same column make each other fail, the script among
  those that notice.  The property says that this never goes on: each refusal means that
  the other has got further.
- `ShownRowsAreCurrent`: three queries make a row, and a save between two of them makes one
  that never was.  It is always repaired, since the notice of a save follows it and the
  handlers of a page do not overlap.  The exceptions are listed in the property: what nobody announces
  and readings that failed.

### Bounds, and why they are enough

- **worker**: two endpoints are the smallest number at which checks of different endpoints
  interleave and `WhenAll` has something to wait for; a property about one endpoint
  cannot tell a third from a second.  One tick is the loop's pause (`LoopPause`), an
  interval is 1 or `MaxInterval` ticks: due in the next round, or, with 2 in the liveness
  run, not due in it.  The safety run has intervals of one tick.  In both runs both endpoints are
  served, so a round waits for the checks of the one and of the other; endpoints for which no
  provider is registered are in the theorems.  There is no bound on rounds, results,
  acknowledgements or restarts.
- **hub_link**: with two connection ids the client's current connection coexists with one the
  server has not dropped; a third adds a second of these (the count is proved for any number).
  Ids are reused, so runs are unbounded, as are updates, failures and starts.  One file to preserve, in
  one target, which a build has under the same name (the harder case: a copy overwrites what a restore brings
  back); a step can fail before, between and after it and the rest.  Both targets pass through
  the same functions, and the theorems are about any files.  The database begins in each of its four versions.
- **timeline**: two hub threads raise the flag at once, two refreshes overlap, three
  results let one be shown, one be read and one come between.  `timeline_dropped` takes one
  of each and two results, so that the counterexample has nothing in it but the gap.
- **users**: two sessions suffice for every stale guard; `MaxId` = 4 leaves room to create,
  delete and create a user again under the same name and a new id, and for the OIDC user.
- **log_tail**: two entries of each program against a channel of 1, a batch of 2 and a
  buffer and page of 3: each overflows, and a batch takes in an entry that came
  while it was being filled.  Two hub threads: the old connection's invocation still
  writes while the new one's begins.
- **live_pages**: one endpoint, since a reading treats every endpoint alike and keeps no
  state between two; two results, so that one is saved between the queries that read the other,
  or a success after a failure.  Everything else is unbounded: openings, link changes, clicks, ticks.
- **circuits**: three circuits, those of a page, of one that is resumed or loaded in its place, and a later one;
  two faults (an outage, a break, a pause, a server restart or a reload by hand), so that a second
  meets the recovery from the first; two retries in flight, the
  fewest that overlap.  Evictions, expiries, clicks and tab switches are not counted.

## 4. Fairness

Fairness of steps that the program's own tasks take, never of users, administrators, process
starts or success; weak, but for one.

- **MonitoringWorker**: `Tick` (time passes), `RunDueChecks` and `FinishRound` (one
  background task that nothing blocks), `CheckStep(e)` per endpoint (providers, SMTP and
  the database answer or time out; which answer is left open, a fault included).
  `EnabledEndpointsKeepBeingChecked` has the premises that the endpoint stays enabled and the
  service up (`StaysActive`) and that from some time on the query for the endpoints succeeds
  (`RoundsLoad`); `LastingFailureIsFlagged` also that the checks fail and none faults.
- **HubLink**: the retry loop's steps, the end of an attempt *either way*, hub callbacks,
  and keep-alives by which each end finds out that the other has gone.  `LinkComesBack` has the premises
  that both processes stay up, the network drops nothing from some time on, and the loop
  was not cancelled.  The last is not cosmetic: without it the property is false, which is
  finding 2.
- **FailureTimeline**: handlers that have begun and queued tasks finish; the initial load runs.
- **LogTail**: the forwarder's task takes its steps; the premise is a link that stays up.
- **LivePages**: a handler runs to its end (weak); `TimerTicks` is strongly fair, because it
  waits for a dispatcher that others use in between and that serves the waiting in their order.
  `TimerKeepsRefreshing` has the premises that the overview stays open and no tick has failed.
- **Circuits**: Blazor's calls end, a lost connection is noticed, and a page that is being loaded
  comes when the server is there.  `PageComesBack` has the premises that the server stays
  reachable in the end, that the user leaves and comes back to the tab again and again and presses
  Resume where the button stays; it also ends with the model's circuits used up (`Spent`).
- **Rollout**: HubLink's, and the script goes on, as does a program that starts from a complete
  build (nothing is assumed of one that starts from half of one), and a stopped program
  goes, at some time.  `SystemComesBack` has the premises that in the end nothing dies or throws but by a refused
  statement (`NothingFails`; a clearing given up is such a throw, so locked files are released within
  its tries), that the script is run again after a run that left something stopped or half copied,
  that stashes are put back and started programs started (`OperatorCares`), and those of
  `LinkComesBack` on the network and the loop.
- **UserAccounts**: none, only safety is claimed.

## 5. What is proved

All theorems hold for every value of the constants.  The assumptions are those of the
modules: `WorkerAssumption` (unserved endpoints are endpoints, the longest interval is a positive
number, the mails are counted up to a natural one), `LinkAssumption` (finitely many connection ids, `NoConnection` is none),
`TimelineAssumption` (a natural bound on results), `MaxIdAssumption` (a natural bound on rows),
`LogAssumption` (natural bounds on entries, positive capacities, the web application's thread is no
hub thread), `PagesAssumption` (a natural bound on results, `NoEndpoint` is none),
`CircuitsAssumption` (natural bounds, known addresses).  `Rollout` adds none: files are any sets.

| module | theorems |
|---|---|
| MonitoringWorkerProofs | `TypeCorrect`, `FailureIsFlagged`, `MailsOncePerIncident`, `StopStoresNoOutage`, `MailsOnlyUnflagged`, `NoOverlap`, `WorkerImplementsLedger`; progress: `ChecksEnd`, `LastingFailureIsFlaggedByEach` |
| HubLinkProofs | `TypeCorrect`, `CountIsExact`, `SinceIsExact`, `EndsFitTogether`; progress: `LinkComesBackByEach` |
| FailureTimelineProofs | `TypeCorrect`, `ThrottleCannotJam`; progress: `RefreshesEnd`, `FlagIsLowered`, `DelayedNoticesAreShown` |
| UserAccountsProofs | `TypeCorrect`, `NamesAreUnique`, `SequentialSavesKeepAnAdmin`, `AnAdminRemainsOnFreshSaves`, `DeletedIdsStayDeleted`, `IdsKeepTheirNames` |
| LogTailProofs | `InvariantHolds`, `TypeCorrect`, `DeliveredOnce`, `PageMissesNothing`, `ShownTwiceAtMost`, `OrderStays`, `LostStaysLost` |
| LivePagesProofs | `InvariantHolds`, `TypeCorrect`, `RowsAreCurrent`, `LinkIsCurrent`, `LightsEnd`, `PagesOnlyAdvance`, `PagesKeepTheLedger`; progress: `HandlersEnd`, `TimerGoesOn` |
| CircuitsProofs | `InvariantHolds`, `TypeCorrect`, `AlwaysAWayOn`, `OverviewIsRight`, `AddressStays`, `PageKeepsItsPromise` |
| RolloutProofs | `RolloutRunsTheLink`, `FilesAreKept`, `RunsWhole`, `ServesCompleteSchema`, `WholeTypeCorrect`, `RolloutKeepsTheCount`; progress: `BothServe`, `UpdatesEnd`, `SystemComesBackByEach` |

**Progress.**  The provers do not know ENABLED, so a weak fairness condition is written out with the
guard of its action: `[]<>~guard \/ []<><<Action>>_vars` (`CheckFairness(e)`, `LinkFairness(c)`,
`Served(k)`, `BootFairness(p)`, `ScriptFairness` and the like; `TimerIsServed` is strong).  Each
stands for the condition of the same action in section 4.  That the guard says exactly when the action can
be taken is no theorem; TLC, given `guard <=> ENABLED <<Action>>_vars` as an invariant of the
instances of section 3, finds it true (no run repeats this).  From these the theorems conclude by
stages: <>[] of one set of stages gives <>[] of a smaller one, because in each stage some fair
action moves on and nothing moves back.  Where a property speaks of all elements of a finite set at
once (all connections closed, all checks of a round over) the theorem speaks of any one of them, for
the step to all of them is an induction.

**MonitoringWorker.**  None of the four safety properties is inductive: each speaks of the
rows, and what endangers them is a check on its way to its save.  The invariant `IInv` is
`TypeOK`, `RestsBetweenRounds` (no check in flight unless the loop is inside `WhenAll`),
and for each endpoint `EndpointInv`, named parts that follow a check: it is of a row that
was created (`ChecksARow`); a cancelled verdict means the service is stopping
(`CancelledByStop`); what it is about to raise belongs to a failure (`RaisedForFailure`) of
a row still without alert (`AlertsUnflagged`, `RaisesUnflagged`); a failing check that skips
the alert had seen one, which is set or acknowledged (`SkippedAlertWasSet`); a flag means it
was not acknowledged since (`FlagIsFresh`); and a mail is remembered by the row or by
the check in flight, or its save was lost (`MailIsRemembered`, `AlertsAgainAfterLoss`).  The
proof takes the actions in groups (a check's, an administrator's, the loop's) with one step
per action.  `MailsOnlyUnflagged` and `NoOverlap` are action properties from the same
invariant.  `WorkerImplementsLedger` shows that `Init` implies `LedgerInit` and that each step
under `IInv` is a ledger step or leaves its variables alone; only `SaveChanges` needs work,
where the parts about a pending save decide *which* ledger action it is.
`LastingFailureIsFlaggedByEach` follows one failing check from its probe to its save: as long as the flag
is down it must alert, so its save raises it.

**HubLink.**  `LinkInv` replaces the bounded count by its exact value, the cardinality of
the open connections, which is what callbacks preserve; the bound follows from it.
`EndsFitTogether` proves `Coherent`: what client, loop, hub and processes say of one connection
agrees.  `LinkComesBackByEach` needs both.  The stages of a client that is not linked are
reconnecting, waiting, checking, starting; once attempts succeed each leads to the next and the last to
a connection that stays, after which every other connection is only closed.

**FailureTimeline.**  `TimelineInv` adds to `FlagHasRefresh` that no load has read more
results than are stored.  `DelayedNoticesAreShown` fixes a refresh that still waits when the page is told
of a result: its read comes later, so it has that result, and when it ends the chart shows what it has read or more.

**UserAccounts.**  Uniqueness is inductive over `TypeOK` because the index looks again at
the save.  `SequentialSavesKeepAnAdmin` needs `GuardHolds`: a session past its guard and
not stale still finds, in the present table, the other administrator the guard saw.
`AnAdminRemainsOnFreshSaves` draws the conclusion for whole histories: the premise that no save is
stale or the identity provider's is exactly what finding 4 lacks.  `DeletedIdsStayDeleted` rests on the sequence that
gives ids, which never goes back.

**LogTail.**  `NothingIsMissed` is inductive over the types.  `PublishedOnce`
is not: a sequence without repetition may still take in an entry that another thread has, or one
that was logged before.  `OnceInv` therefore says of all the places together (channel, batch being
filled, each thread's list, buffer) that none repeats an entry, no two share one, and whatever they
hold has been logged, so that what is logged next is new.  The lemmas in front are about
sequences: what is in a concatenation, a tail, the newest part of one, and when it repeats nothing.
`ShownTwiceAtMost` follows each entry on to the page: before the page reads the buffer it can be on its
way as an insertion, from the buffer it is shown once more, and since it is announced once there is no third.
`OrderStays` needs that the channel has no gap (so that what a batch reads next is newer than all it has
sent) and that a thread's list is followed by the batch and the channel.  `LostStaysLost` is `PublishedOnce` over
time: an entry that is in no place has been logged, and only unlogged ones enter.

**LivePages.**  `PagesInv` says what a handler under way is worth.  `RowsFollow`: for an endpoint
whose last change was announced and whose notices have all come, what the handler has read of it is
what it would read now (`IsRead`), and if no handler reads it the row shown is the database's
(`IsShown`).  A save in the middle of a reading breaks `IsRead`, but leaves a notice on its way; the
handlers of a page do not overlap, so the notice is handled after that reading is shown.
`LinkFollows` says the same of the link, whose state a handler takes before its queries, and
`LightsOK` gives each light the delay or the handler that will end it.  `NoticesOK` bounds what is on
its way by what was stored.  `PagesOnlyAdvance`, that a row never goes back to an older result, holds
because no two handlers of a page overlap; `PagesKeepTheLedger` maps each of the database's steps to `AlertLedger`.
`TimerGoesOn` is `TimerKeepsRefreshing`: between two ticks there is only the one that waits for the
dispatcher, and every handler that holds the dispatcher ends (`HandlersEnd`).

**Circuits.**  `CircuitsInv` has four parts.  `PageOK` is about the page alone: the dialog is open
exactly while the connection is down, and each class comes with what can still happen in it;
its lemmas are about the script's functions and know nothing of the server.  `CircuitsOK` says which circuits
are in use, in their order, and that the page's is among them; a new circuit has a greater number
than the page's, which is how a page that begins anew is told.  `RegistryOK` is the heart: for each circuit it
says what the entry will be once the pending `calls` have been made, so that a call moves the
entry one step towards what `ListedAsItIs` says of an empty queue.  `Bounded` keeps the counts.
`PageKeepsItsPromise` then maps every step to one of `PageSession` or a stutter.

**Rollout.**  Two invariants, one on top of the other.  `SchemaInv`: what a program has behind it in its boot is in
the schema, to which nothing but additions happen (`MarksOf`).  `ScriptInv`: what the stash holds at each stage
(`StashInv`: in `clear` it has whatever the target still has, in `copy` and `restore` the target has no
file of the administrator left, so that they are all in a stash) and which program is at rest (`RestInv`:
not started from `backup` on, and gone from `copy` on, which the clearing has waited for).
`RunsWhole` takes from it, with `RunInv` (whoever is at `restore` or later has a complete build),
that the start after an update is one on a complete target; `WholeStep` goes through the other steps,
of which only a clearing under a process that is still there disturbs one that runs.
`RolloutRunsTheLink` shows that the composition implements `HubLink`'s `Spec`; the
theorems of `HubLinkProofs` are then cited and not proved again.
For progress, `StartInv` adds that no program starts twice and what the web application's boot has behind
it.  `BothServe`: a program is refused
only because the other one was first with a statement, which is then done; so the web application, which
makes every statement, completes the schema, and after that no boot is refused.  `UpdatesEnd`: each wait
of the script ends: the clearing meets no locked file once the stopped program is gone
(`StoppedProgramsGo`), and a service that is started on the build just copied comes up or goes.
`SystemComesBackByEach` puts the two and the link together: without faults a run ends
mended or is repeated (`SystemIsMended`), nothing then disturbs the programs, both serve, hence the
premises of `LinkComesBackByEach` hold, and what is left in the stashes is put back.

Only model-checked:

- `EnabledEndpointsKeepBeingChecked`, and with it `LastingFailureIsFlagged` for an endpoint of which it is not
  assumed: a round ends when *all* its checks have, and an interval is counted down tick by tick;
  both are inductions.
- `LinkComesBack` and `SystemComesBack` for all connections at once, and `NoticesInDelayAreShown`
  for whichever refresh it is: proved of each one (`LinkComesBackByEach`, `SystemComesBackByEach`,
  `DelayedNoticesAreShown`).
- `ForwardingContinues`: that the channel is emptied is an induction on what is in it.
- `PageComesBack`: it depends on which of the numbered circuits are used up, by induction again.
- That the specifications' own WF_ and SF_ conditions imply the written-out ones.

## 6. Where code and documentation disagree

1. `RecoveryClearsAlert`.  `README.md:221` says a recovery clears `AlertSentAt`; the
   worker keeps it until it is acknowledged (its own comment says so).  A second outage before
   that sends no mail.
2. `RetriesUntilConnected`.  `doc/SIGNALR.md:84` says the loop attempts to connect every 30 s
   until it succeeds; its catch returns on *any* `OperationCanceledException`, a timed-out
   start among them, and the service runs without live updates until it is restarted.
3. `DroppedNoticesAreShown`.  The comment at `FailureTimeline.razor:109` says dropped notices
   are still reflected; one that comes after the refresh has read and before its `finally` is
   not, until the next check of any endpoint completes.
4. `AnAdminRemains`.  `UserAuthService.cs:122` and `:150` say an operation throws if it would remove
   the last enabled administrator; two that overlap both pass the guard.

## 7. Not modelled, and what could follow

- The **providers'** network I/O and SMTP are choices of `MonitoringWorker`.  The **history** and
  **user pages** are a query and forms over `UserAuthService`; the **test mail** is one exchange;
  **hosting defaults** and **layout** are wiring.  `Logs.razor.js` is the download of a file and keeps
  no state.  All rendering and wording is left out.
- **Sessions**: signing in and the revalidation every five minutes.  What matters is that a role
  change reaches every circuit within one period, a statement about clock time; `UserAccounts` has the changes it would follow.
- **Pure algorithms**: the timeline's buckets, topology layers and positions, the role mapper, and what
  a provider reads from a configuration the dialog stored.  They need definitions over strings,
  dates and geometry, which would follow the code word by word; tests reach them better.
- **Two processes of one program** at once: `Rollout` starts none while its predecessor still lives.
- **User accounts** leave out the password hash (so also the rehash at a sign-in) and
  `IsExternal`; **endpoint administration** leaves out the fields of the dialog; the **live log** the content of
  entries and the filters of the page.
