# vpsmon: a formal model

vpsmon is a monitoring server written in Python: one asyncio process, an SQLite
database, background loops that probe and alert, and an HTTP/WebSocket API.
This directory holds TLA+ modules that model its core logic, TLC configurations
that check them on small instances, and TLAPS proofs of the properties that
matter most for every instance.

## The system

Everything runs on one event loop.  `db.execute` sends one statement to a pool
of two threads and commits it: a handler is atomic between two `await`s, every
statement is a transaction of its own, and every `await` is a place where other
handlers and loops run.  No handler uses a transaction over two statements, and
no task is retried.  So the hard behaviours are interleavings between statements
of one handler, values read before an `await` and used after it, failures and
restarts half way, and comparisons of clocks read at different moments.

| component | state | operations | interacts through | what makes it correct |
|---|---|---|---|---|
| alert pipeline (`alerts.py`, `app.py`) | `alerts` table, subscriber queues | duplicate check, insert, fetch, publish, acknowledge; hook loop | called by every loop; publishes to the hook's queue of 200 and to WebSockets | alerts of a key a window apart; alerts reach the hook in order, or are known to be lost |
| incidents (`incidents.py`) | `incidents` table | open, close, acknowledge, post-mortem | called by the hook only | one open incident per key; the timeline follows the alerts |
| uptime (`uptime.py`) | `uptime_checks`, `uptime_history`, `last_run` | add, edit, delete; poll, probe, persist, detect | fires alerts on transitions | incident open iff check down |
| agents (`agents.py`) | tokens, agents, credentials, metrics, logs | enrol, authenticate, heartbeat, ingest, delete, scan for stale agents | fires alerts | limits on tokens; status follows heartbeats; every outage alerted |
| agent client (`agent/vpsmon-agent.py`) | state file, last shipped timestamp | enrol, push, ship | HTTP to the server | no entry between two windows; few copies |
| users and sessions (`auth.py`, `totp.py`, `tokens.py`) | `users`, `sessions`, attempts | login, rate limit, create, delete | used by every request | at least one user; sessions of live users; limit on attempts |
| storage (`storage/`) | four metric tables | insert, downsample, purge, select a table | filled by collectors and probes | each sample counted once its bucket is over; nothing purged before it is aggregated |
| servers (`servers.py`) | `servers` table, two caches | add, update, delete, probe in the loop and by hand | SSH; read by most other components | caches hold existing servers and their own readings |
| probes with snapshots (`databases.py`, `webanalytics.py`, `windows_checks.py`, `docker_updates.py`) | one table of snapshots each | probe, store, prune | SSH, `servers` table | old snapshots go away |
| inventory (`intel.py`, `cron_monitor.py`) | updates, backups, SSH keys, jobs | scan, merge; delete a job | SSH; fires an alert for security updates | one scan's result, each thing once |
| custom metrics (`intel.py`) | definitions with their last value | define, replace, delete, run when due or by hand | subprocess | a value is that of its definition |
| forecasts, anomalies (`intel.py`, `forecast.py`) | table of forecasts | regression over metrics | fires alerts | arithmetic on floats |
| runbooks (`runbooks.py`) | runbooks, runs | edit, execute on targets, log | SSH, subprocess | nothing runs without a row |
| log stream (`collectors/logs.py`, `api/websocket.py`) | ring buffer, a queue and a task per browser | read, fan out, subscribe, close | journal, WebSocket | nothing lost unnoticed; a closed client leaves nothing behind |
| log patterns (`log_patterns.py`) | - | count per pattern and window | reads agent logs; fires alerts | no burst goes unreported |
| terminal (`terminal.py`) | two pipes per browser, audit rows | open, bridge, close | SSH, WebSocket | both sides end when one does |
| push (`push.py`, `static/js/push.js`) | key pair, subscriptions | generate, subscribe, broadcast | called by the hook; push service | subscriptions are those of the key |
| notifications (`notifications.py`) | configuration | dispatch | called by the hook | one failing channel stops no other |
| collectors, reports, annotations, branding, export, front end | cached readings, settings | collect, store, render | - | I/O and formatting |

## Modules

| module | models | checked by | proved in |
|---|---|---|---|
| `IncidentLog` | what the incident page promises: an abstract timeline | as a property of `AlertPipeline` | - |
| `AlertPipeline` | `alerts.py`, `app._notify_hook`, `incidents.py` | `MCAlertPipeline`, `MCFleet` (liveness) | `AlertPipelineProofs` |
| `Uptime` | `uptime.py` on top of an instance of `AlertPipeline` | `MCUptime` | `UptimeProofs` |
| `Enrollment` | tokens, registration and deletion of agents | `MCAccounts`, `MCEnrollment` | `AccountsProofs` |
| `Users` | login, rate limit, sessions, user management | `MCAccounts` | `AccountsProofs` |
| `AgentStatus` | heartbeats, the stale-check loop, the displayed status | `MCFleet`, `MCAgentStatus` | `FleetProofs` |
| `Dict`, `ServerTable` | a Python dict; the `servers` table | through their users | - |
| `Servers` | `servers.py`: probe loop, probes by hand, caches | `MCFleet` | `FleetProofs` |
| `LiveStream` | `collectors/logs.py`, `api/websocket.py` | `MCFleet` | `FleetProofs` |
| `Snapshots` | the loops and requests of databases, web servers, Windows checks and docker images | `MCRecords` | `RecordsProofs` |
| `Inventory` | the stores of `intel.py` and `cron_monitor.py` | `MCRecords` | `StoresProofs` |
| `CustomMetrics` | scripts as metrics, `intel.py` | `MCRecords` | `StoresProofs` |
| `Runbooks` | `runbooks.py` | `MCRecords` | `StoresProofs` |
| `AgentShipping` | the agent's log loop and `ingest_logs` | `MCRecords` | `FeedsProofs` |
| `LogPatterns` | `log_patterns.py` and its duplicate window | `MCRecords` | `StoresProofs` |
| `Terminal` | `terminal.py` | `MCRecords` | `RecordsProofs` |
| `Push` | `push.py`, `push.js` and the push service | `MCRecords`, `Push` itself | `FeedsProofs` |
| `Downsample` | the four metric tables, aggregation and purge loops | `MCDownsample` | `DownsampleProofs` |

`MCAccounts`, `MCFleet` and `MCRecords` are sums: `active` names the component of a
behaviour, which takes its steps with the state of the others at rest.  The
components of one sum meet in the code only through the `servers` table, which each
may find edited at any moment, and by firing alerts; interleaving them would only
multiply states; in a sum the state spaces add.  The fairness of a
component is restated there for its steps while it is active, and every property
of a component holds trivially in the behaviours of another.  That a component
behaves in its sum as it does alone is proved (`AccountsRunComponents`,
`FleetRunsComponents`, `RecordsRunComponents`).

Components that do share state are composed: `Uptime` instantiates
`AlertPipeline`, `Servers` and `Snapshots` extend `ServerTable`.

Definitions named in a comment as a *mutant* are not part of a specification:
each is a plausible bug of the definition after it, kept to show that the
properties notice it.

### AlertPipeline

A caller is a task inside `fire_custom_alert` or one threshold of `check_alerts`.
`call[c]` records the statement it is at: `Raise` fixes the cutoff of the
duplicate check, `IsDuplicate` runs the `COUNT`, `Insert` the `INSERT` (with a
timestamp read some time between), `Fetch` the `SELECT ... LIMIT 1` that may
return another caller's row, `Publish` the loop of `put_nowait`.  `hook` is the
task `_notify_hook`: `Subscribe`, `Get`, `Dispatch` (notifications, then push),
`Select`, `OpenIncident` or one `CloseIncident` per row.  `CallFails` and
`HookFails` are exceptions at any await; `Crash` keeps the tables and loses the
rest; `Acknowledge` and `Annotate` are the operator.  `missed` is a history
variable: the keys one of whose alerts was lost on the way.

Only two data matter in an alert: its key (type and metric) and whether it is a
recovery (`severity == "info"` and "recover" in the message).  The clock is
taken to be monotone.  Rows of `alerts` are never deleted in the code.

The duplicate check protects a task from itself and not from another task.  So
`DuplicatesSpaced` speaks of two alerts of a key from one task (`by`, a history field,
names the task that inserted a row), while another task may raise the key in between: two
tasks together may store two alerts of a key in one window, and in the same second each may
publish the row of the other, as `Fetch` allows.  The timeline is compared with the alerts for every key but those
of `OrderMatters`, which can recover and are raised by several tasks: two tasks may publish
in another order than they insert, which is harmless where both report an outage.  No
key of the code is excluded: only uptime checks recover, and only their loop raises them.

### Uptime

`Poll` takes the snapshot of due checks, `Probed` gives any answer to each probe
(an exception drops it), `PersistRow` and `PersistHistory` are the two statements
of `_persist_result`, `Detect` compares with the snapshot and calls the
pipeline's `Raise`, `Ran` sets `last_run` to the time of the poll.  Steps of the
pipeline leave the module's own variables alone.  `MaxBusy` bounds the time
between a poll and the end of its last statement.  `excused` is a history
variable: names whose transition was lost to an error or a restart, or that were
reused or renamed, so that the incident stays with the old name.

### Enrollment

A handler walks through `register_agent`: `Validate`, `InsertAgent`, `Consume`,
`StoreCredential`, any of which may fail and leave the earlier ones in place.
Operators create and revoke tokens and delete agents in two steps (row, then
credential; the two statements between delete data only), also agents that are gone.
`halved` is history: a registration or deletion that was cut short, or a deletion that ended
before the agent's registration did, may leave a row without a credential or the reverse,
and a later deletion that ends cleans up.  `HalvesHaveACause` says that nothing else does.

### AgentStatus

Times are ages capped at `Cap = Timeout + MaxLag + 1`, beyond which no comparison
tells two apart, so that time is unbounded in a finite state space.  `Arrive` and
`Beat` are a request's clock reading and its `UPDATE`.  A heartbeat refreshes its sender;
a metrics push refreshes the agent whose id is in its body (api/routes.py:1449), which is not
compared with the sender.  So `Arrive` may name any agent that was ever enrolled, and
`contact` is the age of the newest request that named the agent and refreshed it, whoever
sent it: that, and no more, is what `OnlineIsRecent` bounds.  `StartScan`, `SelectStale`,
`MarkOffline`, `Fire` and `EndScan` are the loop.  `contact`, `alerted` and `lost`
are history variables.  The duplicate check of `fire_custom_alert` is reduced to
the age of the newest unacknowledged alert of the agent: only this loop fires the
key.

### Users

`Login` is `check_rate_limit`, the first statement of `handle_login`;
`PasswordMatches` or `RecordAttempt` follow the `SELECT`, so that other requests
run between the check and the record.  `CreateSession` is the `INSERT`, which
tests nothing.  `delete_user` is `CountUsers`, `DeleteSessions`, `DeleteUser`.
Adding a user and changing a password are the same `INSERT OR REPLACE` and give
a new id (`CreateUser`).  `Restart` is `ensure_admin_exists` after the memory is
lost.  `sessions[..].who` and `overlapped` are history.  Two sessions of one
login instant are one element of the set: no property counts them.

### Downsample

The tables are bags, because they have no key.  `RawTo1m`, `OneTo5m` and
`FiveTo1h` are one `INSERT ... SELECT ... GROUP BY` each, with the sleep that
follows it in `loop.wake`; `PurgeRaw`, `Purge1m` and `Purge5m` delete any batch of
rows that is old enough.  `InsertRaw` inserts a sample whose timestamp may lie
`MaxLate` in the past, because a probed server sends its own clock.  `LoopFails`
and `PurgeFails` are the `except` branches; `Stop` and `Start` are a restart of
the server, with any time in between.  `Tick` does not pass a due statement.
`Grouped` counts samples as elements of a set, each row of `GroupOf` as often as the
table holds it (`SamplesOf`).  `sampled`, `done` and `faults` are history; `faults` are
the failures and stops since the last round that ran to its end.  Values are left out: the average,
minimum and maximum of a row are functions of the samples it counts.

### Servers

`ServerTable` is the `servers` table with sqlite's `AUTOINCREMENT`.  `StartRound` is
`probe_all`: one task per enabled row, each with the host it was listed with;
`StartManual` is `handle_server_probe`.  `Answer` and `NoAnswer` write `_latest`
and `_status` when ssh ends, whatever has happened to the row.  A host stands for all a
probe is told; `OddHosts` are those whose port is no number, which an edit may store
(api/routes.py:593) and adding a server refuses.  A probe of one is `ProbeRaises`: the exception
of `int` leaves `probe_and_store` before it writes anything, and `gather` swallows it.  A
round whose `SELECT` fails changes nothing and is a stutter.  `RemoveServer` and
`Forget` are the `DELETE` and, an await later, the two `pop`s.  `last_seen`, which is only
shown, is left out.  The host of a
reading in `status`, `hadHosts` and `raced` are history: they let `ReadingIsOwn` and
`StatusConverges` speak of where a reading was taken.  `StatusConverges` is about servers
whose port is a number, next to others of the round that raise; of those others it is
false, and they are excepted by name (`Odd`).

### Snapshots

Four modules of the program have one shape and share nothing but the servers
table, so `kind` is chosen once.  `worker` is the loop and one request: `Lookup` is
`get_server` (a server deleted since `List` is skipped), `ProbeEnds` the answer of the
script and its `INSERT`, `DropOld` the `DELETE` that follows it in `windows_checks`,
`Prune` the one of the web loop.  What an answer may be differs: `DbAnswers` is
`{"nothing"}`, because of the first item under "Seen while reading".  The clock is
left out; a row may expire at any time.

### Inventory

`store` selects the table.  `Visit` and `ScanEnds` are the script on one host, `Clear`
the `DELETE` before the backups, `Put1` an `INSERT OR REPLACE` (updates, backups,
jobs), `SelectKey` and `InsertKey` the two statements of `_store_keys`.  A row carries
the visit that inserted it instead of a time.  Rows of the local host have
`server_id` NULL, which no `UNIQUE` constraint compares: `Conflict`.  `StoredOnce` says what
the code keeps; what it excepts is under "Seen while reading".

### CustomMetrics

`DefineMetric` is an `INSERT OR REPLACE` that takes a new id.  `ListDue`, `RunNext` and
`RunEnds` are the loop; the due list is read once and outlives replacements.
`value` records which script computed the shown value.

### Runbooks

`Execute` reads the script once and starts a task per target; `LogRun` and
`SelectRun` are the two statements of `_log_run`.  `TaskFails` is an exception, which
answers the request but leaves the other targets running.  `broke` is history.

### LiveStream

`Read` is one journal line: the ring buffer and `put_nowait` into every registered
queue.  `Subscribe` registers the queue, starts the push task and reads the buffer,
without an await in between; `Unsubscribe` cancels the task and keeps the queue;
`Close` and `Leave` are the socket and the handler's `finally`.  `Take`, `Send` and
`EndTask` are the push task.  `from`, `sent` and `dropped` are history.

### AgentShipping

`Iterate`, `ReadJournal`, `Ship`, `Shipped` are one iteration of `main_loop`: the time is
read at its start, the window ends with the next one's start.  `Insert` is one
`INSERT` of `ingest_logs`, which goes on when the agent has timed out.  Lines are
numbered; `copies` counts the rows of each.

### LogPatterns

`WriteBatch` and `ShipBatch` are the hosts, `ScanPattern` one `COUNT` with its alert,
`PatternFails` and `PatternsRestart` the failures.  `Patterns` is the program's table.
The alert's duplicate window is that of `fire_custom_alert`, checked in one step
because only the loop and a request fire these keys.  `Burst` is what a window of a
pattern holds, `Reported` that there is an alert of its time or of the minute before it,
or that a scan failed meanwhile.  The module assumes `Warmup <= Pause` (30 s and 120 s in the code).

### Terminal

`HandlerStep` goes through `ws_terminal` from await to await, `OutEnds` and `InEnds` are
the two pipes, which may also end because of an exception in what they carry,
`WaitPipes` is `asyncio.wait`, `ExitConnection` the `async with`, `LogClose` the
`finally`.  `GetServer` may end the handler before the opening is logged: an unknown server,
an id or a port that is no number, a `SELECT` that fails.

### Push

A key is the number of its generation.  `GenerateKeys`, `StorePublic` and
`StorePrivate` are `init_vapid`, `FetchKey`, `SubscribeBrowser`, `SubscribeServer`,
`UnsubscribeServer` and `UnsubscribeBrowser` the page and its requests.
`Broadcast` includes the way `list_subscriptions` builds its dicts, and what the push
service answers.

## Runs

| run | question | bounds |
|---|---|---|
| `alert_pipeline` | are a task's alerts of a key spaced, incidents unique, does the timeline agree with the alerts once nothing is in flight, and do the incidents implement `IncidentLog`? | 2 tasks, a key of one task that recovers and a key both raise, 3 alerts, 3 instants, windows of 1 and 2, a queue of 2: enough for a recovery behind its alert and another key's alert, a full queue, a window boundary, two crashes |
| `uptime` | is the incident open iff the check is down, and what is left of a deleted check? | two interchangeable names, interval 2, window 1, a round of at most 1, two alerts in three instants (an outage and its recovery): interval = window + round is the smallest spacing at which the filter cannot meet a transition |
| `uptime_default_interval` | the same with the defaults. No: see findings | 1 unit = 10 s: interval 6, window 6 |
| `accounts` | how far can a token be overused, is every credential counted, what leaves half an agent; whose sessions are valid, can the last user go, how many failed logins fit a window? | 2 overlapping requests; a single-use token that expires and an unlimited one, 2 agents; 2 usernames, 3 ids (a replacement and a re-creation), limit 2 in a window of 2, 4 instants |
| `enrollment_overlap` | is max_uses kept? No: see findings | 2 requests |
| `fleet` | is the shown status recent, every outage alerted, a silent agent offline; is a reading its server's own and the last one that of the right host; does a subscriber miss anything and a closed one leave anything; does the timeline of incidents converge? | agents: 1 unit = 30 s, timeout 4, window 2, lag 1, one agent, two requests. Servers: 2 ids of which one is listed at a time (deletion and re-creation), 2 hosts (an edit) and one whose port is no number, the loop and a request. Stream: one browser that subscribes twice, a buffer of 3, a history of 2, a queue of 2, 5 entries: the buffer wraps and the queue overflows. Alert pipeline: as in `alert_pipeline`, with 2 alerts (a raise and its recovery) |
| `agent_mark_race` | is an agent marked offline only when it is stale? No: see findings | one agent |
| `agent_lost_alert` | is every offline agent alerted? No: see findings | one agent |
| `records` | what is left in the database by probes, scans, scripts, agents, terminals and browsers that overlap, fail and restart? | see below |
| `push_broadcast` | does a broadcast reach the subscribers? No: see findings | 1 browser |
| `downsample` | is every sample of a finished bucket counted, and nothing purged before? | a minute is 2 units, the lag as long, the coarser tiers scaled down; 2 samples of 2 sources, one of them late by up to the lag, 14 units, one failure or stop between whole rounds, batches of 1 row; stops longer than the raw and 1m retentions occur |
| `downsample_rows` | has a bucket one row? No: see findings | one sample, no failure |

`records`: the loop and a request in every component that has both.  Snapshots: 2 ids,
one listed at a time, 2 Windows checks in a row, 1 fault.  Inventory: 3 visits of 2
hosts (the local one and a server) by 2 scanners, 2 items, both printed.  Custom
metrics: 2 names, 2 scripts, 3 definitions, so that a name is replaced while a run of
it is listed.  Runbooks: one built-in and one custom, 2 requests, one on the local
host and one on two servers.  Shipping: 2 lines in 4 seconds, batches of 1, 2 starts.
Log patterns: 1 unit = 30 s, `ssh_brute_force` (10 in 5 minutes) in 2 batches of 5,
shipped within a minute, 13 units, which is the window and a scan on each side of it.
Terminal: one session, to a server that may be removed.  Push: 2 browsers, 3 key
pairs, 2 subscriptions each.

Some bounds are part of what is claimed.  `OutageIsAlerted` fails with a lag of 2 units,
and the theorem `OutagesAreAlerted` has exactly that inequality as its hypothesis;
`IncidentMatchesCheck` fails when an interval is shorter than a window and a round
(`uptime_default_interval`), which is the hypothesis of `IncidentsMatchChecks`;
`FinishedIsCounted` fails with `MaxLate` above the two minutes that
`_downsample_raw_to_1m` looks back, because such a sample misses the run that finishes its
bucket (the next one selects the newest bucket again, so that it is those late by about
three minutes or more that are in no aggregate at all); `BurstIsReported` fails when
`LongestBurst` is two units longer, because the first entries have left the window when
the last ones are scanned.

The retentions of `downsample` satisfy the hypotheses `PurgeIsLate` and `RowsAreLate` of its
theorems (see Proofs) for one fault: the 5m retention is the smallest that does, the
raw and 1m ones are one or two units above it.  So the 5m rows live to the end of the
14 units, and what their purge may and may not take is shown by the proof only.
Deadlock is not checked in `downsample`, `downsample_rows`,
`fleet` and `records`: a server that is up has nothing to do once its bounded time is
over, and a closed terminal or browser does nothing more.

Bounds named in the modules (`MaxTime`, `MaxAlerts`, `MaxHistory`, `MaxAgents`,
`MaxId`, `MaxSessions`, `MaxSamples`, `MaxFaults`, `MaxServers`, `MaxListed`,
`MaxEntries`, `MaxSubs`, `MaxSnapFaults`, `MaxScans`, `MaxDefinitions`, `MaxRequests`,
`MaxSecond`, `MaxLines`, `MaxStarts`, `MaxBatches`, `MaxTrouble`, `MaxUnits`, `MaxKeys`,
`MaxRenewals`) only stop the growth of tables and clocks; `MaxBusy`, `MaxLag`,
`MaxLate`, `MaxShip` and `MaxScan` are assumptions about how long a handler, a message
or a scan takes and are part of what is claimed.

### Fairness

* `AlertPipeline!Fairness`: a task that can run does (the event loop schedules every
  ready task, the executor runs every statement, notifiers have timeouts of 10 s).
  Nothing is assumed of errors, crashes and operators.
* `AgentStatus!Fairness`: time passes, an arrived request finishes, the loop is
  runnable.  `SilentGoesOffline` additionally assumes that failures end, as a
  hypothesis of the property itself.
* `ServersFairness`: the loop is runnable and its `SELECT` does not fail for ever, and every
  probe ends, because ssh is killed after 15 s.  `StatusConverges` assumes, as its
  hypothesis `Calm`, that operators stop editing and the process is not restarted.
* `SnapshotsFairness`: every statement and probe of the loop and of a request that was
  made ends (30 s, 120 s for images); no request need ever come.
  `SnapshotsExpire` takes the store of a Windows check as its hypothesis.
* `StreamFairness`: the handler of a closed socket leaves its loop, the push task runs.
  Nothing is assumed of the journal or the browser.
* `TerminalFairness`: every await of the handler ends (15 s for the login), and a pipe
  ends when its side has: end of file, or the heartbeat of 15 s.  Nobody has to leave.

## Findings

* **A recovery within the duplicate window is dropped** (`uptime_default_interval`).
  Recovery alerts pass the same filter as outage alerts, whatever their severity;
  with the default interval of 60 s and window of 60 s the incident of a check
  that recovers at the next probe stays open for good.
* **An agent that has just reported is marked offline** (`agent_mark_race`).
  `_stale_check_loop` updates by id only, after awaiting the alerts of others.
* **An outage may never be alerted** (`agent_lost_alert`).  The status changes
  before the alert is stored, and the alert's failure is swallowed.
* **max_uses is not a limit for overlapping requests** (`enrollment_overlap`).
* **A bucket is aggregated again at every run** (`downsample_rows`).  The
  selection starts one width before the newest row of the target and the target
  has no key, so the newest bucket gets further rows, and the 5m and 1h tables
  count its samples several times.
* **A broadcast reaches nobody** (`push_broadcast`).  `list_subscriptions` zips the
  column names with rows that are dicts already, so that every listed subscription
  holds column names; every send fails, and stale endpoints are never removed.

Seen while reading, without a run of their own:

* A server whose port is edited into no number keeps its old state for ever: it neither
  goes offline nor shows an error, because the exception of its probes (servers.py:164)
  reaches nobody.  Adding a server converts the port, editing one does not (api/routes.py:593).
* A registration that fails half way leaves an agent nobody can speak for: the row, the use
  and the credential are three statements (agents.py:187), and only deleting
  the agent removes what an earlier one stored.
* Two deletions that overlap may remove the last two users, because each counts two before
  either deletes (auth.py:152); a restart creates `admin` again.
* Two tasks may raise one alert within its window, a scan of log patterns by hand next to the
  loop's for instance: check and `INSERT` are two statements (alerts.py:207).  In the same
  second each may publish the other's row, because `_insert_alert` looks its row up by
  second, type and metric (alerts.py:52).
* Overlapping scans of a host leave the backups of both (intel.py:304), and of the local
  host, whose `server_id` is NULL, a key twice (intel.py:422).
* Samples of a host whose clock is behind by three minutes or more are never aggregated
  (servers.py:241): the selection starts at the newest bucket of all series, and what
  arrives from before it stays among the raw rows until it is purged.
* Databases are never detected, although the repository's README says they are
  (README.md:22): `DB_DETECT_SCRIPT` prints `{` and `}` on lines of their own, and
  `_run_probe` (databases.py:151) parses only the last line that begins with a brace.
  The postgres, mysql and redis probes and their table are never reached.
* Web analytics and image checks store an error object as a snapshot.
  `docker_image_checks` is never pruned.  The image check pulls the image, so that a
  second check finds no update (docker_updates.py:47).
* The key scan uses `${line:0:1}`, which a `/bin/sh` that is dash rejects: on such a
  host no SSH key of the server itself is found.
* A failed backup scan returns an empty list, which wipes the inventory of the host
  (intel.py:304), and a failing `INSERT` leaves the part before it until the next scan.  The
  jobs of the local host escape `UNIQUE` because of their NULL (cron_monitor.py:73), as its
  updates do: one more row of every job per scan.
* The anomaly scan selects a column that does not exist (intel.py:472, 534) and always
  ends with an error.  `report_run` (cron_monitor.py:91) has no caller, so that the check
  for missed runs finds no row.  `agents.py:269` and `intel.py:614` insert three values
  into four columns and swallow the error.
* `_log_run` looks its row up by slug and second and may answer with the run of another
  target (runbooks.py:335).
* A log entry alone in a window of 60 minutes is alerted again every two minutes; a
  burst longer than `LongestBurst` may not be alerted.
* The agent reads the boundary second of two windows twice and never resends a failed
  batch; its Windows collector ignores the window.  An iteration on Windows may take
  longer than the 120 s after which the server calls the agent offline.
* A session is validated once, when a terminal is opened.  A JSON text that is no object,
  or a size that is no number, ends the terminal.
* A `finally` of `websocket.py` (line 103) names a task that is unbound if the connection
  ends during the first sends; a new subscription starts with what was left in the queue.
* The hook of `app.py` subscribes after the loops that fire alerts were started, so that
  alerts of the first moments reach no incident (they count as `missed` in the model).
* Metrics and logs are filed under the agent id in the body of a push (api/routes.py:1449, 1460),
  and a metrics push refreshes the agent of that id, whoever was authenticated.  The shipped
  agent always sends its own.
* An agent deleted while its registration runs leaves a credential (agents.py:352).
* `storage/metrics.py:21` selects by name alone and mixes the local host's series with
  those of probed servers; `downsample.py:63` resumes at the newest bucket of all series.
* A changed password resets the second factor, because `INSERT OR REPLACE` (auth.py:19)
  fills the other columns with defaults.  Confirming the second factor reads the secret
  and enables it by username in two statements: it may enable one set up in between.

## Proofs

Every safety invariant that a passing run checks, each type invariant included, is
also a theorem, for all values of the constants that satisfy the module's named
assumption and the hypotheses given here.  Each proof names the inductive invariant,
shows that `Init` implies it and that every action of `Next` keeps it, one step per
action, and derives the property.  The type invariant is always a part of it.

### AlertPipelineProofs

From `PipelineAssumption` only:

* `TypeCorrect`: types, and no id held by a caller, the queue or the hook dangles.
* `OneOpenIncident`: the invariant needs `InsertIsSafe`, that nothing is open for
  a key between the hook's `SELECT` and its `INSERT`; it holds because the hook is
  the only task that opens incidents.
* `DuplicatesAreSpaced`: needs `CheckedIsOld`, that a caller past the check finds every
  unacknowledged alert of its key that it inserted itself a window old: no other caller
  adds to those, whatever it raises in between.
* `TimelineIsTracked`: by cases.  For a key of one raising task what is under way orders its
  alerts.  A caller that has inserted holds the newest (`CallerHasNewest`), the queue holds
  older ones in order (`QueueInOrder`), the hook an older one still (`HookIsAhead`), and
  whatever is not under way is older than those (`HandledFirst`).  Then `TimelineIsCurrent` is
  inductive: the timeline says what the last handled alert said, or the hook is about to
  close what it leaves open.  For a key that never recovers (`RaiseInv`) all alerts are raises
  (`OnlyRaises`), an opened incident stays open, and an alert without an open incident is
  under way or was lost (`RaisedIsOpen`).
* `PipelineImplementsLog`: each step maps to `Open`, `Resolve` or a stutter.

### UptimeProofs

From `UptimeAssumption`.  `Uptime` runs an instance of the pipeline, so that the theorems
above are instantiated and not repeated: `MonitorRunsPipeline` shows that every step of
`Uptime` is a step of that instance or leaves it alone.

* `MonitorIsTyped`: with the snapshot, the results and the call the loop is in.
* `DeletedLeaveOneRow`: a check whose rows are deleted has no row of history while
  one result of it may still come, and at most one after that (`DeletedForGood`).
* `IncidentsMatchChecks`, under `DupWindow + MaxBusy <= Interval`.  `AlertsFollowRows`: the last
  alert of a name agrees with its row but for the result being reported.  It is kept
  only if the duplicate filter drops nothing, so `ProbesSpaced`: every result still to
  come is a window after the last alert of its name, because `last_run` is at most
  `MaxBusy` before that alert was stored.  `NamesOwned` and `SnapsKnown` relate names and
  checks across renaming and reuse.  With `TimelineIsTracked` this gives the property.
  The default settings, 60 s both, do not satisfy the hypothesis: see findings.
* `MonitorKeepsPromises`: the monitor inherits that alerts of a name are spaced, incidents
  unique, and that they implement `IncidentLog`.

### DownsampleProofs

From `DownsampleAssumption`.  `StorageIsTyped`: the tables are finite bags of rows, and no two
raw rows are copies.  The other two theorems have settings as hypotheses, with
`Period == Pause1m + Pause5m + Pause1h`:

* `PurgesFollowAggregation`, under `PurgeIsLate`: samples are no later than `Lag1m`, a bucket and
  its lag and a round, put off by all the faults, end within the retention of raw
  and 1m rows, and what the faults put off ends before the first purge of a new
  process.  `RoundOnTime` and `RecentlyDone` bound how far `done` lags behind the clock
  by the faults so far, or say that the aggregation precedes the next purge.
* `FinishedBucketsAreCounted`, under `PurgeIsLate` and `RowsAreLate`, which says the same of the rows
  of the 5m and 1h tables and that each width is a multiple of the finer one.
  `RowsAreBuckets`: a row stands for a bucket that is over.  `Counted1m`, `Counted5m` and
  `Counted1h`: what is final has a row with (at least) its samples, until the row is old
  and the next table has it.  The step from one table to the next adds up the rows of a
  coarse bucket; that a sum of cardinalities over finer buckets is at least the
  cardinality of the coarser one is a lemma of its own, by an injection of the
  samples into the numbered elements of the rows, and an induction over the size of
  a set that is stated with a set of numbers (`SetInduction`).
* `ShippedSettingsSuffice`: the hypotheses hold of the program as it is configured.

The shipped settings (widths of 60, 300, 3600 s; lags of 120, 600, 7200 s; pauses of 60, 240,
60 s; retentions of 24 h, 7 d, 30 d; a purge every 600 s) satisfy `PurgeIsLate` for up to five
failures or stops between two whole rounds, and `RowsAreLate` for one.  What limits them
is the first purge of a new process, which comes 600 s after its start.

### AccountsProofs

`Enrollment`, from `EnrollmentAssumption`: `EnrollmentTypeCorrect`; `OveruseBounded`,
where counting moves a request from one term of the sum to the other;
`SequentialWithinMaxUses`, its corollary for one handler; `CredentialsCounted`,
where an agent counts from `Consume` on; `HalvesExplained`, which needs that a row is
missing only once its deletion began, and that what has neither row nor cause has no
credential and nobody to store one (`Explained`).

`Users`, from `UsersAssumption`: `UsersTypeCorrect`; `SessionsKept`, which needs
that every id in a session, in a login under way and in the table was given out
before, and to one username only; `LastUserKept`, where a deletion past its check
finds another user as long as no second one overlaps; `FailuresBounded`, where
recent failures plus the requests admitted to try a password are bounded.

Both together: `AccountsRunComponents`, and `AccountsAreSafe` with all six invariants.

### FleetProofs

`AgentStatus`, from `StatusAssumption`: `TypeCorrect`; `OnlineMeansRecent`, that an agent shown
online was named by a request received within the timeout, because `last_heartbeat` is
never younger than the newest such request (not that the agent made one itself: see
`Arrive`); `OutagesAreAlerted`, under
`AlertWindow + 2 * MaxLag <= Timeout`, with three strengthenings: the newest
alert of an online agent is at most two lags younger than its heartbeat, an agent
that comes back while its alert is fired has a fresh heartbeat, and every
selected agent's alert is out of the window.

`Servers`, from `TableAssumption` and `ServersAssumption`: `ServersAreTyped`;
`ReadingsAreOwn`, which needs `ProbesAreOwn`, that every running probe was sent to a host
its id had, and that ids are not handed out twice; `OrphansAreRaces`.

`LiveStream`, from `StreamAssumption`: `StreamIsTyped`; `StreamHasNoSilentGap`, which needs
`TasksHoldNothing`: between two gets the push task holds no entry, so that one goes from
the queue to the socket or stays.

The four together: `FleetRunsComponents` (every step of the sum is a step of each component or
none) and, from it and the components' invariants, `FleetIsTyped` and `FleetIsSafe`; the
latter leaves out `OutageIsAlerted`, which has a hypothesis of its own.

### StoresProofs

`Inventory`, from `InventoryAssumption`: `InventoryIsTyped`; `ThingsAreStoredOnce`, which needs
that two overlapping scans of a host are recorded as mixed (`OverlapsAreMixed`), that
between the `DELETE` and the last `INSERT` of backups the host's rows are of this visit
(`PutsFollowClear`), and that a key about to be inserted has no row (`InsertsAreNew`).

`CustomMetrics`, from `CustomAssumption`: `MetricsAreTyped`; `ValuesAreOwn`, which
needs that what a runner has listed of an id is still true of it if the id exists
(`ListingsAreCurrent`): a replaced definition never keeps its id.

`Runbooks`, from `RunbooksAssumption`: `RunbooksAreTyped`; `RunsLeaveTraces`, which
needs that a task past its `INSERT` is logged (`SelectsAreLogged`).

`LogPatterns`, from `PatternsAssumption`: `PatternsAreTyped`; `BurstsAreReported`, by `BurstIsInTime`:
while the window of a burst is open, the burst is reported or the next count of its
pattern is due before the window closes (`Deadline`).  A sum of entries is the cardinality
of a set, and grows with the set (`SumsGrow`).

### FeedsProofs

`Push`, from `PushAssumption`: `PushIsTyped`; `SubscriptionsKeepTheirKey`, with two
strengthenings: a stored private half belongs to the public one, because the pair is only
replaced while it is incomplete (`PairIsWhole`), and every key a page, a browser or the
table knows is the one in the settings once the pair is whole (`KeysAreStored`).

`AgentShipping`, from `ShippingAssumption`: `ShippingIsTyped`; `LossesHaveCauses`, by `WindowsMeet`: what a
window has passed is stored, being stored, in the batch or recorded as missed;
`CopiesStayBounded`, by `ShippedTwice`: a run of the agent ships an entry in the window it was
written in, and once more if that window ended within the entry's second.

### RecordsProofs

`Terminal` (no assumption): `TerminalsAreTyped`; `TerminalsEndClean`, by `HoldsByStage`, what a handler
holds at each of its awaits.  `Snapshots`, from `SnapshotsAssumption`: `SnapshotsAreTyped`, which
needs that what is probed was listed.  The eight components of `MCRecords` together:
`RecordsRunComponents`, `RecordsAreTyped` and `RecordsAreSafe`, with all eight invariants.

### Only model-checked

* The liveness properties `SilentGoesOffline`, `StatusConverges`, `ClosedLeavesNothing`,
  `TimelineConverges`, `SnapshotsExpire` and `TerminalsAreClosed`: they rest on fairness, and the
  provers know nothing of `ENABLED`.
* The violations of the findings, which are counterexamples of TLC.

## Not modelled

* Collectors, reports, annotations, branding, audit pages, Prometheus export and the
  front end except `push.js`: reading, formatting and single-statement tables.
* Alert rules: `match_rules` has no caller.
* Forecasts and anomalies: regression on floats; the anomaly scan never succeeds.
* The check for missed cron runs and the probes of single databases: code that is never
  reached, see above.
* The second factor, API tokens and the path rules of the middleware; the formats and
  HTTP calls of notification channels; the migrations of the database; pruning and
  averages of uptime; searching agent logs; `security_hardening.py`, `comparison.py`.

## Plan

1. The second factor in `Users`: setting it up against confirming it, and a password
   changed meanwhile.
2. The alert of `_store_updates` as a caller of `AlertPipeline`; the other streams of
   `websocket.py`.
3. Pure algorithms: the TOTP window, counter deltas, the choice of a metric table.
4. Proofs: abstract specifications of further components and that the modules implement
   them, as `IncidentLog` is for the pipeline.
