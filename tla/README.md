# Sentry NVR in TLA+

A verification project for the network video recorder in `src/` (Python, one
process, a dozen threads). It models the parts that keep footage (recorders,
indexer, migration, retention), the parts that drive the house (scheduler,
automations, alerts, shades, camera events, go2rtc) and the requests that edit the
database, and states what makes them correct. TLC checks the models on small
instances; TLAPS proves the safety properties of the recorder, the retention, the
indexer and the migration, the scheduler, the automations, the requests, the shades,
the go2rtc manager and the camera events for every instance.

`PROJECT.json` lists the components, the runs, the theorems, the hazards of the
code with the properties that watch them, and for every definition the lines of
source it was translated from.

## 1. Inventory

The program is one FastAPI process (`nvr/__main__.py:119-124`, one worker) wired
in `nvr/main.py:60-127`. Services are Python objects with a daemon thread each.
Synchronous HTTP handlers run in a pool of threads; asynchronous handlers run
on the event loop and are atomic between two awaits. Everything is shared by
reference. The only locks are those of the SQLite connection, of the go2rtc
manager, of the shade transport and of small counters. Each SQL statement is a
transaction of its own (`nvr/db.py:582-598`): no invariant over two statements
is protected by the database.

| component | state | operations and threads | hard behaviours | what makes it correct |
|---|---|---|---|---|
| recording service `recorder.py:62-460` | dictionary of recorders, one ffmpeg process each, back-off | supervisor thread: sync, check, back-off; request threads: sync, restart, stop | two threads inside without a lock, exceptions half-way, ffmpeg dying at any time, a 10 s wait inside stop | one writer per camera, no ffmpeg out of reach, nothing left after stop, settles on the camera table |
| segment indexer `recorder.py:245-305, 453-531` | the segments table, stateless walk | indexer thread every 5 s | walks files that ffmpeg, the migration, retention and requests change under it; ffprobe without a verdict | never removes footage, never lists what cannot play, lists what is complete |
| storage migration `storage_migrate.py` | worklist, counters | one thread at a time, started by a request | crash or failure between copy, unlink and path update; the indexer finds the file first | nothing lost, nothing left behind unreported |
| retention `retention.py` | segments, events, disk | thread every 5 min and on demand | settings edited under a pass, volumes that come and go, refused unlinks | deletes only for an exceeded limit, oldest first, every limit met, ends |
| database `db.py` | 20 tables | called by every thread | deletes and renumberings of several statements, each on its own; ids looked for and then taken | no row that refers to nothing, no id twice, one order per page |
| scheduler `scheduler.py` | remembered state of each rule's edge | thread every 30 s | clock windows across midnight, failed actuators, rules edited in their window | each window has its effect once and is undone |
| automations `automations.py` | queue, cooldowns, timed reverts | worker, webhook and request threads | queue full, overlapping runs of one device, restart before a revert | a device is put back, cooldown bounds the rate |
| alerts, events, weather `alerts.py`, `events.py`, `weather.py` | cooldown per category, last detector states, last river category | a thread per poller | switched off and on, two detectors at once, missed polls | one alert per edge, at most one per cooldown by the clock each detector read |
| go2rtc manager `streams.py` | child process, last written configuration | supervisor, request threads, lock | spawn failing after the configuration was stored, respawn after stop | go2rtc runs the current configuration, nothing runs after stop |
| shades `shades.py`, `shadepoll.py` | pending request, poll schedule, failure counts | poller thread, request threads, one multicast socket | late acknowledgements, bursts and back-off | an answer belongs to its request, every hub is polled in the end |
| accounts `auth.py`, `admin.py`, handlers in `main.py` | users, sessions | async handlers, command line tool | check and write in different statements, sessions across a password change | there is always an admin, a revoked session stays revoked |
| handlers and settings `main.py`, `appsettings.py`, `config.py` | rows and `config` attributes | request threads | read-modify-write of settings, partial failure | settings in force equal settings stored |
| playback and clips `playback.py`, `main.py:3866-4002` | clip files and rows | request threads | ffmpeg failing, same-second names | a clip row names a clip |
| devices `devices.py` | none | called by handlers, scheduler, automations | read-then-write toggle, the outcome written down after the call | the row tells what the relay does |
| probing, discovery, proxy, user interface | none that outlives a request (netscan keeps one scan job) | request threads | parsing and presentation | - |

How they interact: the handlers and the scheduler edit the camera table and call
`recording.sync()` or `restart()`; the supervisor calls `go2rtc.ensure_running()`
and then the same `sync()`; ffmpeg writes files the indexer turns into rows;
retention and the handlers delete both; the migration renames files and rows;
pollers raise events that the automations consume; both they and the scheduler
drive devices, shades and cameras.

## 2. The modules

| module | models | kind |
|---|---|---|
| `Recorder` | `CameraRecorder`, `RecordingService` without the indexer, the requests that call them | specification and properties |
| `MCRecorder` | an instance | two configurations |
| `Recorder_proofs` | theorems about `Recorder` | proofs |
| `Retention` | `RetentionService`, with the indexer, requests and disks around it | specification and properties |
| `Retention_proofs` | theorems about `Retention` | proofs |
| `MCRetention` | an instance | three configurations |
| `Footage` | indexer, migration, deletion of a row and of a camera, over the files of the pool | specification and properties |
| `Footage_proofs` | theorems about `Footage` | proofs |
| `MCFootage` | an instance | two configurations |
| `Scheduler` | `SchedulerService`, the requests that edit rules and targets | specification and properties |
| `MCScheduler` | an instance | two configurations |
| `Scheduler_proofs` | the window test against the calendar, cameras, relays and one-shot rules | proofs |
| `RateLimit` | what a cooldown promises, whoever asks | abstract specification |
| `Automations` | `automations.py`, `alerts.py`, `devices.py`, the requests that run, switch and edit | specification and properties |
| `MCAutomations` | an instance | one configuration |
| `Automations_proofs` | the alerts implement `RateLimit`, the page shows the relay, no revert is forgotten, types | proofs |
| `Registry` | `db.py` and every request that edits accounts and the house | specification and properties |
| `Registry_proofs` | theorems about `Registry`, any number of requests | proofs |
| `MCRegistry` | an instance | one configuration |
| `Shades` | `shades.py`, `shadepoll.py` and those who move the shades | specification and properties |
| `Shades_proofs` | a position is of its own motor | proofs |
| `Streams` | `streams.py` and those who call it | specification and properties |
| `Events` | `events.py` | specification and properties |
| `MCServices` | the three, one of them started, and an instance | composition, one configuration |
| `Services_proofs` | no change is forgotten by `Streams`, an event answers an edge, the types of the three | proofs |

### Recorder

State: `row` is the camera table cut down to what `sync()` reads; `reg` is the
dictionary `recorders`; `obj` the `CameraRecorder` objects by identity, with the
process each believes it has; `lost` counts processes whose handle was
overwritten; `volume` is what `choose_volume` would return. `pc`, `todo`, `want`,
`cam`, `cur`, `held` are the locals of each thread. `overlap` is history: two
threads were once inside the service together.

Every thread takes a step wherever the code can lose the processor for long: a
query, the `wait(timeout=10)` in `stop()`, the sleep of the back-off. Between
two such points a method is one action. `Sync(t)` is `sync()` (lines 362-402) in
its phases: `SyncBegin` the expired rows, `SyncExpire` the writes, `SyncRead` the
rows that want a recorder, `SyncDrop` the ones removed, `SyncChoose` the camera
and volume, `SyncKeep`/`SyncReplace`/`SyncAssign` the comparison and the
replacement. `CheckStart`, `CheckHealthy`, `CheckDied`, `BackoffOver` are
`check()`; `SupTick`, `SupFault`, `SupWait`, `SupExit` are the loop of
`_supervise`; `Restart`, `Shutdown`, `HaltStop`, `HaltEnd` are the calls of the
handlers and of the shutdown; `SetRecord`, `SetLive`, `SetStream` are the edits
that precede a `sync()`. `FfmpegExits`, `Elapse`, `PoolMoves` are the world.
Volumes pinned to a camera (`_volume_for`) follow the pool's choice.

### Retention

State: footage as unit segments `[cam, vol, ts]`; `files` on disk and `rows` in
the table are separate sets, `mounted` the volumes present, `locked` the
files that cannot be unlinked, `table` the camera
rows, `events` the markers, and `pass` the locals of a pass. A pass is modelled
query by query (`run_once`, lines 98-230): `NextCamera`, `Fetch` (one batch),
`HardCap`, `FindOrphans`, `NextOrphan`, `OrphanEvents`, `AlignEvents`,
`BeginQuota`, `QuotaFetch`, `QuotaMet`, `NextVolume`, `FloorFetch`, `FloorMet`,
`End`. Deleting a segment is two steps, `Unlink` (or `UnlinkFails`) and `DropRow`,
as in `_delete`. In between, the world goes on: `Tick` records, `Index` adds a row
for a file, `SetPolicy` and `DeleteCamera` edit, `Mount` takes a volume away or
back, `Refuse` makes a file one that cannot be unlinked until somebody changes that
(`Relent`), `Crash` ends the pass. Histories: `fresh` (rows that came since the pass
began), `failed` (refused), `cut` (cameras pruned for space), `torn` (unlinked at a
crash), `calm` and `steady` (nothing disturbed the pass, nobody edited).

### Footage

State: a path is a segment on a volume. `file` is its content: `none`, `empty`,
`open` (no moov atom: still written, or cut short), `good`. `age` is its age as the
indexer's clock reading sees it; a pass reads the clock once (line 468), so ages
move between passes only. `rows`, `cams`, `pool`, `primary` are the tables and the
settings. Four threads hold what they have read: `index`, `mig`, `prune`, `del`.

`IndexBegin` to `IndexNext` walk the snapshot of cameras, the volumes of the pool
and the files not known, with `Probe` giving ffprobe's three verdicts and
`IndexAborts` for an exception. `MigrateStart` is `start` and `_worklist`; a move is
a `Rename`, or `Copy`, `CopyMore`, `Copied`, `UnlinkSource` as `shutil.move` does it
across filesystems, and then `UpdatePath`. `PruneBegin`, `PruneUnlink`, `PruneRow`
delete one row as retention does. `DeleteBegin` to `DeleteSync` are the steps of
`api_delete_camera`. `SetPool` is `api_volumes_apply`. `Crash` may come anywhere; the
program and its ffmpegs stop and start again.

Histories: `done` (segments ffmpeg has completed), `doomed` (somebody asked to
delete them), `crossed` (two threads had the segment in hand at once, or one did
at a crash), `mistaken` (among those, the indexer removed a file it had condemned),
`spoiled` (among those, a partial copy was moved over the whole file).

`exists()` and the move, or `stat()` and the unlink of an empty file, are taken as
one step each: nothing between them waits.

### Scheduler

State: `now` is the server's clock, a day of the week and a minute. `table` is what
has become of each rule; an id is given out once, so a rule's row never changes
but for `enabled`. `cam` and `dev` are the columns of cameras and devices a rule
touches, together with the light and the relay themselves. `seen` is
`_light_state` and `_device_state`, `inside` is `_nv_inside` and `_cover_inside`;
`_record_state` is written and never read, and left out. `pass` holds the locals.

`PassBegin` is `run_once`: the clock and the enabled rules are read once. The five
kinds follow in the order of `apply`, target by target: `RecordRead` and
`RecordWrite`, `LightFlip` and `LightCall`, `Rise` and `NightCall`, `PowerRead` and
`PowerCall`, `Rise`, `CoverMove` and `CoverDone`. Between the first and the second
of each the code is on the network, and the clock goes on, rules are edited,
people use switches, the program restarts. A relay whose answer is late raises as one that
refuses does (`devices.py:40-47`), and may have obeyed (`Unanswered`). The loop sleeps 30 s and its calls
time out in seconds, so `Tick` waits until a pass has begun in the minute (`kept`).
Clock changes and summer time are not modelled. `sync()` after a record flag has
changed is `Recorder`'s.

Histories: `quiet` (nothing disturbed this pass), `refused` (a call of it failed),
`byhand` (switched by hand since the scheduler last did), `unheard` (relays that obeyed a
call nobody heard them answer, and have accepted none since), `served` (what has been
carried out in the present opening), `toggled` (rules that were disabled: their
edge memory outlives the opening, and they are the exception in `Served`).

### Automations

State: `rows`, `devices` are the tables, `relay` and `position` the hardware; `queue`,
`reverts`, `rested` (`_last_run`) and `alerted` (`AlertService._last`) what the program
remembers. Times are ages and countdowns that stop at a maximum, so no clock
bounds a behaviour. `th` has the locals of each detector, request and of the worker.

`Emit` reads the enabled rows once; `TestRow` and `Grant` are the two halves of the
unlocked `_cooldown_ok` with `enqueue` behind it; `ReadClock` reads the time before the
lock of the alerts, `Notify` tests and stores that reading under it, however old it is by
then (`MaxHeld` bounds how old), `Post` delivers. The worker's `Take`, `ReadRow`, `Aim`, `Call` or
`CallFails`, `Note`, `MoveCoverings`, `CallWebhook`, `Finish` run an automation action by
action, `TakeDue` takes the reverts out of the list before it acts on them.
`RunRequest` and `SwitchRequest` take the same steps on a request's thread.
`CallFails` lets the relay obey or not; a request looks for the device at another
address and tries once more. `PressButton`, `EditDevice`, `EditAutomation`, `Tick` and
`Restart` come at any moment.

Histories: `owed` (an automation switched it on for a time, and nothing else has
taken it over), `stray` (a button, a failed call, or two threads that switched it at
once), `missed` (a granted run that the queue or a restart dropped).

`RevertPending` says who answers for an `owed` device: a booked revert that turns it
off, a thread that has switched it and is about to book, or the worker, which has
taken the revert and still has it to do. `PutBack` says that it ends. `Keep` filters a
list by the places of what is kept, as the two comprehensions of `_apply_due_reverts` do.

`RateLimit` is the abstract specification of a cooldown: by the time at which each
asked, a key is let through once per `Cooldown`, and up to `Late` after it asked.
`AlertsLimited` says `Automations` implements it, with `alerted` as the ages and the
detectors that are posting as those let through. It is what the lock gives and no more:
`alerts.py:131` reads the clock before the lock, so by the clock on the wall two alerts
may be closer than the cooldown, by as long as the first waited for the lock. The automations' own
cooldown does not: two detectors can both pass the test before either sets it.

### Registry

A request is data: the list of its statements. A handler is an operator that
builds that list from `Auth`, `Need`, `Await`, `Put`, `Set`, `Place`, `Del`, `Null` and so on, in
the order of the code; methods of `Database` that several handlers call are lists
they share (`DbDeleteCamera`, `DbDeleteRoom`...). An interpreter runs them: `Check` (a
test that refuses the request), `Choose` (a free id, the motors already known),
`Resume` (an await is over), `Insert`, `Update`, `UpdateAll`, `Delete`, each one statement and
so one transaction. Coroutines hold `loop` from one await to the next; handlers in
threads and the command line do not. `Crash` drops what every request has left. The
only foreign key of the schema, from sessions to users, cascades; the other references
are the program's own duty. `Refs` are the twelve columns its deletes clear or take
along; the owner of a calendar, whoever made an event or a task, and the camera of a
detection or of a clip are columns they leave as they are.

Histories: `late` (rows written when what they name was going or gone, and rows
half-deleted at a crash), `stale` (the request's view of the accounts has been
overtaken), `clash` (an id that was taken when it was inserted, and whether the request
was overtaken). Requests come in pairs of the same part of the house (`Parts`), because
two that share no table commute. Columns that no property reads are not kept.

### Shades

State: `net` is the wire, which loses packets and holds them for any time; `lock` is
the transport's; `row` the stored position and error; `watched`, `failures`, `resting` the
poller's dictionaries; `thread` what each thread is doing; `motor`, `goal` the world.
`Request` drains the buffer and sends under the lock; what arrives while nobody
waits is drained (`Drain`). `Receive` takes an answer of the same type and motor as
the request (`Matches`), ignores others; `Timeout` may come although the answer is
on its way. `CommandCovering`, `CommandGroup`, `MoveCovering` (a rule's), `PollCovering`,
`RefreshHub`, `Discover` begin; `NextCovering`, `Remember`, `NoteFailure`, `Watch`, `Finish` carry on, for
requests and poller alike. The answers of the `Silent` motors carry no position, and
`Remember` then leaves the stored one. `Rehome` is the second try of a refresh, at the
address where the bridge's MAC was found; addresses themselves are not kept. `RunBursts` and `PollAll` are the poller's loop, where the
clock is a choice: which bursts are due, whether the hour is over. A rest is
counted in two steps, `Rested` and `Skip`, as the code reads and then writes it. The
token of the bridge is a write that is refused. History: `past`, where each motor
was or was sent to.

### Streams

State: `table` is the camera table, outside the lock; `file`, `lastConfig` the
configuration written and remembered; `process` go2rtc with the configuration it
booted with and whether its grace is over; `holder` the lock. `EditCamera` stands for
every handler that edits a camera and then reloads. Under the lock: `BuildConfig`,
`WriteConfig`, `StopLocked`, `Spawn` (which may fail), and `EnsureRunning`, the supervisor's
check. `Boot` reads the file, or comes up `hollow`, without its ports; `Die` and
`GraceEnds` are the world. `WaitReady`, `Supervise`, `Shutdown` are the lifespan.
`NothingStale` is the safety half of `ServesTable`: whenever the file does not tell the
table, or go2rtc serves something else than the file, a request still answers for it.

### Events

State: `alarm` is what cameras detect, `detect` the settings, `eye` the poller's
thread, `seen` the last answer, `raised` the events. `Apply` is the settings' change and
`start` or `stop`; `Loop` reads the settings for a pass; `ReadStates` or `Unreachable` is one
camera's answer; `PollCamera` compares it with the last one. History: `edges`.

## 3. The runs

| run | shows | bounds | size |
|---|---|---|---|
| `recorder` | `OneFfmpegAlone`, `NoOrphanAlone`, `CleanShutdownAlone`, `Settles` hold | 1 camera, 2 streams, 2 volumes, supervisor and 1 request thread, 5 recorder identities, 2 edits, 1 death, 1 exception, back-off to 2 | 160 s |
| `recorder_one_ffmpeg` | `OneFfmpegPerCamera` is violated | the same | seconds |
| `retention` | `TypeOK`, `WithinLimits`, `OnlyOverLimit`, `OldestFirst`, `HonestTimeline`, `MarkersAlignedUncut`, `PassEndsUnrefused` hold | 1 camera, 2 volumes, 3 instants, batches of 2, 1 upset, 1 marker, every possible footage at start | 1.5 M states, 180 s |
| `retention_absent_volume` | `AbsentVolumeSkipped` is violated | the same | seconds |
| `retention_refused` | `PassEnds` is violated | the same | 70 s |
| `footage` | `TypeOK`, `Survives`, `Playable`, `Consolidates`, `Indexed` hold | 1 camera, 1 segment, 2 volumes, 3 edits, 1 fault | 264 k states, 60 s |
| `footage_switches` | `SurvivesSwitches` is violated | 1 camera, 1 segment, 2 volumes, 5 edits, 2 faults, nobody deletes (`SwitchSpec`) | seconds |
| `scheduler` | `WindowsMatch`, `RecordsAsScheduled`, `RelaysAsScheduled`, `OncePerOpening`, `Served` hold | a week of 2 days of 3 minutes, 1 camera, 1 device, 2 shades, 6 rules, 2 edits, 1 failed call | 216 k states, 165 s |
| `scheduler_light` | `LightsAsScheduled` is violated | no edit | seconds |
| `automations` | `TypeOK`, `RowTellsRelay`, `RevertPending`, `AlertsLimited`, `PutBack`, `Answered` hold | 2 automations, 1 relay, 1 shade, 2 detectors, 1 request thread, 2 events, 1 other disturbance, queue of 1, one tick of waiting for the lock | 403 k states, 195 s |
| `household` | `TypeOK`, `AdminKept`, `SessionsRevoked`, `NoOrphans`, `NoConflict`, `OneOrder` hold | every pair of requests of one part of the house, on an empty database, a furnished one and one whose calendar was never opened, 1 crash | 141 k states, 30 s |
| `services` | `TypeOK`, `OwnMotor`, `NothingStale`, `OneEventPerEdge`, `PositionSettles`, `ServesTable` hold | 2 motors, one of them silent, 1 client, 2 disturbances; 1 camera of 4 rows, 2 editors, 3 edits, 2 mishaps; 1 smart camera, 2 kinds, 2 edges, 2 changes | 138 k states, 40 s |

Why these bounds are enough to be interesting. *Recorder*: the unlocked races
need one camera and two threads; two edits let a request change its mind while
the first is being carried out; five identities allow a replaced recorder, its
replacement, and both again for the other thread (the proofs cover any number).
*Retention*: three instants and two volumes give every order of old and new, near
and far, a camera over its cap and one not, a batch that is full and one that is
short; one upset is one file that cannot be unlinked, for as long as it pleases, or one
edit, mount or crash at any point of the pass. *Footage*: the threads meet over a single segment, and each can act on it
twice within three edits; two volumes are what a migration needs. *Scheduler*:
three minutes are before, inside and after; two days are enough for a window that
runs into a day without the rule and over the end of the week; two rules share a
relay, one across midnight; two shades can be moved on either side of an edit. The
kinds of rule share no memory, so a behaviour has the rules of one kind.
*Automations*: two detectors and two events are what it takes to race for a
cooldown; two automations share the relay and a queue of one is soon full; one
other disturbance is a request, a button, an edit, a failure or a restart at any
point. *Household*: a race needs two requests; the pair covers every handler
against every other of its part, the crash falls between any two statements.
*Services*: a late answer about one motor can meet a request for the other, and
two disturbances are a loss and a late answer, or a move and a failure; two
editors can wait for the lock while the supervisor restarts a process that died
or a spawn fails; two kinds can be taken out of the settings one at a time.
A disturbance is anything the outside does, a request included.

Deadlock is not checked where the program may stop: after a shutdown
(`recorder`, `services`), when the bounded clock runs out (`retention`), when every
request is served (`household`). It is checked in `footage`, `scheduler`, `automations`.

### Fairness

*Recorder*: a thread inside the service goes on (a terminated ffmpeg is killed
after ten seconds, the back-off sleeps thirty at most), and the supervisor's
loop comes round. Nothing obliges a request to arrive or an ffmpeg to die.
*Retention*: a pass goes on once begun. Nothing obliges it to begin, or a refused file
to relent.
*Footage*: the indexer goes on and comes round, weakly fair. A file left alone
gets older, strongly fair: `GrowOld` is possible between two passes only, and the
5 s between them exceed QUIET_SECONDS, so no file can be missed for ever. The
migration, the deletes and ffmpeg owe nothing. *Scheduler*: the loop comes round
and each call returns, because every call has a timeout and every exception is
caught. The clock may stand still, people may do nothing.
*Automations*: some thread that can run does (calls time out), and time passes.
*Shades*: motors arrive, the bridge answers what reaches it (a loss is a
disturbance, of which there are finitely many), threads go on, the poller's loop
comes round. `PollAll` is strongly fair: the hour is over again and again, and the
loop is never in a state for good in which it could not begin the pass.
*Streams*: go2rtc boots within its grace, the grace ends, threads go on. A request
gets the lock in the end (strongly fair): the supervisor leaves it alone for five
seconds between two checks. *Events* and *Registry* state no liveness.

### What the violations say

* `OneFfmpegPerCamera` (`recorder.py:3`). The supervisor walks a list of recorders
  while a request pops and stops one; `check()` finds no process and starts it
  again. Nothing refers to that ffmpeg afterwards.
* `AbsentVolumeSkipped` (`config.py:89-90`). Age limits and the quota take the rows of a
  volume that is not mounted out of the index: the unlink of an absent path
  succeeds. The files stay, outside every limit.
* `PassEnds` (`retention.py:25-26`). A file that cannot be unlinked keeps its row, and the
  loops of the quota and the floor ask again as long as there are rows: when only such
  rows are left over a limit, the pass spins and no other begins. `PassEndsUnrefused` is
  what holds: a pass ends if no file is refused for good.
* `SurvivesSwitches` (`storage_migrate.py:11`). A migration is killed between its copy
  and its unlink, and the indexer adds a second row for the copy. The next one
  copies over that file again, from the first row, and is killed half-way. The
  storage is switched back, and a third moves the partial file over the whole one.
* `LightsAsScheduled` (`scheduler.py:12`). The state of a light is remembered before
  the camera is called, so a call that fails is never made again. The relays were
  written the other way round, for this reason, and `RelaysAsScheduled` holds.

Other disagreements met while modelling, without a run of their own:

* A file of size 0 is removed after three seconds of quiet, whether or not an ffmpeg has
  it open (`recorder.py:493`); the comment at line 40 calls indexing an open file
  self-correcting. The step is in `Footage`; `Survives` is about completed footage.
* A relay that obeys a call and is not heard is to be asked again. When its window closes
  first, what was remembered before the call is what is wanted after it, and
  `_apply_device_power` passes it over (`scheduler.py:236`): it stays on until the next
  window closes, against "asserted off outside its windows" (219-221).
  `RelaysAsScheduled` leaves out just these relays (`unheard`).
* `storage_migrate.py:14` says a file pruned mid-move "is counted skipped, not
  failed". If it goes between `exists()` and the move, `MoveFindsNothing`, it is
  counted failed. If it goes after the copy, too (`Copied`, `UnlinkSource`).
* The indexer condemns contents and then removes a path. If a migration is
  retried in between, over its own partial copy, the whole file is what is
  removed. `Survives` holds except for `mistaken`, which is exactly this, and for
  `spoiled`, which is the partial copy of `SurvivesSwitches`.
* `retention.py:145` aligns the markers before the steps that prune for space, so a
  marker can outlive its footage until the next pass, five minutes later. "Markers
  must not outlive the footage" holds of the other cameras: `MarkersAlignedUncut`.
* A crash between a move and its path update, or an indexer that finds the file
  first, leaves a row for a file that is gone. Nothing removes it until its age
  does: `Playable` holds except for `crossed` segments.
* A purge looks at the volumes of the pool as it is now: footage on a volume taken
  out of it stays.
* `retention.py:25` calls BATCH "Deleted per pass. Bounded"; the loops go on until
  nothing is left (`PassEnds`). `db.py:59` calls footage within `rolling_keep` "protected from
  space-based pruning"; the quota does not ask.

Accounts and the house:

* A password an admin sets for somebody (`api_update_user`) signs nobody out; the
  command line's does. `SessionsRevoked` excepts it.
* The command that deletes a user leaves tasks assigned to nobody that exists,
  and, run beside the server, can remove the only admin: `AdminKept` and `NoOrphans`
  except it.
* `_ensure_shared_calendar` calls itself idempotent, but runs in threads too: two
  first visits at once insert twice, and one gets an error; the first task list is seeded
  the same way. `NoConflict` excepts the one id "family", the lists, and an account of a
  name that a thread has taken since it was looked for.
* The id of the seeded calendar is fixed, "family". As long as no calendar is shared, a
  private one named Family is given that id (`main.py:1567`); the insert at 1491 then fails
  on every visit, and there is no shared calendar, against `db.py:171-172`.
* `main.py:1528-1529` says an admin can still delete somebody's private calendar;
  `api_delete_calendar` (1603-1606) lets only its owner, and `delete_user` leaves the
  calendars of a user who is gone. `Refs` is the columns the deletes undertake to clear,
  which the owner of a calendar is not.
* A motor that has moved to another bridge makes refreshing either one fail: its id
  is the primary key and the code looks among the bridge's own motors.
* An order names the rows its browser shows and ranks them from 0. One sent from a page
  older than a row that another has since moved up leaves the two with one rank
  (`api_room_order` and its like). `OneOrder` leaves such pairs of rows out.
* Labelling a device before the first scan makes the table non-empty, so the first
  scan is no baseline. `api_update_calendar_event` writes a row it read before its
  await: of two edits at once one is lost.

Services:

* `automations.py:330`: a revert is the opposite of what was asked, not what was there.
  A relay that was on already and is switched "on for five minutes" goes off.
* `shades.py:236-239` says late acknowledgements cannot poison a later read. One of
  the same type for the same motor can: the position is that motor's, of a moment
  ago, until the next poll; a write's late answer passes for a new write's.
* `_rested` reads and then writes, so a `watch` between the two is forgotten; the
  motor is polled a rest later.
* `events.py:63`: switched off and on before its thread has seen the flag, the poller
  is found running, and then stops. It stays off until the settings change again.
* The supervisor can respawn go2rtc after `stop()`, when it was waiting for the lock.
  `systemd/sentry-nvr.service:18` kills the whole control group.
* A settings change refreshes the weather beside its thread: one crossing of a river
  can be alerted twice.

## 4. What is proved

TLAPS checks eight modules of proofs. Each theorem is about a specification TLC
runs, or about the component of `MCServices` it names, for all values of the
constants: any number of cameras, files, volumes, threads, rules, requests, edits
and faults. Every safety property of the passing runs, the type invariants included,
is the subject of a theorem. So are the type invariants of `Recorder` and `Scheduler`,
which no run repeats: they are types and nothing else.

| module | obligations | theorems |
|---|---|---|
| `Recorder_proofs` | 1362 | `Types`, `Inductive`, `OneFfmpeg`, `NoOrphan`, `CleanShutdown` |
| `Retention_proofs` | 3228 | `TypeInvariant`, `TimelineIsHonest`, `OldestGoFirst`, `DeletesOnlyOverLimit`, `LimitsAreMet`, `MarkersFollowFootage` |
| `Footage_proofs` | 3008 | `TypeInvariant`, `RowsPlay`, `FootageSurvives`, `MigrationConsolidates` |
| `Scheduler_proofs` | 1563 | `WindowsAreRight`, `TypeInvariant`, `CamerasFollowRules`, `RelaysFollowRules`, `EachOnce` |
| `Automations_proofs` | 2446 | `Limited`, `ShownIsTrue`, `TypeCorrect`, `NothingForgotten` |
| `Registry_proofs` | 8431 | `TypeInvariant`, `AdminsKept`, `SessionsAreRevoked`, `NamesExist`, `NoConflicts`, `RowsKeepOrder` |
| `Shades_proofs` | 980 | `TypeInvariant`, `OwnMotorShown` |
| `Services_proofs` | 993 | `NothingIsStale`, `Edges`, `ServicesTypes` |

`PROJECT.json` says which property each of them states. None of these properties is
inductive, so each section below says what had to be added and why.

### Recorder

`OneFfmpegAlone` says nothing of a recorder that is not running and about to be
started, of one held in a thread's local, or of the entry a thread is about to
overwrite. The strengthening is

    IInv == TypeInv /\ (~overlap => AloneInv)

`TypeInv` adds to the types which locals mean something at which label.
`AloneInv` is the conjunction of nine facts, named for what they say: `OneBusy`
(one thread at most inside), `Named` (an entry is its own camera's recorder),
`Reachable` (whatever runs is registered or awaited), `Awaited` (what is awaited is
being stopped), `Replaced` (an entry about to be overwritten has no process),
`Listed` (what the supervisor has still to check is registered), `Halting` (what
stop() has yet to stop is all there is), `Ripe` (the rows about to be cleared are
past), `Unlost` (no handle was overwritten). `overlap` never becomes false again,
so the second conjunct is proved only for steps that leave it false.

The proof has one lemma per obligation: `TypeInit`, `TypeStep` (one step per
action), `IInvInit`, `AloneStep` (one step per action, and under it one per
conjunct the action can disturb), `OverlapStays`, and `IInvStep` which joins them.
`OneRunning` draws the cardinality from `Reachable` and `Named`. The assumption
`~overlap` is the honest one: the violation shows the property false without it.

### Retention

`Shape` types the pass and says of each stage which locals are set, and that footage
is of the past. On it stand three invariants, for three kinds of theorem.

* At any time: `Honest`, a row without its file is the one in hand or was at a crash,
  for `TimelineIsHonest`; `InOrder`, what a batch leaves out is no older than what is
  in it, was refused or is new, for `OldestGoFirst`.
* While nobody edits: `Unedited`, four facts that say the limits the pass works from
  are those in force and its running total is not behind the table, for
  `DeletesOnlyOverLimit` and the last part of `TypeInvariant`.
* While nothing at all disturbs the pass: `Undisturbed`, what it has achieved so far.
  The cameras it has been to are within their limits (`Visited`), then all of them
  (`AllWithin`), then the quota (`QuotaKept`) and the floors (`FloorsKept`), each kept
  by the stages after it. `LimitsAreMet` is this at the end.

`Aligned` says that a camera whose markers were aligned still has a segment as old
as each, has none, or was cut, for `MarkersFollowFootage`. Sizes are sums over sets of
segments and rest on lemmas of cardinality. One sum is a fold over the volumes, and
its type is an induction over data: it is the assumption `MaxBytes(V) \in Nat`,
which TLC evaluates. The others are hygiene of `None`, finite sets of cameras
and volumes, and a clock that can tick.

### Footage

The invariants come in layers, each proved from those below it.

1. `Shape`: types, what each stage of a thread holds, and that an id names one
   segment for good, in the table and in every thread (`Ids`).
2. `Met`: what two threads have in hand is `crossed`.
3. `Fresh`, `Completed`: ffmpeg writes what is not `done`, everybody else handles what is.
4. `Condemned`: what the indexer is about to remove does not play, unless it is crossed.
5. `Settled`: a calm segment, one not crossed, has at most one row and one whole
   file, and the row names the file unless a thread has it in hand. `WholeAt` says
   where it is whole at each step of a move. This gives `RowsPlay`.
6. `KeptWhole` and `Copying`: a completed segment nobody asked to delete is whole
   somewhere, and a source is unlinked when it is whole elsewhere. This gives
   `FootageSurvives`, and needs the layers above for the calm segments and the
   histories `mistaken` and `spoiled` for the crossed ones.
7. `Worked`: a row the migration listed is on its list, in its hand or moved, until a
   move fails. This gives `MigrationConsolidates`.

The attempt at 6 is what found `spoiled`: the invariant did not go through for a
damaged copy that has a row, and TLC found how one comes about
(`footage_switches`). One segment and three edits had been too few to meet it.

### Scheduler

`WindowsAreRight`. `in_window` asks three questions of a day and two times; `Covers` says
what a window is: it begins on each of the rule's days and lasts until the clock
next shows its end. The argument is arithmetic: a window is shorter than a day
(`Length`), so a moment inside it is on the day it began or the next (`Moment`), a
minute of the week names one day and one minute (`Unique`), and the day before is the
one whose next is today (`NextDay`). `Window` joins them, and the invariant needed is
only that the clock shows a time of the week (`OnTime`).

`CamerasFollowRules` and `RelaysFollowRules`: as long as a pass is quiet, what it read is
still so (`Reads`), and the targets it has gone over are as their rules want
(`RecordDone`, `RelayDone`). For relays the pass looks at what it remembers, so `Told`
ties that to the relay: whoever is not switched by hand, and was heard when he last
obeyed, is as he was last told.
`EachOnce` follows from `Once`: what was carried out in an opening is remembered.

`SchedulerAssumption` says that `None` is no answer and that no camera is a
device: the two dictionaries of the code are one function here.

### Automations

`Limited`, `Spec => AlertsLimited`: the whole of `Automations`, with its worker, requests,
edits, failures and restarts, implements `RateLimit`. Assumed is that the
detectors are finitely many and not among the other threads. `AlertInv` types
what the mapping looks at: the ages, and each detector's place, event and reading of the
clock. Most steps leave both alone (`Quiet`) and stutter. `NotifyPasses` and `PostDone` are the two
that count, one detector more or fewer in `Posting`; `TickElapses` and `RestartRests` map
to `Elapse` and `Restart`.

`ShownIsTrue`, `Spec => []RowTellsRelay`: between a relay's answer and the write of its row
stands one thread at most, whose answer is what the relay does, or the device is
`stray`. `ShownInv` is that, for each device (`Shown`), with what each thread's place says of
its locals (`Plain`).

`TypeCorrect`, `Spec => []TypeOK`: `AllFit` adds what each thread's list holds. A list that a
run goes through was stored by a request, so its times are within `MaxSeconds`; one
without an automation (a request's switch, the reverts of the worker) has no times;
who is at a call or after it has a device at the head of its list. The bookings and
the queue are as good as the lists they come from. `AutomationsAssumption` says that
the table of the start holds what requests may store, that the bounds are numbers,
and that `None` is no automation.

`NothingForgotten`, `Spec => []RevertPending`: inductive once `AllFit` is there. The steps that
hand a revert over are `Call` (a thread that switched owes the booking), `Note` (it
books), `TakeDue` (the worker takes what is due and leaves the rest) and the worker's
steps through its list, where the device at the head stops being owed when it is
switched, fails or is skipped. `TakeDue` and `Emit` filter a list; `KeepKeeps` says that what
is kept is there, all of it and nothing else, because ranks are distinct (`Ranks`,
which counts: no induction over data is needed).

### Registry

`household` checks pairs of requests; the theorems hold for any number at once. A
request is a list of statements, so the proof has two halves.

*The laws.* `Lawful` says what a list may hold and in which order: an id of its own
is used once, a name looked for is taken by the next statement, a role is written
right after the admins were counted, a password right before the sign-out, what is
deleted was announced and everything that names it is cleared in the same list.
Each law is closed under taking a statement off the front, so it is an invariant of
what is left (`Shaped`). Every handler is shown to obey them: one `Good` lemma for each
part of the house, one step for each handler.

*The rows.* `RegistryInv` says what a request with such a list ahead of it makes true:
`Held` of the event loop, `Kept` and `Named` of tables and columns, `Counted` of the
admins, `Fresh` and `Chosen` of the names about to be taken, `Wired` of the motors of a
hub, `Signed` and `Owned` of the sessions, `Cleared` and `Announced` of the rows that name
what is going or gone. Each is proved statement by statement, and for a crash.

*The names.* Two requests may want the same id of an account or of a calendar, which are
looked for in one statement and inserted in the next. `LawfulNames` says that the look is
the statement before, and that a thread inserts no calendar but the seeded one;
`Claimed` says that the name is still free when its row is inserted, unless the request
has been overtaken (an account) or the name is "family". `NameInv` is this and
`NoConflict`; for the other tables `Chosen` of `RegistryInv` is enough.

*The order of a page.* `OneOrder` is about rest, and while a browser's order is being
written two rows may well share a rank. `Sorted` says instead that no two rows may *end*
with one rank: a row that the coroutine in the middle of an order has still to place
ends where that one puts it, any other where it is (`MayEnd`). It is kept because
`LawfulPlaces` holds of what is left: the statements that place rows are the last of
their list, of a coroutine, with no await between them, each with a rank of its own, and
name all the rows the browser was shown. So at most one request places rows
(`OnePlacer`), nothing else is ranked until it is done, and two rows that the order shows
both of are both placed by it. A row that is added takes the rank after the last, which
needs the rows of a page to be finitely many and numbered (`Numbered`). `OrderInv` is
the three together, on top of `RegistryInv`.

`RegistryAssumption`: motors belong to one hub, listings name nothing twice, a camera's
place in an order says whether it is a view, and a start database is in order
(`InOrder`): every row names what is there, as the program leaves it at rest, and the rows
of each page are numbered with no number twice, as the migrations (`db.py:436-469`) and the
inserts leave them. A database in which an order from an old page, or a crash, has already
given two rows one rank is no start of this model.

### Shades

`Inv` follows a position from the motor to the table: what a packet on the wire says of
its motor (`Wired`), what a thread has in hand (`Threaded`), what is in the row (`Tabled`).
All are against `past`, which only grows, so a late answer stays honest. `Locked` says
that the one thread that waits has the transport. `Counting` is for the types: a motor
at the limit of its failures is the one the poller is about to put to rest.

### Streams

`NothingStale` needs to know more of an editor in the middle of a reload. What it has
rendered tells the table, or somebody has edited the table since and has still to
reload (`Rendered`): so the last to write tells the table. One thread at a time is in
the midst of an operation (`Exclusive`), so what one renders and writes, another cannot
restart in between. At the start and at the stop nobody edits, and there is no process
before the first spawn (`Phases`); the file and the remembered configuration are one
(`Texts`). `Counted` is for the types: when the failures are at the threshold, the
supervisor is about to end the process or it is gone. `StreamsInv` is all of this, one
lemma per action; `Moves`, `Holds` and `LetsGo` are what the actions share. A lock let go
between the rendering and the write (`BuildConfigUnlocked`) breaks it.

`StreamsAssumption` says that threads are distinct and that `Absent` is none of them.

### Events

`OneEventPerEdge` does not say which edges still have an event to come. `Owed`
does: an alarm that is on and was off in the last answer, an answer in hand that
has it on, and an answer in hand that has it off although it is on by now. While
an event is owed, `raised` is strictly below `edges` (`Balance`).

### The services together

`ServicesTypes`, `FairSpec => []TypeOK`: a step of `MCServices` is a step of one service and a
stutter of the others, so the conjunction of `Inv`, `StreamsInv`, `EventsInv` and `Bounded`
(the counts and the flag of the poller of events) is inductive.

### Model-checked only

* `Settles`, `PassEndsUnrefused`, `Indexed`, `Served`, `PutBack`, `Answered`, `PositionSettles`, `ServesTable`:
  liveness under fairness is outside the prover.
* The five violations: each shows a claim false, so there is nothing to prove.

## 5. Not modelled, and why

* Text, parsing and presentation: configuration rendering, ffprobe's and the
  cameras' formats, templates and JavaScript. Sequential, and tested.
* The names of segments: in `Footage` each segment has a name of
  its own. Names are local time to the second (`recorder.py:110`), so the hour that
  repeats when summer time ends writes over the files of the hour before.
* In `Retention`: `estimate()`, which only reads, and the removal of empty folders.
* Weather (one thread and two feeds, its edge like that of `Events`); settings and
  configuration (parsing, and one uninterrupted step of the loop); playback and
  clips (ffmpeg's output); probing, discovery, proxy and user interface (no state
  that outlives a request).
* In `Automations`: counters for the page. In `Registry`: sessions that expire, the rate
  of logins, hashes, the migrations of the schema, clips. In `Shades`: the cipher, sockets,
  addresses, battery and signal, and a restart, which forgets bursts and rests. In `Streams`:
  status and snapshots, which only read. In `Events`: the cameras' own sessions.
* Each component's status and reason are in `PROJECT.json`.

## 6. Plan

All the modules planned are written, the twelve runs are the questions this asks, and
the safety properties they check are proved. What is left, in the order of what it
would say about the program:

1. `Recorder`: what two threads inside at once cannot do. `NoOrphanAlone` and
   `OneFfmpegAlone` say nothing of an overlap; a bound on `lost` by the overlaps would.
2. `Streams`: what stays running after a shutdown, once the code says what it wants there.
