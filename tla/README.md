# Universal Download Manager in TLA+

A specification of the download daemon (`src/daemon`), of the way downloads come
to it from the browser (`src/extension`, `src/ui`), checked with TLC and, but for
what needs fairness, proved with TLAPS. `PROJECT.json` maps every definition to
the lines it stands for and lists the hazards that the properties are for.

## 1. The system

A daemon (Rust, tokio) downloads files for a desktop UI (React/Tauri) and a
browser extension. Both talk to it over one WebSocket protocol on localhost; the
extension hands it the downloads it intercepts, the UI shows and controls them.

| part | state it keeps | operations | talks to |
|---|---|---|---|
| Scheduler `queue/scheduler.rs` | heap `pending`, set `running`, `max`, `seq` | `Enqueue`, `SlotFreed`, `SetMaxConcurrent`, `SetPriority`, `RemovePending`, `dispatch` | receives an unbounded channel; calls `bridge::start_download` |
| Bridge `bridge.rs` | the loop of each spawned run: its copy of the job, `attempt`, its token | start, retry with backoff, `pause`, `cancel`, `remove`, the event consumer | engine (call), scheduler (`SlotFreed`), database, `active`, `cancelling` |
| Engine `engine/src/*` | tasks of the segments, counters, ticker, part files | probe, multi-segment or single stream, assembly, finalisation | the network, the disk, events to the consumer |
| Handlers `server/websocket.rs` | one loop per connection | Add, Pause, Resume, Retry, Cancel, Remove, SetPriority, UpdateSettings, SetBandwidth, GetAllJobs, GetSettings, prompts | scheduler channel, bridge, database, broadcast |
| Process `main.rs`, `state.rs` | `AppState`: maps `active` and `cancelling`, channels, limiter | start | everything |
| Storage `storage/src/*` | tables `jobs`, `settings` | insert, status, progress, priority, delete | called under one lock |
| Limiter `throttle.rs` | rate, tokens, last refill | `consume`, `set_rate` | transfers, SetBandwidth |
| Save paths `websocket.rs`, `file_manager.rs` | `save_path` of the rows, the files | choose a free name, finalise, delete parts | disk, database |
| Schedule window, categorisation, validation, authentication | none | pure functions | handlers, scheduler |
| UI `src/ui` | a store of jobs, fed by broadcasts; an outbox per window | a button per status, prompts, settings | handlers |
| Shell `src/ui/src-tauri` | the sidecar daemon, the stash of intents | start, stash and take an intent, hide, quit | windows, daemon |
| Extension `src/extension` | its connection | intercept, cancel the browser's download, send a prompt | handlers, browser |

What is hard here:

- **Interleaving.** The scheduler, the consumer, every run and every connection
  are tasks of their own. They share two maps (each under its own lock, never
  held together), the database (one lock, released between steps of one
  handler) and two unbounded channels. Requests change what the scheduler will
  only learn later.
- **Identity.** `active`, `cancelling`, `running` and `SlotFreed` are keyed by
  job and not by run, so two runs of one job can be taken for one another.
- **Stale copies.** Commands carry copies of rows, runs keep their own copy
  through a retry, and the plan of segments is persisted by another task.
- **Failure.** Every await of the engine can fail; a failed attempt is retried
  up to three times; the process may die between any two steps, and only the
  database and the part files survive.
- **Hand-over.** A download passes from the browser through the worker, the
  daemon, the main window, the shell and a popup back to the daemon, over three
  sockets; nobody acknowledges anything, and each of them may be gone.
- **Names.** A path is chosen once, by what the disk and the rows say then, and
  used until the job is removed; deletions of parts run after the lock.
- **Waiting.** Headers are awaited without the cancellation token and without a
  timeout; a body may take forever.

What makes each part correct: the *scheduler* keeps to its limit, wastes and
leaks no slot, and serves its order; the *bridge* settles each run with exactly
one outcome and gives its slot back; the *consumer* never revives what was
removed or ended; the *handlers* leave nothing queued or active that nobody
works on; the *engine* completes with exactly the bytes of the resource and
keeps, across pause, error and crash, those it has; the *restart* takes up what
was interrupted; a *path* belongs to one download; the *limiter* bounds the sum
of all transfers and the sleep of each; the *hand-over* loses no download that
the browser gave up.

## 2. Modules

| module | models | built on |
|---|---|---|
| `SchedulerTask` | the scheduler's task: its channel, its state, one action per command and per turn of `dispatch()` | |
| `Scheduler` | the task closed by an abstract environment: clients that send anything, runs that end | `SchedulerTask` |
| `RunTask` | what `start_download` spawns: the retry loop, the engine's control flow, the ticker, the events | `SchedulerTask` |
| `Daemon` | all of it: scheduler, runs, consumer, handlers, database, restart; refines `Scheduler` | `RunTask` |
| `Chunker` | `calculate_segments` and `split_ranges` | |
| `Engine` | the bytes of one download over its attempts, to assembly | `Chunker` |
| `UiSync` | rows and settings of the database, the broadcast channel, connections, the stores of the UIs | |
| `SavePaths` | the names of downloads and the files under them: choice, parts, finalisation, deletion | |
| `TokenBucket` | the bandwidth limiter and the transfers that sleep in it | |
| `Intercept` | a download on its way from the browser to the jobs table | |
| `ScheduleWindow` | `is_within`, its reference and its theorems | |
| `SchedulerProofs`, `DaemonProofs`, `UiSyncProofs`, `SavePathsProofs`, `TokenBucketProofs`, `InterceptProofs` | the theorems about the module of that name | |
| `EngineProofs` | the theorems about `Chunker` and `Engine` | |
| `MCScheduler`, `MCDaemon`, `MCEngine`, `MCUiSync`, `MCSavePaths`, `MCTokenBucket`, `MCIntercept` | the instances for TLC | |

**SchedulerTask / Scheduler.** `pending` is the heap as the set of its entries,
`IsTop` the entry `BinaryHeap::pop` returns: highest priority first, then lowest
`seq`. `loop` tells `rx.recv()` from the inside of `dispatch()`, whose turns are
single actions because handlers and runs act between them. The schedule window
is always `None` in the code, hence `ScheduleOk == TRUE`. In `Scheduler`, `runs`
counts, for each job, the runs that still owe a `SlotFreed`. Nothing keeps clients
from queueing a job that is queued or running already, and the UI does it (see
`LiveRunListed` below). The auxiliary `doubled` remembers the jobs to which that
has happened since the process started; what is true of the others is stated of
the others.

**RunTask.** A run is a record in `run[r]`; its `phase` is the await it is at.
`active[j]` is the run whose token is listed for the job. `files` says which
kinds of part files exist. The segments of a transfer are one transfer here,
because `multi_segment` joins all of them before it looks at any outcome; module
`Engine` has them apart. An error of any kind may be retried, up to `MaxTries`
times, because `is_transient` looks for words in the whole chain of an error,
paths and URLs included. `Strays` selects the tickers that outlive their
transfer: `"late"`, a tick that another worker thread was sending when `abort()`
was called; `"leaked"`, a ticker that is never aborted because
`ensure_parent_dir(..).await?` returns first.

**Daemon.** One action is what a task does between two points where another
task can see or change what it uses. `handler[c]` is what a connection still
owes: a command after an insert, or the steps of `cancel` and `remove`, which
take a lock for each of check, mark, signal, row and files. `db[j]` is a row's
status, priority and plan (whether it lists segments). `Restart` empties what is
not on disk, and like `Init` takes the limit from `UDM_MAX_CONCURRENT` (`override`)
where that is set, whatever the table says. Four auxiliary variables remember
what the properties except: `stale`, the rows that a stray tick or an earlier
process wrote last; `crossed`, the jobs that one connection queued while another
was withdrawing them; `chosen` and `contested`, the limit saved last and whether
another was on its way then. `Offered` is the table of buttons in `DownloadItem.tsx`; with
`UiOnly = FALSE` clients send any message about a job they know. `RunsOf`, the
number of busy runs of each job, is the refinement mapping to `Scheduler`.

**Engine.** A byte is its offset. `disk[f]` is what a part file holds, number 0
being the `.part` of the single stream, `buf[f]` the chunk that
`tokio::fs::File` has accepted and not yet written: it is flushed when a task
ends well, dropped (and written later) on an error, and written or lost in a
crash. A missing and an empty part file are the same here: every use of one reads
its length first. Nobody waits for the last write of an attempt before the next one
reads the lengths (two seconds of backoff or a client's request lie between), and
the model lets it begin at any time. Responses may break the protocol in the two ways the code does not
notice: a 200 with the whole resource, and a body that ends early (`LastAttempt`
bounds this to the last attempt, which meets everything the earlier ones left). The
auxiliary `honest` is true as long as no response did, and no attempt began
before the writes of earlier ones had landed (`Settled`).

**UiSync.** `rows` and `settings` are the database. A task (the consumer, or the
handler of a connection) changes it and then broadcasts what it `owed`: between
the two, others change and broadcast too. `queue[c]` is what the broadcast channel
still holds for a connection; `Newest` drops the oldest beyond `Capacity`, and
`lagged[c]` remembers that something was lost since the snapshot. A connection
subscribes (`Connect`), is sent all rows and then the settings, and serves
commands after that, because `onopen` asks for them first. `shown` and
`shownSettings` are the store of the UI, changed by `Applied` as
`applyServerMessage` does. The auxiliary `raced` holds the jobs (and
`"settings"`) that two tasks were changing at once the last time they changed.
`handed` keeps the engine from reporting on jobs it was never given; beyond that
any event may come.

**SavePaths.** A name is its folder, the `n` of `name (n).ext`, and how often
`.part` was appended; a file is the set of jobs whose bytes it holds. A run
writes through the handle it opened, so a rename takes it along and a deletion
leaves it writing to nothing. `queue_payload` is one action, because the lock is
held from the query to the insert. `doomed` holds the jobs whose parts `cancel`,
`remove` or the consumer will delete now that they have released the lock.
A segment that begins empties its part, one that resumes appends to it (`Open`).
`PersonCreates` puts a file of somebody else at one of the names in `Arrivals`, at
any time; `late` remembers the names that a job had been given by then.
Scheduling, the engine and the requests are reduced to what touches a file or a
status, and a job has one run at a time: where the limit allows a second one
(`LiveRunListed`), both write the same parts under the same name. The auxiliary `lapsed` remembers the jobs whose row once reserved
nothing (Failed, Cancelled, Completed).

**TokenBucket.** `Refilled`, `Consume` and `SetRate` are `refill`, `consume` and
`set_rate` on integers, with a sleep rounded up to the clock. The auxiliary
`since`, `taken`, `mark` and `passed` observe an interval that starts whenever
it likes (`Look`) and ends when the rate changes.

**Intercept.** `browser`, `handler`, `prompts`, `announced`, `opening`, `stash`,
`window`, `outbox`, `adds` and `jobs` are the places a download can be in, one
per hand. `handler` is the await at which `onCreated` stands. A connection is
open, down, or broken: its far end is gone and its `onclose` has not run, so the
client still calls itself connected. A person may decline, press Start, copy a
link, or click one; closing a popup only hides it. `cancel()` resolves for a
download that the browser has finished by then as well, and leaves its file, so
the extension goes on and UDM asks for the download once more. The child daemon dies with
the app and is not started again before the app is. The auxiliary `disturbed`,
`unheard` and `unerased` remember what the code does not make good.

## 3. What TLC checks

| run | instance | shows |
|---|---|---|
| `Scheduler` | 3 jobs, 2 priorities, settings 0 and 2, 4 commands of any kind, `FairSpec` | `SlotBacked`: an occupied slot has a run or a `SlotFreed` behind it. `WorkConserving`: the task never sleeps on a free slot while a job waits. `OneAtATime`: a job that was not queued twice is in one place (message, heap, run), so no other job's `SlotFreed` or request touches its slot. `StartsWithinCap`: of those jobs no more than the limit run when one starts. `TopServed`, `SlotsReturn`: the top of the heap is started, slots come back. |
| `Daemon` | 1 job, one UI, 3 commands, 1 retry, leaked tickers, no restart | `RefinesScheduler`. `ActiveIsHeld`, `QueuedIsHeld`: what the row says is being worked on (with the exceptions that their comments name). `RemovedStaysRemoved`. |
| `DaemonRestart` | 1 job, 2 priorities, 2 connections with any requests of five kinds, 2 commands, settings 0 and 2, the same or none in the environment, both kinds of strays, 1 restart | `TokenIsHeld`: a listed token belongs to a task that will unlist it. `ActiveIsHeld` with late ticks and two connections. `LimitInForce`: the limit in use is the one set last, by a client or by the environment. `WithdrawnAhead`: every copy of a job that is withdrawn or gone has a `RemovePending` behind it. `RefinesScheduler` across the crash. |
| `DaemonServe` | 2 jobs, one slot, 2 commands (of add, resume) and any number of pauses, no retry, `AnsweringSpec` | `StopEnds`: a cancelled task ends and frees its slot even if its body never ends. `QueuedServed`: if bodies end, every queued job is started. |
| `Engine` | 3 bytes in segments of 1 and 2, 3 attempts, 1 retry per run, 1 crash | `PartsArePrefixes`: a part file is always a prefix of its segment. `CompletedIsExact`: a completed file is the resource. `KeepsBytes`: an attempt that knows its segments gives up no byte. Each as long as the behaviour is `honest`. |
| `UiSync` | 2 UIs, 1 job, 2 values of the settings, a channel of 2 messages, 3 changes, 1 lost connection or restart | `RowsShown`, `SettingsShown`: a client that has missed nothing shows what the database holds, except what two tasks changed at once. `Converges`: every client ends there, connected. |
| `SavePaths` | 2 jobs, 2 folders, a person's file "x" that is there from the start or comes later, names "x" and "x.part", 3 requests, 1 crash | `ReservedApart`: jobs in flight have different names. `FinishedIsKept`: only its own job or a person changes a finished file, but for a person's file that came to a name already given away. `PartIsKept`: the part a run writes is not taken from under it. `CompletedIsOwn`: a completed file has the bytes of one job. Each but for the jobs that `Share` a file. |
| `TokenBucket` | 2 transfers, chunks of 1 and 3, rates 0, 1 and 2, 6 units of time, 2 changes | `RateKept`: over any interval of constant rate the bytes let through are at most the rate and one burst. `DebtBounded`: no sleep is longer than a chunk for each transfer, and as much for each change of the rate. |
| `Intercept` | 2 downloads, one URL each of three kinds, 1 fault, `FairSpec` | `TakenOverIsHeld`: a download is never in two of UDM's hands, in none of them while the browser loads it, and always in somebody's. `TakenOverIsOffered`: it reaches a row, a window or a person. `StartedIsQueued`: a Start without a connection becomes a job. The first two but for what `Excused` names. |

Bounds. `MaxSends` bounds the commands of clients, `MaxTries` stands for the
length of `RETRY_BACKOFF` (3 in the code; 1 already separates "may retry" from
"may not"), `MaxRestarts`, `MaxCrashes` and `MaxAttempts` bound what would
repeat. `MaxBacklog` = 0 lets a ticker tick only when no event waits: ticks are
consumed in any case long before the next one is due, and consuming the second of
two in a row changes nothing; a tick may still be followed by any number of other
events. `Overrides` is what `UDM_MAX_CONCURRENT` may say at each start. The races of the code need two requests
for a job and one run on its way out, or two jobs and one slot; the instances
have these. Two segments of different lengths give the last range its remainder,
and three attempts allow a pause or an error, a crash, and a completion.
Three messages overflow a channel of two, as 257 do that of the code.
In `SavePaths` two jobs, a name, its copy and its part are all that can meet;
three requests allow a failed job, the job that takes its name, and the retry.
In `TokenBucket` six units of time pay a debt of two chunks at the lower rate.
In `Intercept` downloads share only connections and processes, and a fault is
the end of one of these; what one download leaves behind, none finds. `MCEngine` also evaluates the division of every file of 1 to 60 bytes into up to
12 ranges, and `MCScheduler` every window of whole hours. `CHECK_DEADLOCK FALSE` is set where the bounds let a behaviour end.

Fairness. tokio polls a task that has work, so the steps of the scheduler, the
consumer, the handlers and the local steps of runs are weakly fair. Nobody
promises that a server answers: `HeadersArrive` and `BodiesEnd` are assumed only
where a property says so. Clients owe nothing and the process need not crash.
In `UiSync` and `Intercept` a client reads its
socket and its timer reconnects; nobody has to press a button, start a process,
or let the browser finish. In `Scheduler`, `RunEnds` is fair: there it is the assumption that a run ends.

### Where the code disagrees with its documents

Each of these runs has one property, and TLC finds it violated.

| run | what happens |
|---|---|
| `LiveRunListed` | A paused run has sent `Paused` but not left `active`; a resume starts a new run and lists its token; the old run removes "the job's" token. The new run can be neither paused nor cancelled. |
| `PausedKeepsPlan` | A pause during the backoff of a first run reports the segments of the copy the run was started with, none, over those of the row. |
| `NeverOverwritten` | A download is added and given a name that is free; a person puts a file there; `finalize` removes it (websocket.rs:313, "Never silently overwrite"). |

Others appear as the exceptions that a property has to make:

- `cancel` finds a job not running and marks the row Cancelled while the
  scheduler, which has not yet seen `RemovePending`, starts it
  (websocket.rs:218, "Drop it from the pending queue if it hasn't started").
  `WithdrawnAhead` says that the dispatcher has then not read that command. If
  another connection queues the job in between, its copy comes behind the command
  and stays (`crossed`).
- A cancellation that meets a run past its last event leaves its mark in
  `cancelling`: the job stays as it is, and its next pause is treated as a
  cancellation, which deletes its parts (`QueuedIsHeld`). With a fourth command
  (`MaxSends` = 4) it does more: Cancel marks a paused run past its last event, a
  second Cancel settles the row, Retry queues it, and the consumer, which only now
  reads the first `Paused`, makes the row Cancelled; the scheduler starts the
  job all the same.
- A Failed, Cancelled or Completed row reserves no name, a later download takes
  it, and a retry of the first replaces the finished file of the second, or both
  write one part file. Removing the old row deletes the part of the one that has
  its name now. No reservation covers `x.part`, the part file of `x` (`Share`, in
  all of `SavePaths`).
- service-worker.js:68 expects that `cancel` fails on a download that has already
  finished, so that it is not downloaded twice. `chrome.downloads.cancel` resolves
  for one, so it is: the browser keeps the file and UDM prompts for it
  (`TakenOverIsHeld` does not count that file as a hand of UDM).
- service-worker.js:3 says that downloads are "never lost if the daemon is
  down". One is, when the connection has broken unnoticed, when the worker is
  suspended between the cancellation and the prompt, when no main window hears
  the prompt (the app is closed and the daemon is not), or when `erase` fails
  after `cancel`. The extension takes over `ftp:` URLs that `validate_url`
  refuses. A Start on a socket broken unnoticed is gone, and so is the button
  (`Excused`).

After a restart nothing is queued: `main()` counts the pending jobs, and
interrupted ones stay Active in the table until a client asks, although
docs/ARCHITECTURE.md:41 says that they are resumed. `Restart` has it so; no
property is about it.

The model contains further behaviours of this kind that no run singles out: with
a limit of 2, three jobs download after a resume, because the `SlotFreed` of an
old run names the job and frees the slot of the new one (`doubled`); late
and leaked ticks that turn an ended job Active (`stale`), part files that a removal
leaves behind while the run still writes, a server without headers that keeps a
paused task forever (`StopEnds` needs `HeadersArrive`), two connections
that save settings in one order and send them in the other (`contested`), and an
attempt that begins while the last write of the one before it is on its way,
measures the part too short and fetches those bytes again (`honest`). In `UiSync`, a client that lags is not given a new snapshot
and may keep a removed row until it reconnects; a row that one connection removes
while another retries it may stay on every screen, and so may the loser of two
saved settings. The messages that follow a snapshot may be older than it, so a
row may go back in time for a moment; `RowsShown` says that it ends right.

## 4. What TLAPS proves

Each theorem holds for every value of the constants that meets the named
assumptions of its module, which TLC evaluates in the runs: bounds, priorities,
limits and rates are naturals; a file has at least one byte and at most 255
segments; the transfers on one bucket are finitely many (the debt counts
them); the id of a job is a UUID, not the word `"settings"`, and the consumer is
no connection; a limit in the environment is one a client may set; no other program
uses the names of UDM's parts; and sets that name parts of the code (`Plans`, `Strays`, `Folders`,
`Requests`) hold those parts. Every `TypeCorrect` states `Spec => []TypeOK` and is
not listed again.

**Scheduler.**

- `NoSlotLeaks`: `Spec => []SlotBacked`. Inductive with `TypeOK`: only `Start`
  adds to `running`, together with a run; only `RunEnds` takes a run away,
  together with a `SlotFreed`; only receiving that message removes the slot.
- `NoSlotIdle`: `Spec => []WorkConserving`. `loop` is `"recv"` after a step only
  if the heap is empty, no slot is free, or the step neither freed a slot nor
  queued a job. Finiteness of `running` (`SlotsFinite`) is part of the
  invariant, because the argument compares cardinalities.
- `HeldOnceAlways`: `Spec => []OneAtATime`, for clients that send what they like.
  `HeldOnce`, which makes it inductive, holds of every job that was not queued
  twice: it is in at most one of channel, heap and runs, and holds a slot exactly
  while a run or its `SlotFreed` exists. An `Enqueue` finds nothing `Outstanding`
  of such a job, or the job is not one of them any more.
- `CapHolds`: `Spec => StartsWithinCap`. By `OneAtATime` the live runs of those jobs
  are a subset of `running`, which `MayStart` bounds.

**Daemon** (`DaemonProofs`), for any jobs, clients, retries and restarts. All
rests on `Inv`, which holds of every behaviour: the types of the scheduler, the
runs and the handlers; `TokenIsHeld`; and `Room`, that busy runs, entries of the
heap and `Enqueue` commands together are at most the commands sent, so that a
start finds a free run. The types need `TokenIsHeld`, because a cancelled token
is a write to the run that holds it. The lemmas say once what a received
command, a step of a run, a consumed event and a sent command leave alone; each
theorem then goes through the actions of `Next`.

- `TokenHeld`: `Spec => []TokenIsHeld`.
- `Refines`: `Spec => RefinesScheduler`. Every command a handler sends is one that
  the clients of `Scheduler` may send, the end of a run is its `RunEnds`, a turn of
  `dispatch()` its `Start`, a restart its `Restart`; the rest stutters. `RunsOf` counts
  the busy runs of a job, so the proof counts how each step changes that set.
- `SlotsBacked`, `NoSlotIdle`: `Spec => []Abstract!SlotBacked` and
  `Spec => []Abstract!WorkConserving`. They follow in principle from `Refines` and
  `SchedulerProofs`; tlapm cannot use the theorems of an instance whose module
  has assumptions, so they are proved here from the tasks themselves: a slot
  has a busy run of its job, or a `SlotFreed` in the channel.
- `RemovedForGood`: `Spec => RemovedStaysRemoved`. Every write to a row other than
  the insert is an UPDATE, which finds no row.
- `LimitHolds`: `Spec => []LimitInForce`, for any connections, restarts and
  environment. Strengthened by `LimitInv`: unless two choices crossed, the handler
  that owes the command owes the limit chosen last; if none does, the last
  `SetMaxConcurrent` in the channel carries it; if there is none, it is in force.
- `WithdrawalGoesAhead`: `Spec => []WithdrawnAhead`, for any connections.
  A waiting copy with no `RemovePending` behind it comes from a handler; of a job
  that is not `crossed`, none sends one while another withdraws it, and none
  can find its row once it is gone.
- `ActiveHeld`: `Spec => []ActiveIsHeld`, with both kinds of strays and restarts.
  `EventsHeld` makes it inductive: an event that turns a row Active and is not a
  stray's is followed in the channel by one that ends the run, or the task that
  owes this one is at work.
- `QueuedHeld`: `Spec => []QueuedIsHeld`, likewise. `QueuedInv` says which hand the
  job is in, with the order of `Enqueue` and `RemovePending` in the channel that
  `AwaitsSlot` leaves out.

**Engine** (`EngineProofs`), for any size, minimum chunk, number of segments,
attempts and crashes.

- `PartFilesArePrefixes`: `Spec => []PartsArePrefixes`, and `CompletedFileIsExact`:
  `Spec => []CompletedIsExact`. `Inv` has three parts. `RunInv`: tasks exist only in
  a transfer, and nothing goes on after the completion. `PartInv`, for each file:
  what is on disk and then what is buffered are consecutive bytes from the start
  of its segment, and a task asks for, or reads, the byte after them (or
  restarts a file it will empty). `OutInv`: parts are whole while they are joined,
  and the output is what lies before the next segment. `PlanPartitions` makes the
  joined segments the resource. `PartInv` and `OutInv` hold while `honest` does:
  the responses kept to the protocol, and no attempt overtook a write.
- `BytesKept`: `Spec => KeepsBytes`. With a plan, a part is opened for append at its
  length, and a flush adds to it.

**Chunker** (in `EngineProofs`), **schedule window.**

- `CountBounds`, `SplitPartitions`, `PlanPartitions`: the plan
  of every non-empty file has between 1 and the maximum of ranges, all of them
  non-empty, consecutive, and covering it.
- `WindowIsArc` and `OpensAtStart`, for days of any length:
  `is_within` is the stretch of the clock's circle from start to end, over
  midnight or not, and opens at the start only.

**Bandwidth limiter** (`TokenBucketProofs`), for any transfers, chunks and rates.

- `BurstHolds` (never more than one unit of time saved up) and `RateHolds`:
  `Spec => []RateKept`. The invariant `BucketInv` keeps an account: what was
  taken since the start of the interval and what is in the bucket come to no
  more than what has been refilled in it, and a transfer still has to sleep at
  least as long as the rate needs for the mark it would pass.
- `DebtHolds`: `Spec => []DebtBounded`. `DebtInv` bounds the debt that is left at
  any later time `w` by a chunk for each transfer still asleep then, plus what the
  changes of the rate forgave: a transfer that wakes has slept off what it owed.

**Save paths** (`SavePathsProofs`), for any jobs, folders, names and requests.

- `ReservedNamesApart`: `Spec => []ReservedApart`. `PathInv` adds that a job
  whose row reserves a name and was never out of flight has had it since its
  insert, at which `Taken` compared it with all the others.
- `CompletedFilesOwn`: `Spec => []CompletedIsOwn`; `FinishedFilesKept`:
  `Spec => FinishedIsKept`; `PartsKept`: `Spec => PartIsKept`. `FileInv` gives every file
  an owner: a person, or a job that has it as its path or part (`FilesOwned`); an
  open handle is at its job's own part, unless the job shares a file and followed
  a rename (`HandlesOwned`); and between the two steps of `finalize` the target
  stays clear but for jobs that share it and late files of a person
  (`TargetsClear`). Of two owners of a
  file, one shares with the other.

**Hand-over** (`InterceptProofs`), for any downloads, URLs and number of faults.

- `NeverInTwoHands`: `Spec => []TakenOverIsHeld`. For each download, `HeldInv` says
  that no two places of UDM hold it, that its kind came to where it is on a way that
  kind can go, and that one which is nowhere is excused; also that the worker
  handles a download without an open connection only when it is `disturbed`.
  A death of a process empties several places at once and `disturbed`
  accounts for what they held.

**UI store and socket** (`UiSyncProofs`), for any clients, jobs, values of the
settings, capacity, changes and lost connections.

- `RowsAreShown`: `Spec => []RowsShown`; `SettingsAreShown`: `Spec => []SettingsShown`. Both
  speak of clients whose queue is empty while no message is owed; `Inv` says
  what holds in between. `OwedInv`: of what is not raced, at most one message is
  owed, and it says what the database holds. `QueueInv`: if none is owed about a
  subject, the last message about it in each queue is right; and a queue that
  adds a row that is gone removes it again further on, unless that removal is
  still owed. `ViewInv`, for a client that has lost nothing since its snapshot:
  a row that exists is shown, or its `JOB_ADDED` is still to come; one that is gone
  is not shown, or its `JOB_REMOVED` is still to come; and what no message is left
  to say is shown as it is. The store cannot be had by applying the rest of the
  queue to it: a client subscribes before it reads its snapshot, so the queue
  holds messages older than the snapshot, which take a row back in time until
  the last one about it arrives, and a status finds no row that is gone. Every
  task that changes the database does so by `ChangeInv`, and every broadcast is
  `BroadcastInv`, drops at the capacity included.

Only model-checked: the liveness properties (`TopServed`, `SlotsReturn`, `StopEnds`,
`QueuedServed`, `TakenOverIsOffered`, `StartedIsQueued`, `Converges`), whose fairness
is beyond tlapm's backends. Every invariant and every action property of a run
that passes is a theorem.

## 5. Not modelled

Wording, logging, headers, cookies and the JSON encoding; SQL; filters, toasts
and speed samples of the UI, and its job lists beyond `UiSync`; the popup of the
extension, which only displays; the table of file types; the comparison of the
access token; autostart, updates, the tray, packaging and CI. A window whose
URL matches another's new job shows that job (NewDownload.tsx:110), and its
Cancel stops it: downloads are told apart by their item in `Intercept`. React's
double mount of effects in development is left out. The schedule window is a
module of its own because no code sets one; if some did, nothing would run
`dispatch()` when the window opens. A power failure that loses writes the
operating system had accepted is outside the model, as is a resource that
changes between attempts.

## 6. Plan

What remains:

1. **Settings.** What UPDATE_SETTINGS persists and what it applies, for the
   settings other than the limit.
2. **Two runs of one job in `Engine`.** RESUME does not look at the row, which says
   Paused until the run starts: asked twice, it starts the job twice at once where
   the limit allows (`LiveRunListed`), and both runs then write the same parts.
   `Engine` follows one run at a time, and what it shows is about that.
