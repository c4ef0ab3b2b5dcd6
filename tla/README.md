# RexHunter in TLA+

RexHunter (`src/rexhunter/`) is a daemon of one Python process: it hunts job
postings with an LLM brain, keeps everything it does in one SQLite file, shows
it live in a browser, and lets a person pass verdicts on the catch. This
directory models the parts of it that have a state worth arguing about, checks
them with TLC on small instances, and proves the central facts of the write
path with TLAPS for every instance. Line references are to the repository.

Contents: 1 the system, 2 the modules, 3 the runs, 4 bounds, 5 fairness,
6 what is proved, 7 where code and documentation disagree, 8 what is left out,
9 the plan.

## 1. The system

Everything runs on one asyncio event loop, except that each `aiosqlite`
connection has a worker thread of its own. The concurrency is that of tasks
interleaving at `await`, of connections competing for SQLite's single write
lock, of a process that may be killed at any moment, and of browsers at the end
of connections that break.

| component | state | operations | what makes it correct |
|---|---|---|---|
| store, `db.py` | `trajectory_events` (append-only, `id` global, `seq` per run), `runs.outcome`, prey, jobs | `start_run`, `append_event`, `finish_run`, `mark_crashed_runs`, reads | events of a run numbered 0, 1, 2, ...; append-only; an outcome written once; a crash leaves exactly the unfinished runs open and the boot closes them |
| hunt lifecycle, `loop.run_hunt` | the run in flight, its connection's transaction | try around `_drive`, three handlers, shielded cleanup, final `finish_run`, pulse | every run reaches an outcome, whatever fails and wherever it is cancelled |
| hunt control flow, `loop._drive`, `_call_brain`, `_run_tool`, `cost.py` | transcript read from the log, retries, counters | brain turn, tool call, retry, ceilings, typed outcomes | every `tool_use` answered before the next turn; the budgets are upper bounds; a retry never hides a failure |
| capture, `verdicts.capture_prey` | a prey row and its `PreyCapturedEvent` | two INSERTs, one commit, publish | event and row appear together |
| scheduler, `scheduler.py` | semaphore, one task per territory, no stored schedule | `territory_loop`, `_bounded_hunt`, `run_hunts`, spend gate | at most `max_concurrent` hunts and connections, no slot lost; the overspend is bounded; one hunt's failure stays its own; shutdown reaches everyone |
| hub, `hub.py` | the set of viewers' bounded queues | `register`, `deregister`, `publish`, `notify`, heartbeat | never blocks a writer; a slow viewer is dropped and knows it |
| stream endpoint, `server.stream_events`, `catch_up`, `stream` | dedup mark and queue per connection | register, replay the tail, splice, time out, deregister | the browser sees every event once, in order |
| snapshot, `server.snapshot_state` | none | latest id, open runs, prey, scalps | the cursor it hands out has a seamless continuation |
| prey pen, `verdicts.submit_verdict`, `fold`, `server.post_verdict` | prey row (a stored projection), `pen_events`, jobs | guarded UPDATE, event, job, commit or rollback, relay | the row is the fold of its log; one FEAST, one job; each applied verdict relayed once |
| follow-up worker, `verdicts.run_job_worker` | `jobs.status` | select, guarded claim, draft, complete; boot requeue | a job in one pair of hands; none lost over a restart |
| process lifecycle, `server.lifespan` | three background tasks, the paid client | boot sweeps, start, cancel, drain, close | a stop ends, in order: hunts, worker, heartbeats, paid client; it leaves nothing for the next boot to misread |
| brain adapters, `brain.py` | a provider stream being assembled | `project_messages`, `StreamAssembler`, `parse_decision` | a decision is dispatched only if complete and well formed |
| view, `view.py`, `render.py` | an accumulator (projection of the log) | `step`, `fold`, `fold_from`, bars and tiles | incremental equals batch; a replay is a no-op; the card says what the hunt does |
| view state, `viewstate.build_viewstate` | none; reads in several statements | log, runs, tiles, one verdict log per card | a run is on its card or on its tile, though hunts commit between the reads |
| board, `static/board.js` | the painted page, repaint timer, EventSource | refresh, debounce, snapshot dance, verdict buttons | the page catches up with the log |
| the rest: `events.py`, `stub.py`, `tools/`, `smoke.py`, `hunt_smoke*.py` | none | type declarations, scripted brain, registry, manual scripts | |

Interactions: `run_scheduler` starts hunts; a hunt calls the brain, tools,
`append_event`, `capture_prey` and `finish_run` on its own connection, and
`hub.publish` / `hub.notify` after its commits. `/events` reads the log on a
connection of its own and a hub queue. `/verdict` writes on another connection
and notifies the hub. The worker shares only the `jobs` table with it.
The lifespan cancels and awaits all three background tasks, one after the other.
The page asks `/viewstate` for a whole board whenever a frame of `/events` tells
it that something changed; the frame itself carries no more than its id here.

Hard behaviours, each listed with its line under `hazards` in `PROJECT.json`:
cancellation at every `await` while a statement is still queued on the
connection's thread; a failing statement in the middle of a transaction or in
the cleanup itself; the kill -9 between any two statements; publishes of
several hunts crossing; events committed while a connection is between
register and replay; queues that fill; double verdicts; a worker that dies; a
budget that is read and not reserved; a slot that must survive every way a hunt
can end; a board painted from several reads, out of order, or too early.

## 2. The modules

`TrajectoryLog` and `Feed` are abstract specifications; the others are
detailed. `MC*` modules add what TLC needs (symmetry) and nothing else.

**TrajectoryLog** is what the store promises: a log that only grows, by events
that carry the next `seq` of their run and only while the run is open, and runs
that open once and close once. No task, lock or transaction.

**HuntStore** is the write path: the tasks of `territory_loop` /
`_bounded_hunt` / `run_hunt`, each hunt with a connection, against one file.
It implements TrajectoryLog (`ImplementsLog`).

| model | code |
|---|---|
| `db`, `txn`, `writer` | the committed file; what the open write transaction sees; whose connection holds the write lock (Python's `sqlite3` begins the transaction at the first INSERT/UPDATE) |
| `queue[t]` | the calls queued on t's aiosqlite thread; first in, first out; a call whose awaiting task is cancelled is executed all the same |
| `pc[t]` | the `await` at which the task stands: `drive` is the brain or a tool, `insert_x`/`update_x` an `execute`, `commit_x` a `commit`, `close`/`unwind` the finally of `_bounded_hunt` without/with a cancellation on its way, `sleep` the interval |
| `Exec*` | one call of the thread: `start_run`, `APPEND_EVENT_SQL` (`NextSeq` is its `COALESCE(MAX(seq)+1, 0)`), the prey INSERT, the guarded UPDATE of `finish_run`, COMMIT, close (which rolls back) |
| `Launch` ... `Closed` | the task from one await to the next; `StatementReturns` stands for every `await execute; await commit` pair |
| `Record`, `Capture`, `Conclude`, `DriveRaises` | the outcomes of `_drive` as this level sees them: another event, a capture, the end with an outcome, an exception |
| `FailInTry`, `FailEscapes`, `FailUnheard` | a statement raises: into the backstop, out of `run_hunt` to `_bounded_hunt`, or with nobody left to hear |
| `Stop`, `Cancel`, `Off` | the lifespan's cancellation, its delivery to each child, the drained exit |
| `Crash`, `Boot` | kill -9 and SQLite's recovery; `mark_crashed_runs` |

`Cancel` has one disjunct per kind of await. In the try it goes to the shielded
`finish_run(aborted, daemon shutdown)`; at the awaits no handler covers
(`start_run`, the handlers' own `append_event`, the final `finish_run`) it goes
straight to the close; in the close it waits for the close. The task group
cancels each child once, so `cancelled` makes a second delivery impossible.

**Daemon** is the process around the hunts: the lifespan, the three tasks it
starts, the task group of territory loops, the semaphore and the spend gate.

| model | code |
|---|---|
| `server`, `drain` | `lifespan`: before `yield`, serving, and which of `for task in tasks: await task` it is at |
| `sched`, `worker`, `beat`, `client` | `run_scheduler`, `run_job_worker` and `run_heartbeats` as tasks; the `httpx` client of the live brain |
| `pos[t]`, `waiting` | where `territory_loop` and `_bounded_hunt` stand; the semaphore's queue of waiters |
| `Tick`, `Release` | `async with sem`: `asyncio.Semaphore` hands a released slot to the longest waiter |
| `Connected`, `ReadSpend`, `Launch`, `HuntOver`, `Closed`, `Wake` | the awaits of `_bounded_hunt` in order, with the gate's answer one step older than the launch |
| `Call` | a UsageEvent of `run_hunt`, below the hunt's own `COST_CEILING_USD` |
| `ConnectionFails`, `HuntEscapes` | the raise outside the try and the one inside it |
| `CleanupFails` | the shielded `finish_run` of a cancelled hunt raises: `_bounded_hunt` takes it for a hunt's failure and the loop goes on, uncancelled |
| `Open`, position `stray` | the connections a loop holds, and those a cancellation inside `db.connect` left behind: it may come before or after `aiosqlite` opened the file |
| `CancelGroup`, `GroupAborts`, `GroupOver`, `Aborted`, `Unwound` | `asyncio.TaskGroup`: a child that raises, or the lifespan, cancels every loop at its await |
| `Stop`, `Drained`, `DrainRaises`, `CloseClient` | the finally of the lifespan |

What a hunt does inside is HuntLoop's and HuntStore's; that it ends is an
assumption here (`Fairness`) and the conclusion there (`HuntEnds`, `Drains`).
A cancelled boot sweep leaves its connection like a cancelled `db.connect`; neither
it nor a connection whose opening failed is counted in `Open`.

**Feed** is what a viewer is promised: it joins at the head of the log and sees
every later event once, in order, and in the end all of them.

**EventStream** is the hub, `stream_events` and the browser's EventSource. An
event is its id. `Commit` and `Publish` are two steps of a writer because they
are in the code. `Connect`, `CatchUp`, `YieldReplay`, `GoLive`, `Splice`,
`TimeOut`, `Deregister` are the awaits of one connection; `wire` is what has
been yielded and not received; `cursor` is EventSource's Last-Event-ID. A viewer
the hub drops keeps its queue, drains it and ends at the timeout. A new
connection waits for the previous one's finally, which only makes the old
generator's queue irrelevant sooner. With one writer it implements Feed.

**Pen** is `POST /verdict` statement by statement, the job table and the
worker. `UpdatePrey` is the guarded UPDATE whose `rowcount` decides between the
event, the job and the commit on one side and the rollback on the other; `NoOp`
is the latter; `NotifyVerdict` the relay after the connection is closed.
`SelectJob` and `ClaimJob` are the two statements of `claim_job`. `WorkerDies`
is an exception in the drafter or a statement: the `while True` of
`run_job_worker` catches nothing. `Reboot` stands for every end of the process
followed by `requeue_running_jobs`. Captures appear here as one step, their
inside is HuntStore's. `Fold` is `verdicts.fold`.

**StreamAssembler** is the boundary to the provider, operators only: the
frames of a reply, `Feed` (`StreamAssembler.feed`), `Malformed` and `Decision`
(`parse_decision`). Text is only how much of it has arrived, so that a half
JSON, an unsigned thinking block and a missing usage can be told from whole ones.

**HuntLoop** is one hunt: `_drive` with `_call_brain`, `_run_tool`, the stream
and `project_messages`. It details what HuntStore leaves as `Record`, `Capture`,
`Conclude` and `DriveRaises`; HuntStore details what is one step here, the append.

| model | code |
|---|---|
| `log`, `outcome` | the hunt's events, as `read_events` returns them; `runs.outcome` and `abort_reason` |
| `pc` | `plan` the head of the loop, `ask` a request sent, `stream` its body arriving, `parse` `parse_decision`, `act` the match, `execute` a tool under its deadline |
| `request` | what `project_messages` made of the log for the latest call |
| `reply`, `fed`, `asm` | what the provider means to say, how much has arrived, the assembler's blocks |
| `Exhausted`, `TooDear`, `Plan` | the two breakers, and the turn that passes them |
| `StreamOpens`, `FeedFrame`, `StreamEnds` | `_drive_stream`: the sink appends each thinking delta at once; the body may end after any frame |
| `Answers` | the non-streaming adapter and the stub: a reply in one piece, without thinking, with usage or without |
| `CallFails`, `BrainRaises`, `ParseFails` | httpx errors with their retries; any other exception; `BrainParseError` |
| `Decide` | the UsageEvent, before the decision is acted on |
| `Refuse`, `Dispatch`, `ToolReturns`, `ToolFails` | `_run_tool`; `turn` stands for the provider's unique `tool_use` id |
| `CapturePrey`, `Complete`, `AskHelp` | the terminal decisions |

**View** is `view.py` as operators: `Applied` is the match of `_apply`, `Step`
the guard on the high-water mark, `Fold` and `FoldFrom` the two folds;
`Remaining` and `TileState` are what `render.py` draws from them. **HuntView**
folds the logs that HuntLoop's hunts write, so its properties hold for every log
a hunt can leave behind and not only for logs somebody thought of.

**Board** is the page: `static/board.js` against `/viewstate`, `/snapshot` and
`/verdict`, while hunts and other tabs commit.

| model | code |
|---|---|
| `log`, `outcome`, `judged` | the committed tables, as far as a view state reads them |
| `fetches` | the `/viewstate` requests under way, each with what `build_viewstate` has read so far; `ReadLog`, `ReadRuns` (the two SELECTs over `runs`, for the cards and then for the tiles), `ReadCard` are its statements, which no transaction joins |
| `Paint` | the answer replaces the board, whichever was painted before |
| `Snapshot`, `Connect`, `Disconnect`, `OnMessage` | the page's start and its EventSource |
| `TimerFires` | the debounce: `repaintTimer` is cleared before the refresh is awaited |
| `Click`, `Clicked` | a verdict button and its answer, with a refresh of its own |
| `excused` | that one of the three known causes of a stale board has come about (section 7) |

**HuntStoreProofs**, **TrajectoryProofs**, **EventStreamProofs**, **PenProofs**,
**DaemonProofs**, **HuntLoopProofs** and **BoardProofs** hold the theorems of the
modules they are named for (HuntLoopProofs those of HuntView too), **FoldTheorems**
what they share about folds, and the reducer (section 6).

The definitions introduced by a "Mutant:" comment are deliberate faults, each a
plausible slip in the code of the definition that follows. Put in the place of
that definition, each makes one property fail; they show that the properties
can fail, and are part of no specification.

## 3. The runs

| run | instance | checks | shows |
|---|---|---|---|
| store | 2 territories, 2 slots, 2 runs, log of 2 to 5, shutdown, 1 restart, 1 failing statement; 1.3 M states up to symmetry | `TypeOK SeqGapless WriteAhead NoLockAcrossThink EveryCommitReachesHub CaptureSplitOnlyByAbort OpenRunsAreHunts CleanupCloses ImplementsLog` | the write path keeps the store's promise under interleaving, cancellation, failure and crash |
| drain | 2 competing hunts, shutdown, no failure | `Drains` | the shutdown always ends |
| stream | 1 writer, 1 viewer, queue of 2, 5 events, 2 broken connections, 1 restart; 96,000 states | `TypeOK NoDuplicate Seamless NoLeakedQueue ImplementsFeed DroppedIsEnded` | the stream is the feed, with every queue, drop and reconnect in between |
| verdicts | 1 prey, 2 handlers, 2 workers, 2 reasons, up to 3 verdicts, 1 failure, 1 restart; 1 M states | `TypeOK RowIsFold OneJobPerFeast ClaimIsExclusive RelayedOnce JobsAreDrafted` | row, log, job, claim and relay agree at every point, and no job is lost |
| hunt | up to 3 turns, 1 retry, a ceiling of one full call, a catch of up to 2, replies with no, one or two tool_use blocks; 0.6 M states | `TypeOK RequestWellFormed Answered SpendBounded ReasonTold ThinkingVerbatim CardTellsHunt ReplayFolds HuntEnds` | over broken, shortened and failing calls and tools, the conversation stays valid, the spend bounded, the outcome and the viewer's card true to the log, and every hunt ends |
| daemon | 3 territories, 2 slots, ceilings of 2 calls for the daemon and for a hunt, each fault once; 0.2 M states | `TypeOK SlotsKept OvershootBounded IsolatedHunts ShutdownInOrder EveryWaitEnds` | the semaphore keeps its slots, the overspend has a bound, failures stay isolated, the drain is in order, and it ends unless the cleanup of a cancelled hunt fails |
| board | 2 hunts of one territory, 1 event, 2 requests under way, 1 broken connection; 0.7 M states | `TypeOK HandoffComplete CommitsReachBoard` | no run drops out of sight, and what is committed reaches the board, but for three named causes |
| half_capture, left_open, swallowed_cancel, gap_in_feed, partial_dispatch | see section 7 | `CaptureAtomic`, `NoRunLeftOpen`, `Drains`, `NoGap`, `DispatchedWhole` | are violated |

The properties, in words:

* `SeqGapless`: each run's committed events are 0, 1, 2, ... in id order.
* `WriteAhead`: nothing was published that is not committed; a `run_finished`
  pulse only for a run whose outcome is. `EveryCommitReachesHub` is the
  converse for an undisturbed daemon.
* `NoLockAcrossThink`: no hunt waits for brain, tool or clock with the write
  lock held.
* `CaptureSplitOnlyByAbort`: event and prey row never come apart by a crash,
  and only in one direction by an abort or a failing statement; a hunt that lost a
  prey row to a failing statement is never recorded as a success.
* `OpenRunsAreHunts`: what `/snapshot` shows as an open run is a hunt at work, but
  for one run per failed statement (a `finish_run` that raised leaves its row open),
  and there are no more than slots and failures.
* `CleanupCloses`: when the shielded cleanup is through, the run is committed
  as aborted.
* `Seamless`: past what a connection has passed on or fetched, its queue
  continues without a hole, up to what is committed and not yet published.
* `NoLeakedQueue`, `DroppedIsEnded`: no queue without a generator, and no
  generator waiting for ever on a queue the hub has let go.
* `RequestWellFormed`: every request opens with the seed, alternates, and
  answers each `tool_use` by one result under its id: nothing of retries,
  timeouts or telemetry shows in it. `Answered` is the same of the log itself.
* `SpendBounded`: recorded spend passes the ceiling by less than one call.
* `ReasonTold`: the abort reason is what the log's last events say, and a
  retryable failure was retried as often as the budget allows. A failure that is not
  retried is the last event and is named; a hunt without a reason completed or asked
  for help.
* `ThinkingVerbatim`: a tool call carries the whole signed thinking block or none.
* `CardTellsHunt`: what `view.fold` makes of the log agrees with the hunt that
  wrote it: a tool is shown as running only while one executes, the HP bar is
  empty exactly when the breaker has reason to act, a completed hunt has its
  whole catch in the pen.
* `ReplayFolds`: a viewer that is sent the whole log again ends with the fold of
  the log, also when two hunts interleave in it.
* `RowIsFold`, `OneJobPerFeast`, `ClaimIsExclusive`, `RelayedOnce`: the prey row
  is the fold of its verdict log; a prey in FEAST has one FEAST and one job; no
  job in two hands and none running in nobody's; every verdict relayed once.
  `JobsAreDrafted`: unless a statement or a draft fails, every job of a feasted
  prey is done in the end, also over restarts.
* `SlotsKept`: at most `MaxConcurrent` connections are held or were left by a
  cancelled `db.connect`, and nobody waits while a slot is free, even if a loop
  outlives its cancellation.
* `EveryWaitEnds`: no loop waits for ever; and a shutdown ends, provided that the
  cleanup of no cancelled hunt fails. Without the proviso the shutdown may wait for
  ever: finding swallowed_cancel (section 7).
* `OvershootBounded`: recorded spend passes the daemon's ceiling by at most one
  hunt's ceiling and one call for each slot.
* `IsolatedHunts`: while the server serves, only a connection that fails to open
  or to close ends a territory's loop.
* `ShutdownInOrder`: the paid client is closed after the last hunt; a shutdown
  that comes through leaves no task and no slot held; one that raises had a fault.
* `HandoffComplete`: a run whose events the board shows is on a card, or its
  territory's tile shows its end or a later run.
* `CommitsReachBoard`: as the comment in `Board` says.

Every configuration turns the deadlock check off: the bounds end every
behaviour (no more events, restarts or verdicts), and a daemon that has stopped
is meant to do nothing. That nobody waits for ever is the business of the
liveness properties.

## 4. Bounds

* `MaxLog` bounds what `_drive` may start; the events of error handlers come on
  top. Two events are enough for two hunts to interleave an append each, and
  for a capture after a step. `MaxLog = 3` in the violation runs is slack.
* Two territories give every pairing of the write lock's holder and waiter.
  `MaxConcurrent = 1` in the violation runs keeps the counterexamples short; the
  store run has two slots.
* `RunIds` has two members: a third launch waits until a restart; run ids are
  never reused (`Launch` draws an absent one), as for uuids.
* `MaxBoots = 1` allows the crash, the boot and a second life with the old log;
  a second crash starts from a state of the same shape. Reaching it takes a
  used-up run, so the second life hunts with the other one.
* `MaxFaults = 1`: the first failure is what the handlers answer; a failure
  during the handling is `FailEscapes`, reachable with one fault when the
  handling was started by an exception of the brain or a cancellation.
* `QueueSize = 2` of the code's 256 lets a queue be empty, partly full and
  full, and a viewer be dropped with something to drain. `MaxEvents = 5` lets
  the drop happen, and events follow it. `MaxDisconnects = 2` breaks the
  connection of a resync as well. `WireSize` is the network's slack.
* Daemon: three territories at two slots have one that waits; with ceilings of
  two and calls of one, two hunts pass the gate together at one below the
  ceiling and spend to the bound of `OvershootBounded`, and a later tick is
  refused. The code's numbers are a ceiling of 1.0 for the daemon and for each
  hunt, and four slots: spend may reach 5 and four calls. Each kind of fault
  happens once at most; a second of the same kind finds the loop it would hit
  in a state the first has shown.
* Board: two runs of one territory are what a tile can confuse; two requests
  under way are what can overtake each other; one event, which is a capture, may
  give a card, a verdict and a replay. One broken connection loses a notification.
* Hunt: `MaxIterations = 3` puts two answered tool calls into a request;
  `RetryBudget = 1` has a retry that succeeds and one that exhausts the budget;
  `CostCeiling = 2` is reached in one full or two broken-off calls, at 1 for a
  request and 1 for its reply, so that both breakers act. `MCSays` has every
  kind of reply once: no tool_use, a tool, each terminal name, and two blocks of
  which the first is unknown (cut short, it is a single unknown one). A thinking
  block has one delta and an input two (`ThinkingPieces`, `InputPieces`): before,
  between and after are all the places a cut can tell apart.
* `MaxVerdicts = 3` allows AMBER, REENTER, RELEASE: a coalesced reason
  surviving two transitions. Concurrent handlers may exceed it by one. One prey
  is enough: statements on different rows share the lock, which two handlers on
  one row contend for as well. The lifespan starts one worker; the run has two,
  because `claim_job` is written for more.

## 5. Fairness

* HuntStore: weak fairness for each connection thread (it executes what it can),
  for each task whose call has returned, for the delivery of a cancellation and
  for the exit of a drained process; the event loop and the threads are
  scheduled. Nothing obliges a brain to answer, a hunt to launch, a daemon to
  stop. A thread that waits for the lock is not promised it by weak fairness
  when others keep taking it; under a shutdown they cannot for ever, which is
  part of what `Drains` shows.
* EventStream: weak fairness for a writer's publish (the next line after its
  commit), a generator's next step, the delivery of a frame, and EventSource's
  reconnect (part of `Stream`). No commit, page load, heartbeat or disconnect
  is obliged to happen.
* HuntLoop: weak fairness of the whole next-state relation (`FairSpec`): the
  HTTP client's timeout of 120 s ends a wait for the provider, `max_tokens` its
  reply, `execute_once`'s deadline a tool. Something happens; what, is open.
* Pen: weak fairness for the handlers together (`Serve` of some one of them) and
  strong fairness for the workers' step, because their statements are enabled
  only when the lock is free and SQLite's busy handler keeps trying while others
  come and go. The code's busy timeout makes a statement fail after 5 s of that;
  those behaviours are the faults, which `JobsAreDrafted` excludes. Nobody has to
  post a verdict.
* Daemon: weak fairness for each territory's loop, the task group, the worker's
  close and the lifespan: tasks are scheduled, statements and sleeps end, and so
  do hunts and their cleanups, unless they fail. No fault, paid call or stop is
  obliged to come. The semaphore's queue
  does the rest: with a first-come queue weak fairness is enough for `EveryWaitEnds`.
* Board: weak fairness of "some step of the page or of an answer". The server
  answers, timers fire, EventSource delivers and reconnects; in which order is
  open. Hunts, clicks and disconnects need not happen.

## 6. What is proved

`HuntStoreProofs`, from `HuntStoreAssumption` only (any set of territories and
run ids, any bounds):

* `TypeCorrect`: `Spec => []TypeOK`
* `RunsAreGapless`: `Spec => []SeqGapless`, the code's invariant 7

`SeqGapless` speaks of the committed log and is not inductive: a commit makes
the transaction's log the committed one. `IInv` therefore adds `TxnGapless`,
the same for the transaction in progress; `RunKnown`, that a connection with
something to execute belongs to a hunt with a run, without which an appended
row is not typed; and `DownIsEnded`, that a process that is down has no task
left, without which a boot could meet leftover calls. The data argument is two
lemmas: `NextSeqIsNext` (the COALESCE of a gaplessly numbered run is its length)
and `AppendGapless` (appending that number keeps every run gapless). The rest
goes action by action: `ExecuteIInv` for the thread, `ResumeIInv`, `FailIInv`
and `CancelIInv` for the task, which leave the store alone, `ProcessIInv` for
stop, crash and boot. `NextIInv` joins them.

The second part of `HuntStoreProofs` builds on it, from the same assumption:

* `AnnouncedIsCommitted`: `Spec => []WriteAhead`
* `LockIsShort`: `Spec => []NoLockAcrossThink`
* `CleanupIsDurable`: `Spec => CleanupCloses`

All three ask what a task's await says of its connection, and a cancelled task
leaves a call behind that its thread still executes. `Shape` is that, await by
await: `QueueShape`, the calls queued (the one awaited, and before it at most the
one a cancellation interrupted); `LockShape`, where a lock can be held; `EventShape`,
where the event lies that will be published, in the transaction or in the file;
`RunShape`, the run's status in both. `TxnOnFile` relates transaction and file, and
`RunsDiffer` keeps one task's calls from touching another's run, which is why
`SparedShape` settles all other tasks at once.

`TrajectoryProofs`, again from `HuntStoreAssumption` alone:

* `StoreImplementsLog`: `Spec => ImplementsLog`, the refinement of TrajectoryLog

Only commits, the launch of a run and the boot sweep change the file, so the question
is what a commit may find in the transaction. `RInv` answers it: the row of a
run that starts (`Opening`), or up to two next events of one open run and perhaps
its outcome (`Writing`). Two is reached when a capture is cancelled at its second
INSERT or backed out by an ErrorEvent; that there are never three needs `Room`, the
count at each await. `CountIsNumber` identifies the promise's count of a run's
events with the code's MAX(seq) + 1, by a bijection.

The rest of `HuntStoreProofs`, from `HuntStoreAssumption` alone:

* `SplitsAreAborts`: `Spec => []CaptureSplitOnlyByAbort`
* `CommitsReachHub`: `Spec => []EveryCommitReachesHub`
* `OpenRunsHaveHunts`: `Spec => []OpenRunsAreHunts`

For the first, `CInv` follows a capture through the transaction: `InHand` says that
the event is there when the prey row is to be inserted, `SplitIsExcused` that an
event without its row, in the transaction, is the one its hunt holds (`Half`), which
either inserts the row next or has been cancelled and writes 'shutdown' before it
commits. That is while nothing failed; `EInv` (`HalvesAreNoSuccess`) covers the
failures, after which the backstop's commit makes a half durable: a hunt that can
still record a success (`Hopeful`) has no half but the one whose row it inserts next
(`Midway`), and no half belongs to a success in the file or the transaction
(`Unrewarded`).

For the second, `KInv` describes a daemon that nothing disturbs (`Calm`): a
transaction adds no event, or the one whose id its hunt holds (`Undisturbed`), so a
commit adds at most the event its hunt then publishes. Only a boot makes a daemon
calm, and it starts without a hunt and without an open run.

For the third, `LInv` (`LossesAreCharged`) counts, while the daemon runs, the open
runs no hunt will close (`Lost`): a run that was open stays in the hands of its hunt
until the outcome is committed, so each step that adds to them is a failing
statement, which adds one (`LostBounded`), and the hunts are within the slots
(`InSlots`). The open runs are then those of hunts, at most one each, and the lost
ones. Every safety property of HuntStore is thereby a theorem.

`EventStreamProofs`, from `EventStreamAssumption` only (any set of writers and
viewers, any queue size and bounds):

* `TypeCorrect`: `Spec => []TypeOK`
* `NeverTwice`: `Spec => []NoDuplicate`, with any number of writers: crossing
  publishes can lose an event (section 7) and never repeat one

`NoDuplicate` speaks of what a browser has applied; what it will apply next is
on the wire, in the generator's batch or behind its mark. `InOrder` says that
these lie one above the other: received ids up to the cursor, the wire
ascending from there to the mark, a replay continuing from the mark. The mark
moves with each yield (`YieldInOrder`), the cursor with each frame received,
and a new connection starts its mark at the cursor with nothing on the wire.
The queue's content does not matter: `Splice` compares with the mark.

Its second part, from `EventStreamAssumption` and `OneWriter` (at most one hunt
writes at a time, any number of viewers, any bounds):

* `StreamImplementsFeed`: `Spec => Promised!Spec`, the refinement of Feed
* `GapFreeWithOneWriter`: `Spec => []NoGap`
* `QueuesAreSeamless`: `Spec => []Seamless`

and, for any number of writers, `NoQueueLeaks`: `Spec => []NoLeakedQueue`.
`OneWriter` cannot be dropped: gap_in_feed (section 7) is two writers. A step of
the stream maps to a step of the feed because the next frame a browser receives
is the one after its cursor. `EndToEnd` carries that back to the log: the wire
continues the cursor, the mark is its end, a replay continues the mark, and what
the queue holds continues the replay (`Continued`) up to `Told`, the last id the
hub has been given. `Continued` says it without counting: between `Passed` and an
id in the queue every id is in the queue before it. Hence the frame `Splice`
passes on is the next one, and what it drops was passed on before. `OfferContinues`
is the hub's side, and needs that a publish offers exactly `Told + 1`; this is
where the second writer breaks it. `Seamless` does count; what waits past the mark
also rises (`Rising`), so its positions and the ids up to `Told` are in bijection
(`RunOfIds`).

`DaemonProofs`, from `DaemonAssumption` only (any territories, slots, ceilings
and price, any selection of faults):

* `TypeCorrect`, `SlotsAreKept`, `HuntsAreIsolated`, `ShutdownIsInOrder`,
  `OvershootIsBounded`: `Spec =>` the box of `TypeOK`, `SlotsKept`,
  `IsolatedHunts`, `ShutdownInOrder`, `OvershootBounded`

`IInv` adds `Queued` (the semaphore's queue holds waiting loops, each once:
otherwise a released slot could be given to a loop that holds one), `LoopsMatch`
and `TasksMatch` (which stages of loops, scheduler, worker and lifespan go
together). `Inside` gains and loses one member at a time, and a release with a
waiter replaces one by another. Once the group is cancelled nobody waits any more,
and the loops that live on or left a connection (`Survivors`) each held a slot when
they were cancelled, so they find one for as long as they live (`SurvivorAcquires`). For the overspend, `Budgeted` strengthens the
bound by what the launched hunts may still spend. That is a sum over a set, out of
the prover's reach by itself; it is written as the cardinality of a set of pairs, a
launched hunt and a unit it has not spent (`Unspent`), which loses as many members
as a call costs and stays below slots times allowance when the gate admits a hunt.

`PenProofs`, from `PenAssumption` only (any prey, reasons, workers, any finite
set of handlers, any bounds):

* `TypeCorrect`, `FeastsOnce`, `ClaimsAreExclusive`, `RelaysOnce`, `ColumnIsFold`:
  `Spec =>` the box of `TypeOK`, `OneJobPerFeast`, `ClaimIsExclusive`,
  `RelayedOnce`, `RowIsFold`

They speak of the committed tables and a commit replaces those by what the
lock's holder sees. `Views` therefore says, statement by statement, what that is:
a handler past its UPDATE sees the row moved, past its INSERT the event too, past
the enqueue the job too (`VerdictView`); a worker sees one job's status moved
(`JobMoved`); with nobody holding the lock, view and tables are the same. A commit
then appends one job exactly when a row becomes feasted, and one event exactly
when a handler comes to owe a relay; sets are compared by cardinality, one member
at a time. `RowInv` does the same for the fold: the reason a transaction has
written (`HandlerReason`) and the verdict it appends are one step of the fold
(`VerdictFolds`) from the committed row, whose status the guarded UPDATE found to be
the verdict's source.

`FoldTheorems` is what the proofs about folds rest on; its own theorem is

* `ReplayIdempotent`: for every log in the order of its ids, and every prefix of it,
  `FoldFrom(Fold(prefix), log) = Fold(log)`

`FoldLeft` of the community modules is a recursive function, chosen by CHOOSE, over
the sets of positions. The library's induction theorems take a predicate and cannot
be instantiated here, so `NatSetInduction` states induction for a set of naturals; it
is proved from finiteness: an injection of a finite set into itself is onto, so x + 1
would reach 0. With it `FoldExists` builds the
function a fold chooses (a type for its results and a step that keeps to it is all
that is needed), and `FoldResult` gives its value as the end of a sequence of partial
results, `FoldsInto`. What a model's fold computes is then a matter of one more step:
`FoldAppend` for a log that has grown, `RunningUnique` for a prefix. `FlattenRuns` is
the same for `FlattenSeq`, with which the frames of a reply are
put together.

`HuntLoopProofs`, from `HuntLoopAssumption` only (any tools and replies, any number of
turns, retries and captures, any ceiling and prices):

* `HuntTypes`, `RequestsWellFormed`, `CallsAnswered`, `SpendIsBounded`, `ReasonIsTold`,
  `ThinkingIsVerbatim`: `Spec =>` the box of `TypeOK`, `RequestWellFormed`, `Answered`,
  `SpendBounded`, `ReasonTold`, `ThinkingVerbatim`
* of HuntView: `CardTells`, `ReplaysFold`: `Spec =>` the box of `CardTellsHunt`,
  `ReplayFolds`

All of these say something of a log of any length. `Control` types the variables and
says that the assembler holds what the frames fed so far make of the reply
(`Assembled`, by the number of frames, for a stream cut anywhere). On top of it, one
invariant for each question:

* `Conversing`: between turns the log projects to a conversation the provider accepts
  (`Accepted`); while a tool runs, to one that ends in its tool_use (`Asked`). A row
  that is neither call nor result adds nothing to the projection.
* `Answering`: every call has one later result, except the last one while its tool
  runs or after its failure aborted the hunt (`LastOpen`); ids are those of turns.
* `Spending`: before each call the recorded spend is below the ceiling, and the
  failures logged are at most the retries of the turns so far.
* `Retrying`: the retryable errors since the last other event are the attempts made
  (`Recent`); a reason for giving up is told by as many of them as the budget.
* `Surviving`: a hunt that goes on has logged no failure that is not retried
  (`Unscathed`), and one that ended on such a failure logged it last.
* `Thinking`: a signed block is only in hand when a piece of it was relayed since the
  last call and result (`Relayed`); that is where the order of frames enters.
* `Carding`: `view.fold` of the log, as a card, agrees with the hunt at every `pc`.
  `CardAppend` says what one more event does to the card.

`ReplaysFold` needs no invariant of the hunt but its type: it is `ReplayIdempotent` for
the alternating rows of two hunts, and `SeenAlone` for the rows of one of them.

`BoardProofs`, from `BoardAssumption` only (any list of runs, any bounds):

* `BoardTypes`, `HandoffIsComplete`: `Spec =>` the box of `TypeOK`, `HandoffComplete`

`HandoffComplete` relates a log, the runs of the cards and the tiles, each read in a
statement of its own while hunts commit. `Through` says, statement by statement, that
what was read is a state the store was in and that the later statement saw a later
one: a run with an event in the log read has a row in the runs read after it, and a
run open there is open or closed, never absent, in the tiles. The order of the two
SELECTs over `runs` is needed; the mutant that swaps them fails.

Only model-checked:

* liveness under fairness, which is beyond the prover: `Drains`, `DroppedIsEnded`,
  `HuntEnds`, `JobsAreDrafted`, `EveryWaitEnds`, `CommitsReachBoard`, and the
  fairness part of `ImplementsFeed`.

Every invariant the runs check is thereby a theorem, `NoGap` and `Seamless` for one
writer.

## 7. Where code and documentation disagree

The runs that end in a violation; each finding in `PROJECT.json` quotes the
sentence the code does not keep.

1. **half_capture.** A cancellation at the await of `capture_prey`'s first INSERT
   sends the hunt to its cleanup before the prey INSERT is submitted. `finish_run`
   commits on the same connection, and the half transaction with it: an event
   without its prey row. (At the second INSERT's await the INSERT is queued already
   and executed before the cleanup's commit: both are durable, nobody publishes the
   event.) The backstop does the same when the second INSERT fails.
2. **left_open.** A cancellation at an await outside the try (in `start_run`'s
   commit, in a handler's `append_event`, in the final `finish_run`) leaves a run
   with outcome NULL after a graceful stop, and the next boot calls it crashed.
3. **swallowed_cancel.** A failure of the shielded `finish_run` replaces the
   CancelledError, `_bounded_hunt` takes it for a hunt's ordinary failure, the
   loop goes on, nobody cancels it again and the shutdown waits for ever.
4. **gap_in_feed.** Two hunts commit in one order and publish in the other. The
   high-water mark of `stream_events` then drops the earlier event as a
   duplicate, and the reconnect cursor is past it. The order can differ because
   the publish follows the commit only when the task resumes: the first commit
   may still be checkpointing the WAL after it released the lock, or its thread
   may wait for the interpreter's lock, while the second commits and resumes.
   HuntStore has that interleaving too: a task resumes in its own time.

5. **partial_dispatch.** A stream that ends cleanly after a `hunt_complete` block
   has started (an error frame, which `feed` ignores, and the end of the body)
   leaves the block's empty start input in place. `_drive_stream` never looks at
   `StreamAssembler.complete`, and `HuntComplete` accepts `{}`: the hunt
   completes with an empty catch and no error on the log. For tools with a
   required parameter, validation catches it and the hunt aborts.

Other sentences the models do not bear out; they are stated here without a run
because a passing property already says what is true instead:

* scheduler.py:41-44 says the daemon "structurally cannot exceed its budget" and
  the fold "never under-counts". The gate reserves nothing, so hunts that pass it
  together overshoot (`OvershootBounded` is the bound), and a reply that broke off
  or did not parse was billed and leaves no UsageEvent (`SpendBounded` bounds the
  unrecorded calls of one hunt).
* scheduler.py:14-18 says siblings go on when one hunt fails. They do, except when
  `db.connect` fails, which stands before the try (scheduler.py:77), or the close
  raises: the task group then cancels every loop (`IsolatedHunts` has the exception).
* server.py:46 wants a dead background task to "die loudly". `surface_crash` raises
  in a done callback, where asyncio logs it; the server serves on without it.
  At the stop, the exception comes up in the drain, the tasks after it are not
  awaited and the paid client stays open (`DrainRaises`).
* hub.py:110-111 and server.py:156, 261 let a reconnecting viewer read what it
  missed from /snapshot. board.js asks /snapshot once, before its first
  connection, and does not refetch on a reconnect. `CommitsReachBoard` therefore
  has its three exceptions: a commit between the first /viewstate and /snapshot,
  a notification lost with its connection, an answer painted over a later one.
  Each lasts until the next frame or click.
* view.py's "matching error" (view.py:101-103) includes one that is retried, so
  during the retry the card is idle while the tool runs (`CardTellsHunt` speaks of
  the first attempt). And since `build_viewstate` reads `runs` twice, a card can
  still be live on a board whose tile already shows the end.

## 8. What is left out

* The contents of events, postings, prompts and pages. An event is its run,
  `seq` and whether it is a capture.
* Time. Intervals, timeouts and the busy timeout are nondeterminism: a sleep
  may be over at any point, a statement may fail at any point.
* The boot sweep's own statements: it is one step because nothing else runs in
  that process yet. `db.connect` is one step that succeeds,
  fails, or is cancelled with or without a connection left open.
* `/snapshot` beyond `latest_id`: it returns tables of HuntStore and Pen as JSON.
* A second cancellation of the same task: the task group sends one.
* The request body, tool schemas and `select_brain_for`: data for the HTTP call.
* The inside of a tool, and a stream whose blocks interleave: the assembler
  keeps them by index, HuntLoop's arrive one after the other.
* Provenance in a verdict, which goes through the same COALESCE as the reason.
* Board: a request that fails (the page keeps what it painted), animation cues,
  markup. A kill of the daemon during a page is a disconnect to it.
* `run_hunts`, the one-shot variant of the scheduler that only tests call.
* `view.finalize`'s phase, dormant base and daemon spend: pure functions of what
  the fold has, without a guard or an order to get wrong.
* `events.py` (type declarations), the markup of `render.py` and the manual
  scripts: no state of their own. The HTTP transport of `brain.py` is I/O.

## 9. What could come next

* The safety behind the liveness properties as theorems: what a state in which
  nothing more happens looks like, of the drain and of the semaphore.
* HuntStore with two failures, and Board with failing requests: the instances
  checked here are near what TLC does in minutes.
