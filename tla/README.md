# Formal model of gala-filetrace

gala-filetrace watches configuration files: eBPF hooks report every write, copy,
rename and unlink, a user-space process compares the path with a list, and tells
Prometheus, a remote service (ragdoll) and the clients of an HTTP API. This
directory holds TLA+ modules translated from that code, the configurations with
which TLC checks small instances, and proofs checked by TLAPS. Paths below are
relative to the repository's root.

## 1. The system

| Part | State | Operations | Talks to |
| --- | --- | --- | --- |
| Hooks, `src/filetrace.bpf.c` | ring buffer `events`, `exec_map`, `self_tgid` | one hook per system call: reserve, fill, submit or discard; two exec hooks | the polling thread, through the ring |
| Polling thread, `src/filetrace.cpp`, `src/post.cpp` | its place in `process_event` | `ring_buffer__poll`, `handle_event`, `is_valid_event`, `send`, `cache_event` | exporter, remote service, cache; reads `conf_list` under `config_mutex` |
| Event cache, `src/post.cpp` | `event_queue` under `event_queue_mutex` | `cache_event`, `GET /monitor_file_status` | HTTP workers |
| Configuration, `src/post.cpp` | `conf_list`, `config_json_obj` under `config_mutex`; the file and its `.tmp` | `load_config`, `POST /filetrace`, `GET /filetrace` | HTTP workers, the polling thread, the next start |
| Exporter, `src/exporter.cpp` | gauges per process id and their timestamps, under `gauge_cache_mutex` | `set_metrics`, expiry once a second | its own thread, the polling thread |
| Process trace | `exec_map` | exec hooks, `generate_proc_trace`, `/proc/<pid>/stat` | the polling thread |
| Logger, `src/logger.cpp` | the log stream under `g_log_mutex` | `init`, `log`, rotation | every thread |
| Life cycle, `src/filetrace.cpp` | `skel`, `postdata_i`, the detached HTTP thread | start, signal, error, restart by systemd | all |

What is hard, and what each part must get right:

- *Hooks and ring.* Hooks of different threads overlap; the consumer stops at the
  first busy record; the ring may be full; a hook may give up after reserving.
  Records must be handled in order, each once, never half filled, and none may
  block the ring for good. The tracer must not see its own writes.
- *Paths.* An event carries at most four directory names. The path rebuilt from
  them must decide as the real one would.
- *Dispatch.* One thread feeds three outputs while requests change the list. The
  outputs must agree on what was accepted, also when one of them fails.
- *Cache.* Bounded, oldest dropped first, several readers that remove what they
  read. No reader may get what another got; no request may be starved.
- *Configuration.* A change is made in memory, then written, then renamed; each
  step may fail and the process may die in between. The file must stay loadable
  and an acknowledged change must last.
- *Exporter.* A refresh reads the time before it takes the mutex the expiry scan
  holds. A gauge in use must stay exported, an idle one must go, and the three
  containers that know of it must agree.
- *Process trace.* Entries of `exec_map` are as old as the last exec, ids are reused,
  processes end during a walk. The trace must list ancestors, and the walk must end.
- *Life cycle.* Start, polling and teardown can fail or be interrupted by a signal
  while the exporter's thread runs. Nobody may use what was deleted, and a service
  that failed must come back.
- *Logger.* Rotation can fail half way.

`PROJECT.json` lists each hazard at its line, with the properties that cover it.

## 2. Modules

| Module | Models | Built on |
| --- | --- | --- |
| `Paths` | `fill_parent_dirs`, `fill_dir_chain`, `get_full_path`, `get_dir_level` | |
| `Tracer` | the hooks and the ring buffer | `Paths` |
| `EventQueue` | the cache and its HTTP workers | |
| `RetainedLog` | what the cache promises: the abstract specification | |
| `Pipeline` | hooks, polling thread, outputs, list changes: composes `Tracer` and `EventQueue` | both |
| `AuditTrail` | what hooks, ring, polling thread and outputs promise together: the abstract specification | |
| `ConfigStore` | `update_config`, `load_config`, the file, crashes and restarts | `Paths` |
| `DurableList` | what `POST /filetrace` promises: the abstract specification | |
| `GaugeCache` | `set_metrics` and `task_gauge_cache_timeout` over a clock | |
| `Presence` | what the exporter's series promise: the abstract specification | |
| `Service` | `main`, `sig_handler`, construction and destruction, restart: composes `GaugeCache` with the life of the process | `GaugeCache` |
| `ProcTrace` | the exec hooks, `exec_map`, `generate_proc_trace`; forks, threads, ends, reused ids | |
| `MCEventQueue`, `MCPipeline`, `MCConfigStore`, `MCService`, `MCProcTrace` | small instances for TLC | |
| `PathsProofs`, `EventQueueProofs`, `PipelineProofs`, `PipelinePromises`, `ConfigStoreProofs`, `ServiceProofs`, `ProcTraceProofs` | theorems | |

A definition named `Bad...` stands before the one it could replace. It is a
plausible mistake in that piece of code and is used by nothing; the properties
are known to notice it.

### Correspondence

**Paths.** A path string is the sequence of its components: `/etc/hosts` is
`<<"", "etc", "hosts">>`. A dentry is the sequence of names from the root of its
file system, where the walk over `d_parent` stops. `RealPath` puts a mount point
in front.

**Tracer.** `recs` is every record ever reserved, in the order of reservation;
`consumed` is the consumer position; `hook[t]` is the record a thread's hook is
filling. `Reserve` is `bpf_create_ringbuf` with the tests made before it, `Submit`
and `Discard` are the two ways a hook ends. Filling is atomic with submitting
because nobody reads a busy record. A hook that returns before it has a record
changes nothing and has no action. The record also remembers its task and call,
which the code does not store: properties compare the event with them.
`EventType` keeps the fields user space decides on.

**Pipeline.** `pc` is the polling thread's place: between callbacks, in `send`
before the POST, in the POST, before `cache_event`, or the process is down.
`Reject`, `PrintEvent`, `Accept`, `Send`, `PostReturns` and `Cache` are the branches of
`process_event` and `send` cut where another thread or the peer can come between.
`accepted` and `rejected` are history: each verdict with the list it was made
against. `metered`, `posted` and `cached` are what the three outputs were given.
A command name that is not UTF-8 makes `dump` throw in `send`; the process ends.
`UpdateList` is what the polling thread can see of a POST request. `Trail` maps all of it
to `AuditTrail`: an operation is observed when its hook gets a record, judged when the
verdict on it falls (or its hook gave up on it), entered when it is accepted, and
reported when an output is given it.

**EventQueue.** Each section under `event_queue_mutex` is a step: `CacheEvent` and
`Pop`. Building and sending the response is another, because the mutex is released:
`RespondOK` (200 or 204) or `RespondError` (`dump` throws on the old name of a
rename, the library answers 500, and the popped events are gone). `cached` is the
log of all events pushed.

**ConfigStore.** `Update` takes `config_mutex` and changes `conf_list`; `OpenTmp`,
`WriteTmp`, `RenameTmp` and their failures are the steps of persisting. The stream's
write and close are not checked by the code, so `WriteTmp` may leave a broken
file and go on, which `lost_write` records. `Crash` can come at any point; `Start` is
`load_config`'s verdict on the file. `updates` is history, and with it `ConfigStore`
maps to `DurableList`: a request is taken when `conf_list` changes, acknowledged in
the rename, and what is stored is the file.

**GaugeCache.** `ReadTime` and `Refresh` are `set_metrics` cut where it waits for
`gauge_cache_mutex`. `LoopTest`, `StartScan`, `ScanKey` and `EndScan` are the expiry
thread; each key is a step because it reads the time anew, and the keys come in any
order. The mutex is held from `StartScan` to `EndScan`. `Tick` is a second. `idle` is
history: when each gauge was last set, and with it `Service` maps to `Presence`: a process
acts in `Refresh`, is taken down in a `ScanKey` that finds it expired, and the end of a life
clears the board.

**Service.** `main` is the place of the main thread; one action per call it makes.
`StartFails`, `PollFails` and `Abort` (an exception out of a callback) are the ways to
fail, `Signal` and `Exit` the two halves of `sig_handler`, `Delete` and `Join` those of
`~PrometheusExporter`. `Die` ends all threads; `Restart` is `Restart=on-failure`.

**ProcTrace.** `procs` is every process in order of birth, with the ids it had and the
parents it had. `Exec` is both exec hooks (they note the same; an exec that ends
the other threads is `EndThread` and then `Exec`). `FromMap`, `OpenStat`, `ReadStat` and
`EndWalk` are the loop of `generate_proc_trace`, one step per look-up; opening and reading
the stat file are two steps, and the thread may end between them. `walk.last` and
`walk.at` are an id just listed and the one it leads to.

### Abstractions

- Names are atomic: the cuts at 15 bytes (directories, commands) and 63 bytes
  (file names) and the comparison of command names up to 15 characters, after the last
  slash of the name, are left out: a command stands for what is compared of it. `.` and `..` inside an argument, and symbolic links, are not resolved.
- `renameat2` reads its arguments with the kernel variant of the probe; like any
  probe it yields the string or nothing.
- The numeric content of an event and the report's user, group, login address and
  process trace are left out. `curl_easy_init` is taken to succeed; the outcome of a
  POST, which the code only logs, is not distinguished.
- The log level is the default, `info`.
- In `ConfigStore` a list is a set. `config_json_obj` holds the same list whenever
  the mutex is free. Returning from `update_config` and answering are one step.
  A 400 answer changes nothing and has no action.
- In `GaugeCache` times are ages, counted up to a bound beyond which no comparison
  differs; the clock is not set back. Labels are left out. The polling thread is
  held up at most `MaxDelay` seconds between reading the time and taking the mutex.
- In `Service` signals are handled by the main thread and the handler's calls
  return; that they are not safe in a handler is not modelled. systemd's limit on
  the rate of starts is left out.
- In `ProcTrace` a process that ended is reaped at once, the first thread ends with its
  process, at most one more thread exists, and the first process is the only one that
  adopts. Ids above `PID_MAX_LIMIT` do not occur.
- Losing power (as opposed to the process ending) is not modelled: the code never
  calls fsync, so nothing is promised about it.

## 3. What TLC checks

| Run | Shows | Size |
| --- | --- | --- |
| `event_queue` | types, `QueueIsRecent`, `HandedOutOnce`, `LossHasCause`, refinement `RetainsRecent`, liveness `PollingDrains` | 25 184 states |
| `pipeline_safety` | types, `EffectsFollow`, `SettledInOrder`, `CaptureIsExact`, refinement `KeepsAuditTrail` | 577 024 |
| `pipeline_verbose` | `EffectsFollow`, `CaptureIsExact`, `KeepsAuditTrail` in verbose mode, older kernel, all system calls | 89 690 |
| `pipeline_live` | liveness `AllHandled`; `GivenOnce`, two workers behind the polling thread | 266 328 |
| `config_store` | types, `FileIsWhole`, `AckedInForce`, refinement `KeepsDurableList`, liveness `MutexIsFreed` | 112 949 |
| `service` | types, `SeriesTracked`, `RecentExported`, `ExporterOutlivesUsers`, refinement `ShowsActivity`, liveness `IdleExpires`, `ServiceReturns` | 37 931 |
| `proc_trace` | types, `TraceIsLineage`, `RingsNeedReuse`, action property `WalkClimbs`, liveness `WalkEnds` | 796 518 |
| `pipeline_logged` | violates `RejectedAreSilent` | |
| `pipeline_cached` | violates `CachedInTheEnd` | |
| `pipeline_moved` | violates `RelativeRenameResolved` | |
| `config_desync` | violates `InSync` | |
| `config_refused` | violates `FileLoads` | |

The properties, in words:

- `EffectsFollow`: between two callbacks the exporter, the remote service and the
  cache have been given exactly the accepted events, in order; within a callback
  only the outputs not yet reached may lack the current one. An output switched off
  sees nothing.
- `SettledInOrder`: a record the consumer has passed was discarded by its hook or
  judged exactly once, and was complete when judged; accepted events are in order of
  reservation.
- `CaptureIsExact`: an accepted event touched a path that was monitored when it was
  judged, and not by the tracer; a rejected write or copy by a process that is
  not skipped did not touch a monitored path.
- `KeepsAuditTrail`: the pipeline implements `AuditTrail`. Operations are judged one at a time,
  in the order in which their hooks got a record, by the file they really touch and the list
  of that moment; the next verdict falls only when every output has been given the one before;
  and the outputs are given the trail in its order, each entry once.
- `AllHandled`: if the peer of every POST answers in the end, every record reserved is
  taken from the ring, or the process has ended.
- `QueueIsRecent`, `HandedOutOnce`, `PollingDrains`, `RetainsRecent`: the queue is
  the newest part of the log; no event is returned twice; with a worker that keeps
  being asked every event leaves the queue, whatever the count parameters; the
  cache implements `RetainedLog`.
- `LossHasCause`: an event that is not waiting, not being returned and was not returned was
  pushed out by the newer events that fill the queue, or lost with the batch it was popped in,
  which held an event that cannot be dumped.
- `GivenOnce`: behind the polling thread, too, no event is given to two requests or is still
  queued once given. There ids are record numbers with gaps, and what keeps them distinct is
  that each accepted event passes `cache_event` once.
- `FileIsWhole`, `AckedInForce`, `MutexIsFreed`: the file is never cut short unless
  a write failed; an update answered with 200 holds in memory and in the file until
  the path is named again, also after a failed update, a crash or a restart; the
  mutex is given back. `AckedInForce` says nothing of a file cut short by a write that failed
  unnoticed: a 200 may be given for that too (section 6). It does say that the next whole
  file holds that change as well.
- `KeepsDurableList`: the store implements `DurableList`. Requests change one list in
  some order, a 200 is given in the step that stores the list with that change in it,
  and the list after a restart is the one stored. `DurableList` has the exception the code has: the
  step may also leave nothing readable stored and give a 200 all the same.
- `SeriesTracked`, `RecentExported`, `IdleExpires`: cached gauges, noted times and
  exported series are of the same processes whenever the mutex is free; a process
  active within the timeout less the delay is exported; the series of one that
  has no more events goes in the end.
- `ShowsActivity`: the exported series implement `Presence`. One appears only with an event of
  its process; it is removed alone, and only when that process has been quiet for the timeout
  less the delay; all go only with the life of the tracer.
- `ExporterOutlivesUsers`, `ServiceReturns`: once the exporter is deleted its thread has
  ended and no callback is under way; a teardown ends, and the service polls again
  unless it was told to stop.
- `WalkClimbs`: while no id was given twice, each process listed is older than the one before,
  and the id a walk stands at keeps its meaning whatever the kernel does meanwhile. The age of
  the process is so a variant of the loop.
- `TraceIsLineage`, `RingsNeedReuse`, `WalkEnds`: while no id was given twice, each step
  of a trace goes from a process to one that was its parent, and no ring of
  entries exists; with reuse too, every walk ends unless it meets a ring.

### Bounds and why they are enough

- *Directory names per event*: two in the pipeline runs (`MaxDepth`), so that a file
  one level too deep (`/a/srv/etc/hosts`) has only four components. The theorems
  hold for any depth.
- *Ring of two records, three reserved*: it fills, the second record can be complete
  while the first is busy, and it is reused. *Queue of two* (pipeline) and *three
  with five events* (queue): eviction happens while a batch is being answered.
- *Threads*: an ordinary one, one with a cut command name, one of the tracer itself
  whose thread id differs from its process id; in verbose mode a skipped process
  and a kernel thread. *Calls*: at least one per branch of `is_valid_event` and of
  each hook, on monitored, unmonitored and too deep files.
- *Two workers* in the HTTP models and in `pipeline_live`: overlaps of two, with the third party
  (polling thread or crash) present. `pipeline_live` has four records, each a monitored write, one
  its hook discards, or a rename that is rejected or cannot be dumped, so that ids have gaps and
  the queue of two overflows while batches are out; `pipeline_safety` has one worker, since its
  properties do not look at who is given what. *Three updates*: one acknowledged, one that fails after it,
  one after a restart, with a path that is in the initial list, one that is not, and a
  relative one that makes the file refused.

- *Service*: two gauges, so that a scan has two keys and one process stays active
  while the other is idle; a timeout of two seconds with a delay of one, so that a gauge
  can be recent by one measure and old by the other; two failures, so that the
  service fails after it came back.
- *Process trace*: three ids and four processes, so that an id is given to a thread and
  then to a process, or to two processes, and an entry as old as its last exec meets
  what `/proc` says of the id's next owner: rings occur in the run;
  `exec_map` holds two, so that it is full while a third is looked up in `/proc`.

Deadlock is not checked where the model really stops: all `MaxRecords` records are
reserved and handled, the process is down, or the file is refused at every
restart, the service was told to stop, or a walk threw an exception. `event_queue`
checks it.

### Fairness

`Pipeline!Fairness` assumes that a hook ends (a BPF program is verified to) and that
the polling thread takes its next step when it can. That it is given the mutexes is
`MutexIsFreed` for one and the shortness of the sections for the other; that the
walk up the ancestors ends unless it meets a ring is `WalkEnds`, and that there is none
without reused ids `RingsNeedReuse`; with reused ids `Pipeline` assumes it. Nothing makes the peer of
a POST answer: the transfer has no timeout, so `PostReturns` has no fairness and
`AllHandled` states the peer's answer as its hypothesis. `ConfigStore!Fairness` assumes that a
worker's file operations return. `PollingDrains` has its fairness, that some worker
keeps popping, as an explicit hypothesis. `Service!Fairness`: the main thread makes its
next call when it can (a handler that began exits), the expiry thread takes its next
step, a second passes, an event begun is handled, and systemd restarts. No failure, signal
or event is ever required. `ProcTrace` assumes only that the walk takes its next step;
the kernel may do anything or nothing.

## 4. What is proved

Each theorem holds for every value of the constants that satisfies the named
assumptions of the modules (`PathsAssumption`, `TracerAssumption`,
`PipelineAssumption`, `EventQueueAssumption`, `ConfigStoreAssumption`,
`GaugeCacheAssumption`, `ServiceAssumption`, `ProcTraceAssumption`).

- `PathsProofs`: `RebuiltFilePathIsExact` and `RebuiltRelativePathIsExact`. A path cut
  to the last `MaxDepth` directories equals a monitored path of at most that many levels
  exactly when the uncut one does. The point is that a cut path has `MaxDepth + 1`
  slashes (`CutPathsAreDeep`), which no such monitored path has. `get_dir_level`
  counts the slash before the file name, so what `load_config` admits with
  `max_dir_level` = 4 has at most three directories, within what the hooks carry.
- `EventQueueProofs`: `QueueTypeCorrect`, `QueueAlwaysRecent`, `EventsHandedOutOnce`,
  `LossAlwaysHasCause`, and the refinement `CacheImplementsRetainedLog`. The inductive invariant is that the
  queue is a suffix of the log; the sequence lemmas say that a suffix stays one under
  append, tail and removal of a prefix. `HandedOutOnce` is not inductive alone: the
  identity of an event does not say where it stands. The strengthening (`HandedOutInv`) adds
  that no two places of the log hold the same id and that everything handed out lies before
  the queue's start. It asks of a cached event only that its id is new, so that the pipeline,
  whose ids have gaps, can use the same lemmas. `LossHasCause` needs `LossInv` besides: a batch lies
  within `max_event_queue_size` places of the log, an idle worker has none, and of the most
  recent events those that left the queue were handed out.
- `PipelineProofs`: `PipelineTypeCorrect`, `RecordsSettledInOrder`,
  `OutputsFollowVerdicts`, `CaptureAlwaysExact`. The invariant joins the tracer's (a
  thread's `hook` names a busy record of that thread), the queue's, and the dispatch
  part; `SettledInOrder` is inductive only with the first, because a hook must not
  touch a record that has been passed. `CaptureAlwaysExact` has the hypothesis
  `Exactable`: files are on the root file system, monitored paths have 0 to `MaxDepth` levels,
  no file's name is empty, and a relative `unlinkat` knows its base directory and does
  not end in a slash. Its invariant says that every complete record tells of its call
  and every verdict is `is_valid_event` of that record with the list recorded; the
  path theorems do the rest.
- `PipelinePromises`: what follows for the pipeline as a whole. `PipelineGivesOnce`: the steps of the
  other parts leave the cache alone (`CacheStepsOnly`), and the record in hand has not been cached
  before, because the records cached are those accepted before it and these increase
  (`CurrentIsNew`). `PipelineKeepsAuditTrail` is the refinement of `AuditTrail`, under `Exactable`:
  one lemma per step of the pipeline says which step of the trail it is, or that it is hidden.
  Besides the invariants above it needs `DiscardsGaveUp`, that a discarded record is one whose hook
  gave up on the file, since `AuditTrail` leaves out nothing plain.
- `ConfigStoreProofs`: `StoreTypeCorrect`, `FileAlwaysWhole`,
  `AckedUpdatesStayInForce`. The strengthening says what the tmp file holds at
  each step of the worker with the mutex, that memory and file agree on each
  acknowledged latest update, and that only the last update can be pending. From the same
  invariant, `StoreImplementsDurableList`: each step maps to a step of `DurableList` or to
  a stutter; it needs that the file about to be renamed holds the list in memory, or
  is broken (`TmpIsCurrent`). Both theorems on acknowledged updates carry the exception above: a
  200 given after a write that failed unnoticed.
- `ServiceProofs`: `ServiceTypeCorrect`, `SeriesAlwaysTracked`, `RecentAlwaysExported`,
  `ExporterAlwaysOutlivesUsers`, `ServiceShowsActivity`. `RecentExported` is not inductive: the strengthening
  (`NotedInTime`) says that a noted time is never older than the last use by more than
  `MaxDelay`, and that a process without a gauge has been idle for long enough. For the
  theorem on the exporter `LifeInv` says where in `main` one is there and a callback can be
  under way. The refinement of `Presence` follows from `NotedInTime` and from the three
  containers being in step even while the scan holds the mutex (`InStep`).
- `ProcTraceProofs`: `ProcTraceTypeCorrect`, `TraceAlwaysLineage`, `RingsAlwaysNeedReuse`, `WalkAlwaysClimbs`. The
  invariant is that parents are older than their children, whatever adopts them, that
  every entry of `exec_map` links an id some process had to one a parent of it had, and that
  without reuse an id had one owner. A ring would then have an oldest owner, whose
  entry leads to an older one. `LeastNatural` takes the least element from the
  library's theorem on well-founded orders. `WalkAlwaysClimbs` adds that an id the walk stands at was
  given to some process (`StartKnown`), whose it then remains (`OwnerStays`); that a walk with such a
  variant ends is what TLC checks as `WalkEnds`.

Only model-checked: the liveness properties (`AllHandled`, `PollingDrains`,
`MutexIsFreed`, `IdleExpires`, `ServiceReturns`, `WalkEnds`), which are outside the prover, and the five statements that fail.

## 5. Where code and documentation differ

1. *Rejected events are logged.* `tests/test_postdata.cpp:115` says they must not be:
   "the logger's write is also observed by the BPF program". `get_full_path`
   logs what it built before the verdict (`src/post.cpp:647`). The self filter
   added to the hooks now breaks that loop, which `CaptureIsExact` confirms.
2. *Accepted events may never be cached.* `src/post.cpp:254`: "Cache accepted events
   even when publishing fails". A peer that accepts and never answers holds the
   polling thread in `curl_easy_perform` (`src/post.cpp:292`).
3. *Relative new paths of `renameat2` are not resolved*, although the hook fills the
   directory fields for that (`src/filetrace.bpf.c:464`): `is_valid_event` compares
   the raw argument (`src/post.cpp:515`).
4. *Memory and file differ after a failed update.* `tests/test_postdata.cpp:230`: "in-memory
   state must stay in sync with the file"; the list is changed before the file can be
   opened (`src/post.cpp:683`), and when opening or the rename fails the request is answered with
   500 and the change stays. In TLC's trace a path is removed and the tmp file cannot be opened.
5. *Updates that cannot be loaded are acknowledged.* `load_config` refuses an empty
   list, a relative path and a path too deep; `update_config` checks none of it.

## 6. What the models show besides

No statement in the repository contradicts these, so they are not properties that
fail; a maintainer should know of them.

1. *A walk may never end once an id is reused.* An entry of `exec_map` says who the parent
   was at the last exec. Say process 2 starts the daemon 3, which calls exec: the entry
   of 3 names 2. Process 2 ends, and much later a child of the daemon is given id 2. Now
   the old entry leads from 3 to 2, and the child's own entry or `/proc/2/stat` from 2 to 3
   (`src/post.cpp:380`): for an event of either the polling thread stays in the loop and
   the report grows. TLC finds this when `RingsNeedReuse` is checked without its
   hypothesis.
2. *A process that ends while its stat file is read ends the tracer.* The line is
   empty, `split_stat_line` throws, nothing catches it (`src/post.cpp:595`). `ProcTrace` reaches this;
   `WalkEnds` counts the end of the process as an end of the walk. The service
   manager restarts the tracer; events in the ring are lost.
3. *The skeleton is destroyed twice* if a signal comes after `main` destroyed it
   (`src/filetrace.cpp:147`, or `:101` after a failed load), or the other signal comes during the handler: `skel` is not
   reset. `Service` reaches that state.
4. *The detached HTTP thread is not stopped* before `postdata_i` is deleted
   (`src/filetrace.cpp:146`); between that and the end of `main` its workers use a deleted
   object. Only the paths after a failed attach, ring or poll delete it.
5. *A truncated file is acknowledged.* Neither the write nor the close of the tmp file is checked
   (`src/post.cpp:699`): on a full disk a file cut short replaces the good one, "Configuration
   updated successfully." is logged and the answer is 200. As long as the process runs the
   list in memory is right and the next successful update repairs the file; a restart before that
   fails. `ConfigStore` reaches this with `lost_write` set.

## 7. Not modelled

- *Logger and rotation*, except that judging an event writes a log entry. Every call is
  one section under `g_log_mutex`, so threads cannot come between its steps, and no
  other component reads the log's state. Reading the code: two rotations in the same second give
  the backup the same name and the first backup is lost; if the new file cannot be
  opened after the rename, `stat` fails from then on, the log is never reopened and
  lines go to stderr; a failed write leaves the stream's error bit set and later lines are
  dropped until the next rotation or restart.
- *Labels of a gauge* and the values of metrics. A gauge keeps the labels of the event that
  created it until it expires; the repository states nothing else.
- *Names cut* to 15 and 63 bytes, and files on mounted file systems in the pipeline's
  runs: components of paths are atomic, and `CaptureIsExact` is stated for the root
  file system.
- *The HTTP thread against teardown*: see 4 above.
- The content of log lines, of metrics' values and of reports; the parsing of JSON and of
  command-line arguments; libbpf, libcurl, cpp-httplib, prometheus-cpp and the kernel
  except for the behaviour the code relies on (marked external in `PROJECT.json`); the
  tests and the packaging.

Open for later: `Pipeline` with `ConfigStore` in place of `UpdateList`, so that the restart of
the whole process loses the ring and the cache but not the list.
