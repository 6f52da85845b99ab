# TLA+ models of ocs-ci

ocs-ci is the test framework for OpenShift Data Foundation: it deploys storage
clusters, runs tests against them, and keeps background activity (I/O load,
chaos operations) going beside the tests. Most of it is sequential scripting
around `oc` and cloud interfaces. This project models the parts that are not:
the parts with threads, shared state, limited waits and commands that fail
half-way.

Every module is parameterised by `CONSTANTS` and model-checked with TLC on the
small instances of the `.cfg` files. Each component has a `_proofs` module in which
the safety properties of its runs, and for the clone pool a refinement, are proved
with TLAPS for all values of the constants.
`PROJECT.json` lists the components, runs, findings, hazards and theorems, and maps
each definition to the lines of code it translates.

## 1. Inventory

| Component | State it keeps | Operations | Interacts with | Status |
|---|---|---|---|---|
| Multi-cluster configuration (`ocs_ci/framework/__init__.py`) | list of cluster configurations, one global index, one thread-local index per config-safe thread | `switch_ctx`, `reset_ctx`, `switch_acm_ctx`, `switch_to_provider`, context managers, `run_for_all_clusters`, insertion and removal of clusters, config-safe threads | read by every other part on every call | `MultiClusterConfig` |
| Background cluster load (`ocs_ci/ocs/cluster_load.py`, fixtures in `tests/conftest.py`) | lists of deployments and PVCs, target number of pods, `config.RUN["load_status"]` | set-up, `adjust_load_if_needed`, `reduce_load`, `resume_load`, the pause, reduce and resume fixtures, end of session | main thread and watcher thread share one string | `ClusterLoad` |
| Background cluster operations (`ocs_ci/krkn_chaos/background_cluster_operations.py`) | `_running`, operation threads, session-wide metrics with failure streaks and the escalation, resources to clean up | `start`, `_operation_loop`, `_run_operation_safe`, dedicated loops, `stop` | the aggressive operations, the health gate, the factories of the tests | `BackgroundOps` |
| Aggressive clone operation (`ocs_ci/krkn_chaos/aggressive_clone_operations.py`) | pool of clones, creates in flight, dirty marks, shutdown event | the actions of `run`, `_create_and_track_clone`, `_delete_tracked_clone`, `cleanup_all` | run by a dedicated thread of the controller above | `ClonePool` |
| Alert measurement (`ocs_ci/utility/workloadfixture.py`, `prometheus.py`, the PagerDuty fixture in `tests/conftest.py`) | class-level list of alerts, result files, the rerun flag, the status of the secret's thread | `measure_operation`, the subscriber's rounds, the finalizer | subscriber and updater threads beside the test; the idle measurement of the background load | `AlertMeasurement` |
| S3 batch deleter (`ocs_ci/ocs/resources/s3_batch_deleter.py`) | pages, futures, failed keys | sequential and parallel deletion, the drain, one retry | executor threads | `BatchDeleter` |
| Sampling and retrying (`TimeoutSampler` in `ocs_ci/utility/utils.py`, `ocs_ci/utility/retry.py`) | start time, attempts, what is left of the tries | iteration, back-off, validation | everything that waits | `Waits`; in the other modules a wait is "answered or timed out" |
| Aggressive snapshot operation (`aggressive_snapshot_operations.py`) | a second pool, restores | as the clone operation, without reservations | run by the other dedicated thread | planned; its thread is in `BackgroundOps` |
| Environment check, CephFS stress helpers, run control (graceful stop) | listings, stop flag, stop file | comparison, scale-out, check between tests | | planned |
| Everything else (deployment, upgrade, DR, platforms, `oc` wrappers, UI, KMS, clean-up of clouds, logging) | the cluster's | sequences of commands | | not modelled: fixed order, no state or concurrency of the program's own |

What is hard to get right, and to test, in the modelled parts:

* **Interleavings.** Context managers read the global index, compare it and
  switch in separate steps. The load's watcher tests the shared string several
  times in one round and writes its answer unconditionally. The controller's
  threads record into metrics the next run resets. Workers create and delete
  clones of one pool. Cancelled subscribers finish a round that writes to the
  list of their successor. Pages are listed while others are deleted.
* **Limited waits.** Fixtures poll for five minutes and go on; `stop()` joins
  every thread for a limited time; deletes time out and are retried later;
  samplers and retries decide everywhere when to give up.
* **Half-way failures.** A PVC without its deployment, a deployment without its
  list entry, a clone without its label, a reservation without its clone, an
  operation that raises while its alerts are collected, a batch that raises.
* **Stale values.** Saved indexes while the list of clusters changes, the failure
  streak read again after it was recorded, the deleted flag of an object two
  workers share.

What makes each component correct: a thread reads the configuration of the
cluster it asked for; a measurement or a test that asked for a quiet cluster
gets one, and the load comes back afterwards; `stop()` returns, leaves nothing
running, never cleans up under a living worker, and errors belong to the run
that raises them; the pool keeps its limit, forgets no clone that still exists,
and compares data only where the comparison means something; a result file has
the alerts of its measurement; a deleter that returns has emptied its bucket; a
wait neither overlooks what it waits for nor outlasts its timeout.

## 2. Modules and the code

### MultiClusterConfig

`clusters`, `nclusters`, `cur_index` and `config_index` are the attributes of
`MultiClusterConfig` and of `thread_local_data`. A `with` block, a
`run_for_all_clusters` call and the loop over client contexts are *frames* on a
thread's stack. A context manager is three steps (`Construct` for `__init__`,
`Enter` for the comparison, `FinishSwitch` for `switch_ctx`), because other
threads can run in between; `Exit` is `__exit__`. `HostedClusterRemove` and
`RemoveCluster` (or `DestroyFailed`) follow `hosted_cluster_remove_factory`, which
tests may call inside a context and beside running pool threads. `want` and `shifted`
are history variables: the cluster the thread asked to be on, and whether a removal
moved a position that some thread still held (`Held`: its own index, those of its
call, its contexts and its loops). `remove_cluster` corrects no stored position, so the
properties hold until that happens; the switch to the provider before a removal is
what protects the current index, which `Held` therefore leaves out. `MayUse` says
which operations the code of each thread calls.

Abstractions: the content of a configuration is its cluster type, provider name
and ACM flag; start-up is one step; the name-prefix fallback of
`get_cluster_index_by_name` is part of cluster identity. `InsertClusterConfig`
appends: both callers pass `nclusters` as the index (`vmware.py:2313`,
`hub_spoke.py:8271`). `AcmAssumption`: threads use the ACM operations only in fleets
with a hub, as the disaster-recovery code does; without one `get_active_acm_index`
returns `None`, which would become the index.

### ClusterLoad

The main thread (`Setup`, then the fixtures of one test after the other) and
the thread `watch_load` (one action per read of `load_status`, one per pod
deleted or created) share `load_status`. `dc_objs` and `pvc_objs` are the lists
the code keeps; `pods` and `pvcs` are what exists. `Delete` is `OCS.delete` with
`wait_for_delete`, including the attempt that fails after it took effect.
`increase_load(ok)` and `decrease_load(ok)` have an outcome for every point at
which the code can raise. Latency and space decide nothing in the model: a
decision they make is a free choice.

### BackgroundOps

One controller per run; its loop thread (`LoopTop`,
`abort_if_cluster_unrecoverable`, `StartOperation`), operation threads (one
record per thread, one action per step of `_run_operation_safe`) and `stop()`
(one action per join and per clean-up). The metrics outlive the controllers, as
`get_session_metrics` makes them do. Of an operation's work only success,
failure and what it leaves behind matter. `DeleteNamespace` is the
test's project going away, in teardown or behind the controller's back. The
verdict of the health gate is a free choice.

### ClonePool

The operation's thread takes the actions that `run` selects; an action plans how
many clones to create, delete or write to (`Plan…`), and workers of its executor
(or one at a time, `Alone`) do so. `_create_and_track_clone` is seven steps from
the reservation to the release, `_delete_tracked_clone` five, `_run_vdbench_on_pvc`
three. `cleanup_all` deletes every entry and then sweeps by label.
A clone is one name for its PVC, object and entry.

External behaviour, modelled from how the code uses it: `oc delete` of a PVC
that is gone reports NotFound; a PVC whose deletion was requested disappears at
some time (`Reclaim`); deleting a namespace deletes what it holds.

### TrackedPool, and the refinement

`TrackedPool` says what a pool of tracked resources promises, whoever fills it: a
maker takes a slot before it makes a resource; the slot becomes the entry of a
resource that exists and has none, or is given back; an entry is forgotten only
after its resource is gone; after the clean-up nothing is made or tracked any more.
`ClonePool` implements it: `tracked` is `_clone_pool`, `existing` the PVCs in the
cluster, `closed` the return of `cleanup_all`, and `holders` are the workers
inside of `_create_and_track_clone`; the code only has their number,
`_inflight_creates`. `ImplementsTrackedPool` is checked by `pool_churn` and proved.

### AlertMeasurement

One call of `measure_operation` after the other on the test's thread, one action
per step that can fail or that another thread can see: the test of the result file,
`subscribe`, the operation, `unsubscribe` in its `finally`, PagerDuty's incidents,
the dump. Each measurement has a subscriber thread (`run`, `get`,
`prometheus_log`), and all of them append to one list, since
`prometheus_alert_list` is an attribute of the class. `finished` is what `cancel()`
sets: a subscriber looks at it between rounds, so it may still append afterwards.
`EndRun` ends a test, in its body (`EndTest`) or in its set-up (`Fail`); a flaky one
that fails for the first time is run again after `ignore_next_measurement_file`. The
one test with that filter, `test_mcg_cpu_usage`, has one measurement. `update_pagerduty_integration_secret` polls
the status that the measurement and the session's finalizer write. `seen` and
`added` are history variables.

### BatchDeleter

`ListPage`, `ReadResult`, `EndDrain`, `Shutdown`, `_retry_failed` are the caller
of `delete_in_parallel` and `delete_sequentially` (`parallel` chooses);
`Start` and `Delete` are the executor's threads. A request deletes any part of its
batch and reports the rest, or raises. The result of a batch that raises has `[]`
where a number is added to the total: `number` is FALSE there, and reading it ends
the call with `TypeError`, as in the code.

### Waits

One thread that calls a decorated function: `validate_retry_params`, the loop of
`retry` or `retry_until_exception`, `catch_exceptions` if it is in between, and
as the function a command or a `TimeoutSampler` in `wait_for_func_value` or
`wait_for_func_status`. `Tick` lets time pass in the sampled function and in
sleeps; `Change` turns the cluster ready or not at any moment. The parameters are
one record, chosen in `Init`.

### How they fit together

`ClonePool` is one of the two dedicated operations of `BackgroundOps`:
`WorkerTop … WorkerNext` there is a call of `run` here, its `pool` (empty or
not) is `has_tracked_resources`, and `cleanup_all` here assumes what
`NoRacingCleanup` says there, that the operation's thread has ended; that
assumption is a theorem of `BackgroundOps`. The idle measurement of `ClusterLoad`
(`PollPaused`, `Measured`) is a `measure_operation`, whose inside is
`AlertMeasurement`. The waits that other modules treat as one choice, answered
or timed out, are opened up in `Waits`: `NothingOverlooked` and `TimelyTimeout`
say how far that choice is justified.

## 3. What the runs check

Faults and time-outs are constants, so that a run says under which failures a
property holds.

| Run | Instance | What it shows |
|---|---|---|
| `config_main` | 2 clusters at start-up, 2 hosted ones that come and go, one pool thread, nesting up to 2 | `OnExpectedCluster`: the main thread, and a pool thread with an index of its own, is on the cluster it asked for, through nested contexts and loops, with removals at any moment, until one shifts a position that is held. `IndexesValid`: up to then no saved or pending index dangles, and `nclusters` counts the list. `NoStaleBinding`: a pool thread does not take its index into the next task. |
| `config_safe_thread_main` | a config-safe thread calls `switch_ctx` | **violated** `MainContextUntouched` |
| `load_main` | 2 pods, 3 identifiers, all fixtures, faults and time-outs | `MeasureWhileQuiet`, `PodsKeepTheirPvc`, `UnlistedIsGone`: a deployment that leaves the list is gone from the cluster, `NoGrowthWhileHeld` |
| `load_live` | 3 pods, polling fixtures, no faults, no time-outs, fair | `RequestsAnswered`: pauses, reductions and resumes happen, and the watcher stops; `PausedTestQuiet`: a test that asked for a pause runs on a quiet cluster |
| `ops_stop` | 2 runs, a clone worker and longevity operations, 2 at a time, rows of 2 failures, resources of run 1 may fail | `StoppedMeansQuiet`, `EscalationOwned`, `FullRowReported`: a full row of failures is escalated, or a thread that recorded one of them has yet to read it |
| `ops_live` | 1 run, a clone worker and one operation at a time, joins time out, operations may hang, fair | `NoRacingCleanup`, `StopReturns` (with the end of the loop) |
| `pool_churn` | 3 clones, limit 2, 2 workers, every action of `run`, clones of clones, I/O and checks included; creates, labels, binds, deletes and I/O fail | `PoolWithinLimit`, `InflightExact`, `ClusterWithinLimit`, `NoCheckAfterWorkload`, `RemovedMeansGone`, `ImplementsTrackedPool` |
| `pool_live` | 3 clones, 2 workers, fair, binds and deletes fail | `ShutdownEnds`: the operation's thread ends for good and a clean-up that began is carried through; `EventuallyReclaimed` |
| `alert_main` | 2 result files, 2 measurements, 1 alert, managed platform; operations, requests, PagerDuty and dumps fail; fair | `CompleteAlerts`, `OneHarvest`, `RerunMeasures`, `SecretRestored`, `ThreadsEnd` |
| `deleter_main` | 7 objects, pages of 2, memory limit 4, 2 threads, both ways to delete; listings and requests fail or raise; fair | `ReturnMeansEmpty`, `MemoryBound`, `RetriedOnce`, `EndsQuiet` |
| `waits_main` | the parameters `AllWaits`, functions that take up to 2 units; fair | `NothingOverlooked`, `TimelyTimeout`, `RetryBudget`, `AllTriesMade`, `Ends` |
| `waits_until` | `retry_until_exception` alone | **violated** `TriesBeforeGivingUp` |

`TypeOK` is proved for every module that models code; `alert_main`, `deleter_main`
and `waits_main` check it too. Every property of a passing run is paired with a mutant: a
definition changed the way a plausible bug would change the code, under which TLC
finds that property violated.

### Disagreements with the code's own statements

* `config_safe_thread_main`. `switch_ctx` always writes the global index. The
  docstring of `ConfigSafeThread` says it prevents one thread from modifying the
  context of another, "e.g. main thread of framework".
* `waits_until`. `retry_until_exception` calls the function `tries - 1` times before
  it returns False. Its docstring says "number of times to try (not retry) before
  giving up" (`retry.py:152`).

### Weak spots

They have no run of their own. Where a property has a condition because of one,
the condition marks it.

Configuration and load:

* without the restriction to one moving thread, contexts and `switch_to_provider`
  in config-safe threads end on the wrong cluster (both mix the thread's index
  with the global one), and without client clusters the loop over
  `get_client_contexts_if_available` raises `TypeError` (`framework/__init__.py:657`);
* `remove_cluster` leaves saved, thread-local and pending positions behind the removed
  one as they are (`framework/__init__.py:678`): their threads are then on another
  cluster, or end in `IndexError` (hence `~shifted` in `OnExpectedCluster` and
  `IndexesValid`);
* with time-outs, a late "reduced" is taken for the answer to a pause, a late
  "paused" overwrites a request to resume, and with a fixture that does not wait
  (`resize_osd`) "running" can overwrite "finished" (hence `~Timeouts` in
  `PausedTestQuiet`, and the polling fixtures in `load_live`);
* a deployment whose pod did not run in time is in no list and survives a pause
  (hence `~Faults` in `PausedTestQuiet`).

Background operations:

* after an escalation `stop()` returns early (`background_cluster_operations.py:531`):
  it joins no operation thread and skips the clean-up. Such a thread can record its
  failure after the next controller reset the metrics and escalate a run it does
  not belong to, although the code says "Escalation and consecutive-failure
  streaks are per run." (`:338`). Hence the condition on the earlier outcomes in
  `EscalationOwned`;
* a loop thread that outlives its 30 s join can still start an operation (hence
  `~Timeouts` in `StoppedMeansQuiet`);
* with two threads of the same operation the success of one between the record
  and the read of the other hides a full row of failures, although the docstring
  says that the run is escalated when an operation "fails max_consecutive_failures
  times in a row" (`:807`). `FullRowReported` is what the code does guarantee: a row
  that is still full when its last reader looks is escalated;
* a command that fails between setting and unsetting `noout` (`:1246`) leaves the
  flag set.

Clone pool:

* a clone of a written clone is recorded with the original source and as clean
  (`aggressive_clone_operations.py:366`), and is then compared with that source: a
  checksum mismatch on correct storage. And the dirty mark comes after
  `start_workload()` (`:654`): when the start is found to have failed, data may have
  been written. `NoCheckAfterWorkload` therefore speaks of the clones on which a
  workload was started, not of all data that differ from the source;
* `stop()` skips `cleanup_all` when the operation's thread outlives its join, and when
  it returns early (`background_cluster_operations.py:562`, `:531`): nothing else
  removes the clones then (hence `ShutdownEnds` promises only the end of a clean-up
  that began);
* a create that raises after its PVC was made (`:869`) leaves a clone without
  object, entry and label, and so does an undo that fails, which is suppressed: only
  the deletion of the namespace removes it (hence `lost` in `ClusterWithinLimit` and
  the condition on `Faults` in `EventuallyReclaimed`).

Alert measurement:

* the class-level list is never emptied: a result file also holds what earlier
  measurements of the session found (`CompleteAlerts` only rules out what a later
  measurement found);
* a file dumped for an operation that failed is read by the next test that uses
  the fixture as if it had succeeded;
* an error in a round of the subscriber or of the updating thread ends that thread
  and nobody notices (hence `updater = "ended"` in `SecretRestored`);
* when PagerDuty cannot be asked, the file is not written at all; a dump that
  fails half-way leaves a file that every later call fails to read;
* the status "required" is written again where the log says that the updates stop
  (`workloadfixture.py:182`);
* `prometheus_log` switches the process-wide cluster context from the
  subscriber's thread (`prometheus.py:951`), which is the finding about
  `switch_ctx` again.

Deleter and waits:

* a batch that raises ends the call with `TypeError` before any retry
  (`s3_batch_deleter.py:49`): the bucket is left as it is and nothing is named
  (`ReturnMeansEmpty` says nothing of that outcome);
* without `text_in_exception`, `retry_until_exception` drops the exception it waits
  for and calls again for ever (hence the condition in `Ends`; both callers give a
  text);
* a sampler with a timeout of 0 may raise before it sampled at all, since the timeout
  is tested first, although `TimeoutSampler` "at first yields the output of function
  `func`" (`utils.py:2264`; hence `p.timeout > 0` in `NothingOverlooked`);
* a sampler accepts a value that comes after its timeout, and one that is
  iterated a second time would not get its timeout again (nobody does).

### Bounds, and why they are enough

* `MaxDepth = 2`: a context inside a loop and a loop inside a context already have
  every relation between a frame and the one below it; deeper nesting repeats
  it, and the proof holds for every depth. Two hosted clusters let a removal shift
  the position of the other.
* `MaxPods` 2 or 3 with three identifiers: half of the load differs from none
  and from all of it, and a leftover PVC can exist beside the listed ones.
* `NRuns = 2`: threads and metrics of one run meet the next; nothing in the code
  looks further back. `MaxFailures` is 2 in `ops_stop`, so that two threads share a
  row of failures, and 1 in `ops_live`, where only the end matters. `Slots` are the
  threads alive at the same time.
* Two workers, a limit of two, three names: two creates compete for the last slot,
  two deletes for one entry, and an untracked leftover can exist beside a full pool.
* Two measurements on two files: one reads the other's file, overlaps the late round
  of the other's subscriber, or is the rerun of the other. One alert suffices since
  the properties look at one alert at a time.
* Seven objects in pages of two: the memory limit of four is reached, a drain is
  followed by further pages, and the last page is short.
* The parameters of `Waits` have delays that grow to `max_delay` and budgets on
  both sides of their sum, zero tries, a zero timeout with and without a sleep, and
  sleeps shorter and longer than the timeout. A positive timeout comes with a
  positive sleep: with none, and a function that takes no time, no time need pass
  in the model and the sampler would not end. An age is capped at the first value that violates the bound.
* Symmetry is used for identifiers, clones, workers, threads and hosted clusters in
  runs without liveness properties; the modules treat them alike. The view `Told` of
  `config_main` leaves out the history values `want` and `back` after a removal has
  shifted a position: no action reads them, and no invariant speaks of them then.

### Fairness

* `ClusterLoad!FairSpec`: weak fairness of the watcher, of the set-up and of a
  fixture that has begun. Both are running threads whose calls return; the main
  thread need not begin another test.
* `BackgroundOps!FairSpec`: weak fairness of the loop, of the bookkeeping of
  operation threads and of `stop()` after its first step. No fairness of an
  operation's work, which may hang; `stop()` returns because its joins are
  limited (`Timeouts`).
* `ClonePool!FairSpec`: weak fairness of each worker (commands end or time out),
  of the ends of an action and of the sweep of a clean-up that has begun, and of
  `Reclaim` (the cluster finishes deletions it accepted). `run`, `request_shutdown` and
  `cleanup_all` are not fair: `stop()` may never get to it.
* `AlertMeasurement!FairSpec`: weak fairness of each subscriber and of the updating
  thread (requests have a timeout) and of the join. An operation, or a test, may
  take for ever.
* `BatchDeleter!FairSpec`: weak fairness of the caller and of each thread: a
  request ends with a response or an exception.
* `Waits!FairSpec`: weak fairness of the waiting thread and of time together. The
  cluster need not change.

## 4. What is proved

For every value of the constants that satisfies the named `ASSUME`s.

* **MultiClusterConfig_proofs.** `TypeCorrect`, `NoBindingLeft` for any behaviour
  of the threads. `ExpectedCluster`, `ValidIndexes` under `OnlyMainSwitches`: pool
  threads do not move the context (the finding shows that this is needed). The
  inductive invariant is `SafeInv`: the shape of the state always, and `ContextInv`
  until a removal shifts a position that is held.
  `OnExpectedCluster` is not inductive: it says nothing of saved indexes.
  `ContextInv` adds that clusters of the command line never change position
  (`ListInv`), that a pending switch leads to the wanted cluster (`MainInv`), and
  that every frame's saved index selects the cluster the thread returns to
  (`FrameInv`, which relates each frame of a client loop to the one above it).
* **ClusterLoad_proofs.** `QuietMeasurement`, `PvcsKept`,
  `HeldLoadDoesNotGrow` and `ForgottenDeploymentsAreGone` with faults and time-outs. `LoadOK`: the listed
  deployments are, in order, a selection of the listed PVCs, so the last PVC is
  never that of a deployment that stays. `HeldInv`: while the status is an answer
  the watcher is only reading. `TargetInv`: a target exists only after set-up.
  `PausedTestsAreQuiet` needs in addition that the answer is the one to this test's
  request: `AskedInv`, which holds while no polling times out, ties "to_be_reduced",
  "reduced" and the watcher's reduction to the one fixture that waits for them.
  `PodsListed` (no failing commands) carries the result from the list to the cluster.
* **BackgroundOps_proofs.** `CleanupDoesNotRace` with
  `JoinInv`: from the join of a dedicated thread on, one that is not in
  `unstopped` is dead, because only `start` begins one. `StopLeavesQuiet` and
  `EscalationIsOwned` are proved together, in `QuietInv`: `PhaseInv` says what each
  step of `stop()` has achieved when its joins wait, and `OwnerInv` that every
  thread works for a run that was started, so that nothing is left of a stopped run
  that could start, list or escalate anything. `FullRowsAreReported` is
  inductive with `OwnerInv`: the thread that records the last failure of a row is the
  one that has yet to read it.
* **ClonePool_proofs.** `PoolLimitKept`, `ReservationsExact`, `NoEntryLost`,
  `ClusterLimitKept`. The limit alone is not inductive: turning a reservation into
  an entry would break it if the counter were already 0, which `max(0, …)` would
  hide. `InflightExact` excludes that. `FlagInv` makes the deleted flag
  trustworthy, though reloads reset it. `Tracked` (`NothingUntracked`) and
  `ReleaseInv` carry the limit from the books to the cluster.
  `ChecksAreMeaningful` (`NoCheckAfterWorkload`) holds for every set of actions and
  faults. A workload is started before its entry is marked, so the invariant is
  `WrittenInv`: entries on which one was started are marked or about to be.
  `AloneInv` says that a check begins when no worker is about to mark anything, and
  `MakerInv` that no workload was started on the clone a worker enters into the pool.
* **ClonePoolRefinement_proofs.** `PoolImplementsTracking`: every step of the clone
  pool is a step of `TrackedPool` or changes nothing it knows of. The invariant
  above does not suffice. `HeldInv`: until a clone is in the pool no list and no
  other worker has its name, so nobody deletes it under the worker that is about
  to enter it. `TermInv`: a name is only free when its PVC is gone, also from
  the deletions under way. `EndInv`: `cleanup_all` comes last, so nothing is taken,
  entered or forgotten after it. Reserving maps to `Take` because
  `InflightExact` makes the counter the number of holders.

* **AlertMeasurement_proofs.** `MeasurementTypeCorrect`, `AlertsComplete`,
  `HarvestedOnce`, `RerunIsMeasured`, for any files, alerts and number of
  measurements, whatever fails. `HarvestInv`: the cancelled subscribers are those of
  all measurements but the one whose operation runs. What a subscriber had found when
  it was cancelled is therefore final, and in the list (`ListInv`), from which
  nothing is taken. `CallInv` gives a call its file, and `RerunInv` makes sure that the
  flag of a rerun is still set when its measurement looks at the file.
* **BatchDeleter_proofs.** `DeleterTypeCorrect`, `BucketEmptied`, `MemoryBounded`,
  `AskedTwiceAtMost`, `NothingDeletesAfter`, for any number of objects and threads,
  page size and memory limit. `AccountInv`: an object that was listed and still
  exists is in a queue, with a thread, among the errors of a result or among the
  failed ones. `PendingInv`: batches are disjoint, and what is pending has not been
  asked for. `CountInv`: the counter, which is only reset by a drain, is at least what
  is held, and below the limit whenever a page is asked for.
* **Waits_proofs.** `WaitsTypeCorrect`, `NothingIsOverlooked`, `TimeoutIsTimely`,
  `BudgetKept`, `TriesAreMade`, for any parameters. `TriesInv` counts the calls.
  `BudgetInv` says that the delays that are slept follow the same sequence as the
  ones that were added up in the validation: `Follows` names the sequence and
  its sums, because the two loops never run at the same time. `TimeInv` bounds the
  time at each place of the sampler's loop, and `AgeInv` how long the cluster may have
  been ready there although the latest sample did not see it. The proof of
  `NothingOverlooked` failed at first for a timeout of 0, and TLC confirmed the
  counterexample on the parameters `NoWaits`, which the run has had since.

Only model-checked are the liveness properties (`RequestsAnswered`, `StopReturns`,
`ShutdownEnds`, `EventuallyReclaimed`, `SecretRestored`,
`ThreadsEnd`, `EndsQuiet`, of which `NothingDeletesAfter` is the safety part, and
`Ends`): fairness and `ENABLED` are beyond the prover. Every invariant and every
action property of a passing run is a theorem. What a recursive definition computes
for every input could not be proved (no induction over data); the modules have none.

## 5. Plan

1. Proofs: what the liveness properties rest on without fairness, as theorems of their
   own (for instance that a step of `stop()` never undoes an earlier one, and that no
   step takes back a request to the watcher that is not answered).
2. `SnapshotPool` for the aggressive snapshot operation. Unlike the clone pool it
   reserves nothing, drops the entry of a failed delete, looks at its limits only
   between two calls and sweeps by the prefix of the name: it does not implement
   `TrackedPool`, and what it promises instead is to be stated first.
3. Cluster-wide side effects of operations (`noout` flag, taints) under
   concurrency and failure.
4. The environment check against a reference definition; the scale-out of the
   CephFS stress helpers; the stop file of the run control.

## 6. Not modelled

Deployment, upgrade, disaster recovery, node and platform control, the `oc`
wrappers, buckets, KMS, UI and clean-up of cloud accounts are sequences of
commands in a fixed order whose state is the cluster's: there is nothing to
interleave and the interesting part is on the other side of the interface.
Within the modelled parts the content of configurations, latency and space
measurements, test pods and snapshots of clones, Vdbench files, metrics other than
streaks, and all logging are left out.

The mapped lines are a small share of the repository, and most of the rest cannot
be added faithfully: it holds some 270 000 lines, nearly all of them the sequences
above, page objects and locators of the UI, and test helpers. A model of such
code would be the list of its commands, with no property that could fail.
