--------------------------- MODULE BackgroundOps ---------------------------
(***************************************************************************)
(* The background operations of the chaos and resiliency tests.            *)
(*                                                                         *)
(* Every test (a run) makes a BackgroundClusterOperations controller.  Its *)
(* loop thread starts operation threads, at most MaxConcurrent at a time;  *)
(* two of the operations have a thread of their own each, which loops.     *)
(* Every operation checks that nothing was escalated, does its work and    *)
(* records the outcome in the metrics, which all controllers of the session*)
(* share: the operation that failed MaxFailures times in a row escalates.  *)
(* The test's thread ends the run with stop(), which joins all of these    *)
(* threads, each for a limited time, and cleans up.                        *)
(*                                                                         *)
(* Data.  An operation is a name.  Only what it leaves behind is modelled: *)
(* the snapshots and PVCs of the longevity operation, listed for clean-up, *)
(* and the pools of the two dedicated operations, as empty or not.         *)
(*                                                                         *)
(* Bounds.  NRuns runs, Slots for the threads alive at the same time, Res  *)
(* for the longevity resources a run may have at the same time.            *)
(***************************************************************************)
EXTENDS Integers, FiniteSets

CONSTANTS
    NRuns,          \* tests of the session
    Slots,          \* places for operation threads
    RandomOps,      \* _random_operations
    Dedicated,      \* the enabled operations with a loop of their own
    Res,            \* names for the resources of the longevity operation
    MaxConcurrent,  \* max_concurrent_operations
    MaxFailures,    \* max_consecutive_failures
    Faults,         \* the runs in which deleting or creating a resource may fail
    Timeouts        \* a join may time out

Clone == "aggressive_clone_operation"
Snapshot == "aggressive_snapshot_operation"
Longevity == "longevity_operations"
NoOp == "none"              \* what a free place works on

ASSUME OpsAssumption ==
    /\ NRuns \in Nat
    /\ IsFiniteSet(Slots)
    /\ Dedicated \subseteq {Clone, Snapshot}
    /\ RandomOps \cap {Clone, Snapshot, NoOp} = {}
    /\ MaxConcurrent \in Nat \ {0}
    /\ MaxFailures \in Nat \ {0}
    /\ Timeouts \in BOOLEAN

Runs == 1 .. NRuns
Ops == RandomOps \cup Dedicated

VARIABLES
    cur,           \* the latest run, 0 before the first
    running,       \* _running of each controller
    loop,          \* where the loop thread of each controller is
    thread,        \* the operation threads
    streak,        \* metrics.consecutive_failures
    escalation,    \* metrics.escalation_error: 0, or the run whose thread set it
    listed,        \* _resources_to_cleanup of each controller
    live,          \* the longevity resources in the namespace of each run
    pool,          \* the dedicated operations of a run that track resources
    ns,            \* the namespace of each run exists
    main,          \* where the test's thread is
    unstopped,     \* dedicated threads that outlived their join
    outcome        \* how stop() ended for each run

vars == <<cur, running, loop, thread, streak, escalation, listed, live, pool, ns,
          main, unstopped, outcome>>

metrics == <<streak, escalation>>
leftovers == <<listed, live, pool, ns>>
caller == <<cur, main, unstopped, outcome>>

LoopSteps == {"none", "top", "gate", "start", "ended"}
ThreadSteps == {"idle", "top", "check", "exists", "body", "ok", "fail", "read",
                "escalate", "next"}
StopSteps == {"join_loop", "join_clone", "join_snapshot", "join_ops", "cleanup",
              "clear", "cleanup_snapshot", "raise"}
MainSteps == {"idle", "test", "again"} \cup StopSteps
Outcomes == {"none", "skipped", "stopped", "not_stopped"}

Idle == [run |-> 0, op |-> NoOp, step |-> "idle", mine |-> {}]
Fresh(r, op, step) == [run |-> r, op |-> op, step |-> step, mine |-> {}]

Init ==
    /\ cur = 0
    /\ running = [r \in Runs |-> FALSE]
    /\ loop = [r \in Runs |-> "none"]
    /\ thread = [t \in Slots |-> Idle]
    /\ streak = [op \in Ops |-> 0]
    /\ escalation = 0
    /\ listed = [r \in Runs |-> {}] /\ live = [r \in Runs |-> {}]
    /\ pool = [r \in Runs |-> {}]
    /\ ns = [r \in Runs |-> TRUE]
    /\ main = "idle" /\ unstopped = {}
    /\ outcome = [r \in Runs |-> "none"]

Of(r, ops) == {t \in Slots : thread[t].run = r /\ thread[t].op \in ops}

\* The living threads of self._operation_threads.  The loop drops the dead ones
\* before it counts, into a list of its own: a stop() whose join of the loop timed
\* out walks the list before that, which JoinOps allows as a join that timed out.
OpThreads(r) == Of(r, RandomOps)
WorkerAlive(r, k) == Of(r, {k}) # {}

-----------------------------------------------------------------------------
(* The test's thread: __init__ and start().                                *)

\* The constructor resets the streaks and the escalation of the session's
\* metrics; start() begins the loop thread and the dedicated ones.
start ==
    /\ main = "idle" /\ cur < NRuns
    /\ cur' = cur + 1
    /\ running' = [running EXCEPT ![cur + 1] = TRUE]
    /\ loop' = [loop EXCEPT ![cur + 1] = "top"]
    /\ streak' = [op \in Ops |-> 0]
    /\ escalation' = 0
    /\ \E S \in SUBSET {t \in Slots : thread[t] = Idle} :
         \E f \in [S -> Dedicated] :
           /\ \A s, t \in S : f[s] = f[t] => s = t
           /\ \A k \in Dedicated : \E s \in S : f[s] = k
           /\ thread' = [t \in Slots |-> IF t \in S THEN Fresh(cur + 1, f[t], "top")
                                         ELSE thread[t]]
    /\ main' = "test" /\ unstopped' = {}
    /\ UNCHANGED <<leftovers, outcome>>

-----------------------------------------------------------------------------
(* The loop thread, _operation_loop.                                       *)

LoopVars == <<metrics, leftovers, caller>>

LoopTop(r) ==
    /\ loop[r] = "top"
    /\ loop' = [loop EXCEPT ![r] = IF running[r] THEN "gate" ELSE "ended"]
    /\ UNCHANGED <<LoopVars, running, thread>>

\* An unrecoverable cluster escalates the run; a gate that raises lets it pass.
abort_if_cluster_unrecoverable(r) ==
    /\ loop[r] = "gate"
    /\ \/ /\ escalation' = r
          /\ running' = [running EXCEPT ![r] = FALSE]
          /\ loop' = [loop EXCEPT ![r] = "ended"]
       \/ /\ loop' = [loop EXCEPT ![r] = "start"]
          /\ UNCHANGED <<escalation, running>>
    /\ UNCHANGED <<thread, streak, leftovers, caller>>

\* A further operation may be started.
BelowLimit(r) == RandomOps # {} /\ Cardinality(OpThreads(r)) < MaxConcurrent

\* At most one operation is started before the loop sleeps.
StartOperation(r) ==
    /\ loop[r] = "start"
    /\ \/ /\ BelowLimit(r)
          /\ \E t \in Slots, op \in RandomOps :
               /\ thread[t] = Idle
               /\ thread' = [thread EXCEPT ![t] = Fresh(r, op, "check")]
       \/ ~BelowLimit(r) /\ UNCHANGED thread
       \/ (\A t \in Slots : thread[t] # Idle) /\ UNCHANGED thread   \* no thread to be had
    /\ loop' = [loop EXCEPT ![r] = "top"]
    /\ UNCHANGED <<LoopVars, running>>

Loop(r) == LoopTop(r) \/ abort_if_cluster_unrecoverable(r) \/ StartOperation(r)

-----------------------------------------------------------------------------
(* An operation thread: _run_operation_safe, and the loop around it for the*)
(* dedicated operations.                                                   *)

At(t, step) == thread[t].step = step
Goto(t, step) == thread' = [thread EXCEPT ![t].step = step]

\* The operation is over: the thread ends, or goes round its loop.
Finish(t) ==
    thread' = [thread EXCEPT ![t] =
                 IF @.op \in Dedicated THEN Fresh(@.run, @.op, "next") ELSE Idle]

\* The top of the loop of a dedicated operation.  A namespace that is found
\* gone stops the controller; one that cannot be checked counts as existing.
WorkerTop(t) ==
    LET r == thread[t].run IN
    /\ At(t, "top")
    /\ \/ running[r] /\ Goto(t, "check") /\ UNCHANGED running
       \/ /\ ~(running[r] /\ ns[r])
          /\ running' = [running EXCEPT ![r] = FALSE]
          /\ thread' = [thread EXCEPT ![t] = Idle]
    /\ UNCHANGED <<loop, metrics, leftovers, caller>>

\* Its end; a requested shutdown comes together with _running = False.
WorkerNext(t) ==
    /\ At(t, "next")
    /\ thread' = [thread EXCEPT ![t] = IF running[@.run] THEN Fresh(@.run, @.op, "top") ELSE Idle]
    /\ UNCHANGED <<running, loop, metrics, leftovers, caller>>

CheckEscalated(t) ==
    /\ At(t, "check")
    /\ IF escalation # 0 THEN Finish(t) ELSE Goto(t, "exists")
    /\ UNCHANGED <<running, loop, metrics, leftovers, caller>>

namespace_exists(t) ==
    LET r == thread[t].run IN
    /\ At(t, "exists")
    /\ \/ Goto(t, "body") /\ UNCHANGED running
       \/ ~ns[r] /\ Finish(t) /\ running' = [running EXCEPT ![r] = FALSE]
    /\ UNCHANGED <<loop, metrics, leftovers, caller>>

\* The longevity operation makes a resource and lists it for clean-up; one that
\* is made but not ready in time is not listed.
longevity_create(t) ==
    LET r == thread[t].run IN
    /\ At(t, "body") /\ thread[t].op = Longevity
    /\ ns[r]
    /\ \E x \in Res \ (live[r] \cup listed[r]) :
         /\ live' = [live EXCEPT ![r] = @ \cup {x}]
         /\ \/ /\ listed' = [listed EXCEPT ![r] = @ \cup {x}]
               /\ thread' = [thread EXCEPT ![t].mine = @ \cup {x}]
            \/ r \in Faults /\ UNCHANGED <<listed, thread>>
    /\ UNCHANGED <<running, loop, metrics, pool, ns, caller>>

\* The work is done.  The longevity operation deletes what it made and only
\* fails before it made anything; a dedicated one leaves its pool filled or not.
operation_func(t) ==
    LET r == thread[t].run
        k == thread[t].op
    IN  /\ At(t, "body")
        /\ \/ Goto(t, "ok")
           \/ Goto(t, "fail") /\ (k = Longevity => thread[t].mine = {})
        /\ \E kept \in SUBSET thread[t].mine :
             /\ r \in Faults \/ kept = {}
             /\ live' = [live EXCEPT ![r] = @ \ (thread[t].mine \ kept)]
        /\ pool' \in IF k \in Dedicated
                       THEN {[pool EXCEPT ![r] = @ \cup {k}], [pool EXCEPT ![r] = @ \ {k}]}
                       ELSE {pool}
        /\ UNCHANGED <<running, loop, metrics, listed, ns, caller>>

\* A success ends the row of failures.
streak_after_success(op) == [streak EXCEPT ![op] = 0]

record_operation(t) ==
    /\ \/ At(t, "ok") /\ Finish(t) /\ streak' = streak_after_success(thread[t].op)
       \/ At(t, "fail") /\ Goto(t, "read") /\ streak' = [streak EXCEPT ![thread[t].op] = @ + 1]
    /\ UNCHANGED <<running, loop, escalation, leftovers, caller>>

\* Variant: one failure more is tolerated.
AtLimitLate(op) == streak[op] > MaxFailures

AtLimit(op) == streak[op] >= MaxFailures

\* The streak is read again, after other threads may have changed it.
ReadStreak(t) ==
    /\ At(t, "read")
    /\ IF AtLimit(thread[t].op) THEN Goto(t, "escalate") ELSE Finish(t)
    /\ UNCHANGED <<running, loop, metrics, leftovers, caller>>

Escalate(t) ==
    /\ At(t, "escalate")
    /\ escalation' = thread[t].run
    /\ running' = [running EXCEPT ![thread[t].run] = FALSE]
    /\ Finish(t)
    /\ UNCHANGED <<loop, streak, leftovers, caller>>

\* What the thread does besides the work itself, which may hang.
Bookkeeping(t) ==
    \/ WorkerTop(t) \/ WorkerNext(t) \/ CheckEscalated(t) \/ namespace_exists(t)
    \/ record_operation(t) \/ ReadStreak(t) \/ Escalate(t)

Operation(t) == Bookkeeping(t) \/ longevity_create(t) \/ operation_func(t)

-----------------------------------------------------------------------------
(* The test's thread: stop(), called by the factory when the test ends, and*)
(* again by the finalizer when it raised "did not stop".                   *)

StopVars == <<cur, loop, thread, metrics, ns>>

\* Nothing seems to run: stop() returns at once, and the factory drops the
\* controller.  Otherwise the controller is told to stop.
StopBegin ==
    /\ main \in {"test", "again"}
    /\ \/ /\ ~running[cur] /\ pool[cur] = {}
          /\ \A k \in Dedicated : ~WorkerAlive(cur, k)
          /\ main' = "idle"
          /\ outcome' = [outcome EXCEPT ![cur] = "skipped"]
          /\ UNCHANGED running
       \/ /\ \/ running[cur] \/ pool[cur] # {}
             \/ \E k \in Dedicated : WorkerAlive(cur, k)
          /\ running' = [running EXCEPT ![cur] = FALSE]
          /\ main' = "join_loop"
          /\ UNCHANGED outcome
    /\ unstopped' = {}
    /\ UNCHANGED <<StopVars, listed, live, pool>>

\* Variant: the loop thread is not waited for.
JoinLoopNoWait ==
    /\ main = "join_loop"
    /\ main' = "join_clone"
    /\ UNCHANGED <<StopVars, running, listed, live, pool, unstopped, outcome>>

JoinLoop ==
    /\ main = "join_loop"
    /\ loop[cur] = "ended" \/ Timeouts
    /\ main' = "join_clone"
    /\ UNCHANGED <<StopVars, running, listed, live, pool, unstopped, outcome>>

\* Variant: the result of the join is not looked at.
JoinWorkerTrusting(k, next) ==
    /\ ~WorkerAlive(cur, k) \/ Timeouts
    /\ main' = next
    /\ UNCHANGED <<StopVars, running, listed, live, pool, unstopped, outcome>>

JoinWorker(k, next) ==
    /\ \/ ~WorkerAlive(cur, k) /\ UNCHANGED unstopped
       \/ WorkerAlive(cur, k) /\ Timeouts /\ unstopped' = unstopped \cup {k}
    /\ main' = next
    /\ UNCHANGED <<StopVars, running, listed, live, pool, outcome>>

JoinWorkers ==
    \/ main = "join_clone" /\ JoinWorker(Clone, "join_snapshot")
    \/ main = "join_snapshot" /\ JoinWorker(Snapshot, "join_ops")

\* Variants: joined for as long as it takes; not joined.
JoinOpsForever ==
    /\ main = "join_ops"
    /\ OpThreads(cur) = {}
    /\ main' = "cleanup"
    /\ UNCHANGED <<StopVars, running, listed, live, pool, unstopped, outcome>>

JoinOpsNoWait ==
    /\ main = "join_ops"
    /\ main' = "cleanup"
    /\ UNCHANGED <<StopVars, running, listed, live, pool, unstopped, outcome>>

JoinOps ==
    /\ main = "join_ops"
    /\ OpThreads(cur) = {} \/ Timeouts
    /\ main' = "cleanup"
    /\ UNCHANGED <<StopVars, running, listed, live, pool, unstopped, outcome>>

\* The pool of k after cleanup_all: what could not be deleted stays tracked.
PoolsCleaned(k) ==
    {[pool EXCEPT ![cur] = @ \ {k}]} \cup (IF cur \in Faults THEN {pool} ELSE {})

\* cleanup_resources: every listed resource is deleted, errors are ignored ...
CleanupResources ==
    /\ main = "cleanup" /\ Clone \notin unstopped
    /\ \E kept \in SUBSET listed[cur] :
         /\ cur \in Faults \/ kept = {}
         /\ live' = [live EXCEPT ![cur] = @ \ (listed[cur] \ kept)]
    /\ main' = "clear"
    /\ UNCHANGED <<StopVars, running, listed, pool, unstopped, outcome>>

\* ... the list is cleared, and the clones are cleaned up.
ClearResources ==
    /\ main = "clear"
    /\ listed' = [listed EXCEPT ![cur] = {}]
    /\ pool' \in PoolsCleaned(Clone)
    /\ main' = "cleanup_snapshot"
    /\ UNCHANGED <<StopVars, running, live, unstopped, outcome>>

CleanupSnapshots ==
    /\ \/ main = "cleanup_snapshot"
       \/ main = "cleanup" /\ Clone \in unstopped
    /\ \/ Snapshot \notin unstopped /\ pool' \in PoolsCleaned(Snapshot)
       \/ Snapshot \in unstopped /\ UNCHANGED pool
    /\ main' = "raise"
    /\ UNCHANGED <<StopVars, running, listed, live, unstopped, outcome>>

\* RuntimeError when the clone thread lives: the factory keeps the controller
\* and the finalizer may call stop() once more.  Otherwise the controller is
\* dropped, whether the escalation is raised or not.
StopEnd ==
    /\ main = "raise"
    /\ main' \in IF Clone \in unstopped THEN {"again", "idle"} ELSE {"idle"}
    /\ outcome' = [outcome EXCEPT ![cur] = IF Clone \in unstopped THEN "not_stopped" ELSE "stopped"]
    /\ UNCHANGED <<StopVars, running, listed, live, pool, unstopped>>

\* stop() after its first step.
Stopping ==
    \/ JoinLoop \/ JoinWorkers \/ JoinOps \/ CleanupResources \/ ClearResources
    \/ CleanupSnapshots \/ StopEnd

\* The project of a test is deleted, in its teardown or behind its back.
DeleteNamespace(r) ==
    /\ r <= cur /\ ns[r]
    /\ ns' = [ns EXCEPT ![r] = FALSE]
    /\ live' = [live EXCEPT ![r] = {}]
    /\ UNCHANGED <<running, loop, thread, metrics, listed, pool, caller>>

Terminated ==
    /\ main = "idle" /\ cur = NRuns
    /\ \A r \in Runs : loop[r] \in {"none", "ended"}
    /\ \A t \in Slots : thread[t] = Idle
    /\ UNCHANGED vars

Next ==
    \/ start \/ StopBegin \/ Stopping
    \/ \E r \in Runs : Loop(r) \/ DeleteNamespace(r)
    \/ \E t \in Slots : Operation(t)
    \/ Terminated

Spec == Init /\ [][Next]_vars

\* The threads run, and every join of stop() is limited; the work of an
\* operation may take for ever.
FairSpec ==
    /\ Spec
    /\ WF_vars(Stopping)
    /\ \A r \in Runs : WF_vars(Loop(r))
    /\ \A t \in Slots : WF_vars(Bookkeeping(t))

-----------------------------------------------------------------------------
(* Properties.                                                             *)

TypeOK ==
    /\ cur \in 0 .. NRuns
    /\ running \in [Runs -> BOOLEAN]
    /\ loop \in [Runs -> LoopSteps]
    /\ thread \in [Slots -> [run : 0 .. NRuns, op : Ops \cup {NoOp}, step : ThreadSteps,
                             mine : SUBSET Res]]
    /\ streak \in [Ops -> Nat]
    /\ escalation \in 0 .. NRuns
    /\ listed \in [Runs -> SUBSET Res] /\ live \in [Runs -> SUBSET Res]
    /\ pool \in [Runs -> SUBSET Dedicated]
    /\ ns \in [Runs -> BOOLEAN]
    /\ main \in MainSteps
    /\ unstopped \subseteq Dedicated
    /\ outcome \in [Runs -> Outcomes]

\* stop(), "teardown aborted to avoid racing resource cleanup": the pool of a
\* dedicated operation is never cleaned up by the test's thread while the
\* thread of that operation lives, whichever joins timed out and however often
\* stop() is called.
NoRacingCleanup ==
    [][\A k \in Dedicated :
          (main # main' /\ main \in StopSteps /\ pool[cur] \ pool'[cur] = {k})
             => ~WorkerAlive(cur, k)]_vars

\* When no join times out, a stop() that went all the way leaves nothing of the
\* run behind: no loop, no thread, no listed resource, and none in the cluster
\* unless a command failed.
StoppedMeansQuiet ==
    \A r \in Runs : (outcome[r] = "stopped" /\ ~Timeouts) =>
        /\ loop[r] = "ended"
        /\ Of(r, Ops) = {}
        /\ listed[r] = {}
        /\ r \notin Faults => live[r] = {} /\ pool[r] = {}

\* When no join times out and every earlier stop() went all the way, the error a
\* stop() raises is one of its own run.
EscalationOwned ==
    (~Timeouts /\ \A r \in 1 .. cur - 1 : outcome[r] = "stopped")
        => escalation \in {0, cur}

\* stop() returns, even when an operation hangs, and a controller that is told to
\* stop, by stop(), an escalation or the loss of its namespace, ends its loop.
StopReturns ==
    /\ main \in StopSteps ~> main \notin StopSteps
    /\ \A r \in Runs : (loop[r] # "none" /\ ~running[r]) ~> loop[r] = "ended"

\* _run_operation_safe, "until the same operation fails max_consecutive_failures
\* times in a row, at which point the run is escalated": a full row is never left
\* standing.  It is escalated, or a thread that recorded one of its failures has yet
\* to read it, however threads of one or of several runs record, read and escalate
\* in between.  (A success, or the next controller, may still end the row first.)
FullRowReported ==
    \A op \in Ops : streak[op] >= MaxFailures =>
        \/ escalation # 0
        \/ \E t \in Slots : thread[t].op = op /\ thread[t].step \in {"read", "escalate"}
=============================================================================
