------------------------ MODULE BackgroundOps_proofs ------------------------
(***************************************************************************)
(* Proofs about BackgroundOps, for any number of runs, places for threads, *)
(* operations, limits, faults and time-outs.                               *)
(*                                                                         *)
(* That no pool is cleaned up under a living worker needs JoinInv: from the*)
(* join of a dedicated thread to the end of stop(), a thread that is not in*)
(* unstopped is dead, because only start() begins one.                     *)
(*                                                                         *)
(* What a stop() leaves behind when no join times out needs more: OwnerInv,*)
(* that every living thread and loop belongs to a run that was started;    *)
(* PhaseInv, what each step of stop() has settled so far; and that a run   *)
(* whose loop and threads have ended (Done) stays so and only loses        *)
(* resources, whatever the others do.                                      *)
(***************************************************************************)
EXTENDS BackgroundOps, FiniteSetTheorems, TLAPS

\* A dedicated thread that was joined and not found alive is dead.
Joined(k) == k \notin unstopped => ~WorkerAlive(cur, k)

JoinInv ==
    /\ main # "idle" => cur \in Runs
    /\ main \in StopSteps \ {"join_loop", "join_clone"} => Joined(Clone)
    /\ main \in StopSteps \ {"join_loop", "join_clone", "join_snapshot"} => Joined(Snapshot)
    /\ main = "clear" => Clone \notin unstopped

OpsInv == TypeOK /\ JoinInv

\* A thread that is not idle works for a run that was started, and so does a loop.
OwnerInv ==
    /\ \A t \in Slots : thread[t] = Idle \/ (thread[t].op \in Ops /\ thread[t].run \in 1 .. cur)
    /\ \A r \in Runs : r <= cur \/ (loop[r] = "none" /\ outcome[r] = "none")

\* Nothing of the run works any more.
Done(r) == loop[r] = "ended" /\ Of(r, Ops) = {}

\* What stop() has come to when none of its joins can time out.
PhaseInv ==
    /\ unstopped = {}
    /\ \A r \in Runs \ Faults : live[r] \subseteq listed[r]
    /\ main \in StopSteps \ {"join_loop"} => loop[cur] = "ended"
    /\ main \in {"cleanup", "clear", "cleanup_snapshot", "raise"} => Done(cur)
    /\ main \in {"cleanup_snapshot", "raise"} => listed[cur] = {}
    /\ cur \notin Faults =>
         /\ main \in {"clear", "cleanup_snapshot", "raise"} => live[cur] = {}
         /\ main \in {"cleanup_snapshot", "raise"} => Clone \notin pool[cur]
         /\ main = "raise" => Snapshot \notin pool[cur]

QuietInv ==
    /\ OwnerInv
    /\ ~Timeouts => PhaseInv
    /\ StoppedMeansQuiet
    /\ EscalationOwned

Thread == [run : 0 .. NRuns, op : Ops \cup {NoOp}, step : ThreadSteps, mine : SUBSET Res]

-----------------------------------------------------------------------------
(* Threads.                                                                *)

\* No thread is replaced by another one.
Kept == \A u \in Slots :
          \/ thread'[u] = Idle
          \/ thread'[u].run = thread[u].run /\ thread'[u].op = thread[u].op

\* The records a thread can be set to.
LEMMA RecordTypes ==
    /\ Idle \in Thread
    /\ \A r \in 0 .. NRuns, op \in Ops \cup {NoOp}, s \in ThreadSteps : Fresh(r, op, s) \in Thread
    /\ \A r \in Runs : r \in 0 .. NRuns
BY OpsAssumption DEF Idle, Fresh, Thread, ThreadSteps, Runs

\* When threads are only kept or ended, the sets of living threads shrink.
LEMMA KeptShrinks ==
    ASSUME Kept
    PROVE  \A r, ops : NoOp \notin ops => Of(r, ops)' \subseteq Of(r, ops)
BY DEF Kept, Of, Idle

\* A step that keeps or ends threads and leaves the test's thread where it is.
LEMMA KeptInv ==
    ASSUME OpsInv, Kept, UNCHANGED caller
    PROVE  JoinInv'
<1>3. \A r : \A k \in {Clone, Snapshot} : WorkerAlive(r, k)' => WorkerAlive(r, k)
  <2>1. Clone # NoOp /\ Snapshot # NoOp
    BY DEF Clone, Snapshot, NoOp
  <2> QED BY <2>1, KeptShrinks DEF WorkerAlive
<1>4. main' = main /\ cur' = cur /\ unstopped' = unstopped
  BY DEF caller
<1>5. \A k \in {Clone, Snapshot} : Joined(k) => Joined(k)'
  BY <1>3, <1>4 DEF Joined
<1> QED BY <1>4, <1>5 DEF OpsInv, JoinInv

-----------------------------------------------------------------------------
(* The invariant.                                                          *)

\* Before the first run nothing lives.
LEMMA InitInv == ASSUME Init PROVE OpsInv
<1>1. TypeOK
  BY RecordTypes, OpsAssumption
     DEF Init, TypeOK, Thread, Runs, LoopSteps, MainSteps, StopSteps, Outcomes
<1>2. JoinInv
  BY DEF Init, JoinInv, StopSteps
<1> QED BY <1>1, <1>2 DEF OpsInv

\* A new run begins its own dedicated threads and none of the others.
LEMMA StartInv == ASSUME OpsInv, start PROVE OpsInv'
<1> USE DEF OpsInv
<1>0. cur \in 0 .. NRuns /\ cur < NRuns /\ cur + 1 \in Runs /\ cur' = cur + 1
  BY OpsAssumption DEF start, TypeOK, Runs
<1>1. PICK S \in SUBSET {t \in Slots : thread[t] = Idle} : \E f \in [S -> Dedicated] :
        thread' = [t \in Slots |-> IF t \in S THEN Fresh(cur + 1, f[t], "top") ELSE thread[t]]
  BY DEF start
<1>2. PICK f \in [S -> Dedicated] :
        thread' = [t \in Slots |-> IF t \in S THEN Fresh(cur + 1, f[t], "top") ELSE thread[t]]
  BY <1>1
<1>3. thread' \in [Slots -> Thread]
  <2>1. \A t \in S : Fresh(cur + 1, f[t], "top") \in Thread
    BY <1>0, <1>2, RecordTypes DEF Ops, ThreadSteps
  <2>2. \A t \in Slots : thread[t] \in Thread
    BY DEF TypeOK, Thread
  <2> QED BY <1>2, <2>1, <2>2
<1>4. TypeOK'
  <2>1. /\ running' \in [Runs -> BOOLEAN] /\ loop' \in [Runs -> LoopSteps]
        /\ streak' \in [Ops -> Nat] /\ escalation' \in 0 .. NRuns /\ cur' \in 0 .. NRuns
    BY <1>0, OpsAssumption DEF start, TypeOK, LoopSteps, Runs
  <2>2. main' = "test" /\ unstopped' = {}
    BY DEF start
  <2>3. UNCHANGED <<listed, live, pool, ns, outcome>>
    BY DEF start, leftovers
  <2> QED BY <1>3, <2>1, <2>2, <2>3 DEF TypeOK, Thread, MainSteps
<1>6. JoinInv'
  <2>1. main' = "test"
    BY DEF start
  <2> QED BY <1>0, <2>1 DEF JoinInv, StopSteps
<1> QED BY <1>4, <1>6

\* The loop of a controller starts at most one operation.
LEMMA LoopInv == ASSUME OpsInv, NEW r \in Runs, Loop(r) PROVE OpsInv'
<1> USE DEF OpsInv
<1>0. UNCHANGED <<streak, listed, live, pool, ns>> /\ UNCHANGED caller
  BY DEF Loop, LoopTop, abort_if_cluster_unrecoverable, StartOperation, LoopVars, leftovers, metrics
<1>1. loop' \in [Runs -> LoopSteps] /\ running' \in [Runs -> BOOLEAN] /\ escalation' \in 0 .. NRuns
  <2>1. CASE LoopTop(r)
    BY <2>1 DEF LoopTop, LoopVars, metrics, TypeOK, LoopSteps
  <2>2. CASE abort_if_cluster_unrecoverable(r)
    <3>1. loop' \in [Runs -> LoopSteps]
      BY <2>2 DEF abort_if_cluster_unrecoverable, TypeOK, LoopSteps
    <3>2. running' \in [Runs -> BOOLEAN]
      BY <2>2 DEF abort_if_cluster_unrecoverable, TypeOK
    <3>3. escalation' \in 0 .. NRuns
      BY <2>2, RecordTypes DEF abort_if_cluster_unrecoverable, TypeOK
    <3> QED BY <3>1, <3>2, <3>3
  <2>3. CASE StartOperation(r)
    BY <2>3 DEF StartOperation, LoopVars, metrics, TypeOK, LoopSteps
  <2> QED BY <2>1, <2>2, <2>3 DEF Loop
<1>2. CASE UNCHANGED thread
  <2>1. TypeOK'
    BY <1>0, <1>1, <1>2 DEF TypeOK, caller
  <2>2. Kept
    BY <1>2 DEF Kept
  <2> QED BY <1>0, <2>1, <2>2, KeptInv
<1>3. CASE thread' # thread
  <2>1. PICK t \in Slots, op \in RandomOps :
          /\ BelowLimit(r) /\ thread[t] = Idle
          /\ thread' = [thread EXCEPT ![t] = Fresh(r, op, "check")]
    BY <1>3 DEF Loop, LoopTop, abort_if_cluster_unrecoverable, StartOperation
  <2>2. Fresh(r, op, "check") \in Thread /\ thread \in [Slots -> Thread]
    BY RecordTypes DEF Ops, ThreadSteps, TypeOK, Thread
  <2>3. TypeOK'
    <3>1. thread' \in [Slots -> Thread]
      BY <2>1, <2>2
    <3> QED BY <1>0, <1>1, <3>1 DEF TypeOK, Thread, caller
  <2>4. \A u \in Slots : u # t => thread'[u] = thread[u]
    BY <2>1, <2>2
  <2>5. thread'[t].run = r /\ thread'[t].op = op
    BY <2>1, <2>2 DEF Fresh
  <2>7. \A q : \A k \in {Clone, Snapshot} : WorkerAlive(q, k)' => WorkerAlive(q, k)
    BY <2>4, <2>5, OpsAssumption DEF WorkerAlive, Of
  <2>8. JoinInv'
    <3>1. main' = main /\ cur' = cur /\ unstopped' = unstopped
      BY <1>0 DEF caller
    <3>2. \A k \in {Clone, Snapshot} : Joined(k) => Joined(k)'
      BY <2>7, <3>1 DEF Joined
    <3> QED BY <3>1, <3>2 DEF JoinInv
  <2> QED BY <2>3, <2>8
<1> QED BY <1>2, <1>3

\* What one step of an operation thread makes of its record.
Goes(t, x) ==
    /\ thread' = [thread EXCEPT ![t] = x]
    /\ x \in Thread
    /\ x = Idle \/ (x.run = thread[t].run /\ x.op = thread[t].op)

\* Only the record of the thread itself changes, and it stays one of its thread.
LEMMA GoesKeeps ==
    ASSUME TypeOK, NEW t \in Slots, NEW x, Goes(t, x)
    PROVE  thread' \in [Slots -> Thread] /\ Kept
<1>1. thread \in [Slots -> Thread]
  BY DEF TypeOK, Thread
<1>2. \A u \in Slots : thread'[u] = IF u = t THEN x ELSE thread[u]
  BY <1>1 DEF Goes
<1>3. thread' \in [Slots -> Thread]
  BY <1>1 DEF Goes
<1>4. Kept
  BY <1>2 DEF Kept, Goes
<1> QED BY <1>3, <1>4

\* The ways a thread goes on.
LEMMA GotoGoes ==
    ASSUME TypeOK, NEW t \in Slots, NEW s \in ThreadSteps, Goto(t, s)
    PROVE  \E x : Goes(t, x)
<1> DEFINE x == [thread[t] EXCEPT !.step = s]
<1>1. thread[t] \in Thread
  BY DEF TypeOK, Thread
<1>2. x \in Thread /\ x.run = thread[t].run /\ x.op = thread[t].op
  BY <1>1 DEF Thread
<1>3. thread' = [thread EXCEPT ![t] = x]
  BY DEF Goto
<1> HIDE DEF x
<1> QED BY <1>2, <1>3 DEF Goes

LEMMA FinishGoes ==
    ASSUME TypeOK, NEW t \in Slots, Finish(t)
    PROVE  \E x : Goes(t, x)
<1> DEFINE y == Fresh(thread[t].run, thread[t].op, "next")
<1>1. thread[t].run \in 0 .. NRuns /\ thread[t].op \in Ops \cup {NoOp}
  BY DEF TypeOK
<1>2. y \in Thread
  BY <1>1, RecordTypes DEF ThreadSteps
<1>3. y.run = thread[t].run /\ y.op = thread[t].op
  BY DEF Fresh
<1>4. CASE thread[t].op \in Dedicated
  <2>1. thread' = [thread EXCEPT ![t] = y]
    BY <1>4 DEF Finish
  <2> HIDE DEF y
  <2> QED BY <1>2, <1>3, <2>1 DEF Goes
<1>5. CASE thread[t].op \notin Dedicated
  <2>1. thread' = [thread EXCEPT ![t] = Idle]
    BY <1>5 DEF Finish
  <2> QED BY <2>1, RecordTypes DEF Goes
<1> QED BY <1>4, <1>5

LEMMA IdleGoes ==
    ASSUME NEW t \in Slots, thread' = [thread EXCEPT ![t] = Idle]
    PROVE  \E x : Goes(t, x)
BY RecordTypes DEF Goes

LEMMA NextGoes ==
    ASSUME TypeOK, NEW t \in Slots, WorkerNext(t)
    PROVE  \E x : Goes(t, x)
<1> DEFINE y == Fresh(thread[t].run, thread[t].op, "top")
<1>1. thread[t].run \in 0 .. NRuns /\ thread[t].op \in Ops \cup {NoOp}
  BY DEF TypeOK
<1>2. y \in Thread
  BY <1>1, RecordTypes DEF ThreadSteps
<1>3. y.run = thread[t].run /\ y.op = thread[t].op
  BY DEF Fresh
<1>4. CASE running[thread[t].run]
  <2>1. thread' = [thread EXCEPT ![t] = y]
    BY <1>4 DEF WorkerNext
  <2> HIDE DEF y
  <2> QED BY <1>2, <1>3, <2>1 DEF Goes
<1>5. CASE ~running[thread[t].run]
  <2>1. thread' = [thread EXCEPT ![t] = Idle]
    BY <1>5 DEF WorkerNext
  <2> QED BY <2>1, IdleGoes
<1> QED BY <1>4, <1>5

LEMMA CreateGoes ==
    ASSUME TypeOK, NEW t \in Slots, longevity_create(t)
    PROVE  \E x : Goes(t, x)
<1>1. thread[t] \in Thread /\ thread \in [Slots -> Thread]
  BY DEF TypeOK, Thread
<1>2. CASE UNCHANGED thread
  <2>1. thread' = [thread EXCEPT ![t] = thread[t]]
    BY <1>1, <1>2
  <2> QED BY <1>1, <2>1 DEF Goes
<1>3. CASE thread' # thread
  <2>1. PICK e \in Res : thread' = [thread EXCEPT ![t].mine = @ \cup {e}]
    BY <1>3 DEF longevity_create
  <2> DEFINE x == [thread[t] EXCEPT !.mine = @ \cup {e}]
  <2>2. x \in Thread /\ x.run = thread[t].run /\ x.op = thread[t].op
    BY <1>1, <2>1 DEF Thread
  <2>3. thread' = [thread EXCEPT ![t] = x]
    BY <2>1
  <2> HIDE DEF x
  <2> QED BY <2>2, <2>3 DEF Goes
<1> QED BY <1>2, <1>3

\* Every step of an operation thread.
LEMMA OperationGoes ==
    ASSUME TypeOK, NEW t \in Slots, Operation(t)
    PROVE  \E x : Goes(t, x)
<1> USE DEF ThreadSteps
<1>1. CASE WorkerTop(t)
  BY <1>1, GotoGoes, IdleGoes DEF WorkerTop
<1>2. CASE WorkerNext(t)
  BY <1>2, NextGoes
<1>3. CASE CheckEscalated(t) \/ namespace_exists(t) \/ ReadStreak(t)
  BY <1>3, GotoGoes, FinishGoes DEF CheckEscalated, namespace_exists, ReadStreak
<1>4. CASE record_operation(t) \/ Escalate(t)
  BY <1>4, GotoGoes, FinishGoes DEF record_operation, Escalate
<1>5. CASE longevity_create(t)
  BY <1>5, CreateGoes
<1>6. CASE operation_func(t)
  BY <1>6, GotoGoes DEF operation_func
<1> QED BY <1>1, <1>2, <1>3, <1>4, <1>5, <1>6 DEF Operation, Bookkeeping

\* A resource more for one run.
LEMMA OneMore ==
    \A f \in [Runs -> SUBSET Res] : \A r, e :
        e \in Res => [f EXCEPT ![r] = @ \cup {e}] \in [Runs -> SUBSET Res]
OBVIOUS

\* A pool filled or emptied for one run.
LEMMA PoolChange ==
    \A f \in [Runs -> SUBSET Dedicated] : \A r, k :
        k \in Dedicated => /\ [f EXCEPT ![r] = @ \cup {k}] \in [Runs -> SUBSET Dedicated]
                          /\ [f EXCEPT ![r] = @ \ {k}] \in [Runs -> SUBSET Dedicated]
OBVIOUS

\* An operation thread keeps the invariant.
LEMMA OperationInv == ASSUME OpsInv, NEW t \in Slots, Operation(t) PROVE OpsInv'
<1> USE DEF OpsInv
<1>1. UNCHANGED <<loop, ns>> /\ UNCHANGED caller
  BY DEF Operation, Bookkeeping, WorkerTop, WorkerNext, CheckEscalated, namespace_exists,
         record_operation, ReadStreak, Escalate, longevity_create, operation_func, leftovers
<1>2. thread' \in [Slots -> Thread] /\ Kept
  BY OperationGoes, GoesKeeps
<1>3. running' \in [Runs -> BOOLEAN]
  BY DEF Operation, Bookkeeping, WorkerTop, WorkerNext, CheckEscalated, namespace_exists,
         record_operation, ReadStreak, Escalate, longevity_create, operation_func, TypeOK
<1>4. streak' \in [Ops -> Nat] /\ escalation' \in 0 .. NRuns
  <2>1. CASE record_operation(t)
    BY <2>1 DEF record_operation, streak_after_success, TypeOK
  <2>2. CASE Escalate(t)
    BY <2>2 DEF Escalate, TypeOK
  <2>3. CASE ~(record_operation(t) \/ Escalate(t))
    BY <2>3 DEF Operation, Bookkeeping, WorkerTop, WorkerNext, CheckEscalated, namespace_exists,
                ReadStreak, longevity_create, operation_func, metrics, TypeOK
  <2> QED BY <2>1, <2>2, <2>3
<1>5. listed' \in [Runs -> SUBSET Res] /\ live' \in [Runs -> SUBSET Res] /\ pool' \in [Runs -> SUBSET Dedicated]
  <2>1. CASE longevity_create(t)
    <3>1. PICK e \in Res : live' = [live EXCEPT ![thread[t].run] = @ \cup {e}] /\
                           (listed' = listed \/ listed' = [listed EXCEPT ![thread[t].run] = @ \cup {e}])
      BY <2>1 DEF longevity_create
    <3>2. pool' = pool
      BY <2>1 DEF longevity_create
    <3>3. listed \in [Runs -> SUBSET Res] /\ live \in [Runs -> SUBSET Res]
          /\ pool \in [Runs -> SUBSET Dedicated]
      BY DEF TypeOK
    <3>4. live' \in [Runs -> SUBSET Res]
      BY <3>1, <3>3, OneMore
    <3>5. listed' \in [Runs -> SUBSET Res]
      <4>1. CASE listed' = listed
        BY <3>3, <4>1
      <4>2. CASE listed' = [listed EXCEPT ![thread[t].run] = @ \cup {e}]
        BY <3>1, <3>3, <4>2, OneMore
      <4> QED BY <3>1, <4>1, <4>2
    <3> QED BY <3>2, <3>3, <3>4, <3>5
  <2>2. CASE operation_func(t)
    <3>1. listed' = listed /\ \E K : live' = [live EXCEPT ![thread[t].run] = @ \ K]
      BY <2>2 DEF operation_func
    <3>2. listed' \in [Runs -> SUBSET Res] /\ live' \in [Runs -> SUBSET Res]
      BY <3>1 DEF TypeOK
    <3>3. pool' \in [Runs -> SUBSET Dedicated]
      <4>1. pool \in [Runs -> SUBSET Dedicated]
        BY DEF TypeOK
      <4>2. CASE thread[t].op \in Dedicated
        <5>1. \/ pool' = [pool EXCEPT ![thread[t].run] = @ \cup {thread[t].op}]
              \/ pool' = [pool EXCEPT ![thread[t].run] = @ \ {thread[t].op}]
          BY <2>2, <4>2 DEF operation_func
        <5> QED BY <4>1, <4>2, <5>1, PoolChange
      <4>3. CASE thread[t].op \notin Dedicated
        <5>1. pool' = pool
          BY <2>2, <4>3 DEF operation_func
        <5> QED BY <4>1, <5>1
      <4> QED BY <4>2, <4>3
    <3> QED BY <3>2, <3>3
  <2>3. CASE ~(longevity_create(t) \/ operation_func(t))
    BY <2>3 DEF Operation, Bookkeeping, WorkerTop, WorkerNext, CheckEscalated, namespace_exists,
                record_operation, ReadStreak, Escalate, leftovers, TypeOK
  <2> QED BY <2>1, <2>2, <2>3
<1>6. TypeOK'
  BY <1>1, <1>2, <1>3, <1>4, <1>5 DEF TypeOK, Thread, caller
<1> QED BY <1>1, <1>2, <1>6, KeptInv

\* The first step of stop().
LEMMA StopBeginInv == ASSUME OpsInv, StopBegin PROVE OpsInv'
<1> USE DEF OpsInv
<1>1. /\ UNCHANGED <<cur, loop, thread, streak, escalation, ns, listed, live, pool>>
      /\ main # "idle" /\ main' \in {"idle", "join_loop"} /\ unstopped' = {}
  BY DEF StopBegin, StopVars, metrics
<1>2. running' \in [Runs -> BOOLEAN] /\ outcome' \in [Runs -> Outcomes]
  BY DEF StopBegin, TypeOK, Outcomes
<1>3. TypeOK'
  BY <1>1, <1>2 DEF TypeOK, MainSteps, StopSteps
<1>4. JoinInv'
  BY <1>1 DEF JoinInv, StopSteps
<1> QED BY <1>3, <1>4

\* The rest of stop().
LEMMA StoppingInv == ASSUME OpsInv, Stopping PROVE OpsInv'
<1> USE DEF OpsInv
<1>1. UNCHANGED <<cur, running, loop, thread, streak, escalation, ns>> /\ main \in StopSteps
  BY DEF Stopping, JoinLoop, JoinWorkers, JoinWorker, JoinOps, CleanupResources, ClearResources,
         CleanupSnapshots, StopEnd, StopVars, metrics, StopSteps
<1>2. \A k : WorkerAlive(cur, k)' = WorkerAlive(cur, k)
  BY <1>1 DEF WorkerAlive, Of
<1>4. /\ listed' \in [Runs -> SUBSET Res] /\ live' \in [Runs -> SUBSET Res]
      /\ pool' \in [Runs -> SUBSET Dedicated] /\ outcome' \in [Runs -> Outcomes]
  <2>1. CASE JoinLoop \/ JoinWorkers \/ JoinOps
    BY <2>1 DEF JoinLoop, JoinWorkers, JoinWorker, JoinOps, TypeOK
  <2>2. CASE CleanupResources
    BY <2>2 DEF CleanupResources, TypeOK
  <2>3. CASE ClearResources
    BY <2>3 DEF ClearResources, PoolsCleaned, TypeOK
  <2>4. CASE CleanupSnapshots
    BY <2>4 DEF CleanupSnapshots, PoolsCleaned, TypeOK
  <2>5. CASE StopEnd
    BY <2>5 DEF StopEnd, TypeOK, Outcomes
  <2> QED BY <2>1, <2>2, <2>3, <2>4, <2>5 DEF Stopping
<1>5. CASE main = "join_clone" \/ main = "join_snapshot"
  <2>1. \/ main = "join_clone" /\ JoinWorker(Clone, "join_snapshot")
        \/ main = "join_snapshot" /\ JoinWorker(Snapshot, "join_ops")
    BY <1>5 DEF Stopping, JoinLoop, JoinWorkers, JoinOps, CleanupResources, ClearResources,
                CleanupSnapshots, StopEnd
  <2>2. unstopped \subseteq unstopped'
    BY <2>1 DEF JoinWorker
  <2>3. \A k \in {Clone, Snapshot} : Joined(k) => Joined(k)'
    BY <1>1, <1>2, <2>2 DEF Joined
  <2>4. CASE main = "join_clone"
    <3>1. JoinWorker(Clone, "join_snapshot")
      BY <2>1, <2>4
    <3>2. main' = "join_snapshot" /\ Joined(Clone)' /\ unstopped' \subseteq unstopped \cup {Clone}
      BY <1>1, <1>2, <3>1 DEF JoinWorker, Joined
    <3>3. unstopped' \subseteq Dedicated
      <4>1. WorkerAlive(cur, Clone) => Clone \in Dedicated
        BY OpsAssumption DEF WorkerAlive, Of, TypeOK, Ops, Clone, NoOp
      <4> QED BY <3>1, <4>1 DEF JoinWorker, TypeOK
    <3>4. TypeOK'
      BY <1>1, <1>4, <3>2, <3>3 DEF TypeOK, MainSteps, StopSteps
    <3>5. JoinInv'
      BY <1>1, <2>4, <3>2 DEF JoinInv, StopSteps
    <3> QED BY <3>4, <3>5
  <2>5. CASE main = "join_snapshot"
    <3>1. JoinWorker(Snapshot, "join_ops")
      BY <2>1, <2>5
    <3>2. main' = "join_ops" /\ Joined(Snapshot)'
      BY <1>1, <1>2, <3>1 DEF JoinWorker, Joined
    <3>3. unstopped' \subseteq Dedicated
      <4>1. WorkerAlive(cur, Snapshot) => Snapshot \in Dedicated
        BY OpsAssumption DEF WorkerAlive, Of, TypeOK, Ops, Snapshot, NoOp
      <4> QED BY <3>1, <4>1 DEF JoinWorker, TypeOK
    <3>4. TypeOK'
      BY <1>1, <1>4, <3>2, <3>3 DEF TypeOK, MainSteps, StopSteps
    <3>5. Joined(Clone)'
      BY <1>1, <2>3, <2>5 DEF JoinInv, StopSteps
    <3>6. JoinInv'
      BY <1>1, <2>5, <3>2, <3>5 DEF JoinInv, StopSteps
    <3> QED BY <3>4, <3>6
  <2> QED BY <1>5, <2>4, <2>5
<1>6. CASE main \notin {"join_clone", "join_snapshot"}
  <2>1. unstopped' = unstopped
    BY <1>6 DEF Stopping, JoinLoop, JoinWorkers, JoinOps, CleanupResources, ClearResources,
                CleanupSnapshots, StopEnd
  <2>2. \/ main = "join_loop" /\ main' = "join_clone"
        \/ main = "join_ops" /\ main' = "cleanup"
        \/ main = "cleanup" /\ main' = "clear" /\ Clone \notin unstopped
        \/ main = "clear" /\ main' = "cleanup_snapshot"
        \/ main \in {"cleanup", "cleanup_snapshot"} /\ main' = "raise"
        \/ main = "raise" /\ main' \in {"again", "idle"}
    BY <1>6 DEF Stopping, JoinLoop, JoinWorkers, JoinOps, CleanupResources, ClearResources,
                CleanupSnapshots, StopEnd
  <2>3. \A k \in {Clone, Snapshot} : Joined(k) => Joined(k)'
    BY <1>1, <1>2, <2>1 DEF Joined
  <2>4. JoinInv'
    BY <1>1, <2>1, <2>2, <2>3 DEF JoinInv, StopSteps
  <2>5. TypeOK'
    BY <1>1, <1>4, <2>1, <2>2 DEF TypeOK, MainSteps, StopSteps
  <2> QED BY <2>4, <2>5
<1> QED BY <1>5, <1>6

\* The loss of a namespace.
LEMMA NamespaceInv == ASSUME OpsInv, NEW r \in Runs, DeleteNamespace(r) PROVE OpsInv'
<1>1. UNCHANGED <<running, loop, thread, streak, escalation, listed, pool>> /\ UNCHANGED caller
  BY DEF DeleteNamespace, metrics
<1>2. ns' \in [Runs -> BOOLEAN] /\ live' \in [Runs -> SUBSET Res]
  BY DEF DeleteNamespace, OpsInv, TypeOK
<1>3. TypeOK'
  BY <1>1, <1>2 DEF OpsInv, TypeOK, caller
<1>4. Kept
  BY <1>1 DEF Kept
<1> QED BY <1>1, <1>3, <1>4, KeptInv DEF OpsInv

\* A step that changes nothing.
LEMMA StutterInv == ASSUME OpsInv, UNCHANGED vars PROVE OpsInv'
<1>1. TypeOK'
  BY DEF OpsInv, TypeOK, vars
<1>2. Kept /\ UNCHANGED caller
  BY DEF Kept, vars, caller
<1> QED BY <1>1, <1>2, KeptInv DEF OpsInv

\* Every step keeps the invariant.
LEMMA NextInv == ASSUME OpsInv, [Next]_vars PROVE OpsInv'
BY StartInv, StopBeginInv, StoppingInv, LoopInv, NamespaceInv, OperationInv, StutterInv
   DEF Next, Terminated

\* The invariant holds throughout.
THEOREM Invariance == Spec => []OpsInv
BY InitInv, NextInv, PTL DEF Spec

-----------------------------------------------------------------------------
(* Who works for which run.                                                *)

\* The steps that leave the test's thread where it is.
Elsewhere ==
    \/ \E r \in Runs : Loop(r) \/ DeleteNamespace(r)
    \/ \E t \in Slots : Operation(t)
    \/ UNCHANGED vars

LEMMA NextSteps ==
    ASSUME [Next]_vars
    PROVE  start \/ StopBegin \/ Stopping \/ Elsewhere
BY DEF Next, Terminated, Elsewhere

LEMMA ElsewhereCaller == ASSUME Elsewhere PROVE UNCHANGED caller
<1>1. ASSUME NEW r \in Runs, Loop(r) \/ DeleteNamespace(r) PROVE UNCHANGED caller
  BY <1>1 DEF Loop, LoopTop, abort_if_cluster_unrecoverable, StartOperation, DeleteNamespace, LoopVars
<1>2. ASSUME NEW t \in Slots, Operation(t) PROVE UNCHANGED caller
  BY <1>2 DEF Operation, Bookkeeping, WorkerTop, WorkerNext, CheckEscalated, namespace_exists,
              record_operation, ReadStreak, Escalate, longevity_create, operation_func
<1>3. ASSUME UNCHANGED vars PROVE UNCHANGED caller
  BY <1>3 DEF vars, caller
<1> QED BY <1>1, <1>2, <1>3 DEF Elsewhere

\* What stop() leaves alone.
LEMMA StopLeaves ==
    ASSUME OpsInv, StopBegin \/ Stopping
    PROVE  /\ UNCHANGED <<cur, loop, thread, escalation>> /\ cur \in Runs
           /\ \A r \in Runs \ {cur} : outcome'[r] = outcome[r]
<1>1. main # "idle"
  BY DEF StopBegin, Stopping, JoinLoop, JoinWorkers, JoinOps, CleanupResources, ClearResources,
         CleanupSnapshots, StopEnd
<1>2. cur \in Runs
  BY <1>1 DEF OpsInv, JoinInv
<1>3. UNCHANGED <<cur, loop, thread, escalation>>
  BY DEF StopBegin, Stopping, JoinLoop, JoinWorkers, JoinWorker, JoinOps, CleanupResources,
         ClearResources, CleanupSnapshots, StopEnd, StopVars, metrics
<1>4. outcome' = outcome \/ \E o : outcome' = [outcome EXCEPT ![cur] = o]
  BY DEF StopBegin, Stopping, JoinLoop, JoinWorkers, JoinWorker, JoinOps, CleanupResources,
         ClearResources, CleanupSnapshots, StopEnd
<1>5. outcome \in [Runs -> Outcomes]
  BY DEF OpsInv, TypeOK
<1> QED BY <1>2, <1>3, <1>4, <1>5

\* A thread that does something is not idle.
LEMMA Busy == ASSUME NEW t \in Slots, Operation(t) PROVE thread[t] # Idle
BY DEF Operation, Bookkeeping, WorkerTop, WorkerNext, CheckEscalated, namespace_exists,
       record_operation, ReadStreak, Escalate, longevity_create, operation_func, At, Idle

LEMMA InitOwner == ASSUME Init PROVE OwnerInv
BY DEF Init, OwnerInv

LEMMA NextOwner == ASSUME OpsInv, OwnerInv, [Next]_vars PROVE OwnerInv'
<1>0. cur \in Nat /\ TypeOK /\ thread \in [Slots -> Thread]
  BY OpsAssumption DEF OpsInv, TypeOK, Thread
<1>1. CASE start
  <2>1. cur' = cur + 1 /\ outcome' = outcome /\ loop' = [loop EXCEPT ![cur + 1] = "top"]
    BY <1>1 DEF start
  <2>2. PICK S \in SUBSET Slots : \E f \in [S -> Dedicated] :
          thread' = [t \in Slots |-> IF t \in S THEN Fresh(cur + 1, f[t], "top") ELSE thread[t]]
    BY <1>1 DEF start
  <2>3. PICK f \in [S -> Dedicated] :
          thread' = [t \in Slots |-> IF t \in S THEN Fresh(cur + 1, f[t], "top") ELSE thread[t]]
    BY <2>2
  <2>4. ASSUME NEW t \in Slots
        PROVE  thread'[t] = Idle \/ (thread'[t].op \in Ops /\ thread'[t].run \in 1 .. cur')
    <3>1. CASE t \in S
      <4>1. thread'[t] = Fresh(cur + 1, f[t], "top") /\ f[t] \in Ops
        BY <2>3, <3>1 DEF Ops
      <4>2. thread'[t].op \in Ops /\ thread'[t].run = cur + 1
        BY <4>1 DEF Fresh
      <4> QED BY <1>0, <2>1, <4>2
    <3>2. CASE t \notin S
      <4>1. thread'[t] = thread[t]
        BY <2>3, <3>2
      <4>2. 1 .. cur \subseteq 1 .. cur'
        BY <1>0, <2>1
      <4> QED BY <4>1, <4>2 DEF OwnerInv
    <3> QED BY <3>1, <3>2
  <2>5. ASSUME NEW r \in Runs, ~(r <= cur')
        PROVE  loop'[r] = "none" /\ outcome'[r] = "none"
    <3>1. ~(r <= cur) /\ r # cur + 1
      BY <1>0, <2>1, <2>5, OpsAssumption DEF Runs
    <3> QED BY <1>0, <2>1, <3>1 DEF OwnerInv, TypeOK
  <2> QED BY <2>4, <2>5 DEF OwnerInv
<1>2. CASE StopBegin \/ Stopping
  <2>1. /\ UNCHANGED <<cur, loop, thread, escalation>> /\ cur \in Runs
        /\ \A r \in Runs \ {cur} : outcome'[r] = outcome[r]
    BY <1>2, StopLeaves
  <2>2. ASSUME NEW r \in Runs, ~(r <= cur)
        PROVE  loop'[r] = "none" /\ outcome'[r] = "none"
    <3>1. r # cur
      BY <1>0, <2>2
    <3> QED BY <2>1, <2>2, <3>1 DEF OwnerInv
  <2> QED BY <2>1, <2>2 DEF OwnerInv
<1>3. ASSUME NEW r \in Runs, Loop(r) PROVE OwnerInv'
  <2>1. r <= cur /\ UNCHANGED caller
    BY <1>3 DEF Loop, LoopTop, abort_if_cluster_unrecoverable, StartOperation, OwnerInv, LoopVars
  <2>2. cur' = cur /\ outcome' = outcome
    BY <2>1 DEF caller
  <2>3. \E y : loop' = [loop EXCEPT ![r] = y]
    BY <1>3 DEF Loop, LoopTop, abort_if_cluster_unrecoverable, StartOperation
  <2>4. \A q \in Runs : q <= cur \/ loop'[q] = "none"
    BY <1>0, <2>1, <2>3 DEF OwnerInv, TypeOK
  <2>5. \/ thread' = thread
        \/ \E t \in Slots, op \in RandomOps : thread' = [thread EXCEPT ![t] = Fresh(r, op, "check")]
    BY <1>3 DEF Loop, LoopTop, abort_if_cluster_unrecoverable, StartOperation
  <2>6. \A u \in Slots : \/ thread'[u] = thread[u]
                         \/ \E op \in RandomOps : thread'[u] = Fresh(r, op, "check")
    BY <1>0, <2>5
  <2>7. r \in 1 .. cur
    BY <1>0, <2>1, OpsAssumption DEF Runs
  <2>8. \A u \in Slots : \/ thread'[u] = thread[u]
                         \/ thread'[u].op \in Ops /\ thread'[u].run \in 1 .. cur
    <3>1. ASSUME NEW op \in RandomOps
          PROVE  Fresh(r, op, "check").op \in Ops /\ Fresh(r, op, "check").run = r
      BY DEF Fresh, Ops
    <3> QED BY <2>6, <2>7, <3>1
  <2> QED BY <2>2, <2>4, <2>8 DEF OwnerInv
<1>4. ASSUME NEW t \in Slots, Operation(t) PROVE OwnerInv'
  <2>1. UNCHANGED loop /\ UNCHANGED caller
    BY <1>4 DEF Operation, Bookkeeping, WorkerTop, WorkerNext, CheckEscalated, namespace_exists,
                record_operation, ReadStreak, Escalate, longevity_create, operation_func
  <2>2. PICK x : Goes(t, x)
    BY <1>0, <1>4, OperationGoes
  <2>3. thread[t] # Idle
    BY <1>4, Busy
  <2>4. \A u \in Slots : \/ thread'[u] = thread[u]
                         \/ thread'[u] = Idle
                         \/ u = t /\ thread'[u].op = thread[u].op /\ thread'[u].run = thread[u].run
    BY <1>0, <2>2 DEF Goes
  <2> QED BY <2>1, <2>3, <2>4 DEF OwnerInv, caller
<1>5. ASSUME NEW r \in Runs, DeleteNamespace(r) PROVE OwnerInv'
  BY <1>5 DEF DeleteNamespace, OwnerInv, caller
<1>6. CASE UNCHANGED vars
  BY <1>6 DEF OwnerInv, vars
<1> QED BY <1>1, <1>2, <1>3, <1>4, <1>5, <1>6 DEF Next, Terminated

-----------------------------------------------------------------------------
(* A run whose loop and threads have ended stays as it is.                 *)

\* Nothing is added to what a run left behind.
Shrinks(r) == listed'[r] \subseteq listed[r] /\ live'[r] \subseteq live[r] /\ pool'[r] \subseteq pool[r]

LEMMA DoneElsewhere ==
    ASSUME OpsInv, OwnerInv, Elsewhere, NEW r \in Runs, Done(r)
    PROVE  Done(r)' /\ Shrinks(r)
<1>0. /\ loop \in [Runs -> LoopSteps] /\ listed \in [Runs -> SUBSET Res]
      /\ live \in [Runs -> SUBSET Res] /\ pool \in [Runs -> SUBSET Dedicated]
      /\ thread \in [Slots -> Thread] /\ TypeOK /\ NoOp \notin Ops
  BY OpsAssumption DEF OpsInv, TypeOK, Thread, Ops, NoOp, Clone, Snapshot
<1>1. ASSUME NEW q \in Runs, Loop(q) PROVE Done(r)' /\ Shrinks(r)
  <2>1. q # r /\ UNCHANGED <<listed, live, pool>>
    BY <1>1 DEF Loop, LoopTop, abort_if_cluster_unrecoverable, StartOperation, Done, LoopVars, leftovers
  <2>2. loop'[r] = loop[r]
    BY <1>0, <1>1, <2>1 DEF Loop, LoopTop, abort_if_cluster_unrecoverable, StartOperation
  <2>3. \A u \in Slots : thread'[u] = thread[u] \/ \E op : thread'[u] = Fresh(q, op, "check")
    BY <1>0, <1>1 DEF Loop, LoopTop, abort_if_cluster_unrecoverable, StartOperation
  <2>4. \A op : Fresh(q, op, "check").run = q
    BY DEF Fresh
  <2>5. \A u \in Slots : thread'[u] = thread[u] \/ thread'[u].run = q
    BY <2>3, <2>4
  <2>6. Of(r, Ops)' \subseteq Of(r, Ops)
    BY <2>1, <2>5 DEF Of
  <2> QED BY <2>1, <2>2, <2>6 DEF Done, Shrinks
<1>2. ASSUME NEW t \in Slots, Operation(t) PROVE Done(r)' /\ Shrinks(r)
  <2>1. loop' = loop
    BY <1>2 DEF Operation, Bookkeeping, WorkerTop, WorkerNext, CheckEscalated, namespace_exists,
                record_operation, ReadStreak, Escalate, longevity_create, operation_func
  <2>2. Kept
    BY <1>0, <1>2, OperationGoes, GoesKeeps
  <2>3. Of(r, Ops)' \subseteq Of(r, Ops)
    BY <1>0, <2>2, KeptShrinks
  <2>4. thread[t] # Idle
    BY <1>2, Busy
  <2>5. thread[t].run # r
    BY <2>4 DEF Done, Of, OwnerInv
  <2>6. CASE longevity_create(t)
    <3>1. /\ pool' = pool /\ \E y : live' = [live EXCEPT ![thread[t].run] = y]
          /\ listed' = listed \/ \E y : listed' = [listed EXCEPT ![thread[t].run] = y]
      BY <2>6 DEF longevity_create
    <3> QED BY <1>0, <2>1, <2>3, <2>5, <3>1 DEF Done, Shrinks
  <2>7. CASE operation_func(t)
    <3>1. /\ listed' = listed /\ \E y : live' = [live EXCEPT ![thread[t].run] = y]
          /\ pool' = pool \/ \E y : pool' = [pool EXCEPT ![thread[t].run] = y]
      BY <2>7 DEF operation_func
    <3> QED BY <1>0, <2>1, <2>3, <2>5, <3>1 DEF Done, Shrinks
  <2>8. CASE ~(longevity_create(t) \/ operation_func(t))
    <3>1. UNCHANGED <<listed, live, pool>>
      BY <1>2, <2>8 DEF Operation, Bookkeeping, WorkerTop, WorkerNext, CheckEscalated, namespace_exists,
                        record_operation, ReadStreak, Escalate, leftovers
    <3> QED BY <2>1, <2>3, <3>1 DEF Done, Shrinks
  <2> QED BY <2>6, <2>7, <2>8
<1>3. ASSUME NEW q \in Runs, DeleteNamespace(q) PROVE Done(r)' /\ Shrinks(r)
  <2>1. UNCHANGED <<loop, thread, listed, pool>> /\ live' = [live EXCEPT ![q] = {}]
    BY <1>3 DEF DeleteNamespace
  <2> QED BY <1>0, <2>1 DEF Done, Shrinks, Of
<1>4. CASE UNCHANGED vars
  BY <1>4 DEF vars, Done, Shrinks, Of
<1> QED BY <1>1, <1>2, <1>3, <1>4 DEF Elsewhere

\* stop() itself takes away as well.
LEMMA StopShrinks ==
    ASSUME OpsInv, StopBegin \/ Stopping, NEW r \in Runs
    PROVE  Shrinks(r) /\ (Done(r) => Done(r)')
<1>0. /\ listed \in [Runs -> SUBSET Res]
      /\ live \in [Runs -> SUBSET Res] /\ pool \in [Runs -> SUBSET Dedicated]
  BY DEF OpsInv, TypeOK
<1>1. Done(r) => Done(r)'
  <2>1. UNCHANGED <<loop, thread>>
    BY StopLeaves
  <2> QED BY <2>1 DEF Done, Of
<1>2. listed' = listed \/ listed' = [listed EXCEPT ![cur] = {}]
  BY DEF StopBegin, Stopping, JoinLoop, JoinWorkers, JoinWorker, JoinOps, CleanupResources,
         ClearResources, CleanupSnapshots, StopEnd
<1>3. live' = live \/ \E K : live' = [live EXCEPT ![cur] = @ \ K]
  BY DEF StopBegin, Stopping, JoinLoop, JoinWorkers, JoinWorker, JoinOps, CleanupResources,
         ClearResources, CleanupSnapshots, StopEnd
<1>4. pool' = pool \/ \E k : pool' = [pool EXCEPT ![cur] = @ \ {k}]
  BY DEF StopBegin, Stopping, JoinLoop, JoinWorkers, JoinWorker, JoinOps, CleanupResources,
         ClearResources, CleanupSnapshots, StopEnd, PoolsCleaned
<1>5. Shrinks(r)
  BY <1>0, <1>2, <1>3, <1>4 DEF Shrinks
<1> QED BY <1>1, <1>5

\* A new run begins with its own loop and threads.
LEMMA StartShrinks ==
    ASSUME OpsInv, start, NEW r \in Runs, r <= cur
    PROVE  Shrinks(r) /\ (Done(r) => Done(r)')
<1>1. /\ UNCHANGED <<listed, live, pool>> /\ loop' = [loop EXCEPT ![cur + 1] = "top"]
      /\ cur \in Nat /\ loop \in [Runs -> LoopSteps] /\ thread \in [Slots -> Thread]
  BY OpsAssumption DEF start, leftovers, OpsInv, TypeOK, Thread
<1>2. cur + 1 # r
  BY <1>1
<1>3. PICK S \in SUBSET Slots : \E f \in [S -> Dedicated] :
        thread' = [t \in Slots |-> IF t \in S THEN Fresh(cur + 1, f[t], "top") ELSE thread[t]]
  BY DEF start
<1>4. PICK f \in [S -> Dedicated] :
        thread' = [t \in Slots |-> IF t \in S THEN Fresh(cur + 1, f[t], "top") ELSE thread[t]]
  BY <1>3
<1>5. \A t \in Slots : thread'[t] = thread[t] \/ thread'[t].run = cur + 1
  BY <1>4 DEF Fresh
<1>6. Of(r, Ops)' \subseteq Of(r, Ops)
  BY <1>2, <1>5 DEF Of
<1>7. loop'[r] = loop[r]
  BY <1>1, <1>2
<1> QED BY <1>1, <1>6, <1>7 DEF Done, Shrinks

\* Every step.
LEMMA DoneStays ==
    ASSUME OpsInv, OwnerInv, [Next]_vars, NEW r \in Runs, r <= cur, Done(r)
    PROVE  Done(r)' /\ Shrinks(r)
BY NextSteps, DoneElsewhere, StopShrinks, StartShrinks

-----------------------------------------------------------------------------
(* When no join times out.                                                 *)

\* What is in the cluster is listed, unless a command failed.
LEMMA ListedStep ==
    ASSUME OpsInv, OwnerInv, [Next]_vars, NEW r \in Runs \ Faults, live[r] \subseteq listed[r],
           main = "clear" /\ cur = r => live[r] = {}
    PROVE  live'[r] \subseteq listed'[r]
<1>0. /\ listed \in [Runs -> SUBSET Res] /\ live \in [Runs -> SUBSET Res]
  BY DEF OpsInv, TypeOK
<1>1. CASE start
  BY <1>1 DEF start, leftovers
<1>2. CASE StopBegin \/ Stopping
  <2>1. live'[r] \subseteq live[r]
    BY <1>2, StopShrinks DEF Shrinks
  <2>2. listed' = listed \/ (main = "clear" /\ listed' = [listed EXCEPT ![cur] = {}])
    BY <1>2 DEF StopBegin, Stopping, JoinLoop, JoinWorkers, JoinWorker, JoinOps, CleanupResources,
                ClearResources, CleanupSnapshots, StopEnd
  <2> QED BY <1>0, <2>1, <2>2
<1>3. ASSUME NEW q \in Runs, Loop(q) \/ DeleteNamespace(q) PROVE live'[r] \subseteq listed'[r]
  <2>1. listed' = listed /\ (live' = live \/ live' = [live EXCEPT ![q] = {}])
    BY <1>3 DEF Loop, LoopTop, abort_if_cluster_unrecoverable, StartOperation, DeleteNamespace,
                LoopVars, leftovers
  <2> QED BY <1>0, <2>1
<1>4. ASSUME NEW t \in Slots, Operation(t) PROVE live'[r] \subseteq listed'[r]
  <2>1. CASE longevity_create(t)
    <3>1. PICK x \in Res : /\ live' = [live EXCEPT ![thread[t].run] = @ \cup {x}]
                           /\ \/ listed' = [listed EXCEPT ![thread[t].run] = @ \cup {x}]
                              \/ thread[t].run \in Faults /\ listed' = listed
      BY <2>1 DEF longevity_create
    <3>2. CASE thread[t].run = r
      BY <1>0, <3>1, <3>2
    <3>3. CASE thread[t].run # r
      BY <1>0, <3>1, <3>3
    <3> QED BY <3>2, <3>3
  <2>2. CASE operation_func(t)
    <3>1. listed' = listed /\ \E K : live' = [live EXCEPT ![thread[t].run] = @ \ K]
      BY <2>2 DEF operation_func
    <3> QED BY <1>0, <3>1
  <2>3. CASE ~(longevity_create(t) \/ operation_func(t))
    BY <1>4, <2>3 DEF Operation, Bookkeeping, WorkerTop, WorkerNext, CheckEscalated, namespace_exists,
                      record_operation, ReadStreak, Escalate, leftovers
  <2> QED BY <2>1, <2>2, <2>3
<1>5. CASE UNCHANGED vars
  BY <1>5 DEF vars
<1> QED BY <1>1, <1>2, <1>3, <1>4, <1>5 DEF Next, Terminated

LEMMA InitQuiet == ASSUME Init PROVE QuietInv
<1>1. PhaseInv
  BY DEF Init, PhaseInv, StopSteps
<1>2. StoppedMeansQuiet /\ EscalationOwned
  BY DEF Init, StoppedMeansQuiet, EscalationOwned
<1> QED BY <1>1, <1>2, InitOwner DEF QuietInv

\* The steps of the others do not disturb stop().
LEMMA PhaseElsewhere ==
    ASSUME OpsInv, OwnerInv, PhaseInv, Elsewhere,
           \A r \in Runs \ Faults : live'[r] \subseteq listed'[r]
    PROVE  PhaseInv'
<1>1. cur' = cur /\ main' = main /\ unstopped' = unstopped
  BY ElsewhereCaller DEF caller
<1>2. CASE main \notin StopSteps
  BY <1>1, <1>2 DEF PhaseInv, StopSteps
<1>3. CASE main \in StopSteps
  <2>1. cur \in Runs /\ loop \in [Runs -> LoopSteps]
    BY <1>3 DEF OpsInv, JoinInv, TypeOK, StopSteps
  <2>2. loop[cur] = "ended" => loop'[cur] = "ended"
    <3>1. ASSUME NEW q \in Runs, Loop(q) PROVE loop[cur] = "ended" => loop'[cur] = "ended"
      BY <2>1, <3>1 DEF Loop, LoopTop, abort_if_cluster_unrecoverable, StartOperation
    <3>2. ASSUME NEW t \in Slots, Operation(t) PROVE loop' = loop
      BY <3>2 DEF Operation, Bookkeeping, WorkerTop, WorkerNext, CheckEscalated, namespace_exists,
                  record_operation, ReadStreak, Escalate, longevity_create, operation_func
    <3>3. ASSUME NEW q \in Runs, DeleteNamespace(q) PROVE loop' = loop
      BY <3>3 DEF DeleteNamespace
    <3>4. UNCHANGED vars => loop' = loop
      BY DEF vars
    <3> QED BY <3>1, <3>2, <3>3, <3>4 DEF Elsewhere
  <2>3. main \in {"cleanup", "clear", "cleanup_snapshot", "raise"} => Done(cur)' /\ Shrinks(cur)
    <3>1. ASSUME Done(cur) PROVE Done(cur)' /\ Shrinks(cur)
      <4>1. PICK r \in Runs : r = cur
        BY <2>1
      <4>2. Done(r)' /\ Shrinks(r)
        BY <3>1, <4>1, DoneElsewhere
      <4> QED BY <1>1, <4>1, <4>2 DEF Done, Of, Shrinks
    <3> QED BY <3>1 DEF PhaseInv
  <2>4. /\ unstopped' = {}
        /\ main' \in StopSteps \ {"join_loop"} => loop'[cur'] = "ended"
        /\ main' \in {"cleanup", "clear", "cleanup_snapshot", "raise"} => Done(cur)'
        /\ main' \in {"cleanup_snapshot", "raise"} => listed'[cur'] = {}
    BY <1>1, <2>2, <2>3 DEF PhaseInv, Shrinks
  <2>5. cur' \notin Faults =>
         /\ main' \in {"clear", "cleanup_snapshot", "raise"} => live'[cur'] = {}
         /\ main' \in {"cleanup_snapshot", "raise"} => Clone \notin pool'[cur']
         /\ main' = "raise" => Snapshot \notin pool'[cur']
    BY <1>1, <2>3 DEF PhaseInv, Shrinks
  <2> QED BY <2>4, <2>5 DEF PhaseInv
<1> QED BY <1>2, <1>3

\* Joined for as long as it takes, a thread is not left alive.
LEMMA PhaseStopping ==
    ASSUME ~Timeouts, OpsInv, OpsInv', PhaseInv, Stopping,
           \A r \in Runs \ Faults : live'[r] \subseteq listed'[r]
    PROVE  PhaseInv'
<1>1. UNCHANGED <<cur, loop, thread, escalation>> /\ cur \in Runs
  BY StopLeaves
<1>2. unstopped' = {}
  BY DEF Stopping, JoinLoop, JoinWorkers, JoinWorker, JoinOps, CleanupResources, ClearResources,
         CleanupSnapshots, StopEnd, PhaseInv
<1>3. Done(cur) => Done(cur)'
  BY <1>1 DEF Done, Of
<1>4. /\ listed \in [Runs -> SUBSET Res] /\ live \in [Runs -> SUBSET Res]
      /\ pool \in [Runs -> SUBSET Dedicated]
  BY DEF OpsInv, TypeOK
<1>5. CASE JoinLoop
  <2>1. main' = "join_clone" /\ loop[cur] = "ended"
    BY <1>5 DEF JoinLoop
  <2> QED BY <1>1, <1>2, <2>1 DEF PhaseInv
<1>6. CASE JoinWorkers
  <2>1. main' \in {"join_snapshot", "join_ops"} /\ main \in {"join_clone", "join_snapshot"}
    BY <1>6 DEF JoinWorkers, JoinWorker
  <2> QED BY <1>1, <1>2, <2>1 DEF PhaseInv, StopSteps
<1>7. CASE JoinOps
  <2>1. main' = "cleanup" /\ main = "join_ops" /\ OpThreads(cur) = {}
    BY <1>7 DEF JoinOps
  <2>2. ~WorkerAlive(cur, Clone) /\ ~WorkerAlive(cur, Snapshot)
    BY <2>1 DEF OpsInv, JoinInv, Joined, StopSteps, PhaseInv
  <2>3. Ops \subseteq RandomOps \cup {Clone, Snapshot}
    BY OpsAssumption DEF Ops
  <2>4. Of(cur, Ops) = {}
    BY <2>1, <2>2, <2>3 DEF OpThreads, WorkerAlive, Of
  <2>5. Done(cur)'
    BY <1>1, <2>1, <2>4 DEF PhaseInv, StopSteps, Done, Of
  <2> QED BY <1>1, <1>2, <2>1, <2>5 DEF PhaseInv, Done
<1>8. CASE CleanupResources
  <2>1. main = "cleanup" /\ main' = "clear"
    BY <1>8 DEF CleanupResources
  <2>2. ASSUME cur \notin Faults PROVE live'[cur] = {}
    <3>1. live' = [live EXCEPT ![cur] = @ \ (listed[cur] \ {})]
      BY <1>8, <2>2 DEF CleanupResources
    <3>2. live[cur] \subseteq listed[cur]
      BY <1>1, <2>2 DEF PhaseInv
    <3> QED BY <1>1, <1>4, <3>1, <3>2
  <2>3. Done(cur)'
    BY <1>3, <2>1 DEF PhaseInv
  <2> QED BY <1>1, <1>2, <2>1, <2>2, <2>3 DEF PhaseInv, Done
<1>9. CASE ClearResources
  <2>1. /\ main = "clear" /\ main' = "cleanup_snapshot" /\ live' = live
        /\ listed' = [listed EXCEPT ![cur] = {}] /\ pool' \in PoolsCleaned(Clone)
    BY <1>9 DEF ClearResources
  <2>2. ASSUME cur \notin Faults PROVE live'[cur] = {} /\ Clone \notin pool'[cur]
    BY <1>1, <1>4, <2>1, <2>2 DEF PhaseInv, PoolsCleaned
  <2>3. Done(cur)' /\ listed'[cur] = {}
    BY <1>1, <1>3, <1>4, <2>1 DEF PhaseInv
  <2> QED BY <1>1, <1>2, <2>1, <2>2, <2>3 DEF PhaseInv, Done
<1>10. CASE CleanupSnapshots
  <2>1. /\ main = "cleanup_snapshot" /\ main' = "raise" /\ UNCHANGED <<listed, live>>
        /\ pool' \in PoolsCleaned(Snapshot)
    BY <1>10 DEF CleanupSnapshots, PhaseInv
  <2>2. ASSUME cur \notin Faults
        PROVE  live'[cur] = {} /\ Clone \notin pool'[cur] /\ Snapshot \notin pool'[cur]
    BY <1>1, <1>4, <2>1, <2>2 DEF PhaseInv, PoolsCleaned
  <2>3. Done(cur)' /\ listed'[cur] = {}
    BY <1>1, <1>3, <2>1 DEF PhaseInv
  <2> QED BY <1>1, <1>2, <2>1, <2>2, <2>3 DEF PhaseInv, Done
<1>11. CASE StopEnd
  <2>1. main' = "idle"
    BY <1>11 DEF StopEnd, PhaseInv
  <2> QED BY <1>2, <2>1 DEF PhaseInv, StopSteps
<1> QED BY <1>5, <1>6, <1>7, <1>8, <1>9, <1>10, <1>11 DEF Stopping

LEMMA NextPhase ==
    ASSUME ~Timeouts, OpsInv, OpsInv', OwnerInv, PhaseInv, [Next]_vars
    PROVE  PhaseInv'
<1>1. \A r \in Runs \ Faults : live'[r] \subseteq listed'[r]
  BY ListedStep DEF PhaseInv
<1>2. CASE start \/ StopBegin
  <2>1. unstopped' = {} /\ main' \in {"test", "idle", "join_loop"}
    BY <1>2 DEF start, StopBegin
  <2> QED BY <1>1, <2>1 DEF PhaseInv, StopSteps
<1> QED BY <1>1, <1>2, NextSteps, PhaseElsewhere, PhaseStopping

\* A run that was stopped stays quiet, and one is only called stopped when it is.
LEMMA NextStopped ==
    ASSUME OpsInv, QuietInv, [Next]_vars
    PROVE  StoppedMeansQuiet'
<1> SUFFICES ASSUME NEW r \in Runs, outcome'[r] = "stopped", ~Timeouts
             PROVE  /\ Done(r)' /\ listed'[r] = {}
                    /\ r \notin Faults => live'[r] = {} /\ pool'[r] = {}
  BY DEF StoppedMeansQuiet, Done
<1>1. CASE outcome[r] = "stopped"
  <2>1. r <= cur
    BY <1>1 DEF QuietInv, OwnerInv
  <2>2. /\ Done(r) /\ listed[r] = {}
        /\ r \notin Faults => live[r] = {} /\ pool[r] = {}
    BY <1>1 DEF QuietInv, StoppedMeansQuiet, Done
  <2>3. Done(r)' /\ Shrinks(r)
    BY <2>1, <2>2, DoneStays DEF QuietInv
  <2> QED BY <2>2, <2>3 DEF Shrinks
<1>2. CASE outcome[r] # "stopped"
  <2>1. StopEnd
    <3>1. ~start /\ ~Elsewhere
      BY <1>2, ElsewhereCaller DEF start, caller
    <3>2. ~StopBegin
      BY <1>2 DEF StopBegin, OpsInv, TypeOK
    <3>3. Stopping
      BY <3>1, <3>2, NextSteps
    <3> QED BY <1>2, <3>3 DEF Stopping, JoinLoop, JoinWorkers, JoinWorker, JoinOps,
               CleanupResources, ClearResources, CleanupSnapshots
  <2>2. /\ main = "raise" /\ UNCHANGED <<cur, loop, thread, listed, live, pool>>
        /\ \E o : outcome' = [outcome EXCEPT ![cur] = o]
    BY <2>1 DEF StopEnd, StopVars
  <2>3. r = cur
    BY <1>2, <2>2 DEF OpsInv, TypeOK
  <2>4. /\ Done(cur) /\ listed[cur] = {}
        /\ cur \notin Faults => live[cur] = {} /\ Clone \notin pool[cur] /\ Snapshot \notin pool[cur]
    BY <2>2 DEF QuietInv, PhaseInv
  <2>5. pool[r] \subseteq {Clone, Snapshot}
    BY OpsAssumption DEF OpsInv, TypeOK
  <2> QED BY <2>2, <2>3, <2>4, <2>5 DEF Done, Of
<1> QED BY <1>1, <1>2

\* An escalation comes from the current run, all earlier ones being over.
LEMMA NextEscalation ==
    ASSUME OpsInv, QuietInv, [Next]_vars
    PROVE  EscalationOwned'
<1> SUFFICES ASSUME ~Timeouts, \A r \in 1 .. cur' - 1 : outcome'[r] = "stopped", ~start
             PROVE  escalation' \in {0, cur'}
  <2>1. start => escalation' = 0
    BY DEF start
  <2> QED BY <2>1 DEF EscalationOwned
<1>0. cur \in Nat /\ cur \in 0 .. NRuns
  BY OpsAssumption DEF OpsInv, TypeOK
<1>1. cur' = cur /\ \A r \in 1 .. cur - 1 : outcome'[r] = outcome[r]
  <2>1. \A r \in 1 .. cur - 1 : r \in Runs /\ r # cur
    BY <1>0, OpsAssumption DEF Runs
  <2>2. StopBegin \/ Stopping \/ Elsewhere
    BY NextSteps
  <2> QED BY <2>1, <2>2, StopLeaves, ElsewhereCaller DEF caller
<1>2. \A r \in 1 .. cur - 1 : outcome[r] = "stopped"
  BY <1>1
<1>3. escalation \in {0, cur}
  BY <1>2 DEF QuietInv, EscalationOwned
<1>4. \A r \in 1 .. cur - 1 : Done(r)
  <2>1. \A r \in 1 .. cur - 1 : r \in Runs
    BY <1>0, OpsAssumption DEF Runs
  <2> QED BY <1>2, <2>1 DEF QuietInv, StoppedMeansQuiet, Done
<1>5. ASSUME NEW r \in 1 .. cur, ~Done(r) PROVE r = cur
  BY <1>0, <1>4, <1>5
<1>6. ASSUME NEW r \in Runs, Loop(r) PROVE escalation' \in {0, cur}
  <2>1. CASE abort_if_cluster_unrecoverable(r)
    <3>1. loop[r] = "gate"
      BY <2>1 DEF abort_if_cluster_unrecoverable
    <3>2. r \in 1 .. cur /\ ~Done(r)
      BY <1>0, <3>1, OpsAssumption DEF QuietInv, OwnerInv, Done, Runs
    <3> QED BY <1>3, <1>5, <2>1, <3>2 DEF abort_if_cluster_unrecoverable
  <2>2. CASE LoopTop(r) \/ StartOperation(r)
    BY <1>3, <2>2 DEF LoopTop, StartOperation, LoopVars, metrics
  <2> QED BY <1>6, <2>1, <2>2 DEF Loop
<1>7. ASSUME NEW t \in Slots, Operation(t) PROVE escalation' \in {0, cur}
  <2>1. CASE Escalate(t)
    <3>1. thread[t] # Idle /\ escalation' = thread[t].run
      BY <1>7, <2>1, Busy DEF Escalate
    <3>2. thread[t].run \in 1 .. cur /\ ~Done(thread[t].run)
      BY <3>1 DEF QuietInv, OwnerInv, Done, Of
    <3> QED BY <1>5, <3>1, <3>2
  <2>2. CASE ~Escalate(t)
    <3>1. escalation' = escalation
      BY <1>7, <2>2 DEF Operation, Bookkeeping, WorkerTop, WorkerNext, CheckEscalated,
            namespace_exists, record_operation, ReadStreak, longevity_create, operation_func, metrics
    <3> QED BY <1>3, <3>1
  <2> QED BY <2>1, <2>2
<1>8. ASSUME StopBegin \/ Stopping \/ UNCHANGED vars \/ \E r \in Runs : DeleteNamespace(r)
      PROVE  escalation' = escalation
  BY <1>8, StopLeaves DEF DeleteNamespace, metrics, vars
<1> QED BY <1>1, <1>3, <1>6, <1>7, <1>8 DEF Next, Terminated

LEMMA NextQuiet == ASSUME OpsInv, OpsInv', QuietInv, [Next]_vars PROVE QuietInv'
BY NextOwner, NextPhase, NextStopped, NextEscalation DEF QuietInv

\* The invariant about the end of a run holds throughout.
THEOREM QuietInvariance == Spec => []QuietInv
<1>1. Init => QuietInv
  BY InitQuiet
<1>2. OpsInv /\ OpsInv' /\ QuietInv /\ [Next]_vars => QuietInv'
  BY NextQuiet
<1> QED BY <1>1, <1>2, Invariance, PTL DEF Spec

-----------------------------------------------------------------------------
(* A full row of failures.                                                 *)

\* A thread that has yet to look at the row of op, or to report it.
Reporting(t, op) == thread[t].op = op /\ thread[t].step \in {"read", "escalate"}

RowOf(op) == streak[op] >= MaxFailures => escalation # 0 \/ \E t \in Slots : Reporting(t, op)

LEMMA Rows == FullRowReported <=> \A op \in Ops : RowOf(op)
BY DEF FullRowReported, RowOf, Reporting

\* The row of op is as it was, and so is who reports it.
LEMMA RowKept ==
    ASSUME NEW op \in Ops, RowOf(op), streak'[op] = streak[op],
           escalation # 0 => escalation' # 0,
           \A u \in Slots : Reporting(u, op) => Reporting(u, op)'
    PROVE  RowOf(op)'
BY DEF RowOf

\* A step of the thread t leaves the others.
LEMMA Bystanders ==
    ASSUME OpsInv, NEW t \in Slots, Operation(t)
    PROVE  \A u \in Slots \ {t} : thread'[u] = thread[u]
<1>1. PICK x : Goes(t, x)
  BY OperationGoes DEF OpsInv
<1> QED BY <1>1 DEF Goes, OpsInv, TypeOK

\* One step of an operation thread.
LEMMA OperationRow ==
    ASSUME OpsInv, OwnerInv, NEW t \in Slots, Operation(t), NEW op \in Ops, RowOf(op)
    PROVE  RowOf(op)'
<1>0. thread[t] \in Thread /\ streak \in [Ops -> Nat] /\ thread \in [Slots -> Thread]
  BY DEF OpsInv, TypeOK, Thread
<1>1. \A u \in Slots \ {t} : thread'[u] = thread[u]
  BY Bystanders
<1>2. \A u \in Slots \ {t} : Reporting(u, op) => Reporting(u, op)'
  BY <1>1 DEF Reporting
<1>3. CASE record_operation(t) /\ At(t, "ok")
  <2>1. streak' = [streak EXCEPT ![thread[t].op] = 0] /\ escalation' = escalation /\ ~Reporting(t, op)
    BY <1>3 DEF record_operation, At, streak_after_success, Reporting
  <2>2. CASE op = thread[t].op
    <3>1. streak'[op] = 0
      BY <1>0, <2>1, <2>2
    <3> QED BY <3>1, OpsAssumption DEF RowOf
  <2>3. CASE op # thread[t].op
    <3>1. streak'[op] = streak[op]
      BY <1>0, <2>1, <2>3
    <3> QED BY <1>2, <2>1, <3>1, RowKept
  <2> QED BY <2>2, <2>3
<1>4. CASE record_operation(t) /\ At(t, "fail")
  <2>1. /\ streak' = [streak EXCEPT ![thread[t].op] = @ + 1] /\ escalation' = escalation
        /\ thread' = [thread EXCEPT ![t].step = "read"] /\ ~Reporting(t, op)
    BY <1>4 DEF record_operation, At, Goto, Reporting
  <2>2. CASE op = thread[t].op
    <3>1. thread'[t].op = op /\ thread'[t].step = "read"
      BY <1>0, <2>1, <2>2 DEF Thread
    <3>2. Reporting(t, op)'
      BY <3>1 DEF Reporting
    <3> QED BY <3>2 DEF RowOf
  <2>3. CASE op # thread[t].op
    <3>1. streak'[op] = streak[op]
      BY <1>0, <2>1, <2>3
    <3> QED BY <1>2, <2>1, <3>1, RowKept
  <2> QED BY <2>2, <2>3
<1>5. CASE ReadStreak(t)
  <2>1. UNCHANGED <<streak, escalation>>
    BY <1>5 DEF ReadStreak, metrics
  <2>2. CASE AtLimit(thread[t].op)
    <3>1. thread' = [thread EXCEPT ![t].step = "escalate"]
      BY <1>5, <2>2 DEF ReadStreak, Goto
    <3>2. thread'[t].op = thread[t].op /\ thread'[t].step = "escalate"
      BY <1>0, <3>1 DEF Thread
    <3>3. Reporting(t, op) => Reporting(t, op)'
      BY <3>2 DEF Reporting
    <3>4. \A u \in Slots : Reporting(u, op) => Reporting(u, op)'
      BY <1>2, <3>3
    <3> QED BY <2>1, <3>4, RowKept
  <2>3. CASE ~AtLimit(thread[t].op) /\ op = thread[t].op
    <3>1. ~(streak'[op] >= MaxFailures)
      BY <2>1, <2>3 DEF AtLimit
    <3> QED BY <3>1 DEF RowOf
  <2>4. CASE op # thread[t].op
    <3>1. ~Reporting(t, op)
      BY <2>4 DEF Reporting
    <3>2. \A u \in Slots : Reporting(u, op) => Reporting(u, op)'
      BY <1>2, <3>1
    <3> QED BY <2>1, <3>2, RowKept
  <2> QED BY <2>2, <2>3, <2>4
<1>6. CASE Escalate(t)
  <2>1. thread[t] # Idle /\ escalation' = thread[t].run
    BY <1>6, Busy DEF Escalate
  <2>2. escalation' # 0
    BY <2>1 DEF OwnerInv, OpsInv, TypeOK
  <2> QED BY <2>2 DEF RowOf
<1>7. CASE ~(record_operation(t) \/ ReadStreak(t) \/ Escalate(t))
  <2>1. UNCHANGED <<streak, escalation>> /\ thread[t].step \notin {"read", "escalate"}
    BY <1>7 DEF Operation, Bookkeeping, WorkerTop, WorkerNext, CheckEscalated, namespace_exists,
                longevity_create, operation_func, metrics, At
  <2>2. ~Reporting(t, op)
    BY <2>1 DEF Reporting
  <2>3. \A u \in Slots : Reporting(u, op) => Reporting(u, op)'
    BY <1>2, <2>2
  <2> QED BY <2>1, <2>3, RowKept
<1>8. record_operation(t) => At(t, "ok") \/ At(t, "fail")
  BY DEF record_operation
<1> QED BY <1>3, <1>4, <1>5, <1>6, <1>7, <1>8

\* Any step.
LEMMA NextRow ==
    ASSUME OpsInv, OwnerInv, [Next]_vars, NEW op \in Ops, RowOf(op)
    PROVE  RowOf(op)'
<1>1. CASE start
  <2>1. streak'[op] = 0
    BY <1>1 DEF start
  <2> QED BY <2>1, OpsAssumption DEF RowOf
<1>2. CASE StopBegin \/ Stopping \/ (\E r \in Runs : DeleteNamespace(r)) \/ UNCHANGED vars
  <2>1. UNCHANGED <<streak, escalation, thread>>
    BY <1>2 DEF StopBegin, Stopping, JoinLoop, JoinWorkers, JoinWorker, JoinOps, CleanupResources,
                ClearResources, CleanupSnapshots, StopEnd, StopVars, metrics, DeleteNamespace, vars
  <2> QED BY <2>1, RowKept DEF Reporting
<1>3. ASSUME NEW r \in Runs, Loop(r) PROVE RowOf(op)'
  <2>1. streak' = streak /\ (escalation' = escalation \/ escalation' = r) /\ r # 0
    BY <1>3, OpsAssumption
       DEF Loop, LoopTop, abort_if_cluster_unrecoverable, StartOperation, LoopVars, metrics, Runs
  <2>2. \A u \in Slots : thread[u] # Idle => thread'[u] = thread[u]
    <3>1. thread' = thread \/ \E t \in Slots, o \in RandomOps :
            thread[t] = Idle /\ thread' = [thread EXCEPT ![t] = Fresh(r, o, "check")]
      BY <1>3 DEF Loop, LoopTop, abort_if_cluster_unrecoverable, StartOperation
    <3> QED BY <3>1 DEF OpsInv, TypeOK
  <2>3. \A u \in Slots : Reporting(u, op) => Reporting(u, op)'
    BY <2>2 DEF Reporting, Idle
  <2> QED BY <2>1, <2>3, RowKept
<1>4. CASE \E t \in Slots : Operation(t)
  BY <1>4, OperationRow
<1> QED BY <1>1, <1>2, <1>3, <1>4 DEF Next, Terminated

-----------------------------------------------------------------------------
(* The theorems.                                                           *)

\* The state of all controllers and of the metrics they share is type-correct,
\* for any number of runs and threads.
THEOREM OpsTypeCorrect == Spec => []TypeOK
<1>1. OpsInv => TypeOK
  BY DEF OpsInv
<1> QED BY <1>1, Invariance, PTL

\* stop() never cleans up the pool of a dedicated operation whose thread lives.
THEOREM CleanupDoesNotRace == Spec => NoRacingCleanup
<1> DEFINE A == \A k \in Dedicated :
                  (main # main' /\ main \in StopSteps /\ pool[cur] \ pool'[cur] = {k})
                     => ~WorkerAlive(cur, k)
<1>1. ASSUME OpsInv, [Next]_vars PROVE [A]_vars
  <2> SUFFICES ASSUME Next, NEW k \in Dedicated, main # main', main \in StopSteps,
                      pool[cur] \ pool'[cur] = {k}
               PROVE  ~WorkerAlive(cur, k)
    BY <1>1
  <2>1. Stopping
    <3>1. ~start /\ ~StopBegin
      BY DEF start, StopBegin, StopSteps
    <3>2. ~Terminated
      BY DEF Terminated, vars
    <3>3. ~(\E r \in Runs : Loop(r) \/ DeleteNamespace(r))
      BY DEF Loop, LoopTop, abort_if_cluster_unrecoverable, StartOperation, DeleteNamespace,
             LoopVars, caller
    <3>4. ~(\E t \in Slots : Operation(t))
      BY DEF Operation, Bookkeeping, WorkerTop, WorkerNext, CheckEscalated, namespace_exists,
             record_operation, ReadStreak, Escalate, longevity_create, operation_func, caller
    <3> QED BY <3>1, <3>2, <3>3, <3>4 DEF Next
  <2>2. cur \in Runs /\ pool[cur] \in SUBSET Dedicated
    BY <1>1 DEF OpsInv, JoinInv, StopSteps, TypeOK
  <2>3. pool' # pool
    OBVIOUS
  <2>4. \/ main = "clear" /\ pool' \in PoolsCleaned(Clone)
        \/ main \in {"cleanup", "cleanup_snapshot"} /\ Snapshot \notin unstopped
           /\ pool' \in PoolsCleaned(Snapshot)
    BY <2>1, <2>3 DEF Stopping, JoinLoop, JoinWorkers, JoinWorker, JoinOps, CleanupResources,
                      ClearResources, CleanupSnapshots, StopEnd
  <2>5. CASE main = "clear" /\ pool' \in PoolsCleaned(Clone)
    <3>1. k = Clone
      BY <1>1, <2>2, <2>3, <2>5 DEF PoolsCleaned, OpsInv, TypeOK
    <3> QED BY <1>1, <2>5, <3>1 DEF OpsInv, JoinInv, Joined, StopSteps
  <2>6. CASE main \in {"cleanup", "cleanup_snapshot"} /\ Snapshot \notin unstopped
             /\ pool' \in PoolsCleaned(Snapshot)
    <3>1. k = Snapshot
      BY <1>1, <2>2, <2>3, <2>6 DEF PoolsCleaned, OpsInv, TypeOK
    <3> QED BY <1>1, <2>6, <3>1 DEF OpsInv, JoinInv, Joined, StopSteps
  <2> QED BY <2>4, <2>5, <2>6
<1> QED BY <1>1, Invariance, PTL DEF Spec, NoRacingCleanup

\* A stop() that went all the way, none of its joins timing out, leaves nothing of
\* the run behind, however many threads and runs there are, and nothing of it
\* comes back later.
THEOREM StopLeavesQuiet == Spec => []StoppedMeansQuiet
<1>1. QuietInv => StoppedMeansQuiet
  BY DEF QuietInv
<1> QED BY <1>1, QuietInvariance, PTL

\* Then an escalation a test reports is its own, although the metrics are shared.
THEOREM EscalationIsOwned == Spec => []EscalationOwned
<1>1. QuietInv => EscalationOwned
  BY DEF QuietInv
<1> QED BY <1>1, QuietInvariance, PTL

\* A full row of failures is escalated or about to be, for any number of operations
\* at the same time and any length of the row.
THEOREM FullRowsAreReported == Spec => []FullRowReported
<1>1. Init => FullRowReported
  BY OpsAssumption DEF Init, FullRowReported
<1>2. ASSUME OpsInv, QuietInv, FullRowReported, [Next]_vars PROVE FullRowReported'
  <2>1. \A op \in Ops : RowOf(op)
    BY <1>2, Rows
  <2>2. OwnerInv
    BY <1>2 DEF QuietInv
  <2>3. ASSUME NEW op \in Ops PROVE RowOf(op)'
    BY <1>2, <2>1, <2>2, NextRow
  <2> QED BY <2>3 DEF FullRowReported, RowOf, Reporting
<1> QED BY <1>1, <1>2, Invariance, QuietInvariance, PTL DEF Spec
=============================================================================
