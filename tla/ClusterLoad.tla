---------------------------- MODULE ClusterLoad ----------------------------
(***************************************************************************)
(* The background IO of a test session.                                    *)
(*                                                                         *)
(* The session fixture cluster_load creates FIO deployments, each on a PVC *)
(* of its own, until the cluster carries the wanted load, and starts the   *)
(* daemon thread watch_load.  From then on the main thread, which runs the *)
(* tests, and the watcher talk through one shared string,                  *)
(* config.RUN["load_status"]: a fixture writes a request (to_be_paused,    *)
(* to_be_reduced, to_be_resumed), polls for the answer for a limited time  *)
(* and goes on without it; the watcher reads the string, does the work, and*)
(* then writes the answer (paused, reduced, running) whatever the string   *)
(* is by then.  The session ends by writing "finished".                    *)
(*                                                                         *)
(* Data.  A deployment and the PVC it was created on share an identifier.  *)
(* dc_objs and pvc_objs are the lists the ClusterLoad object keeps; pods   *)
(* and pvcs are what the cluster really holds.  A listed object carries the*)
(* _is_deleted flag of class OCS.                                          *)
(*                                                                         *)
(* Bounds.  Ids is the pool of identifiers; MaxPods bounds the number of   *)
(* FIO pods, in place of the latency, space and time limits of the code.   *)
(***************************************************************************)
EXTENDS Integers, Sequences, FiniteSets

CONSTANTS
    Ids,        \* identifiers for a PVC and the deployment created on it
    MaxPods,    \* bound on the number of FIO deployments listed
    Fixtures,   \* the fixtures the session's tests use
    Faults,     \* cluster commands may fail
    Timeouts    \* an operation of the watcher may outlast a fixture's polling

AllFixtures == {"pause", "pause_and_resume", "reduce_and_resume", "resume",
                "measure_idle", "resize_osd"}

ASSUME LoadAssumption ==
    /\ MaxPods \in Nat \ {0}
    /\ Fixtures \subseteq AllFixtures
    /\ Faults \in BOOLEAN
    /\ Timeouts \in BOOLEAN

Statuses == {"unset", "running", "to_be_paused", "paused", "to_be_reduced",
             "reduced", "to_be_resumed", "finished"}

\* The target is only known once the wanted load was reached.
NoTarget == -1

MainSteps == {"ramp", "drop", "fill", "setup_done", "idle", "wait_reduced",
              "body", "wait_paused", "measuring", "wait_running", "join", "ended"}

WatcherSteps == {"none", "top", "metrics", "is_running", "is_pause", "is_reduce",
                 "is_resume", "adjust", "pausing", "reducing", "resuming", "stopped"}

VARIABLES
    load_status,         \* config.RUN["load_status"]
    dc_objs,             \* ClusterLoad.dc_objs
    pvc_objs,            \* ClusterLoad.pvc_objs
    target_pods_number,  \* ClusterLoad.target_pods_number
    keep,                \* pods_to_keep of the reduce_load under way
    made,                \* a ClusterLoad object exists
    cluster_load_error,  \* cluster_load.cluster_load_error is set
    pods, pvcs,          \* the FIO deployments and the PVCs in the cluster
    main,                \* where the main thread is
    fixture,             \* the fixture of the test under way
    answered,            \* ... saw the answer it polled for
    watcher              \* where the thread watch_load is

vars == <<load_status, dc_objs, pvc_objs, target_pods_number, keep, made,
          cluster_load_error, pods, pvcs, main, fixture, answered, watcher>>

load == <<dc_objs, pvc_objs, pods, pvcs>>
session == <<main, fixture, answered>>

Object == [id : Ids, deleted : BOOLEAN]

Last(s) == s[Len(s)]
Front(s) == SubSeq(s, 1, Len(s) - 1)
Listed(s) == {s[i].id : i \in 1 .. Len(s)}

\* The constructor may fail; then it is tried again without the factories.
Init ==
    /\ load_status = "unset"
    /\ dc_objs = <<>> /\ pvc_objs = <<>>
    /\ target_pods_number = NoTarget
    /\ keep = 0
    /\ pods = {} /\ pvcs = {}
    /\ \/ main = "ramp" /\ made = TRUE /\ cluster_load_error = FALSE
       \/ Faults /\ main = "setup_done" /\ made \in BOOLEAN /\ cluster_load_error = TRUE
    /\ fixture = "none"
    /\ answered = FALSE
    /\ watcher = "none"

-----------------------------------------------------------------------------
(* class ClusterLoad.  ok tells the caller whether the call returned or    *)
(* raised.                                                                 *)

\* OCS.delete followed by wait_for_delete.  An object already deleted is only
\* waited for; a command that failed after it took effect leaves the flag
\* unset, and the next attempt meets "NotFound"; a PVC in use does not go.
Delete(obj, live, used) ==
    {r \in [done : BOOLEAN, deleted : BOOLEAN, gone : BOOLEAN] :
        CASE obj.deleted -> r.deleted /\ r.gone /\ (r.done \/ Faults)
          [] ~obj.deleted /\ obj.id \notin live -> ~r.done /\ ~r.deleted /\ r.gone
          [] ~obj.deleted /\ obj.id \in live \cap used -> ~r.done /\ ~r.deleted /\ ~r.gone
          [] ~obj.deleted /\ obj.id \in live \ used ->
               (r.done => r.deleted) /\ (r.deleted => r.gone) /\ (r.done \/ Faults)}

increase_load(ok) ==
    \/ /\ Len(dc_objs) < MaxPods
       /\ \E id \in Ids \ (pods \cup pvcs \cup Listed(dc_objs) \cup Listed(pvc_objs)) :
            LET obj == [id |-> id, deleted |-> FALSE] IN
            /\ pvcs' = pvcs \cup {id}
            /\ \/ /\ ok
                  /\ pvc_objs' = Append(pvc_objs, obj)
                  /\ dc_objs' = Append(dc_objs, obj)
                  /\ pods' = pods \cup {id}
               \/ /\ ~ok /\ Faults             \* the PVC did not get bound in time
                  /\ UNCHANGED <<pvc_objs, dc_objs, pods>>
               \/ /\ ~ok /\ Faults             \* no deployment, or its pod did not run in time
                  /\ pvc_objs' = Append(pvc_objs, obj)
                  /\ pods' \in {pods, pods \cup {id}}
                  /\ UNCHANGED dc_objs
    \/ ~ok /\ Faults /\ UNCHANGED load

\* Variant: the PVC is dropped before the deployment is known to be gone.
decrease_loadPvcFirst(ok) ==
    LET d == Last(dc_objs)
        p == Last(pvc_objs)
    IN  /\ dc_objs # <<>>
        /\ pvc_objs' = Front(pvc_objs)
        /\ pvcs' = pvcs \ {p.id}
        /\ \E r \in Delete(d, pods, {}) :
             /\ pods' = IF r.gone THEN pods \ {d.id} ELSE pods
             /\ ok = r.done
             /\ dc_objs' = IF ok THEN Front(dc_objs) ELSE dc_objs

\* Variant: the deployment is not waited for.
decrease_loadNoWait(ok) ==
    /\ dc_objs # <<>>
    /\ dc_objs' = Front(dc_objs)
    /\ \E r \in Delete(Last(dc_objs), pods, {}) :
         /\ pods' = IF r.gone THEN pods \ {Last(dc_objs).id} ELSE pods
         /\ ok = r.done
    /\ UNCHANGED <<pvc_objs, pvcs>>

decrease_load(ok) ==
    LET d == Last(dc_objs)
        p == Last(pvc_objs)
    IN  /\ dc_objs # <<>>
        /\ \E r \in Delete(d, pods, {}) :
             /\ pods' = IF r.gone THEN pods \ {d.id} ELSE pods
             /\ \/ /\ ~r.done /\ ~ok
                   /\ dc_objs' = [dc_objs EXCEPT ![Len(dc_objs)].deleted = r.deleted]
                   /\ UNCHANGED <<pvc_objs, pvcs>>
                \/ /\ r.done
                   /\ dc_objs' = Front(dc_objs)
                   /\ \E q \in Delete(p, pvcs, pods') :
                        /\ ok = q.done
                        /\ pvcs' = IF q.gone THEN pvcs \ {p.id} ELSE pvcs
                        /\ pvc_objs' = IF q.done THEN Front(pvc_objs)
                                       ELSE [pvc_objs EXCEPT ![Len(pvc_objs)].deleted = q.deleted]

\* Variants: pause is ignored; one too few are kept.
pods_to_keepHalf(pause) == Len(dc_objs) \div 2

\* What reduce_load leaves.
pods_to_keep(pause) == IF pause THEN 0 ELSE Len(dc_objs) \div 2

\* There are fewer pods than the target asks for.
PodsMissing == Len(dc_objs) < target_pods_number

-----------------------------------------------------------------------------
(* The set-up of the session fixture, on the main thread.                  *)

SetupVars == <<load_status, keep, made, fixture, answered, watcher>>

\* An exception of reach_cluster_load_percentage is stored, not raised.
SetupFailed ==
    /\ main' = "setup_done"
    /\ cluster_load_error' = TRUE
    /\ UNCHANGED target_pods_number

\* No or an unacceptable target percentage: no IO, and no error either.
NoPercentage ==
    /\ main = "ramp" /\ dc_objs = <<>> /\ pvc_objs = <<>>
    /\ main' = "setup_done"
    /\ UNCHANGED <<load, SetupVars, cluster_load_error, target_pods_number>>

\* Pods with a large rate, one by one, until the limit of the cluster shows.
Ramp ==
    /\ main = "ramp"
    /\ \E ok \in BOOLEAN :
         /\ increase_load(ok)
         /\ \/ /\ ok
               /\ main' \in {"ramp", "drop"}
               /\ main' = "ramp" => Len(dc_objs') < MaxPods
               /\ UNCHANGED <<cluster_load_error, target_pods_number>>
            \/ SetupFailed          \* also: a query failed, or the IOPS never grew
    /\ UNCHANGED SetupVars

\* All of them are deleted.
Drop ==
    /\ main = "drop" /\ dc_objs # <<>>
    /\ \E ok \in BOOLEAN :
         /\ decrease_load(ok)
         /\ \/ /\ ok
               /\ main' = IF dc_objs' = <<>> THEN "fill" ELSE "drop"
               /\ UNCHANGED <<cluster_load_error, target_pods_number>>
            \/ ~ok /\ SetupFailed
    /\ UNCHANGED SetupVars

\* Pods with a small rate until the wanted load is reached.
Fill ==
    /\ main = "fill"
    /\ \E ok \in BOOLEAN :
         /\ increase_load(ok)
         /\ \/ /\ ok
               /\ \/ main' = "fill" /\ Len(dc_objs') < MaxPods /\ UNCHANGED target_pods_number
                  \/ main' = "setup_done" /\ target_pods_number' = Len(dc_objs')
               /\ UNCHANGED cluster_load_error
            \/ (Faults \/ ~ok) /\ SetupFailed
    /\ UNCHANGED SetupVars

StartWatcher ==
    /\ main = "setup_done"
    /\ load_status' = "running"
    /\ watcher' = "top"
    /\ main' = "idle"
    /\ UNCHANGED <<load, target_pods_number, keep, made, cluster_load_error, fixture, answered>>

-----------------------------------------------------------------------------
(* The thread watch_load.                                                  *)

WatcherVars == <<session, made, cluster_load_error, target_pods_number>>

WatchTop ==
    /\ watcher = "top"
    /\ watcher' = IF load_status = "finished" THEN "stopped" ELSE "metrics"
    /\ UNCHANGED <<WatcherVars, load_status, load, keep>>

\* print_metrics; without a ClusterLoad object it raises every time.
WatchMetrics ==
    /\ watcher = "metrics"
    /\ \/ made /\ watcher' = "is_running"
       \/ (~made \/ Faults) /\ watcher' = "top"
    /\ UNCHANGED <<WatcherVars, load_status, load, keep>>

\* Variant: the load is adjusted whenever no request is pending.
IsRunningOrHeld ==
    /\ watcher = "is_running"
    /\ watcher' = IF load_status \in {"running", "paused", "reduced"} THEN "adjust" ELSE "is_pause"
    /\ UNCHANGED <<WatcherVars, load_status, load, keep>>

\* The chain of tests: load_status is read again by each of them.
IsRunning ==
    /\ watcher = "is_running"
    /\ watcher' = IF load_status = "running" THEN "adjust" ELSE "is_pause"
    /\ UNCHANGED <<WatcherVars, load_status, load, keep>>

IsPause ==
    /\ watcher = "is_pause"
    /\ \/ load_status = "to_be_paused" /\ watcher' = "pausing" /\ keep' = pods_to_keep(TRUE)
       \/ load_status # "to_be_paused" /\ watcher' = "is_reduce" /\ UNCHANGED keep
    /\ UNCHANGED <<WatcherVars, load_status, load>>

\* Variant: the wrong request is tested for.
IsReduceAsPause ==
    /\ watcher = "is_reduce"
    /\ \/ load_status = "to_be_paused" /\ watcher' = "reducing" /\ keep' = pods_to_keep(FALSE)
       \/ load_status # "to_be_paused" /\ watcher' = "is_resume" /\ UNCHANGED keep
    /\ UNCHANGED <<WatcherVars, load_status, load>>

IsReduce ==
    /\ watcher = "is_reduce"
    /\ \/ load_status = "to_be_reduced" /\ watcher' = "reducing" /\ keep' = pods_to_keep(FALSE)
       \/ load_status # "to_be_reduced" /\ watcher' = "is_resume" /\ UNCHANGED keep
    /\ UNCHANGED <<WatcherVars, load_status, load>>

IsResume ==
    /\ watcher = "is_resume"
    /\ watcher' = IF load_status = "to_be_resumed" THEN "resuming" ELSE "top"
    /\ UNCHANGED <<WatcherVars, load_status, load, keep>>

\* One pod less when the latency is high, one more when it is low and some
\* are missing; without a target the comparison raises a TypeError.
adjust_load_if_needed ==
    /\ watcher = "adjust"
    /\ \/ dc_objs # <<>> /\ \E ok \in BOOLEAN : decrease_load(ok)
       \/ PodsMissing /\ \E ok \in BOOLEAN : increase_load(ok)
       \/ UNCHANGED load
    /\ watcher' = "top"
    /\ UNCHANGED <<WatcherVars, load_status, keep>>

\* Variant: the answer is written one pod too early.
reduce_loadEarlyAnswer ==
    /\ watcher \in {"pausing", "reducing"}
    /\ \/ /\ Len(dc_objs) > keep + 1
          /\ \E ok \in BOOLEAN :
               /\ decrease_load(ok)
               /\ watcher' = IF ok THEN watcher ELSE "top"
          /\ UNCHANGED load_status
       \/ /\ Len(dc_objs) <= keep + 1
          /\ load_status' = IF watcher = "pausing" THEN "paused" ELSE "reduced"
          /\ watcher' = "top"
          /\ UNCHANGED load
    /\ UNCHANGED <<WatcherVars, keep>>

\* One round of the loop of reduce_load, or its end and the answer.
reduce_load ==
    /\ watcher \in {"pausing", "reducing"}
    /\ \/ /\ Len(dc_objs) > keep
          /\ \E ok \in BOOLEAN :
               /\ decrease_load(ok)
               /\ watcher' = IF ok THEN watcher ELSE "top"
          /\ UNCHANGED load_status
       \/ /\ Len(dc_objs) <= keep
          /\ load_status' = IF watcher = "pausing" THEN "paused" ELSE "reduced"
          /\ watcher' = "top"
          /\ UNCHANGED load
    /\ UNCHANGED <<WatcherVars, keep>>

\* The same for resume_load, which raises when there is no target.
resume_load ==
    /\ watcher = "resuming"
    /\ \/ /\ PodsMissing
          /\ \E ok \in BOOLEAN :
               /\ increase_load(ok)
               /\ watcher' = IF ok THEN watcher ELSE "top"
          /\ UNCHANGED load_status
       \/ /\ target_pods_number # NoTarget /\ ~PodsMissing
          /\ load_status' = "running"
          /\ watcher' = "top"
          /\ UNCHANGED load
       \/ /\ target_pods_number = NoTarget
          /\ watcher' = "top"
          /\ UNCHANGED <<load, load_status>>
    /\ UNCHANGED <<WatcherVars, keep>>

Watcher ==
    \/ WatchTop \/ WatchMetrics \/ IsRunning \/ IsPause \/ IsReduce \/ IsResume
    \/ adjust_load_if_needed \/ reduce_load \/ resume_load

-----------------------------------------------------------------------------
(* The tests of the session, on the main thread.                           *)

MainVars == <<load, target_pods_number, keep, made, cluster_load_error, watcher>>

\* A test with one of the fixtures begins.
TestSetup(f) ==
    /\ main = "idle"
    /\ fixture' = f
    /\ answered' = FALSE
    /\ load_status' = CASE f \in {"pause", "pause_and_resume", "measure_idle", "resize_osd"}
                                -> "to_be_paused"
                        [] f = "reduce_and_resume" -> "to_be_reduced"
                        [] f = "resume" -> load_status
    /\ main' = CASE f \in {"pause", "pause_and_resume", "reduce_and_resume"} -> "wait_reduced"
                 [] f = "measure_idle" -> "wait_paused"
                 [] f \in {"resume", "resize_osd"} -> "body"
    /\ UNCHANGED MainVars

\* reduce_cluster_load_implementation: the test goes on once the load is paused
\* or reduced, and also when that takes too long.
PollReduced ==
    /\ main = "wait_reduced"
    /\ \/ load_status \in {"paused", "reduced"} /\ answered' = TRUE
       \/ Timeouts /\ answered' = FALSE
    /\ main' = "body"
    /\ UNCHANGED <<MainVars, load_status, fixture>>

\* The test ends and its finalizer runs.
TestTeardown ==
    /\ main = "body"
    /\ CASE fixture = "pause" -> main' = "idle" /\ UNCHANGED load_status
         [] fixture = "resize_osd" -> main' = "idle" /\ load_status' = "to_be_resumed"
         [] OTHER -> main' = "wait_running" /\ load_status' = "to_be_resumed"
    /\ answered' = FALSE
    /\ UNCHANGED <<MainVars, fixture>>

\* resume_cluster_load_implementation.
PollRunning ==
    /\ main = "wait_running"
    /\ load_status = "running" \/ Timeouts
    /\ main' = "idle"
    /\ UNCHANGED <<MainVars, load_status, fixture, answered>>

\* measure_workload_idle measures only when the load is paused; when it does
\* not get paused the fixture raises, and the request stays where it is.
PollPaused ==
    /\ main = "wait_paused"
    /\ \/ load_status = "paused" /\ main' = "measuring" /\ answered' = TRUE
       \/ Timeouts /\ main' = "idle" /\ answered' = FALSE
    /\ UNCHANGED <<MainVars, load_status, fixture>>

\* After the measurement the load is asked back, unless the measurement raised.
Measured ==
    /\ main = "measuring"
    /\ load_status' \in {"to_be_resumed"} \cup (IF Faults THEN {load_status} ELSE {})
    /\ main' = "idle"
    /\ answered' = FALSE
    /\ UNCHANGED <<MainVars, fixture>>

\* The session ends: the watcher is told, and joined, for 60 seconds at most.
finish_cluster_load ==
    /\ main = "idle"
    /\ load_status' = "finished"
    /\ main' = "join"
    /\ UNCHANGED <<MainVars, fixture, answered>>

Joined ==
    /\ main = "join"
    /\ main' = "ended"
    /\ UNCHANGED <<MainVars, load_status, fixture, answered>>

Setup == NoPercentage \/ Ramp \/ Drop \/ Fill \/ StartWatcher

Tests ==
    \/ \E f \in Fixtures : TestSetup(f)
    \/ PollReduced \/ TestTeardown \/ PollRunning \/ PollPaused \/ Measured
    \/ finish_cluster_load \/ Joined

\* Nothing is left to do.
Terminated == main = "ended" /\ watcher = "stopped" /\ UNCHANGED vars

Next == Setup \/ Tests \/ Watcher \/ Terminated

Spec == Init /\ [][Next]_vars

\* The watcher is a running thread whose calls return, and so is the main
\* thread, which need not start a further test.
FairSpec == Spec /\ WF_vars(Watcher) /\ WF_vars(Setup)
                 /\ WF_vars(PollReduced \/ TestTeardown \/ PollRunning \/ PollPaused
                              \/ Measured \/ Joined)

-----------------------------------------------------------------------------
(* Properties.                                                             *)

TypeOK ==
    /\ load_status \in Statuses
    /\ dc_objs \in Seq(Object) /\ pvc_objs \in Seq(Object)
    /\ target_pods_number \in Nat \cup {NoTarget}
    /\ keep \in Nat
    /\ made \in BOOLEAN /\ cluster_load_error \in BOOLEAN
    /\ pods \subseteq Ids /\ pvcs \subseteq Ids
    /\ main \in MainSteps
    /\ fixture \in AllFixtures \cup {"none"}
    /\ answered \in BOOLEAN
    /\ watcher \in WatcherSteps

\* The fixture measure_workload_idle (tests/functional/monitoring/conftest.py)
\* measures the alerts of an idle cluster: all the while no FIO deployment the
\* ClusterLoad object knows of is left, whatever requests, time-outs and failed
\* commands came before.
MeasureWhileQuiet == main = "measuring" => dc_objs = <<>>

\* decrease_load deletes the last deployment and the last PVC of two lists that
\* failures put out of step; still, a deployment that runs never loses its PVC
\* from the list before it is deleted itself.
PodsKeepTheirPvc ==
    \A i \in 1 .. Len(dc_objs) : dc_objs[i].id \in Listed(pvc_objs)

\* decrease_load: a FIO deployment that leaves dc_objs is gone from the cluster,
\* although deletes fail before or after they took effect and are tried again in
\* later rounds, some of them on an object already marked as deleted.  Nothing but
\* dc_objs would ever delete it.
UnlistedIsGone == [][(Listed(dc_objs) \ Listed(dc_objs')) \cap pods' = {}]_vars

\* As long as a test sees the load paused or reduced, the watcher creates no
\* FIO pod, although it may have decided to when the status was another one.
NoGrowthWhileHeld ==
    [][(load_status \in {"paused", "reduced"}) => (Len(dc_objs') <= Len(dc_objs))]_vars

\* tests/conftest.py, pause_and_resume_cluster_load: "Pause the background cluster
\* load and resume it in teardown": as long as no polling times out, a test that
\* was told so runs with no FIO deployment listed, whichever fixtures the tests
\* before it used, and with none in the cluster either unless a command failed.
PausedTestQuiet ==
    (~Timeouts /\ main = "body" /\ answered /\ fixture \in {"pause", "pause_and_resume"})
        => dc_objs = <<>> /\ (~Faults => pods = {})

\* Whatever the fixtures and the session's end ask of the watcher happens: the load
\* is paused or reduced; a resume in a teardown brings it back to its target
\* (tests/conftest.py: "resume the load in teardown to the original load value");
\* and finish_cluster_load, "Stop the thread that executed by watch_load()", does.
RequestsAnswered ==
    /\ load_status = "to_be_paused" ~> load_status = "paused"
    /\ load_status = "to_be_reduced" ~> load_status = "reduced"
    /\ load_status = "to_be_resumed" ~> (target_pods_number = NoTarget
                                            \/ Len(dc_objs) = target_pods_number)
    /\ main = "join" ~> watcher = "stopped"
=============================================================================
