----------------------------- MODULE ClonePool -----------------------------
(***************************************************************************)
(* The pool of PVC clones of the aggressive clone operation.               *)
(*                                                                         *)
(* The operation's thread calls run() again and again.  Each call takes a  *)
(* few actions at random; an action makes, deletes, checks or writes to    *)
(* clones, one after the other or with the workers of an executor.  A      *)
(* create reserves a slot of the pool before it makes the PVC, and turns   *)
(* the reservation into an entry when the PVC is bound.  A failed delete   *)
(* keeps its entry for a retry.  Once the thread ended, the test's thread  *)
(* calls cleanup_all(), which deletes the entries and then sweeps by label.*)
(*                                                                         *)
(* Data.  A clone is a name; it stands for the PVC, its object and its pool*)
(* entry, and is only used again once nothing refers to it.  Of the data on*)
(* a PVC only matters whether it is still that of the original source.     *)
(* Two history variables are read by the properties alone: the clones that *)
(* were left in the cluster by a command that failed on them, and those    *)
(* whose workload was started.                                             *)
(*                                                                         *)
(* Bounds.  Names for the clones there are at the same time, Workers for   *)
(* the executor, Count for the sizes concurrent_create_count,              *)
(* concurrent_delete_count, repeated_clone_count, max_parallel,            *)
(* large_scale_count and max_vdbench_on_clone_parallel.                    *)
(***************************************************************************)
EXTENDS Integers, FiniteSets, Sequences

CONSTANTS
    Names,          \* clones
    NoName,         \* none of them
    Workers,        \* the workers of an executor
    MaxPool,        \* max_pool_size
    Count,          \* how many clones an action asks for
    PerRun,         \* actions_per_invocation
    Actions,        \* the actions run() chooses from
    Faults          \* what may fail

ParallelCreates == {"_parallel_clones_multi_source", "_parallel_clones_same_source",
                    "_large_scale_parallel"}
CreateActions == ParallelCreates \cup
    {"_single_clone", "_repeated_clones", "_nested_clone", "_vdbench_on_clone",
     "_vdbench_on_clones_parallel", "_concurrent_create_delete"}
PoolActions ==
    {"_mount_verify_clones", "_integrity_verify_clones", "_expand_random_clone",
     "_snapshot_random_clone", "_delete_random_clones", "_cleanup_clones"}
OneByOne == {"_single_clone", "_repeated_clones", "_nested_clone", "_vdbench_on_clone",
             "_vdbench_on_clones_parallel", "_delete_random_clones", "_cleanup_clones",
             "cleanup_all"}
FaultKinds == {"create", "label", "bound", "delete", "sweep", "io"}

ASSUME PoolAssumption ==
    /\ IsFiniteSet(Names) /\ IsFiniteSet(Workers)
    /\ NoName \notin Names
    /\ MaxPool \in Nat /\ Count \in Nat /\ PerRun \in Nat \ {0}
    /\ Actions \subseteq CreateActions \cup PoolActions
    /\ "_cleanup_clones" \in Actions
    /\ Faults \subseteq FaultKinds

VARIABLES
    pool,           \* _clone_pool
    inflight,       \* _inflight_creates
    dirty,          \* entries with "dirty" set
    flagged,        \* PVC objects with _is_deleted set
    cluster,        \* PVCs that exist
    terminating,    \* those whose deletion was requested
    labelled,       \* those that carry the owner label
    written,        \* PVCs whose data is no longer that of the original source
    lost,           \* history: PVCs left behind by a create or an undo that failed
    ran,            \* history: PVCs on which a workload was started
    src,            \* run() found workload PVCs
    todo,           \* actions of this run() still to be taken
    act,            \* the action under way
    creates, deletes, victims, io,   \* what it still has to begin
    subject,        \* the entry it chose
    failed,         \* it raises
    worker,         \* what the workers do
    shutdown,       \* _shutdown_event
    cleaned         \* cleanup_all() returned

books == <<pool, inflight, dirty, flagged>>
pvcs == <<cluster, terminating, labelled, written, lost, ran>>
control == <<src, todo, act, creates, deletes, victims, io, subject, failed, shutdown, cleaned>>
vars == <<books, pvcs, control, worker>>

CreateSteps == {"create", "label", "bound", "undo", "undo_wait", "release"}
WorkerSteps == {"idle", "reserve", "reload", "check", "delete", "deleting", "wait",
                "start", "mark", "io"} \cup CreateSteps

Free == [step |-> "idle", name |-> NoName]

Init ==
    /\ pool = {} /\ inflight = 0 /\ dirty = {} /\ flagged = {}
    /\ cluster = {} /\ terminating = {} /\ labelled = {} /\ written = {}
    /\ lost = {} /\ ran = {}
    /\ src = FALSE /\ todo = <<>> /\ act = "none"
    /\ creates = 0 /\ deletes = 0 /\ victims = {} /\ io = {}
    /\ subject = NoName /\ failed = FALSE
    /\ worker = [w \in Workers |-> Free]
    /\ shutdown = FALSE /\ cleaned = FALSE

At(w, step) == worker[w].step = step
Goto(w, step) == worker' = [worker EXCEPT ![w].step = step]
Done(w) == worker' = [worker EXCEPT ![w] = Free]

\* Workers that hold a slot of the pool.
Reserving == {w \in Workers : worker[w].step \in CreateSteps}
Quiet == \A w \in Workers : worker[w] = Free

Least(m, n) == IF m <= n THEN m ELSE n

\* Variant: creates in flight are not counted.
UsedTrackedOnly == Cardinality(pool)

Used == Cardinality(pool) + inflight

-----------------------------------------------------------------------------
(* The operation's thread: run().                                          *)

\* Orders in which at most n of the actions in S can be taken.
Samples(S, n) ==
    {s \in UNION {[1 .. k -> S] : k \in 1 .. n} :
        \A i, j \in DOMAIN s : s[i] = s[j] => i = j}

\* A full pool is only cleaned up; an empty one gets a create action first.
Selections(hasSources) ==
    LET n == Least(PerRun, Cardinality(Actions))
        k == Least(n, 1 + Cardinality(Actions \cap PoolActions))
    IN  IF Used >= MaxPool THEN {<<"_cleanup_clones">>}
        ELSE IF Used = 0 /\ hasSources
          THEN {s \in Samples(Actions, k) :
                  /\ Len(s) = k
                  /\ \A i \in DOMAIN s : s[i] \in CreateActions <=> i = 1}
          ELSE Samples(Actions, n)

\* Variant: a shutdown is not looked at.
runAlways ==
    /\ act = "none" /\ todo = <<>>
    /\ src' \in BOOLEAN
    /\ src' \/ pool # {}
    /\ todo' \in Selections(src')
    /\ UNCHANGED <<books, pvcs, act, creates, deletes, victims, io, subject, failed, shutdown,
                   cleaned, worker>>

run ==
    /\ act = "none" /\ todo = <<>> /\ ~shutdown
    /\ src' \in BOOLEAN
    /\ src' \/ pool # {}
    /\ todo' \in Selections(src')
    /\ UNCHANGED <<books, pvcs, act, creates, deletes, victims, io, subject, failed, shutdown,
                   cleaned, worker>>

\* What an action sets out to do: c clones to make, d to delete by workers, the
\* entries V to delete, the clones W to write to, and the entry e it chose.
Begin(a, c, d, V, W, e) ==
    /\ act' = a /\ creates' = c /\ deletes' = d /\ victims' = V /\ io' = W /\ subject' = e

One == IF src THEN 1 ELSE 0
Many == IF src THEN Count ELSE 0

PlanCreate(a) ==
    \/ a = "_single_clone" /\ Begin(a, One, 0, {}, {}, NoName)
    \/ a \in ParallelCreates \cup {"_repeated_clones"} /\ Begin(a, Many, 0, {}, {}, NoName)
    \/ a = "_concurrent_create_delete" /\ Begin(a, Many, Many, {}, {}, NoName)
    \/ a = "_nested_clone" /\ pool = {} /\ Begin(a, One, 0, {}, {}, NoName)
    \/ a = "_nested_clone" /\ \E e \in pool :
         Begin(a, IF e \in cluster THEN 1 ELSE 0, 0, {}, {}, e)

PlanIo(a) ==
    \/ a = "_vdbench_on_clone" /\ pool = {} /\ Begin(a, One, 0, {}, {}, NoName)
    \/ a = "_vdbench_on_clone" /\ \E e \in pool : Begin(a, 0, 0, {}, {e}, NoName)
    \/ /\ a = "_vdbench_on_clones_parallel"
       /\ \E W \in SUBSET pool :
            /\ Cardinality(W) = Least(Count, Cardinality(pool))
            /\ Begin(a, IF src THEN Count - Cardinality(W) ELSE 0, 0, {}, W, NoName)

PlanDelete(a) ==
    \/ /\ a = "_delete_random_clones"
       /\ \E V \in SUBSET pool :
            /\ Cardinality(V) = Least(Count, Cardinality(pool))
            /\ Begin(a, 0, 0, V, {}, NoName)
    \/ a = "_cleanup_clones" /\ Begin(a, 0, 0, pool, {}, NoName)

\* A check of an entry; the integrity of one that is dirty is not checked.
PlanCheck(a) ==
    LET checks == PoolActions \ {"_delete_random_clones", "_cleanup_clones"} IN
    \/ a \in checks /\ pool = {} /\ Begin(a, 0, 0, {}, {}, NoName)
    \/ a \in checks /\ \E e \in pool :
         Begin(a, 0, 0, {}, {}, IF a = "_integrity_verify_clones" /\ e \in dirty THEN NoName ELSE e)

Plan(a) == PlanCreate(a) \/ PlanIo(a) \/ PlanDelete(a) \/ PlanCheck(a)

BeginAction ==
    /\ act = "none" /\ todo # <<>> /\ ~shutdown
    /\ Plan(Head(todo))
    /\ todo' = Tail(todo)
    /\ failed' = (act' = "_nested_clone" /\ subject' \notin cluster \cup {NoName})
    /\ UNCHANGED <<books, pvcs, src, shutdown, cleaned, worker>>

StopActions ==
    /\ act = "none" /\ todo # <<>> /\ shutdown
    /\ todo' = <<>> /\ src' = FALSE
    /\ UNCHANGED <<books, pvcs, act, creates, deletes, victims, io, subject, failed, shutdown,
                   cleaned, worker>>

-----------------------------------------------------------------------------
(* The workers, and what the actions do one by one.                        *)

Steady == <<src, todo, act, deletes, victims, subject, shutdown, cleaned>>
Rest == <<Steady, creates, io, failed>>

\* What an action does one by one ends with the first clone that raises; with an
\* executor it raises when all tasks are done.
Raise ==
    /\ failed' = TRUE
    /\ creates' = IF act \in OneByOne THEN 0 ELSE creates
    /\ io' = IF act \in OneByOne THEN {} ELSE io
    /\ UNCHANGED Steady

Alone == act \in OneByOne => Quiet

BeginCreate(w) ==
    /\ creates > 0 /\ Alone /\ At(w, "idle")
    /\ creates' = creates - 1
    /\ Goto(w, "reserve")
    /\ UNCHANGED <<books, pvcs, Steady, io, failed>>

\* A task of _concurrent_create_delete picks an entry; there may be none.
BeginDelete(w) ==
    /\ deletes > 0 /\ At(w, "idle")
    /\ deletes' = deletes - 1
    /\ \/ \E e \in pool : worker' = [worker EXCEPT ![w] = [step |-> "reload", name |-> e]]
       \/ pool = {} /\ UNCHANGED worker
    /\ UNCHANGED <<books, pvcs, src, todo, act, creates, victims, io, subject, failed, shutdown,
                   cleaned>>

BeginVictim(w) ==
    /\ Alone /\ At(w, "idle")
    /\ \E e \in victims :
         /\ victims' = victims \ {e}
         /\ worker' = [worker EXCEPT ![w] = [step |-> "reload", name |-> e]]
    /\ UNCHANGED <<books, pvcs, src, todo, act, creates, deletes, io, subject, failed, shutdown,
                   cleaned>>

\* Vdbench is started when the clones for it are there.
BeginIo(w) ==
    /\ creates = 0 /\ At(w, "idle")
    /\ \A v \in Workers : worker[v].step \in {"idle", "start", "mark", "io"}
    /\ \E e \in io :
         /\ io' = io \ {e}
         /\ worker' = [worker EXCEPT ![w] = [step |-> "start", name |-> e]]
    /\ UNCHANGED <<books, pvcs, Steady, creates, failed>>

Begins(w) == BeginCreate(w) \/ BeginDelete(w) \/ BeginVictim(w) \/ BeginIo(w)

-----------------------------------------------------------------------------
(* _create_and_track_clone.                                                *)

\* The clone to make a clone of was reclaimed meanwhile.
SourceGone == subject \notin cluster \cup {NoName}

\* The limit holds for the entries and the reservations together.  Without a
\* slot there is no clone, and nothing more for _get_or_create_clones_for_io.
_try_reserve_clone_slots(w) ==
    /\ At(w, "reserve")
    /\ \/ /\ Used + 1 <= MaxPool
          /\ inflight' = inflight + 1
          /\ Goto(w, "create")
          /\ UNCHANGED Rest
       \/ /\ Used + 1 > MaxPool
          /\ Done(w)
          /\ creates' = IF act = "_vdbench_on_clones_parallel" THEN 0 ELSE creates
          /\ UNCHANGED <<inflight, Steady, io, failed>>
       \/ ("create" \in Faults \/ SourceGone) /\ Done(w) /\ Raise /\ UNCHANGED inflight
    /\ UNCHANGED <<pvcs, pool, dirty, flagged>>

\* A name nothing refers to.
Unused(n) ==
    /\ n \notin pool \cup cluster \cup victims \cup io \cup {subject}
    /\ \A w \in Workers : worker[w].name # n

\* create_pvc_clone; it can fail before or after the PVC is made, and there is no
\* object to delete in both cases; it fails when Names is exhausted.  A clone of a
\* clone begins with the data of that.
create_pvc_clone(w) ==
    /\ At(w, "create")
    /\ \/ \E n \in Names :
            /\ Unused(n)
            /\ cluster' = cluster \cup {n}
            /\ written' = IF subject \in written THEN written \cup {n} ELSE written \ {n}
            /\ labelled' = labelled \ {n} /\ dirty' = dirty \ {n} /\ flagged' = flagged \ {n}
            /\ ran' = ran \ {n}
            /\ \/ /\ worker' = [worker EXCEPT ![w] = [step |-> "label", name |-> n]]
                  /\ lost' = lost \ {n} /\ UNCHANGED Rest
               \/ /\ "create" \in Faults /\ Goto(w, "release") /\ Raise
                  /\ lost' = lost \cup {n}
       \/ /\ "create" \in Faults \/ SourceGone \/ \A n \in Names : ~Unused(n)
          /\ Goto(w, "release") /\ Raise
          /\ UNCHANGED <<cluster, written, labelled, lost, ran, dirty, flagged>>
    /\ UNCHANGED <<pool, inflight, terminating>>

\* A label that cannot be set is done without.
_label_owned_resource(w) ==
    /\ At(w, "label")
    /\ \/ labelled' = labelled \cup {worker[w].name}
       \/ "label" \in Faults /\ UNCHANGED labelled
    /\ Goto(w, "bound")
    /\ UNCHANGED <<books, cluster, terminating, written, lost, ran, Rest>>

ReleaseOne == inflight' = IF inflight > 0 THEN inflight - 1 ELSE 0

\* The entry takes the place of the reservation, under the lock.
Track(w) ==
    /\ pool' = pool \cup {worker[w].name}
    /\ ReleaseOne

wait_for_bound(w) ==
    /\ At(w, "bound")
    /\ \/ /\ Track(w)
          /\ Done(w)
          /\ io' = IF act \in {"_vdbench_on_clone", "_vdbench_on_clones_parallel"}
                     THEN io \cup {worker[w].name} ELSE io
          /\ UNCHANGED <<Steady, creates, failed>>
       \/ /\ "bound" \in Faults \/ SourceGone
          /\ Goto(w, "undo") /\ Raise /\ UNCHANGED <<pool, inflight>>
    /\ UNCHANGED <<pvcs, dirty, flagged>>

\* Variant: it is left in the cluster.
UndoCreateNever(w) ==
    /\ At(w, "undo")
    /\ Goto(w, "release")
    /\ UNCHANGED <<books, pvcs, Rest>>

\* The clone that did not get bound is deleted, errors are suppressed.
UndoCreate(w) ==
    /\ At(w, "undo")
    /\ \/ /\ terminating' = terminating \cup {worker[w].name} /\ Goto(w, "undo_wait")
          /\ UNCHANGED lost
       \/ /\ "delete" \in Faults /\ Goto(w, "release") /\ UNCHANGED terminating
          /\ lost' = lost \cup {worker[w].name}
    /\ UNCHANGED <<books, cluster, labelled, written, ran, Rest>>

UndoWait(w) ==
    /\ At(w, "undo_wait")
    /\ worker[w].name \notin cluster \/ "delete" \in Faults
    /\ Goto(w, "release")
    /\ lost' = lost \cup ({worker[w].name} \cap cluster)
    /\ UNCHANGED <<books, cluster, terminating, labelled, written, ran, Rest>>

\* Variant: a failed create keeps its reservation.
_release_clone_slotsNever(w) ==
    /\ At(w, "release")
    /\ Done(w)
    /\ UNCHANGED <<books, pvcs, Rest>>

_release_clone_slots(w) ==
    /\ At(w, "release")
    /\ ReleaseOne
    /\ Done(w)
    /\ UNCHANGED <<pool, dirty, flagged, pvcs, Rest>>

_create_and_track_clone(w) ==
    \/ _try_reserve_clone_slots(w) \/ create_pvc_clone(w) \/ _label_owned_resource(w)
    \/ wait_for_bound(w) \/ UndoCreate(w) \/ UndoWait(w) \/ _release_clone_slots(w)

-----------------------------------------------------------------------------
(* _delete_tracked_clone.                                                  *)

Remove(w) == pool' = pool \ {worker[w].name} /\ dirty' = dirty \ {worker[w].name} /\ Done(w)
Retain(w) == UNCHANGED <<pool, dirty>> /\ Done(w)

\* reload() builds the object anew, and with it its deleted flag.
Reload(w) ==
    LET n == worker[w].name IN
    /\ At(w, "reload")
    /\ \/ n \notin cluster /\ Remove(w) /\ UNCHANGED flagged
       \/ n \in cluster /\ Goto(w, "check") /\ flagged' = flagged \ {n} /\ UNCHANGED <<pool, dirty>>
       \/ "delete" \in Faults /\ Retain(w) /\ UNCHANGED flagged
    /\ UNCHANGED <<inflight, pvcs, Rest>>

\* Another worker may have deleted the clone since.
CheckDeleted(w) ==
    /\ At(w, "check")
    /\ IF worker[w].name \in flagged THEN Remove(w)
       ELSE Goto(w, "delete") /\ UNCHANGED <<pool, dirty>>
    /\ UNCHANGED <<inflight, flagged, pvcs, Rest>>

Delete(w) ==
    LET n == worker[w].name IN
    /\ At(w, "delete")
    /\ \/ n \in flagged /\ Goto(w, "wait") /\ UNCHANGED <<pool, dirty, terminating>>
       \/ /\ n \in cluster \ flagged
          /\ terminating' = terminating \cup {n}
          /\ Goto(w, "deleting") /\ UNCHANGED <<pool, dirty>>
       \/ (n \notin cluster \cup flagged \/ "delete" \in Faults) /\ Retain(w) /\ UNCHANGED terminating
    /\ UNCHANGED <<inflight, flagged, cluster, labelled, written, lost, ran, Rest>>

\* Variant: oc delete does not wait.
DeletingNoWait(w) ==
    /\ At(w, "deleting")
    /\ flagged' = flagged \cup {worker[w].name}
    /\ Goto(w, "wait")
    /\ UNCHANGED <<pool, inflight, dirty, pvcs, Rest>>

\* oc delete waits until the PVC is gone, or times out.
Deleting(w) ==
    LET n == worker[w].name IN
    /\ At(w, "deleting")
    /\ \/ n \notin cluster /\ flagged' = flagged \cup {n} /\ Goto(w, "wait") /\ UNCHANGED <<pool, dirty>>
       \/ "delete" \in Faults /\ Retain(w) /\ UNCHANGED flagged
    /\ UNCHANGED <<inflight, pvcs, Rest>>

\* The entry also stays when it cannot be found out whether the PVC is gone.
wait_for_delete(w) ==
    /\ At(w, "wait")
    /\ \/ worker[w].name \notin cluster /\ Remove(w)
       \/ (worker[w].name \in cluster \/ "delete" \in Faults) /\ Retain(w)
    /\ UNCHANGED <<inflight, flagged, pvcs, Rest>>

_delete_tracked_clone(w) ==
    Reload(w) \/ CheckDeleted(w) \/ Delete(w) \/ Deleting(w) \/ wait_for_delete(w)

-----------------------------------------------------------------------------
(* _run_vdbench_on_pvc.                                                    *)

\* I/O that was started is not taken back when the start is found to have failed.
StartWorkload(w) ==
    LET n == worker[w].name IN
    /\ At(w, "start")
    /\ \/ /\ n \in cluster
          /\ written' = written \cup {n} /\ ran' = ran \cup {n}
          /\ Goto(w, "mark") /\ UNCHANGED failed
       \/ /\ n \notin cluster \/ "io" \in Faults
          /\ written' \in {written, written \cup ({n} \cap cluster)}
          /\ Done(w) /\ failed' = TRUE /\ UNCHANGED ran
    /\ UNCHANGED <<books, cluster, terminating, labelled, lost, Steady, creates, io>>

\* Variant: the entry is not marked.
_mark_clone_dirtyNever(w) ==
    /\ At(w, "mark")
    /\ Goto(w, "io")
    /\ UNCHANGED <<books, pvcs, Rest>>

_mark_clone_dirty(w) ==
    /\ At(w, "mark")
    /\ dirty' = dirty \cup ({worker[w].name} \cap pool)
    /\ Goto(w, "io")
    /\ UNCHANGED <<pool, inflight, flagged, pvcs, Rest>>

\* The workload ran its time, failed, or was cut short by the shutdown.
StopWorkload(w) ==
    /\ At(w, "io")
    /\ Done(w)
    /\ failed' \in {failed} \cup (IF "io" \in Faults THEN {TRUE} ELSE {})
    /\ UNCHANGED <<books, pvcs, Steady, creates, io>>

_run_vdbench_on_pvc(w) == StartWorkload(w) \/ _mark_clone_dirty(w) \/ StopWorkload(w)

Works(w) == _create_and_track_clone(w) \/ _delete_tracked_clone(w) \/ _run_vdbench_on_pvc(w)

-----------------------------------------------------------------------------
(* The ends of an action, the shutdown and cleanup_all().                  *)

NothingLeft == Quiet /\ creates = 0 /\ deletes = 0 /\ victims = {} /\ io = {}

\* A check of a clone raises when the cluster fails, the clone is no longer there
\* or the data differs.
Raises ==
    \/ failed
    \/ /\ act \in {"_mount_verify_clones", "_integrity_verify_clones", "_expand_random_clone"}
       /\ subject # NoName
       /\ "io" \in Faults \/ subject \notin cluster
    \/ act = "_integrity_verify_clones" /\ subject \in written

EndAction ==
    /\ act \notin {"none", "cleanup_all"} /\ NothingLeft
    /\ \/ Raises /\ todo' = <<>>
       \/ ~failed /\ todo' = todo
    /\ act' = "none" /\ subject' = NoName /\ failed' = FALSE
    /\ src' = (src /\ todo' # <<>>)
    /\ UNCHANGED <<books, pvcs, creates, deletes, victims, io, shutdown, cleaned, worker>>

\* stop() asks for it at any time.
request_shutdown ==
    /\ ~shutdown
    /\ shutdown' = TRUE
    /\ UNCHANGED <<books, pvcs, src, todo, act, creates, deletes, victims, io, subject, failed,
                   cleaned, worker>>

\* stop() cleans up when the operation's thread ended; it need not, and does not
\* when the thread outlives its join or the controller was stopped before.
cleanup_all ==
    /\ shutdown /\ act = "none" /\ todo = <<>> /\ ~cleaned
    /\ Begin("cleanup_all", 0, 0, pool, {}, NoName)
    /\ UNCHANGED <<books, pvcs, src, todo, failed, shutdown, cleaned, worker>>

\* Variant: no sweep.
_cleanup_orphan_aggressive_resourcesNever ==
    /\ act = "cleanup_all" /\ NothingLeft
    /\ act' = "none" /\ cleaned' = TRUE
    /\ UNCHANGED <<books, pvcs, src, todo, creates, deletes, victims, io, subject, failed, shutdown,
                   worker>>

\* What carries the label is deleted, without waiting and without retry.
_cleanup_orphan_aggressive_resources ==
    /\ act = "cleanup_all" /\ NothingLeft
    /\ \E kept \in SUBSET (labelled \cap cluster) :
         /\ kept = {} \/ "sweep" \in Faults
         /\ terminating' = terminating \cup ((labelled \cap cluster) \ kept)
    /\ act' = "none" /\ cleaned' = TRUE
    /\ UNCHANGED <<books, cluster, labelled, written, lost, ran, src, todo, creates, deletes,
                   victims, io, subject, failed, shutdown, worker>>

\* The cluster finishes the deletion of a PVC.
Reclaim(n) ==
    /\ n \in terminating
    /\ cluster' = cluster \ {n} /\ terminating' = terminating \ {n}
    /\ labelled' = labelled \ {n} /\ written' = written \ {n}
    /\ lost' = lost \ {n} /\ ran' = ran \ {n}
    /\ UNCHANGED <<books, control, worker>>

\* The thread has ended, and was cleaned up after or not.
Terminated ==
    /\ shutdown /\ act = "none" /\ todo = <<>> /\ terminating = {}
    /\ UNCHANGED vars

Thread ==
    \/ run \/ BeginAction \/ StopActions \/ EndAction
    \/ cleanup_all \/ _cleanup_orphan_aggressive_resources

Next ==
    \/ Thread \/ request_shutdown
    \/ \E w \in Workers : Begins(w) \/ Works(w)
    \/ \E n \in Names : Reclaim(n)
    \/ Terminated

Spec == Init /\ [][Next]_vars

\* The threads run, every command ends or times out, and the cluster finishes the
\* deletions it was asked for.  Nothing makes stop() begin a clean-up.
FairSpec ==
    /\ Spec
    /\ WF_vars(EndAction \/ StopActions \/ _cleanup_orphan_aggressive_resources)
    /\ \A w \in Workers : WF_vars(Begins(w) \/ Works(w))
    /\ \A n \in Names : WF_vars(Reclaim(n))

-----------------------------------------------------------------------------
(* Properties.                                                             *)

TypeOK ==
    /\ pool \subseteq Names /\ dirty \subseteq Names /\ flagged \subseteq Names
    /\ inflight \in Nat
    /\ cluster \subseteq Names /\ terminating \subseteq Names
    /\ labelled \subseteq Names /\ written \subseteq Names
    /\ lost \subseteq Names /\ ran \subseteq Names
    /\ src \in BOOLEAN /\ failed \in BOOLEAN /\ shutdown \in BOOLEAN /\ cleaned \in BOOLEAN
    /\ todo \in Seq(Actions)
    /\ act \in Actions \cup {"none", "cleanup_all"}
    /\ creates \in Nat /\ deletes \in Nat
    /\ victims \subseteq Names /\ io \subseteq Names
    /\ subject \in Names \cup {NoName}
    /\ worker \in [Workers -> [step : WorkerSteps, name : Names \cup {NoName}]]

\* _try_reserve_clone_slots: clones in the pool and clones being made together
\* never exceed max_pool_size, however creates, failed creates and deletes of the
\* same entries interleave.
PoolWithinLimit == Cardinality(pool) + inflight <= MaxPool

\* The counter of creates in flight is the number of workers that hold a slot:
\* no path of _create_and_track_clone loses or returns a reservation twice, so
\* that the max(0, ...) of the release never hides a miscount.
InflightExact == inflight = Cardinality(Reserving)

\* Every clone in the cluster is in the pool or in the hands of the worker that makes
\* it, except the ones a create or an undo lost by failing itself.
Tracked == cluster \ lost \subseteq pool \cup {worker[w].name : w \in Reserving}

\* Hence max_pool_size is a limit for the cluster, terminating PVCs and PVCs that did
\* not get bound included: the clones beyond it are those that create_pvc_clone made
\* before it raised, or that the suppressed undo of _create_and_track_clone failed on.
ClusterWithinLimit == Cardinality(cluster \ lost) <= MaxPool

\* _delete_tracked_clone, "retaining for retry": an entry leaves the pool only
\* when its PVC is gone, even if two workers delete the same clone or an earlier
\* attempt timed out.
RemovedMeansGone == [][(pool \ pool') \cap cluster = {}]_vars

\* The clone pool is a pool of tracked resources: with the reservations as slots
\* of the workers that made them, every step of every worker, failed or not, is a
\* step that TrackedPool allows, or none.
Tracking ==
    INSTANCE TrackedPool WITH Items <- Names, Makers <- Workers, Limit <- MaxPool,
        tracked <- pool, holders <- Reserving, existing <- cluster, closed <- cleaned

ImplementsTrackedPool == Tracking!Spec

\* "Skipping integrity check for clone %s: clone was written after creation": no clone
\* on which a workload was started is compared with its source, although the mark is
\* set after the start, on whatever entry has the name by then.  (The mark says
\* nothing of a clone of such a clone, nor of I/O of a start that failed.)
NoCheckAfterWorkload ==
    (act = "_integrity_verify_clones" /\ subject # NoName) => subject \notin ran

\* run() and request_shutdown: a shutdown that is asked for at any point ends the
\* operation's thread for good, whichever of its commands fail, and a cleanup_all that
\* stop() begins is carried through to its end.
ShutdownEnds ==
    /\ shutdown ~> [](todo = <<>> /\ act \in {"none", "cleanup_all"})
    /\ act = "cleanup_all" ~> cleaned

\* cleanup_all: when creating, labelling and sweeping do not fail, in the end no
\* clone is left in the cluster, although deletes and binds failed before.
EventuallyReclaimed ==
    Faults \cap {"create", "label", "sweep"} = {} => (cleaned ~> cluster = {})
=============================================================================
