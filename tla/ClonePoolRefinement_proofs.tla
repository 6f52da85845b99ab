--------------------- MODULE ClonePoolRefinement_proofs ---------------------
(***************************************************************************)
(* The clone pool implements the pool of tracked resources, for any clones,*)
(* workers, limits, actions and faults.                                    *)
(*                                                                         *)
(* A slot becomes an entry of a clone that exists and has none only because*)
(* nothing but the worker that made a clone can know of it before it is in *)
(* the pool: no other worker deletes it, so it neither terminates nor is it*)
(* entered twice.  That is HeldInv.  EndInv says that nothing moves any    *)
(* more once cleanup_all() returned.                                       *)
(***************************************************************************)
EXTENDS ClonePool_proofs

\* Only PVCs that exist are being deleted.
TermInv == terminating \subseteq cluster

\* The steps at which a worker has a clone that nobody else knows of.
Own == {"label", "bound", "undo"}
HeldInv ==
    \A w \in Workers : worker[w].step \in Own =>
        /\ worker[w].name \in cluster \ (terminating \cup pool \cup victims \cup io)
        /\ \A v \in Workers : v # w => worker[v].name # worker[w].name

\* cleanup_all() comes last.
EndInv ==
    /\ act = "cleanup_all" => shutdown /\ todo = <<>>
    /\ cleaned => shutdown /\ todo = <<>> /\ act = "none" /\ NothingLeft

RefInv == PoolInv /\ TermInv /\ HeldInv /\ EndInv
-----------------------------------------------------------------------------
(* The clones that are still to become entries.                            *)

\* A worker goes on, and does nothing to clones other than its own.
LEMMA HeldKept ==
    ASSUME TypeOK, HeldInv, NEW w \in Workers, NEW x, Moves(w, x),
           cluster \subseteq cluster',
           terminating' \subseteq terminating \cup {worker[w].name},
           pool' \subseteq pool \cup {worker[w].name},
           victims' \subseteq victims,
           io' \subseteq io \cup {worker[w].name},
           \/ x.name \in {worker[w].name, NoName} \cup pool \cup victims \cup io
           \/ \A v \in Workers : worker[v].name # x.name,
           x.step \in Own =>
              /\ x.name \in cluster' \ (terminating' \cup pool' \cup victims' \cup io')
              /\ \A v \in Workers : v # w => worker[v].name # x.name
    PROVE  HeldInv'
<1>1. worker'[w] = x /\ \A v \in Workers : v # w => worker'[v] = worker[v]
  BY OthersHold
<1>2. NoName \notin cluster
  BY PoolAssumption DEF TypeOK
<1>3. ASSUME NEW v \in Workers, v # w, worker[v].step \in Own
      PROVE  /\ worker[v].name \in cluster' \ (terminating' \cup pool' \cup victims' \cup io')
             /\ x.name # worker[v].name
  <2>1. /\ worker[v].name \in cluster \ (terminating \cup pool \cup victims \cup io)
        /\ worker[w].name # worker[v].name
    BY <1>3 DEF HeldInv
  <2> QED BY <1>2, <1>3, <2>1
<1>4. ASSUME NEW v \in Workers, worker'[v].step \in Own
      PROVE  /\ worker'[v].name \in cluster' \ (terminating' \cup pool' \cup victims' \cup io')
             /\ \A u \in Workers : u # v => worker'[u].name # worker'[v].name
  <2>1. CASE v = w
    BY <1>1, <1>4, <2>1
  <2>2. CASE v # w
    <3>1. worker'[v] = worker[v] /\ worker[v].step \in Own
      BY <1>1, <1>4, <2>2
    <3>2. ASSUME NEW u \in Workers, u # v PROVE worker'[u].name # worker[v].name
      <4>1. CASE u = w
        BY <1>1, <1>3, <2>2, <3>1, <4>1
      <4>2. CASE u # w
        BY <1>1, <3>1, <3>2, <4>2 DEF HeldInv
      <4> QED BY <4>1, <4>2
    <3> QED BY <1>3, <2>2, <3>1, <3>2
  <2> QED BY <2>1, <2>2
<1> QED BY <1>4 DEF HeldInv

\* Nobody goes on, and no clone of a worker comes in danger.
LEMMA HeldStays ==
    ASSUME HeldInv, UNCHANGED worker,
           \A w \in Workers : worker[w].step \in Own =>
              worker[w].name \in cluster' \ (terminating' \cup pool' \cup victims' \cup io')
    PROVE  HeldInv'
BY DEF HeldInv
-----------------------------------------------------------------------------
(* The operation's thread.                                                 *)

\* What an action is to delete or to write to is in the pool.
LEMMA PlanScope ==
    ASSUME NEW a, Plan(a)
    PROVE  act' = a /\ victims' \subseteq pool /\ io' \subseteq pool
<1>1. CASE PlanCreate(a)
  BY <1>1 DEF PlanCreate, Begin
<1>2. CASE PlanIo(a)
  BY <1>2 DEF PlanIo, Begin
<1>3. CASE PlanDelete(a)
  BY <1>3 DEF PlanDelete, Begin
<1>4. CASE PlanCheck(a)
  BY <1>4 DEF PlanCheck, Begin
<1> QED BY <1>1, <1>2, <1>3, <1>4 DEF Plan

\* At rest nobody has a clone.
LEMMA QuietHolds == ASSUME Quiet PROVE \A w \in Workers : worker[w].step = "idle"
BY DEF Quiet, Free

\* run(), its actions, the shutdown and cleanup_all().
LEMMA ThreadKeeps ==
    ASSUME RefInv, Thread \/ request_shutdown
    PROVE  TermInv' /\ HeldInv' /\ EndInv'
<1> USE DEF RefInv
<1>1. UNCHANGED <<pool, cluster, worker>>
  BY DEF Thread, run, BeginAction, StopActions, EndAction, cleanup_all, request_shutdown,
         _cleanup_orphan_aggressive_resources, books, pvcs
<1>2. CASE run \/ StopActions \/ EndAction \/ request_shutdown
  <2>1. UNCHANGED <<terminating, victims, io, cleaned>>
    BY <1>2 DEF run, StopActions, EndAction, request_shutdown, pvcs
  <2>2. TermInv' /\ HeldInv'
    BY <1>1, <2>1, HeldStays DEF TermInv, HeldInv
  <2>3. EndInv'
    <3>1. CASE run
      BY <3>1 DEF run, EndInv
    <3>2. CASE StopActions
      BY <3>2 DEF StopActions, EndInv
    <3>3. CASE EndAction
      BY <3>3 DEF EndAction, EndInv
    <3>4. CASE request_shutdown
      BY <3>4 DEF request_shutdown, EndInv, NothingLeft, Quiet
    <3> QED BY <1>2, <3>1, <3>2, <3>3, <3>4
  <2> QED BY <2>2, <2>3
<1>3. CASE BeginAction
  <2>1. UNCHANGED <<terminating, cleaned>> /\ Plan(Head(todo)) /\ todo # <<>>
    BY <1>3 DEF BeginAction, pvcs
  <2>2. Head(todo) \in Actions
    BY <2>1 DEF PoolInv, TypeOK
  <2>3. act' # "cleanup_all" /\ victims' \subseteq pool /\ io' \subseteq pool
    BY <2>1, <2>2, PlanScope, PoolAssumption DEF CreateActions, PoolActions, ParallelCreates
  <2>4. TermInv' /\ HeldInv'
    BY <1>1, <2>1, <2>3, HeldStays DEF TermInv, HeldInv
  <2>5. EndInv'
    BY <2>1, <2>3 DEF EndInv
  <2> QED BY <2>4, <2>5
<1>4. CASE cleanup_all
  <2>1. UNCHANGED <<terminating, cleaned, shutdown, todo>> /\ victims' = pool /\ io' = {}
        /\ shutdown /\ todo = <<>> /\ ~cleaned
    BY <1>4 DEF cleanup_all, Begin, pvcs
  <2>2. TermInv' /\ HeldInv'
    BY <1>1, <2>1, HeldStays DEF TermInv, HeldInv
  <2>3. EndInv'
    BY <2>1 DEF EndInv
  <2> QED BY <2>2, <2>3
<1>5. CASE _cleanup_orphan_aggressive_resources
  <2>1. /\ act = "cleanup_all" /\ act' = "none" /\ NothingLeft
        /\ UNCHANGED <<creates, deletes, victims, io, shutdown, todo>>
        /\ terminating' \subseteq terminating \cup cluster
    BY <1>5 DEF _cleanup_orphan_aggressive_resources
  <2>2. TermInv'
    BY <1>1, <2>1 DEF TermInv
  <2>3. \A w \in Workers : worker'[w].step = "idle"
    BY <1>1, <2>1, QuietHolds DEF NothingLeft
  <2>4. HeldInv'
    BY <2>3 DEF HeldInv, Own
  <2>5. EndInv'
    BY <1>1, <2>1 DEF EndInv, NothingLeft, Quiet
  <2> QED BY <2>2, <2>4, <2>5
<1> QED BY <1>2, <1>3, <1>4, <1>5 DEF Thread

-----------------------------------------------------------------------------
(* The workers.                                                            *)

\* While a worker does anything, cleanup_all() has not returned.
LEMMA BusyOpen ==
    ASSUME RefInv, NEW w \in Workers, Begins(w) \/ Works(w)
    PROVE  ~cleaned /\ UNCHANGED <<act, todo, shutdown, cleaned>>
<1> USE DEF RefInv
<1>1. CASE Begins(w)
  <2>1. ~NothingLeft
    BY <1>1 DEF Begins, BeginCreate, BeginDelete, BeginVictim, BeginIo, NothingLeft, PoolInv, TypeOK
  <2>2. UNCHANGED <<act, todo, shutdown, cleaned>>
    BY <1>1 DEF Begins, BeginCreate, BeginDelete, BeginVictim, BeginIo, Steady
  <2> QED BY <2>1, <2>2 DEF EndInv
<1>2. CASE Works(w)
  <2>1. CASE _create_and_track_clone(w)
    <3>1. worker[w].step # "idle"
      BY <2>1 DEF _create_and_track_clone, _try_reserve_clone_slots, create_pvc_clone,
         _label_owned_resource, wait_for_bound, UndoCreate, UndoWait, _release_clone_slots, At
    <3>2. UNCHANGED <<act, todo, shutdown, cleaned>>
      BY <2>1 DEF _create_and_track_clone, _try_reserve_clone_slots, create_pvc_clone,
         _label_owned_resource, wait_for_bound, UndoCreate, UndoWait, _release_clone_slots,
         Rest, Raise, Steady
    <3> QED BY <3>1, <3>2, QuietHolds DEF EndInv, NothingLeft
  <2>2. CASE _delete_tracked_clone(w) \/ _run_vdbench_on_pvc(w)
    <3>1. worker[w].step # "idle"
      BY <2>2 DEF _delete_tracked_clone, Reload, CheckDeleted, Delete, Deleting, wait_for_delete,
         _run_vdbench_on_pvc, StartWorkload, _mark_clone_dirty, StopWorkload, At
    <3>2. UNCHANGED <<act, todo, shutdown, cleaned>>
      BY <2>2 DEF _delete_tracked_clone, Reload, CheckDeleted, Delete, Deleting, wait_for_delete,
         _run_vdbench_on_pvc, StartWorkload, _mark_clone_dirty, StopWorkload, Rest, Steady
    <3> QED BY <3>1, <3>2, QuietHolds DEF EndInv, NothingLeft
  <2> QED BY <1>2, <2>1, <2>2 DEF Works
<1> QED BY <1>1, <1>2
\* Beginning something: on a clone of the pool, or on one that is in nobody's hands.
LEMMA BeginsKeep ==
    ASSUME RefInv, NEW w \in Workers, Begins(w)
    PROVE  TermInv' /\ HeldInv'
<1> USE DEF RefInv, PoolInv
<1>1. /\ UNCHANGED <<pool, cluster, terminating>> /\ worker[w].step = "idle"
      /\ victims' \subseteq victims /\ io' \subseteq io
  BY DEF Begins, BeginCreate, BeginDelete, BeginVictim, BeginIo, books, pvcs, Steady, At
<1>2. CASE BeginCreate(w)
  <2>1. PICK x \in Record : Moves(w, x) /\ x.step = "reserve" /\ x.name = worker[w].name
    BY <1>2, GotoMoves DEF BeginCreate, WorkerSteps
  <2> QED BY <1>1, <2>1, HeldKept DEF TermInv, Own
<1>3. CASE UNCHANGED worker
  BY <1>1, <1>3, HeldStays DEF TermInv, HeldInv
<1>4. ASSUME NEW e \in pool \cup victims \cup io, NEW t \in {"reload", "start"},
             worker' = [worker EXCEPT ![w] = [step |-> t, name |-> e]]
      PROVE  HeldInv'
  <2> DEFINE x == [step |-> t, name |-> e]
  <2>1. Moves(w, x) /\ x.step \notin Own /\ x.name = e
    BY <1>4 DEF Moves, Own
  <2> HIDE DEF x
  <2> QED BY <1>1, <1>4, <2>1, HeldKept
<1>5. TermInv'
  BY <1>1 DEF TermInv
<1> QED BY <1>2, <1>3, <1>4, <1>5 DEF Begins, BeginDelete, BeginVictim, BeginIo

\* Deleting and writing to clones.
LEMMA OtherWorkKeeps ==
    ASSUME RefInv, NEW w \in Workers, _delete_tracked_clone(w) \/ _run_vdbench_on_pvc(w)
    PROVE  TermInv' /\ HeldInv'
<1> USE DEF RefInv, PoolInv
<1>1. \/ Done(w) \/ Goto(w, "check") \/ Goto(w, "delete") \/ Goto(w, "deleting") \/ Goto(w, "wait")
      \/ Goto(w, "mark") \/ Goto(w, "io")
  BY DEF _delete_tracked_clone, Reload, CheckDeleted, Delete, Deleting, wait_for_delete, Remove,
         Retain, _run_vdbench_on_pvc, StartWorkload, _mark_clone_dirty, StopWorkload
<1>2. PICK x \in Record :
        Moves(w, x) /\ x.step \notin Own /\ x.name \in {worker[w].name, NoName}
  BY <1>1, GotoMoves, DoneMoves DEF WorkerSteps, Own
<1>3. cluster' = cluster /\ pool' \subseteq pool /\ victims' = victims /\ io' = io
  BY DEF _delete_tracked_clone, Reload, CheckDeleted, Delete, Deleting, wait_for_delete, Remove,
         Retain, _run_vdbench_on_pvc, StartWorkload, _mark_clone_dirty, StopWorkload, books, pvcs,
         Rest, Steady
<1>4. terminating' \subseteq terminating \cup ({worker[w].name} \cap cluster)
  <2>1. CASE Delete(w)
    BY <2>1 DEF Delete
  <2>2. CASE ~Delete(w)
    BY <2>2 DEF _delete_tracked_clone, Reload, CheckDeleted, Deleting, wait_for_delete,
       _run_vdbench_on_pvc, StartWorkload, _mark_clone_dirty, StopWorkload, pvcs
  <2> QED BY <2>1, <2>2
<1>5. TermInv'
  BY <1>3, <1>4 DEF TermInv
<1>6. HeldInv'
  BY <1>2, <1>3, <1>4, HeldKept
<1> QED BY <1>5, <1>6

\* The control part does not put a clone in danger when a worker goes on.
LEMMA RestScope ==
    ASSUME UNCHANGED Rest \/ Raise
    PROVE  victims' = victims /\ io' \subseteq io
BY DEF Rest, Raise, Steady

\* Making a clone: it gets a name that nobody knows, also not as a PVC that is
\* still being deleted.
LEMMA CreateKeeps ==
    ASSUME RefInv, NEW w \in Workers, create_pvc_clone(w)
    PROVE  TermInv' /\ HeldInv'
<1> USE DEF RefInv, PoolInv
<1>1. /\ UNCHANGED <<pool, terminating>> /\ cluster \subseteq cluster'
      /\ victims' = victims /\ io' \subseteq io
  <2>1. UNCHANGED Rest \/ Raise
    BY DEF create_pvc_clone
  <2> QED BY <2>1, RestScope DEF create_pvc_clone
<1>2. TermInv'
  BY <1>1 DEF TermInv
<1>3. CASE Goto(w, "release")
  <2>1. PICK x \in Record : Moves(w, x) /\ x.step = "release" /\ x.name = worker[w].name
    BY <1>3, GotoMoves DEF WorkerSteps, CreateSteps
  <2>2. HeldInv'
    BY <1>1, <2>1, HeldKept DEF Own
  <2> QED BY <1>2, <2>2
<1>4. ASSUME NEW n \in Names, Unused(n), cluster' = cluster \cup {n},
             worker' = [worker EXCEPT ![w] = [step |-> "label", name |-> n]]
      PROVE  HeldInv'
  <2> DEFINE x == [step |-> "label", name |-> n]
  <2>1. Moves(w, x) /\ x.name = n
    BY <1>4 DEF Moves
  <2> HIDE DEF x
  <2>2. n \in cluster' \ (terminating' \cup pool' \cup victims' \cup io')
        /\ \A v \in Workers : worker[v].name # n
    BY <1>1, <1>4 DEF Unused, TermInv
  <2> QED BY <1>1, <2>1, <2>2, HeldKept
<1> QED BY <1>2, <1>3, <1>4 DEF create_pvc_clone

\* The other steps of a create.
LEMMA HoldKeeps ==
    ASSUME RefInv, NEW w \in Workers, _create_and_track_clone(w), ~create_pvc_clone(w)
    PROVE  TermInv' /\ HeldInv'
<1> USE DEF RefInv, PoolInv
<1>1. cluster' = cluster
  BY DEF _create_and_track_clone, _try_reserve_clone_slots, _label_owned_resource, wait_for_bound,
         UndoCreate, UndoWait, _release_clone_slots, pvcs
<1>2. CASE _try_reserve_clone_slots(w) \/ UndoWait(w) \/ _release_clone_slots(w)
  <2>1. UNCHANGED <<pool, terminating>> /\ victims' = victims /\ io' \subseteq io
    BY <1>2, RestScope DEF _try_reserve_clone_slots, UndoWait, _release_clone_slots, books, pvcs,
       Steady
  <2>2. Done(w) \/ Goto(w, "create") \/ Goto(w, "release")
    BY <1>2 DEF _try_reserve_clone_slots, UndoWait, _release_clone_slots
  <2>3. PICK x \in Record :
          Moves(w, x) /\ x.step \notin Own /\ x.name \in {worker[w].name, NoName}
    BY <2>2, GotoMoves, DoneMoves DEF WorkerSteps, CreateSteps, Own
  <2> QED BY <1>1, <2>1, <2>3, HeldKept DEF TermInv
<1>3. CASE _label_owned_resource(w) \/ UndoCreate(w) \/ wait_for_bound(w)
  <2>1. worker[w].step \in Own
    BY <1>3 DEF _label_owned_resource, UndoCreate, wait_for_bound, At, Own
  <2>2. worker[w].name \in cluster \ (terminating \cup pool \cup victims \cup io)
        /\ \A v \in Workers : v # w => worker[v].name # worker[w].name
    BY <2>1 DEF HeldInv
  <2>3. CASE _label_owned_resource(w) \/ (wait_for_bound(w) /\ Goto(w, "undo") /\ Raise
                                            /\ UNCHANGED pool)
    <3>1. UNCHANGED <<pool, terminating>> /\ victims' = victims /\ io' \subseteq io
      BY <2>3, RestScope DEF _label_owned_resource, wait_for_bound, books, pvcs
    <3>2. PICK x \in Record : Moves(w, x) /\ x.name = worker[w].name
      BY <2>3, GotoMoves DEF _label_owned_resource, WorkerSteps, CreateSteps
    <3>3. HeldInv'
      BY <1>1, <2>2, <3>1, <3>2, HeldKept
    <3> QED BY <1>1, <3>1, <3>3 DEF TermInv
  <2>4. CASE UndoCreate(w)
    <3>1. /\ UNCHANGED pool /\ victims' = victims /\ io' \subseteq io
          /\ terminating' \subseteq terminating \cup {worker[w].name}
      BY <2>4, RestScope DEF UndoCreate, books
    <3>2. PICK x \in Record : Moves(w, x) /\ x.step \notin Own /\ x.name = worker[w].name
      BY <2>4, GotoMoves DEF UndoCreate, WorkerSteps, CreateSteps, Own
    <3>3. HeldInv'
      BY <1>1, <3>1, <3>2, HeldKept
    <3> QED BY <1>1, <2>2, <3>1, <3>3 DEF TermInv
  <2>5. CASE wait_for_bound(w) /\ Track(w) /\ Done(w) /\ UNCHANGED Steady
             /\ io' \subseteq io \cup {worker[w].name}
    <3>1. UNCHANGED terminating /\ pool' = pool \cup {worker[w].name} /\ victims' = victims
      BY <2>5 DEF wait_for_bound, Track, pvcs, Steady
    <3>2. PICK x \in Record : Moves(w, x) /\ x.step \notin Own /\ x.name = NoName
      BY <2>5, DoneMoves DEF Own
    <3>3. HeldInv'
      BY <1>1, <2>5, <3>1, <3>2, HeldKept
    <3> QED BY <1>1, <3>1, <3>3 DEF TermInv
  <2> QED BY <1>3, <2>3, <2>4, <2>5 DEF wait_for_bound
<1> QED BY <1>2, <1>3 DEF _create_and_track_clone
-----------------------------------------------------------------------------
(* The invariant.                                                          *)

LEMMA RefInit == ASSUME Init PROVE RefInv
<1>1. \A w \in Workers : worker[w] = Free
  BY DEF Init
<1>2. HeldInv
  BY <1>1 DEF HeldInv, Own, Free
<1>3. TermInv /\ EndInv
  BY DEF Init, TermInv, EndInv
<1> QED BY <1>2, <1>3, InitInv DEF RefInv

LEMMA RefNext == ASSUME RefInv, [Next]_vars PROVE RefInv'
<1>1. PoolInv'
  BY NextInv DEF RefInv
<1>2. CASE Thread \/ request_shutdown
  BY <1>1, <1>2, ThreadKeeps DEF RefInv
<1>3. ASSUME NEW w \in Workers, Begins(w) \/ Works(w) PROVE RefInv'
  <2>1. TermInv' /\ HeldInv'
    BY <1>3, BeginsKeep, OtherWorkKeeps, CreateKeeps, HoldKeeps DEF Works
  <2>2. EndInv'
    BY <1>3, BusyOpen DEF EndInv, RefInv
  <2> QED BY <1>1, <2>1, <2>2 DEF RefInv
<1>4. ASSUME NEW n \in Names, Reclaim(n) PROVE RefInv'
  <2> USE DEF RefInv
  <2>1. /\ n \in terminating /\ cluster' = cluster \ {n} /\ terminating' = terminating \ {n}
        /\ UNCHANGED <<pool, victims, io, worker>>
    BY <1>4 DEF Reclaim, books, control
  <2>2. TermInv' /\ HeldInv'
    BY <2>1, HeldStays DEF TermInv, HeldInv
  <2>3. EndInv'
    BY <1>4 DEF Reclaim, control, EndInv, NothingLeft, Quiet
  <2> QED BY <1>1, <2>2, <2>3
<1>5. CASE UNCHANGED vars
  <2> USE DEF RefInv
  <2>1. UNCHANGED <<pool, cluster, terminating, worker>> /\ UNCHANGED control
    BY <1>5 DEF vars, books, pvcs
  <2>2. TermInv' /\ HeldInv'
    BY <2>1, HeldStays DEF TermInv, HeldInv, control
  <2>3. EndInv'
    BY <2>1 DEF control, EndInv, NothingLeft, Quiet
  <2> QED BY <1>1, <2>2, <2>3
<1> QED BY <1>2, <1>3, <1>4, <1>5 DEF Next, Terminated

-----------------------------------------------------------------------------
(* Every step is a step of the abstract pool, or none.                     *)

AbstractStep == Tracking!Next \/ UNCHANGED Tracking!vars

\* Steps that change nothing the abstract pool knows of.
LEMMA NoAbstractStep ==
    ASSUME UNCHANGED <<pool, cluster, cleaned>>, Reserving' = Reserving
    PROVE  AbstractStep
BY DEF AbstractStep, Tracking!vars

\* A worker that stays outside of creates, or inside.
LEMMA SameSlots ==
    ASSUME RefInv, NEW w \in Workers, NEW x, Moves(w, x),
           worker[w].step \in CreateSteps <=> x.step \in CreateSteps
    PROVE  Reserving' = Reserving
BY ReservingChange DEF RefInv, PoolInv, Reserving

LEMMA ThreadSimulates ==
    ASSUME RefInv, Thread \/ request_shutdown
    PROVE  AbstractStep
<1> USE DEF RefInv
<1>1. UNCHANGED <<pool, cluster, worker>>
  BY DEF Thread, run, BeginAction, StopActions, EndAction, cleanup_all, request_shutdown,
         _cleanup_orphan_aggressive_resources, books, pvcs
<1>2. Reserving' = Reserving
  BY <1>1 DEF Reserving
<1>3. CASE _cleanup_orphan_aggressive_resources
  <2>1. act = "cleanup_all" /\ NothingLeft /\ cleaned' = TRUE
    BY <1>3 DEF _cleanup_orphan_aggressive_resources
  <2>2. ~cleaned
    BY <2>1 DEF EndInv
  <2>3. Reserving = {}
    BY <2>1, QuietHolds DEF NothingLeft, Reserving, CreateSteps
  <2>4. Tracking!Close
    BY <1>1, <1>2, <2>1, <2>2, <2>3 DEF Tracking!Close
  <2> QED BY <2>4 DEF AbstractStep, Tracking!Next
<1>4. CASE ~_cleanup_orphan_aggressive_resources
  <2>1. UNCHANGED cleaned
    BY <1>4 DEF Thread, run, BeginAction, StopActions, EndAction, cleanup_all, request_shutdown
  <2> QED BY <1>1, <1>2, <2>1, NoAbstractStep
<1> QED BY <1>3, <1>4

LEMMA BeginsSimulates ==
    ASSUME RefInv, NEW w \in Workers, Begins(w)
    PROVE  AbstractStep
<1> USE DEF RefInv, PoolInv
<1>1. UNCHANGED <<pool, cluster, cleaned>> /\ worker[w].step = "idle"
  BY BusyOpen DEF Begins, BeginCreate, BeginDelete, BeginVictim, BeginIo, books, pvcs, At
<1>2. Reserving' = Reserving
  <2>1. CASE BeginCreate(w)
    <3>1. PICK x \in Record : Moves(w, x) /\ x.step = "reserve"
      BY <2>1, GotoMoves DEF BeginCreate, WorkerSteps
    <3> QED BY <1>1, <3>1, SameSlots DEF CreateSteps
  <2>2. CASE UNCHANGED worker
    BY <2>2 DEF Reserving
  <2>3. ASSUME NEW e, NEW t \in {"reload", "start"},
               worker' = [worker EXCEPT ![w] = [step |-> t, name |-> e]]
        PROVE  Reserving' = Reserving
    <3> DEFINE x == [step |-> t, name |-> e]
    <3>1. Moves(w, x) /\ x.step = t
      BY <2>3 DEF Moves
    <3> HIDE DEF x
    <3> QED BY <1>1, <3>1, SameSlots DEF CreateSteps
  <2> QED BY <2>1, <2>2, <2>3 DEF Begins, BeginDelete, BeginVictim, BeginIo
<1> QED BY <1>1, <1>2, NoAbstractStep

\* Deleting forgets an entry of a clone that is gone, or nothing.
LEMMA OtherWorkSimulates ==
    ASSUME RefInv, NEW w \in Workers, _delete_tracked_clone(w) \/ _run_vdbench_on_pvc(w)
    PROVE  AbstractStep
<1> USE DEF RefInv, PoolInv
<1>1. ~cleaned /\ UNCHANGED cleaned
  BY BusyOpen DEF Works
<1>2. \/ Done(w) \/ Goto(w, "check") \/ Goto(w, "delete") \/ Goto(w, "deleting") \/ Goto(w, "wait")
      \/ Goto(w, "mark") \/ Goto(w, "io")
  BY DEF _delete_tracked_clone, Reload, CheckDeleted, Delete, Deleting, wait_for_delete, Remove,
         Retain, _run_vdbench_on_pvc, StartWorkload, _mark_clone_dirty, StopWorkload
<1>3. PICK x \in Record : Moves(w, x) /\ x.step \notin CreateSteps
  BY <1>2, GotoMoves, DoneMoves DEF WorkerSteps, CreateSteps
<1>4. worker[w].step \notin CreateSteps /\ worker[w].name \in Names
  <2>1. worker[w].step \in {"reload", "check", "delete", "deleting", "wait", "start", "mark", "io"}
    BY DEF _delete_tracked_clone, Reload, CheckDeleted, Delete, Deleting, wait_for_delete,
           _run_vdbench_on_pvc, StartWorkload, _mark_clone_dirty, StopWorkload, At
  <2> QED BY <2>1 DEF CreateSteps, NameInv, NameOK, Known
<1>5. Reserving' = Reserving
  BY <1>3, <1>4, SameSlots
<1>6. cluster' = cluster /\ pool' \in {pool, pool \ {worker[w].name}}
  BY DEF _delete_tracked_clone, Reload, CheckDeleted, Delete, Deleting, wait_for_delete, Remove,
         Retain, _run_vdbench_on_pvc, StartWorkload, _mark_clone_dirty, StopWorkload, books, pvcs
<1>7. CASE pool' = pool
  BY <1>1, <1>5, <1>6, <1>7, NoAbstractStep
<1>8. CASE pool' # pool
  <2>1. worker[w].name \in pool /\ pool' = pool \ {worker[w].name}
    BY <1>6, <1>8
  <2>2. worker[w].name \notin cluster
    BY <2>1, OtherWorkInv
  <2>3. Tracking!Forget(worker[w].name)
    BY <1>1, <1>5, <1>6, <2>1, <2>2 DEF Tracking!Forget
  <2> QED BY <1>4, <2>3 DEF AbstractStep, Tracking!Next
<1> QED BY <1>7, <1>8

\* The slot is taken only if there is one, as the counter is exact.
LEMMA ReserveSimulates ==
    ASSUME RefInv, NEW w \in Workers, _try_reserve_clone_slots(w)
    PROVE  AbstractStep
<1> USE DEF RefInv, PoolInv
<1>1. ~cleaned /\ UNCHANGED cleaned
  BY BusyOpen DEF Works, _create_and_track_clone
<1>2. UNCHANGED <<pool, cluster>> /\ worker[w].step = "reserve"
  BY DEF _try_reserve_clone_slots, pvcs, At
<1>3. CASE Done(w)
  <2>1. PICK x \in Record : Moves(w, x) /\ x.step = "idle"
    BY <1>3, DoneMoves
  <2>2. Reserving' = Reserving
    BY <1>2, <2>1, SameSlots DEF CreateSteps
  <2> QED BY <1>1, <1>2, <2>2, NoAbstractStep
<1>4. CASE Used + 1 <= MaxPool /\ Goto(w, "create")
  <2>1. PICK x \in Record : Moves(w, x) /\ x.step = "create"
    BY <1>4, GotoMoves DEF WorkerSteps, CreateSteps
  <2>2. Reserving' = Reserving \cup {w} /\ w \notin Reserving
    BY <1>2, <2>1, ReservingChange DEF Reserving, CreateSteps
  <2>3. Cardinality(pool) \in Nat
    BY FS_Subset, FS_CardinalityType, PoolAssumption DEF TypeOK
  <2>4. Cardinality(pool) + Cardinality(Reserving) < MaxPool
    BY <1>4, <2>3, ReservingFinite, PoolAssumption DEF Used, InflightExact
  <2>5. \A S : Tracking!Cardinality(S) = Cardinality(S)
    BY DEF Tracking!Cardinality, Cardinality
  <2>6. Tracking!Take(w)
    BY <1>1, <1>2, <2>2, <2>4, <2>5 DEF Tracking!Take
  <2> QED BY <2>6 DEF AbstractStep, Tracking!Next
<1> QED BY <1>3, <1>4 DEF _try_reserve_clone_slots

LEMMA CreateSimulates ==
    ASSUME RefInv, NEW w \in Workers, create_pvc_clone(w)
    PROVE  AbstractStep
<1> USE DEF RefInv, PoolInv
<1>1. UNCHANGED cleaned
  BY BusyOpen DEF Works, _create_and_track_clone
<1>2. UNCHANGED pool /\ worker[w].step \in CreateSteps
  BY DEF create_pvc_clone, At, CreateSteps
<1>3. w \in Reserving
  BY <1>2 DEF Reserving
<1>4. Reserving' = Reserving
  <2>1. CASE Goto(w, "release")
    <3>1. PICK x \in Record : Moves(w, x) /\ x.step = "release"
      BY <2>1, GotoMoves DEF WorkerSteps, CreateSteps
    <3> QED BY <1>2, <3>1, SameSlots DEF CreateSteps
  <2>2. ASSUME NEW n, worker' = [worker EXCEPT ![w] = [step |-> "label", name |-> n]]
        PROVE  Reserving' = Reserving
    <3> DEFINE x == [step |-> "label", name |-> n]
    <3>1. Moves(w, x) /\ x.step = "label"
      BY <2>2 DEF Moves
    <3> HIDE DEF x
    <3> QED BY <1>2, <3>1, SameSlots DEF CreateSteps
  <2> QED BY <2>1, <2>2 DEF create_pvc_clone
<1>5. CASE cluster' = cluster
  BY <1>1, <1>2, <1>4, <1>5, NoAbstractStep
<1>6. ASSUME NEW n \in Names, Unused(n), cluster' = cluster \cup {n} PROVE AbstractStep
  <2>1. Tracking!Make(n)
    BY <1>1, <1>2, <1>3, <1>4, <1>6 DEF Tracking!Make, Unused
  <2> QED BY <2>1 DEF AbstractStep, Tracking!Next
<1> QED BY <1>5, <1>6 DEF create_pvc_clone

\* The slot becomes the entry of a clone that exists and has none, or is given back.
LEMMA HoldSimulates ==
    ASSUME RefInv, NEW w \in Workers,
           \/ _label_owned_resource(w) \/ UndoCreate(w) \/ UndoWait(w)
           \/ wait_for_bound(w) \/ _release_clone_slots(w)
    PROVE  AbstractStep
<1> USE DEF RefInv, PoolInv
<1>1. UNCHANGED <<cleaned, cluster>>
  BY BusyOpen DEF Works, _create_and_track_clone, _label_owned_resource, UndoCreate, UndoWait,
     wait_for_bound, _release_clone_slots, pvcs
<1>2. worker[w].step \in CreateSteps
  BY DEF _label_owned_resource, UndoCreate, UndoWait, wait_for_bound, _release_clone_slots, At,
     CreateSteps
<1>3. w \in Reserving
  BY <1>2 DEF Reserving
<1>4. ASSUME Done(w) PROVE Reserving' = Reserving \ {w}
  <2>1. PICK x \in Record : Moves(w, x) /\ x.step = "idle"
    BY <1>4, DoneMoves
  <2> QED BY <2>1, ReservingChange DEF CreateSteps
<1>5. CASE /\ \E t \in {"bound", "undo", "undo_wait", "release"} : Goto(w, t)
           /\ UNCHANGED pool
  <2>1. PICK x \in Record : Moves(w, x) /\ x.step \in CreateSteps
    BY <1>5, GotoMoves DEF WorkerSteps, CreateSteps
  <2>2. Reserving' = Reserving
    BY <1>2, <2>1, SameSlots
  <2> QED BY <1>1, <1>5, <2>2, NoAbstractStep
<1>6. CASE _release_clone_slots(w)
  <2>1. Done(w) /\ UNCHANGED pool
    BY <1>6 DEF _release_clone_slots
  <2>2. Tracking!GiveBack(w)
    BY <1>1, <1>3, <1>4, <2>1 DEF Tracking!GiveBack
  <2> QED BY <2>2 DEF AbstractStep, Tracking!Next
<1>7. CASE wait_for_bound(w) /\ Track(w) /\ Done(w)
  <2>1. worker[w].step \in Own
    BY <1>7 DEF wait_for_bound, At, Own
  <2>2. worker[w].name \in cluster \ pool
    BY <2>1 DEF HeldInv
  <2>3. worker[w].name \in Names
    BY <2>2 DEF TypeOK
  <2>4. Tracking!Enter(w, worker[w].name)
    BY <1>1, <1>3, <1>4, <1>7, <2>2 DEF Tracking!Enter, Track
  <2> QED BY <2>3, <2>4 DEF AbstractStep, Tracking!Next
<1> QED BY <1>5, <1>6, <1>7 DEF _label_owned_resource, UndoCreate, UndoWait, wait_for_bound, books

LEMMA StepSimulates == ASSUME RefInv, [Next]_vars PROVE AbstractStep
<1>1. CASE Thread \/ request_shutdown
  BY <1>1, ThreadSimulates
<1>2. ASSUME NEW w \in Workers, Begins(w) \/ Works(w) PROVE AbstractStep
  BY <1>2, BeginsSimulates, OtherWorkSimulates, ReserveSimulates, CreateSimulates, HoldSimulates
     DEF Works, _create_and_track_clone
<1>3. ASSUME NEW n \in Names, Reclaim(n) PROVE AbstractStep
  <2>1. n \in cluster /\ cluster' = cluster \ {n} /\ UNCHANGED <<pool, cleaned, worker>>
    BY <1>3 DEF Reclaim, RefInv, TermInv, books, control
  <2>2. Reserving' = Reserving
    BY <2>1 DEF Reserving
  <2>3. Tracking!Disappear(n)
    BY <2>1, <2>2 DEF Tracking!Disappear
  <2> QED BY <2>3 DEF AbstractStep, Tracking!Next
<1>4. CASE UNCHANGED vars
  <2>1. UNCHANGED <<pool, cluster, cleaned, worker>>
    BY <1>4 DEF vars, books, pvcs, control
  <2>2. Reserving' = Reserving
    BY <2>1 DEF Reserving
  <2> QED BY <2>1, <2>2, NoAbstractStep
<1> QED BY <1>1, <1>2, <1>3, <1>4 DEF Next, Terminated

\* The clone pool implements the pool of tracked resources: however many workers
\* create, delete and fail, a slot is taken before a clone is made, becomes an entry
\* of a clone that exists or is given back, and an entry goes after its clone.
THEOREM PoolImplementsTracking == Spec => ImplementsTrackedPool
<1>1. Init => RefInv
  BY RefInit
<1>2. RefInv /\ [Next]_vars => RefInv'
  BY RefNext
<1>3. Init => Tracking!Init
  <2>1. Init => Reserving = {}
    BY DEF Init, Reserving, Free, CreateSteps
  <2> QED BY <2>1 DEF Init, Tracking!Init
<1>4. RefInv /\ [Next]_vars => [Tracking!Next]_(Tracking!vars)
  BY StepSimulates DEF AbstractStep
<1> QED BY <1>1, <1>2, <1>3, <1>4, PTL DEF Spec, ImplementsTrackedPool, Tracking!Spec
=============================================================================
