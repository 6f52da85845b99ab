-------------------------- MODULE ClonePool_proofs --------------------------
(***************************************************************************)
(* Proofs about ClonePool, for any clones, workers, limits, actions and    *)
(* faults.                                                                 *)
(*                                                                         *)
(* The limit of the pool is not inductive by itself: turning a reservation *)
(* into an entry keeps the sum only if the counter is not already zero.    *)
(* That the counter is exactly the number of workers that hold a slot,     *)
(* InflightExact, closes the gap.  An entry is removed on the word of the  *)
(* object's deleted flag, which FlagInv makes trustworthy.                 *)
(*                                                                         *)
(* That a check of a clone's data means something rests on three facts     *)
(* about other parts of the state: a check is done alone (AloneInv), the   *)
(* clone a worker is making is nobody else's (MakerInv), and an entry whose*)
(* workload was started is marked or about to be (WrittenInv).             *)
(***************************************************************************)
EXTENDS ClonePool, FiniteSetTheorems, TLAPS

\* A PVC whose object is flagged as deleted is gone.
FlagInv == flagged \cap cluster = {}

Record == [step : WorkerSteps, name : Names \cup {NoName}]

\* Workers that delete or write to a clone, or hold one they made, know its name;
\* before that they have none.
Known == {"reload", "check", "delete", "deleting", "wait", "start", "mark", "io", "label",
          "bound", "undo", "undo_wait"}
NameOK(x) ==
    /\ x.step \in {"idle", "reserve", "create"} => x.name = NoName
    /\ x.step \in Known => x.name \in Names
NameInv == \A w \in Workers : NameOK(worker[w])

\* A slot is only given back for a clone that is gone, or that was left behind.
ReleaseInv == \A w \in Workers : worker[w].step = "release" => worker[w].name \notin cluster \ lost

PoolInv ==
    /\ TypeOK /\ NameInv
    /\ InflightExact /\ PoolWithinLimit
    /\ FlagInv
    /\ Tracked /\ ReleaseInv

Checks == PoolActions \ {"_delete_random_clones", "_cleanup_clones"}

\* A check of an entry is done alone, and only it and a nested clone choose one.
AloneInv ==
    /\ act \in Checks \cup {"none"} => NothingLeft
    /\ subject # NoName => act \in Checks \cup {"_nested_clone"}

\* The clone a worker makes is nobody else's, and no workload was started on it.
MakerInv ==
    \A w \in Reserving :
        worker[w].name # NoName =>
          /\ worker[w].name \notin pool \cup io \cup victims \cup ran
          /\ \A v \in Workers \ {w} : worker[v].name # worker[w].name

\* An entry whose workload was started is marked, or about to be.
Marking == {worker[w].name : w \in {v \in Workers : worker[v].step = "mark"}}
WrittenInv == ran \cap pool \subseteq dirty \cup Marking

DataInv == AloneInv /\ MakerInv /\ WrittenInv /\ NoCheckAfterWorkload

-----------------------------------------------------------------------------
(* The workers.                                                            *)

\* One worker goes on, to the record x.
Moves(w, x) == worker' = [worker EXCEPT ![w] = x]

\* The workers that hold a slot, after a step of one of them.
LEMMA ReservingChange ==
    ASSUME TypeOK, NEW w \in Workers, NEW x, Moves(w, x)
    PROVE  /\ x.step \in CreateSteps => Reserving' = Reserving \cup {w}
           /\ x.step \notin CreateSteps => Reserving' = Reserving \ {w}
<1>1. \A v \in Workers : worker'[v] = IF v = w THEN x ELSE worker[v]
  BY DEF TypeOK, Moves
<1> QED BY <1>1 DEF Reserving

\* Reserving is finite.
LEMMA ReservingFinite == IsFiniteSet(Reserving) /\ Cardinality(Reserving) \in Nat
<1>1. Reserving \subseteq Workers
  BY DEF Reserving
<1> QED BY <1>1, FS_Subset, FS_CardinalityType, PoolAssumption

\* The records of the steps.
LEMMA Records ==
    ASSUME TypeOK
    PROVE  /\ Free \in Record
           /\ \A w \in Workers, s \in WorkerSteps : [worker[w] EXCEPT !.step = s] \in Record
           /\ \A s \in WorkerSteps, n \in Names : [step |-> s, name |-> n] \in Record
           /\ worker \in [Workers -> Record]
<1>1. worker \in [Workers -> Record]
  BY DEF TypeOK, Record
<1>2. \A w \in Workers : worker[w] \in Record
  BY <1>1
<1>3. Free \in Record
  BY DEF Free, Record, WorkerSteps
<1>4. \A w \in Workers, s \in WorkerSteps : [worker[w] EXCEPT !.step = s] \in Record
  BY <1>2 DEF Record
<1>5. \A s \in WorkerSteps, n \in Names : [step |-> s, name |-> n] \in Record
  BY DEF Record
<1> QED BY <1>1, <1>3, <1>4, <1>5

\* The part of the type invariant that is about the operation's thread.
ControlOK ==
    /\ src \in BOOLEAN /\ failed \in BOOLEAN /\ shutdown \in BOOLEAN /\ cleaned \in BOOLEAN
    /\ todo \in Seq(Actions)
    /\ act \in Actions \cup {"none", "cleanup_all"}
    /\ creates \in Nat /\ deletes \in Nat
    /\ victims \subseteq Names /\ io \subseteq Names
    /\ subject \in Names \cup {NoName}

PvcsOK ==
    /\ pool \subseteq Names /\ dirty \subseteq Names /\ flagged \subseteq Names
    /\ cluster \subseteq Names /\ terminating \subseteq Names
    /\ labelled \subseteq Names /\ written \subseteq Names
    /\ lost \subseteq Names /\ ran \subseteq Names

LEMMA TypeParts ==
    TypeOK <=> ControlOK /\ PvcsOK /\ inflight \in Nat /\ worker \in [Workers -> Record]
BY DEF TypeOK, ControlOK, PvcsOK, Record

\* A worker that holds no slot before or after its step, and removes entries only
\* for clones that are gone.
LEMMA OutsideInv ==
    ASSUME PoolInv, NEW w \in Workers, NEW x, Moves(w, x),
           worker[w].step \notin CreateSteps, x.step \notin CreateSteps,
           UNCHANGED <<inflight, cluster, lost>>, pool' \subseteq pool, (pool \ pool') \cap cluster = {}
    PROVE  InflightExact' /\ PoolWithinLimit' /\ Tracked' /\ ReleaseInv'
<1> USE DEF PoolInv
<1>1. Reserving' = Reserving
  BY ReservingChange DEF Reserving
<1>2. InflightExact'
  BY <1>1 DEF InflightExact
<1>3. PoolWithinLimit'
  <2>1. IsFiniteSet(pool)
    BY FS_Subset, PoolAssumption DEF TypeOK
  <2>2. Cardinality(pool') <= Cardinality(pool) /\ Cardinality(pool) \in Nat /\ Cardinality(pool') \in Nat
    BY <2>1, FS_Subset, FS_CardinalityType
  <2> QED BY <2>2, PoolAssumption DEF PoolWithinLimit, TypeOK
<1>4. \A v \in Workers : v # w => worker'[v] = worker[v]
  BY DEF Moves, TypeOK
<1>5. Tracked'
  <2>1. w \notin Reserving
    BY DEF Reserving
  <2>2. {worker'[v].name : v \in Reserving'} = {worker[v].name : v \in Reserving}
    BY <1>1, <1>4, <2>1 DEF Reserving
  <2> QED BY <2>2 DEF Tracked
<1>6. ReleaseInv'
  <2>1. worker'[w] = x
    BY DEF Moves, TypeOK
  <2>2. "release" \in CreateSteps
    BY DEF CreateSteps
  <2> QED BY <1>4, <2>1, <2>2 DEF ReleaseInv
<1> QED BY <1>2, <1>3, <1>5, <1>6

\* A worker goes on with a proper record.
LEMMA MovesTypes ==
    ASSUME PoolInv, NEW w \in Workers, NEW x \in Record, Moves(w, x), NameOK(x)
    PROVE  worker' \in [Workers -> Record] /\ NameInv'
<1> USE DEF PoolInv
<1>1. worker \in [Workers -> Record]
  BY Records
<1>2. worker' \in [Workers -> Record]
  BY <1>1 DEF Moves
<1>3. \A v \in Workers : worker'[v] = IF v = w THEN x ELSE worker[v]
  BY <1>1 DEF Moves
<1> QED BY <1>2, <1>3 DEF NameInv

-----------------------------------------------------------------------------
(* The operation's thread.                                                 *)

\* run() takes actions it has.
LEMMA SelectionsType == \A b : Selections(b) \subseteq Seq(Actions)
<1>1. \A n : Samples(Actions, n) \subseteq Seq(Actions)
  <2> SUFFICES ASSUME NEW n, NEW k \in 1 .. n, NEW s \in [1 .. k -> Actions]
               PROVE  s \in Seq(Actions)
    BY DEF Samples
  <2>1. k \in Nat
    OBVIOUS
  <2> QED BY <2>1
<1>2. <<"_cleanup_clones">> \in Seq(Actions)
  BY PoolAssumption
<1> QED BY <1>1, <1>2 DEF Selections

\* What an action sets out to do is well typed.
LEMMA PlanTypes ==
    ASSUME TypeOK, NEW a \in Actions, Plan(a)
    PROVE  /\ act' \in Actions /\ creates' \in Nat /\ deletes' \in Nat
           /\ victims' \subseteq Names /\ io' \subseteq Names /\ subject' \in Names \cup {NoName}
<1> USE DEF TypeOK
<1>1. One \in Nat /\ Many \in Nat /\ Count \in Nat /\ pool \subseteq Names
  BY PoolAssumption DEF One, Many
<1>3. CASE PlanCreate(a)
  <2>1. \/ Begin(a, One, 0, {}, {}, NoName) \/ Begin(a, Many, 0, {}, {}, NoName)
        \/ Begin(a, Many, Many, {}, {}, NoName)
        \/ \E e \in pool : Begin(a, IF e \in cluster THEN 1 ELSE 0, 0, {}, {}, e)
    BY <1>3 DEF PlanCreate
  <2> QED BY <1>1, <2>1 DEF Begin
<1>4. CASE PlanIo(a)
  <2>1. CASE Begin(a, One, 0, {}, {}, NoName)
    BY <1>1, <2>1 DEF Begin
  <2>2. CASE \E e \in pool : Begin(a, 0, 0, {}, {e}, NoName)
    BY <1>1, <2>2 DEF Begin
  <2>3. ASSUME NEW W \in SUBSET pool, Cardinality(W) = Least(Count, Cardinality(pool)),
               Begin(a, IF src THEN Count - Cardinality(W) ELSE 0, 0, {}, W, NoName)
        PROVE  /\ act' \in Actions /\ creates' \in Nat /\ deletes' \in Nat
               /\ victims' \subseteq Names /\ io' \subseteq Names /\ subject' \in Names \cup {NoName}
    <3>1. Cardinality(pool) \in Nat
      BY <1>1, FS_Subset, FS_CardinalityType, PoolAssumption
    <3>2. (IF src THEN Count - Cardinality(W) ELSE 0) \in Nat
      BY <1>1, <2>3, <3>1 DEF Least
    <3> QED BY <1>1, <2>3, <3>2 DEF Begin
  <2> QED BY <1>4, <2>1, <2>2, <2>3 DEF PlanIo
<1>5. CASE PlanDelete(a)
  <2>1. \E V \in SUBSET pool : Begin(a, 0, 0, V, {}, NoName)
    BY <1>5 DEF PlanDelete
  <2> QED BY <1>1, <2>1 DEF Begin
<1>6. CASE PlanCheck(a)
  <2>1. \E e \in pool \cup {NoName} : Begin(a, 0, 0, {}, {}, e)
    BY <1>6 DEF PlanCheck
  <2> QED BY <1>1, <2>1 DEF Begin
<1> QED BY <1>3, <1>4, <1>5, <1>6 DEF Plan

\* Steps that leave the books, the PVCs and the workers alone.
LEMMA ThreadInv == ASSUME PoolInv, Thread \/ request_shutdown PROVE PoolInv'
<1> USE DEF PoolInv
<1>1. UNCHANGED <<pool, inflight, dirty, flagged, cluster, labelled, written, lost, ran, worker>>
  BY DEF Thread, run, BeginAction, StopActions, EndAction, cleanup_all, request_shutdown,
         _cleanup_orphan_aggressive_resources, books, pvcs
<1>2. terminating' \subseteq Names
  <2>1. CASE _cleanup_orphan_aggressive_resources
    BY <2>1 DEF _cleanup_orphan_aggressive_resources, TypeOK
  <2>2. CASE ~_cleanup_orphan_aggressive_resources
    BY <2>2 DEF Thread, run, BeginAction, StopActions, EndAction, cleanup_all, request_shutdown,
                pvcs, TypeOK
  <2> QED BY <2>1, <2>2
<1>3. ControlOK'
  <2> USE DEF TypeOK, ControlOK
  <2>1. CASE run
    <3>1. todo' \in Seq(Actions)
      BY <2>1, SelectionsType DEF run
    <3> QED BY <2>1, <3>1 DEF run
  <2>2. CASE BeginAction
    <3>1. Head(todo) \in Actions /\ Tail(todo) \in Seq(Actions)
      BY <2>2 DEF BeginAction
    <3>2. UNCHANGED <<src, shutdown, cleaned>> /\ failed' \in BOOLEAN /\ todo' = Tail(todo)
      BY <2>2 DEF BeginAction
    <3>3. Plan(Head(todo))
      BY <2>2 DEF BeginAction
    <3> QED BY <3>1, <3>2, <3>3, PlanTypes
  <2>0. <<>> \in Seq(Actions)
    OBVIOUS
  <2>3. CASE StopActions
    <3>1. todo' = <<>> /\ src' = FALSE
          /\ UNCHANGED <<act, creates, deletes, victims, io, subject, failed, shutdown, cleaned>>
      BY <2>3 DEF StopActions
    <3> QED BY <2>0, <3>1
  <2>4. CASE EndAction
    <3>0. todo' = <<>> \/ todo' = todo
      BY <2>4 DEF EndAction
    <3>1. todo' \in Seq(Actions)
      BY <2>0, <3>0
    <3>2. src' \in BOOLEAN
      BY <2>4 DEF EndAction
    <3> QED BY <2>4, <3>1, <3>2 DEF EndAction
  <2>5. CASE cleanup_all
    BY <2>5 DEF cleanup_all, Begin
  <2>6. CASE _cleanup_orphan_aggressive_resources
    BY <2>6 DEF _cleanup_orphan_aggressive_resources
  <2>7. CASE request_shutdown
    BY <2>7 DEF request_shutdown
  <2> QED BY <2>1, <2>2, <2>3, <2>4, <2>5, <2>6, <2>7 DEF Thread
<1>4. TypeOK'
  BY <1>1, <1>2, <1>3 DEF TypeOK, ControlOK
<1>5. Reserving' = Reserving
  BY <1>1 DEF Reserving
<1>6. InflightExact' /\ PoolWithinLimit' /\ FlagInv' /\ NameInv'
  BY <1>1, <1>5 DEF InflightExact, PoolWithinLimit, FlagInv, NameInv
<1>7. Tracked' /\ ReleaseInv'
  BY <1>1, <1>5 DEF Tracked, ReleaseInv
<1> QED BY <1>4, <1>6, <1>7

-----------------------------------------------------------------------------
(* The steps of the workers.                                               *)

\* The control part when a worker goes on.
LEMMA RestTypes ==
    ASSUME ControlOK, UNCHANGED Rest \/ Raise
    PROVE  ControlOK'
<1>1. CASE UNCHANGED Rest
  BY <1>1 DEF ControlOK, Rest, Steady
<1>2. CASE Raise
  <2>1. UNCHANGED <<src, todo, act, deletes, victims, subject, shutdown, cleaned>>
    BY <1>2 DEF Raise, Steady
  <2>2. failed' = TRUE /\ creates' \in Nat /\ io' \subseteq Names
    BY <1>2 DEF Raise, ControlOK
  <2> QED BY <2>1, <2>2 DEF ControlOK
<1> QED BY <1>1, <1>2

\* The beginnings.
LEMMA BeginsInv == ASSUME PoolInv, NEW w \in Workers, Begins(w) PROVE PoolInv'
<1> USE DEF PoolInv
<1>0. TypeOK /\ ControlOK /\ PvcsOK
  BY TypeParts
<1>1. UNCHANGED <<pool, inflight, dirty, flagged, cluster, terminating, labelled, written, lost, ran>>
      /\ worker[w].step \notin CreateSteps
  <2>1. worker[w].step = "idle" /\ UNCHANGED <<pool, inflight, dirty, flagged, cluster, terminating, labelled, written, lost, ran>>
    BY DEF Begins, BeginCreate, BeginDelete, BeginVictim, BeginIo, books, pvcs, At
  <2> QED BY <2>1 DEF CreateSteps
<1>2. ControlOK'
  <2>1. CASE BeginCreate(w)
    BY <1>0, <2>1 DEF BeginCreate, Steady, ControlOK
  <2>2. CASE BeginDelete(w)
    BY <1>0, <2>2 DEF BeginDelete, ControlOK
  <2>3. CASE BeginVictim(w)
    BY <1>0, <2>3 DEF BeginVictim, ControlOK
  <2>4. CASE BeginIo(w)
    BY <1>0, <2>4 DEF BeginIo, Steady, ControlOK
  <2> QED BY <2>1, <2>2, <2>3, <2>4 DEF Begins
<1>3. PICK x \in Record :
        Moves(w, x) /\ x.step \notin CreateSteps /\ NameOK(x)
  <2>1. CASE BeginCreate(w)
    <3> DEFINE x == [worker[w] EXCEPT !.step = "reserve"]
    <3>1. Moves(w, x)
      BY <2>1 DEF BeginCreate, Goto, Moves
    <3>2. x \in Record
      BY Records DEF WorkerSteps
    <3>3. worker[w].step = "idle" /\ worker[w] \in Record
      BY <2>1, Records DEF BeginCreate, At
    <3>4. x.step = "reserve" /\ x.name = NoName
      BY <3>3 DEF Record, NameInv, NameOK
    <3> HIDE DEF x
    <3> QED BY <3>1, <3>2, <3>4 DEF CreateSteps, NameOK, Known
  <2>2. CASE BeginDelete(w) /\ pool = {}
    <3>1. Moves(w, worker[w])
      BY <2>2, Records DEF BeginDelete, Moves
    <3>2. worker[w].step = "idle" /\ worker[w] \in Record
      BY <2>2, Records DEF BeginDelete, At
    <3> QED BY <3>1, <3>2 DEF CreateSteps, NameInv
  <2>3. CASE BeginVictim(w) \/ BeginIo(w) \/ (BeginDelete(w) /\ pool # {})
    <3>1. PICK e \in Names, s \in {"reload", "start"} : Moves(w, [step |-> s, name |-> e])
      BY <1>0, <2>3 DEF BeginVictim, BeginIo, BeginDelete, Moves, ControlOK, PvcsOK
    <3> DEFINE x == [step |-> s, name |-> e]
    <3>2. x \in Record /\ x.step = s /\ x.name = e
      BY <3>1, Records DEF WorkerSteps
    <3> HIDE DEF x
    <3>3. Moves(w, x)
      BY <3>1 DEF x
    <3> QED BY <3>1, <3>2, <3>3 DEF CreateSteps, NameOK
  <2> QED BY <2>1, <2>2, <2>3 DEF Begins
<1>4. worker' \in [Workers -> Record] /\ NameInv'
  BY <1>3, MovesTypes
<1>5. InflightExact' /\ PoolWithinLimit' /\ Tracked' /\ ReleaseInv'
  BY <1>1, <1>3, OutsideInv
<1>6. PvcsOK' /\ inflight' \in Nat /\ FlagInv'
  BY <1>0, <1>1 DEF PvcsOK, FlagInv, TypeOK
<1>7. TypeOK'
  BY <1>2, <1>4, <1>6 DEF TypeOK, ControlOK, PvcsOK, Record
<1> QED BY <1>4, <1>5, <1>6, <1>7

\* Where a worker can go: on to another step, to another clone, or to rest.
LEMMA GotoMoves ==
    ASSUME TypeOK, NEW w \in Workers, NEW s \in WorkerSteps, Goto(w, s)
    PROVE  \E x \in Record : Moves(w, x) /\ x.step = s /\ x.name = worker[w].name
<1> DEFINE x == [worker[w] EXCEPT !.step = s]
<1>1. worker[w] \in Record
  BY Records
<1>2. x \in Record /\ x.step = s /\ x.name = worker[w].name
  BY <1>1 DEF Record
<1>3. Moves(w, x)
  BY DEF Goto, Moves
<1> HIDE DEF x
<1> QED BY <1>2, <1>3

LEMMA DoneMoves ==
    ASSUME TypeOK, NEW w \in Workers, Done(w)
    PROVE  \E x \in Record : Moves(w, x) /\ x.step = "idle" /\ x.name = NoName
<1>1. Free \in Record /\ Free.step = "idle" /\ Free.name = NoName
  BY Records DEF Free
<1> QED BY <1>1 DEF Done, Moves

\* Deleting and writing to clones.
LEMMA OtherWorkInv ==
    ASSUME PoolInv, NEW w \in Workers, _delete_tracked_clone(w) \/ _run_vdbench_on_pvc(w)
    PROVE  PoolInv' /\ (pool \ pool') \cap cluster = {}
<1> USE DEF PoolInv
<1> DEFINE Early == {"reload", "check", "delete", "deleting", "wait", "start", "mark", "io"}
<1>0. TypeOK /\ ControlOK /\ PvcsOK
  BY TypeParts
<1>1. worker[w].step \in Early
  BY DEF _delete_tracked_clone, Reload, CheckDeleted, Delete, Deleting, wait_for_delete,
         _run_vdbench_on_pvc, StartWorkload, _mark_clone_dirty, StopWorkload, At
<1>2. worker[w].step \notin CreateSteps /\ worker[w].name \in Names
  BY <1>1 DEF CreateSteps, NameInv, NameOK, Known
<1>3. UNCHANGED <<inflight, cluster, labelled, lost>>
  BY DEF _delete_tracked_clone, Reload, CheckDeleted, Delete, Deleting, wait_for_delete,
         _run_vdbench_on_pvc, StartWorkload, _mark_clone_dirty, StopWorkload, books, pvcs
<1>4. \/ Done(w) \/ Goto(w, "check") \/ Goto(w, "delete") \/ Goto(w, "deleting") \/ Goto(w, "wait")
      \/ Goto(w, "mark") \/ Goto(w, "io")
  BY DEF _delete_tracked_clone, Reload, CheckDeleted, Delete, Deleting, wait_for_delete, Remove,
         Retain, _run_vdbench_on_pvc, StartWorkload, _mark_clone_dirty, StopWorkload
<1>5. PICK x \in Record :
        /\ Moves(w, x)
        /\ \/ x.step = "idle" /\ x.name = NoName
           \/ x.step \in Early /\ x.name = worker[w].name
  BY <1>4, GotoMoves, DoneMoves DEF WorkerSteps
<1>6. worker' \in [Workers -> Record] /\ NameInv'
  <2>1. NameOK(x)
    BY <1>2, <1>5 DEF NameOK, Known
  <2> QED BY <1>5, <2>1, MovesTypes
<1>7. pool' \subseteq pool /\ (pool \ pool') \cap cluster = {}
  <2>1. CASE Reload(w)
    BY <2>1 DEF Reload, Remove, Retain
  <2>2. CASE CheckDeleted(w)
    BY <2>2 DEF CheckDeleted, Remove, FlagInv
  <2>3. CASE Delete(w) \/ Deleting(w)
    BY <2>3 DEF Delete, Deleting, Retain
  <2>4. CASE wait_for_delete(w)
    BY <2>4 DEF wait_for_delete, Remove, Retain
  <2>5. CASE _run_vdbench_on_pvc(w)
    BY <2>5 DEF _run_vdbench_on_pvc, StartWorkload, _mark_clone_dirty, StopWorkload, books
  <2> QED BY <2>1, <2>2, <2>3, <2>4, <2>5 DEF _delete_tracked_clone
<1>8. InflightExact' /\ PoolWithinLimit' /\ Tracked' /\ ReleaseInv'
  <2>1. x.step \notin CreateSteps
    BY <1>5 DEF CreateSteps
  <2> QED BY <1>2, <1>3, <1>5, <1>7, <2>1, OutsideInv
<1>9. ControlOK'
  <2>1. CASE _delete_tracked_clone(w) \/ _mark_clone_dirty(w)
    <3>1. UNCHANGED Rest
      BY <2>1 DEF _delete_tracked_clone, Reload, CheckDeleted, Delete, Deleting, wait_for_delete,
                  _mark_clone_dirty
    <3> QED BY <1>0, <3>1, RestTypes
  <2>2. CASE StartWorkload(w) \/ StopWorkload(w)
    <3>1. UNCHANGED <<src, todo, act, creates, deletes, victims, io, subject, shutdown, cleaned>>
      BY <2>2 DEF StartWorkload, StopWorkload, Steady
    <3>2. failed' \in BOOLEAN
      BY <1>0, <2>2 DEF StartWorkload, StopWorkload, ControlOK
    <3> QED BY <1>0, <3>1, <3>2 DEF ControlOK
  <2> QED BY <2>1, <2>2 DEF _run_vdbench_on_pvc
<1>10. dirty' \subseteq Names /\ flagged' \subseteq Names /\ FlagInv'
  <2>1. CASE Reload(w)
    BY <1>0, <1>3, <2>1 DEF Reload, Remove, Retain, PvcsOK, FlagInv
  <2>2. CASE CheckDeleted(w)
    BY <1>0, <1>3, <2>2 DEF CheckDeleted, Remove, PvcsOK, FlagInv
  <2>3. CASE Delete(w)
    BY <1>0, <1>3, <2>3 DEF Delete, Retain, PvcsOK, FlagInv
  <2>4. CASE Deleting(w)
    BY <1>0, <1>2, <1>3, <2>4 DEF Deleting, Retain, PvcsOK, FlagInv
  <2>5. CASE wait_for_delete(w)
    BY <1>0, <1>3, <2>5 DEF wait_for_delete, Remove, Retain, PvcsOK, FlagInv
  <2>6. CASE _run_vdbench_on_pvc(w)
    BY <1>0, <1>2, <1>3, <2>6 DEF _run_vdbench_on_pvc, StartWorkload, _mark_clone_dirty,
                                 StopWorkload, books, PvcsOK, FlagInv
  <2> QED BY <2>1, <2>2, <2>3, <2>4, <2>5, <2>6 DEF _delete_tracked_clone
<1>11. terminating' \subseteq Names /\ written' \subseteq Names /\ ran' \subseteq Names
  <2>1. CASE Delete(w)
    BY <1>0, <1>2, <2>1 DEF Delete, PvcsOK
  <2>2. CASE StartWorkload(w)
    BY <1>0, <1>2, <2>2 DEF StartWorkload, PvcsOK
  <2>3. CASE ~(Delete(w) \/ StartWorkload(w))
    BY <1>0, <2>3 DEF _delete_tracked_clone, Reload, CheckDeleted, Deleting, wait_for_delete,
                      _run_vdbench_on_pvc, _mark_clone_dirty, StopWorkload, pvcs, PvcsOK
  <2> QED BY <2>1, <2>2, <2>3
<1>12. PvcsOK' /\ inflight' \in Nat
  BY <1>0, <1>3, <1>7, <1>10, <1>11 DEF PvcsOK, TypeOK
<1>13. TypeOK'
  BY <1>6, <1>9, <1>12 DEF TypeOK, ControlOK, PvcsOK, Record
<1> QED BY <1>6, <1>7, <1>8, <1>10, <1>13

-----------------------------------------------------------------------------
(* Creating clones.                                                        *)

\* A worker that keeps its slot, its clone and the cluster as they are.
LEMMA InsideInv ==
    ASSUME PoolInv, NEW w \in Workers, NEW x, Moves(w, x),
           worker[w].step \in CreateSteps, x.step \in CreateSteps, UNCHANGED <<pool, inflight>>
    PROVE  InflightExact' /\ PoolWithinLimit' /\ Reserving' = Reserving
<1> USE DEF PoolInv
<1>1. Reserving' = Reserving
  BY ReservingChange DEF Reserving
<1> QED BY <1>1 DEF InflightExact, PoolWithinLimit

\* A worker that gives its slot back, with or without an entry for its clone.
LEMMA LeaveInv ==
    ASSUME PoolInv, NEW w \in Workers, NEW x, Moves(w, x),
           worker[w].step \in CreateSteps, x.step \notin CreateSteps, ReleaseOne,
           pool' = pool \/ pool' = pool \cup {worker[w].name}
    PROVE  InflightExact' /\ PoolWithinLimit' /\ inflight' \in Nat /\ Reserving' = Reserving \ {w}
<1> USE DEF PoolInv
<1>1. w \in Reserving /\ Reserving' = Reserving \ {w}
  BY ReservingChange DEF Reserving
<1>2. Cardinality(Reserving \ {w}) = Cardinality(Reserving) - 1 /\ Cardinality(Reserving) \in Nat
  BY <1>1, ReservingFinite, FS_RemoveElement
<1>3. Cardinality(Reserving) # 0
  BY <1>1, ReservingFinite, FS_EmptySet
<1>4. inflight \in Nat /\ inflight > 0 /\ inflight' = inflight - 1
  BY <1>2, <1>3 DEF InflightExact, ReleaseOne
<1>5. InflightExact'
  BY <1>1, <1>2, <1>4 DEF InflightExact
<1>6. IsFiniteSet(pool) /\ Cardinality(pool) \in Nat
  BY FS_Subset, FS_CardinalityType, PoolAssumption DEF TypeOK
<1>7. Cardinality(pool') \in Nat /\ Cardinality(pool') <= Cardinality(pool) + 1
  <2>1. CASE pool' = pool
    BY <1>6, <2>1
  <2>2. CASE worker[w].name \in pool
    <3>1. pool' = pool
      BY <2>2
    <3> QED BY <1>6, <3>1
  <2>3. CASE pool' = pool \cup {worker[w].name} /\ worker[w].name \notin pool
    <3>1. Cardinality(pool') = Cardinality(pool) + 1
      BY <1>6, <2>3, FS_AddElement
    <3> QED BY <1>6, <3>1
  <2> QED BY <2>1, <2>2, <2>3
<1>8. PoolWithinLimit'
  BY <1>4, <1>6, <1>7, PoolAssumption DEF PoolWithinLimit
<1> QED BY <1>1, <1>4, <1>5, <1>8

\* The names held by the others do not change.
LEMMA OthersHold ==
    ASSUME TypeOK, NEW w \in Workers, NEW x, Moves(w, x)
    PROVE  /\ worker'[w] = x
           /\ \A v \in Workers : v # w => worker'[v] = worker[v]
BY DEF Moves, TypeOK

\* Reserving a slot.
LEMMA ReserveInv == ASSUME PoolInv, NEW w \in Workers, _try_reserve_clone_slots(w) PROVE PoolInv'
<1> USE DEF PoolInv
<1>0. TypeOK /\ ControlOK /\ PvcsOK
  BY TypeParts
<1>1. worker[w].step = "reserve" /\ worker[w].name = NoName /\ worker[w].step \notin CreateSteps
  BY DEF _try_reserve_clone_slots, At, NameInv, NameOK, CreateSteps
<1>2. UNCHANGED <<pool, dirty, flagged, cluster, terminating, labelled, written, lost, ran>>
  BY DEF _try_reserve_clone_slots, pvcs
<1>3. ControlOK'
  <2>1. CASE UNCHANGED Rest \/ Raise
    BY <1>0, <2>1, RestTypes
  <2>2. CASE /\ creates' = IF act = "_vdbench_on_clones_parallel" THEN 0 ELSE creates
             /\ UNCHANGED <<Steady, io, failed>>
    BY <1>0, <2>2 DEF ControlOK, Steady
  <2> QED BY <2>1, <2>2 DEF _try_reserve_clone_slots
<1>4. PvcsOK' /\ FlagInv'
  BY <1>0, <1>2 DEF PvcsOK, FlagInv
<1>5. CASE /\ Used + 1 <= MaxPool
           /\ inflight' = inflight + 1
           /\ Goto(w, "create")
  <2>1. PICK x \in Record : Moves(w, x) /\ x.step = "create" /\ x.name = NoName
    BY <1>1, <1>5, GotoMoves DEF WorkerSteps, CreateSteps
  <2>2. worker' \in [Workers -> Record] /\ NameInv'
    BY <2>1, MovesTypes DEF NameOK, Known
  <2>3. w \notin Reserving /\ Reserving' = Reserving \cup {w}
    BY <1>1, <2>1, ReservingChange DEF Reserving, CreateSteps
  <2>4. Cardinality(Reserving') = Cardinality(Reserving) + 1
    BY <2>3, ReservingFinite, FS_AddElement
  <2>5. InflightExact'
    BY <1>5, <2>4 DEF InflightExact
  <2>6. PoolWithinLimit' /\ inflight' \in Nat
    <3>1. Cardinality(pool) \in Nat
      BY FS_Subset, FS_CardinalityType, PoolAssumption DEF TypeOK
    <3> QED BY <1>2, <1>5, <3>1, PoolAssumption DEF PoolWithinLimit, Used, TypeOK
  <2>7. Tracked'
    <3>1. {worker[v].name : v \in Reserving} \subseteq {worker'[v].name : v \in Reserving'}
      BY <2>1, <2>3, OthersHold DEF Reserving
    <3> QED BY <1>2, <3>1 DEF Tracked
  <2>8. ReleaseInv'
    BY <1>2, <2>1, OthersHold DEF ReleaseInv
  <2>9. TypeOK'
    BY <1>3, <1>4, <2>2, <2>6 DEF TypeOK, ControlOK, PvcsOK, Record
  <2> QED BY <1>4, <2>2, <2>5, <2>6, <2>7, <2>8, <2>9
<1>6. CASE Done(w) /\ UNCHANGED inflight
  <2>1. PICK x \in Record : Moves(w, x) /\ x.step = "idle" /\ x.name = NoName
    BY <1>6, DoneMoves
  <2>2. worker' \in [Workers -> Record] /\ NameInv'
    BY <2>1, MovesTypes DEF NameOK, Known
  <2>3. InflightExact' /\ PoolWithinLimit' /\ Tracked' /\ ReleaseInv'
    BY <1>1, <1>2, <1>6, <2>1, OutsideInv DEF CreateSteps
  <2>4. TypeOK'
    BY <1>0, <1>3, <1>4, <1>6, <2>2 DEF TypeOK, ControlOK, PvcsOK, Record
  <2> QED BY <1>4, <2>2, <2>3, <2>4
<1> QED BY <1>5, <1>6 DEF _try_reserve_clone_slots

\* Making the PVC: the worker keeps its slot, and takes a name nobody has.
LEMMA CreateInv == ASSUME PoolInv, NEW w \in Workers, create_pvc_clone(w) PROVE PoolInv'
<1> USE DEF PoolInv
<1>0. TypeOK /\ ControlOK /\ PvcsOK
  BY TypeParts
<1>1. worker[w].step = "create" /\ worker[w].name = NoName /\ worker[w].step \in CreateSteps
  BY DEF create_pvc_clone, At, NameInv, NameOK, CreateSteps
<1>2. UNCHANGED <<pool, inflight, terminating>> /\ (UNCHANGED Rest \/ Raise)
  BY DEF create_pvc_clone
<1>3. ControlOK'
  BY <1>0, <1>2, RestTypes
<1>4. CASE \E n \in Names :
             /\ Unused(n)
             /\ cluster' = cluster \cup {n}
             /\ written' = IF subject \in written THEN written \cup {n} ELSE written \ {n}
             /\ labelled' = labelled \ {n} /\ dirty' = dirty \ {n} /\ flagged' = flagged \ {n}
             /\ ran' = ran \ {n}
             /\ \/ /\ worker' = [worker EXCEPT ![w] = [step |-> "label", name |-> n]]
                   /\ lost' = lost \ {n}
                \/ Goto(w, "release") /\ lost' = lost \cup {n}
  <2>1. PICK n \in Names :
             /\ Unused(n)
             /\ cluster' = cluster \cup {n}
             /\ written' = IF subject \in written THEN written \cup {n} ELSE written \ {n}
             /\ labelled' = labelled \ {n} /\ dirty' = dirty \ {n} /\ flagged' = flagged \ {n}
             /\ ran' = ran \ {n}
             /\ \/ /\ worker' = [worker EXCEPT ![w] = [step |-> "label", name |-> n]]
                   /\ lost' = lost \ {n}
                \/ Goto(w, "release") /\ lost' = lost \cup {n}
    BY <1>4
  <2>2. PvcsOK' /\ FlagInv'
    BY <1>0, <1>2, <2>1 DEF PvcsOK, FlagInv
  <2>3. CASE worker' = [worker EXCEPT ![w] = [step |-> "label", name |-> n]] /\ lost' = lost \ {n}
    <3> DEFINE x == [step |-> "label", name |-> n]
    <3>1. x \in Record /\ x.step = "label" /\ x.name = n
      BY Records DEF WorkerSteps, CreateSteps
    <3>2. Moves(w, x)
      BY <2>3 DEF Moves
    <3> HIDE DEF x
    <3>3. worker' \in [Workers -> Record] /\ NameInv'
      BY <3>1, <3>2, MovesTypes DEF NameOK
    <3>4. InflightExact' /\ PoolWithinLimit' /\ Reserving' = Reserving
      BY <1>1, <1>2, <3>1, <3>2, InsideInv DEF CreateSteps
    <3>5. TypeOK'
      BY <1>0, <1>2, <1>3, <2>2, <3>3 DEF TypeOK, ControlOK, PvcsOK, Record
    <3>6. w \in Reserving /\ NoName \notin cluster
      BY <1>0, <1>1, PoolAssumption DEF Reserving, PvcsOK
    <3>7. Tracked'
      <4>1. \A v \in Reserving : worker[v].name \in cluster => worker'[v].name = worker[v].name
        BY <1>1, <3>2, <3>6, OthersHold DEF Reserving
      <4>2. worker'[w].name = n
        BY <3>1, <3>2, OthersHold
      <4> QED BY <1>2, <2>1, <3>4, <3>6, <4>1, <4>2 DEF Tracked
    <3>8. ReleaseInv'
      <4>1. \A v \in Workers : worker[v].name # n
        BY <2>1 DEF Unused
      <4> QED BY <2>1, <3>1, <3>2, <4>1, OthersHold DEF ReleaseInv
    <3> QED BY <2>2, <3>3, <3>4, <3>5, <3>7, <3>8
  <2>4. CASE Goto(w, "release") /\ lost' = lost \cup {n}
    <3>1. PICK x \in Record : Moves(w, x) /\ x.step = "release" /\ x.name = worker[w].name
      BY <2>4, GotoMoves DEF WorkerSteps, CreateSteps
    <3>2. worker' \in [Workers -> Record] /\ NameInv'
      BY <3>1, MovesTypes DEF NameOK, Known
    <3>3. InflightExact' /\ PoolWithinLimit' /\ Reserving' = Reserving
      BY <1>1, <1>2, <3>1, InsideInv DEF CreateSteps
    <3>4. TypeOK'
      BY <1>0, <1>2, <1>3, <2>2, <3>2 DEF TypeOK, ControlOK, PvcsOK, Record
    <3>5. cluster' \ lost' \subseteq cluster \ lost
      BY <2>1, <2>4
    <3>6. Tracked'
      <4>1. \A v \in Reserving : worker'[v].name = worker[v].name
        BY <3>1, OthersHold DEF Reserving
      <4> QED BY <1>2, <3>3, <3>5, <4>1 DEF Tracked
    <3>7. ReleaseInv'
      <4>1. NoName \notin cluster
        BY <1>0, PoolAssumption DEF PvcsOK
      <4> QED BY <1>1, <3>1, <3>5, <4>1, OthersHold DEF ReleaseInv
    <3> QED BY <2>2, <3>2, <3>3, <3>4, <3>6, <3>7
  <2> QED BY <2>1, <2>3, <2>4
<1>5. CASE Goto(w, "release") /\ UNCHANGED <<cluster, written, labelled, lost, ran, dirty, flagged>>
  <2>1. PICK x \in Record : Moves(w, x) /\ x.step = "release" /\ x.name = NoName
    BY <1>1, <1>5, GotoMoves DEF WorkerSteps, CreateSteps
  <2>2. worker' \in [Workers -> Record] /\ NameInv'
    BY <2>1, MovesTypes DEF NameOK, Known
  <2>3. InflightExact' /\ PoolWithinLimit' /\ Reserving' = Reserving
    BY <1>1, <1>2, <2>1, InsideInv DEF CreateSteps
  <2>4. PvcsOK' /\ FlagInv'
    BY <1>0, <1>2, <1>5 DEF PvcsOK, FlagInv
  <2>5. TypeOK'
    BY <1>0, <1>2, <1>3, <2>2, <2>4 DEF TypeOK, ControlOK, PvcsOK, Record
  <2>6. Tracked'
    <3>1. \A v \in Reserving : worker'[v].name = worker[v].name
      BY <1>1, <2>1, OthersHold DEF Reserving
    <3> QED BY <1>2, <1>5, <2>3, <3>1 DEF Tracked
  <2>7. ReleaseInv'
    <3>1. NoName \notin cluster
      BY <1>0, PoolAssumption DEF PvcsOK
    <3> QED BY <1>5, <2>1, <3>1, OthersHold DEF ReleaseInv
  <2> QED BY <2>2, <2>3, <2>4, <2>5, <2>6, <2>7
<1> QED BY <1>4, <1>5 DEF create_pvc_clone

\* The steps between, at which the worker keeps its slot and its clone.
LEMMA HoldInv ==
    ASSUME PoolInv, NEW w \in Workers,
           \/ _label_owned_resource(w) \/ UndoCreate(w) \/ UndoWait(w)
           \/ wait_for_bound(w) /\ ~Done(w)
    PROVE  PoolInv'
<1> USE DEF PoolInv
<1>0. TypeOK /\ ControlOK /\ PvcsOK
  BY TypeParts
<1>1. /\ worker[w].step \in {"label", "bound", "undo", "undo_wait"}
      /\ UNCHANGED <<pool, inflight, dirty, flagged, cluster, written, ran>>
      /\ UNCHANGED Rest \/ Raise
  BY DEF _label_owned_resource, UndoCreate, UndoWait, wait_for_bound, At, books, pvcs
<1>2. worker[w].name \in Names /\ worker[w].step \in CreateSteps
  BY <1>1 DEF CreateSteps, NameInv, NameOK, Known
<1>3. /\ terminating' \subseteq Names /\ labelled' \subseteq Names /\ lost' \subseteq Names
      /\ lost \subseteq lost'
  BY <1>0, <1>2 DEF _label_owned_resource, UndoCreate, UndoWait, wait_for_bound, pvcs, PvcsOK
<1>4. \/ Goto(w, "bound") \/ Goto(w, "undo") \/ Goto(w, "undo_wait")
      \/ Goto(w, "release") /\ worker[w].name \notin cluster \ lost'
  BY DEF _label_owned_resource, UndoCreate, UndoWait, wait_for_bound
<1>5. PICK x \in Record :
        /\ Moves(w, x) /\ x.name = worker[w].name
        /\ \/ x.step \in {"bound", "undo", "undo_wait"}
           \/ x.step = "release" /\ worker[w].name \notin cluster \ lost'
  BY <1>4, GotoMoves DEF WorkerSteps, CreateSteps
<1>6. worker' \in [Workers -> Record] /\ NameInv'
  <2>1. NameOK(x)
    BY <1>2, <1>5 DEF NameOK
  <2> QED BY <1>5, <2>1, MovesTypes
<1>7. InflightExact' /\ PoolWithinLimit' /\ Reserving' = Reserving
  <2>1. x.step \in CreateSteps
    BY <1>5 DEF CreateSteps
  <2> QED BY <1>1, <1>2, <1>5, <2>1, InsideInv
<1>8. ControlOK'
  BY <1>0, <1>1, RestTypes
<1>9. PvcsOK' /\ FlagInv'
  BY <1>0, <1>1, <1>3 DEF PvcsOK, FlagInv
<1>10. TypeOK'
  BY <1>0, <1>1, <1>6, <1>8, <1>9 DEF TypeOK, ControlOK, PvcsOK, Record
<1>11. Tracked'
  <2>1. \A v \in Reserving : worker'[v].name = worker[v].name
    BY <1>5, OthersHold DEF Reserving
  <2> QED BY <1>1, <1>3, <1>7, <2>1 DEF Tracked
<1>12. ReleaseInv'
  BY <1>1, <1>3, <1>5, OthersHold DEF ReleaseInv
<1> QED BY <1>6, <1>7, <1>9, <1>10, <1>11, <1>12

\* The steps at which it gives its slot back.
LEMMA GiveBackInv ==
    ASSUME PoolInv, NEW w \in Workers, _release_clone_slots(w) \/ (wait_for_bound(w) /\ Done(w))
    PROVE  PoolInv'
<1> USE DEF PoolInv
<1>0. TypeOK /\ ControlOK /\ PvcsOK
  BY TypeParts
<1>1. PICK x \in Record : Moves(w, x) /\ x.step = "idle" /\ x.name = NoName
  BY DoneMoves DEF _release_clone_slots
<1>2. worker[w].step \in CreateSteps /\ x.step \notin CreateSteps
  BY <1>1 DEF _release_clone_slots, wait_for_bound, At, CreateSteps
<1>3. worker' \in [Workers -> Record] /\ NameInv'
  BY <1>1, MovesTypes DEF NameOK, Known
<1>4. UNCHANGED <<dirty, flagged, cluster, terminating, labelled, written, lost, ran>>
  BY DEF _release_clone_slots, wait_for_bound, pvcs
<1>5. CASE _release_clone_slots(w)
  <2>1. ReleaseOne /\ pool' = pool /\ UNCHANGED Rest /\ worker[w].step = "release"
    BY <1>5 DEF _release_clone_slots, At
  <2>2. InflightExact' /\ PoolWithinLimit' /\ inflight' \in Nat /\ Reserving' = Reserving \ {w}
    BY <1>1, <1>2, <2>1, LeaveInv
  <2>3. ControlOK'
    BY <1>0, <2>1, RestTypes
  <2>4. PvcsOK' /\ FlagInv'
    BY <1>0, <1>4, <2>1 DEF PvcsOK, FlagInv
  <2>5. TypeOK'
    BY <1>3, <2>2, <2>3, <2>4 DEF TypeOK, ControlOK, PvcsOK, Record
  <2>6. Tracked'
    <3>1. \A v \in Reserving : v # w => worker'[v].name = worker[v].name
      BY <1>1, OthersHold DEF Reserving
    <3>2. worker[w].name \notin cluster \ lost
      BY <2>1 DEF ReleaseInv
    <3> QED BY <1>4, <2>1, <2>2, <3>1, <3>2 DEF Tracked
  <2>7. ReleaseInv'
    BY <1>1, <1>4, OthersHold DEF ReleaseInv
  <2> QED BY <1>3, <2>2, <2>4, <2>5, <2>6, <2>7
<1>6. CASE wait_for_bound(w) /\ Done(w)
  <2>1. worker[w].step = "bound" /\ worker[w].name \in Names
    BY <1>6 DEF wait_for_bound, At, NameInv, NameOK, Known
  <2>2. ~Goto(w, "undo")
    <3>1. worker'[w].step = "idle"
      BY <1>1, OthersHold
    <3>2. Goto(w, "undo") => worker'[w].step = "undo"
      BY <2>1, Records DEF Goto, Record
    <3> QED BY <3>1, <3>2
  <2>3. /\ ReleaseOne /\ pool' = pool \cup {worker[w].name}
        /\ io' = io \/ io' = io \cup {worker[w].name}
        /\ UNCHANGED <<Steady, creates, failed>>
    BY <1>6, <2>2 DEF wait_for_bound, Track
  <2>4. InflightExact' /\ PoolWithinLimit' /\ inflight' \in Nat /\ Reserving' = Reserving \ {w}
    BY <1>1, <1>2, <2>3, LeaveInv
  <2>5. ControlOK'
    BY <1>0, <2>1, <2>3 DEF ControlOK, Steady
  <2>6. PvcsOK' /\ FlagInv'
    BY <1>0, <1>4, <2>1, <2>3 DEF PvcsOK, FlagInv
  <2>7. TypeOK'
    BY <1>3, <2>4, <2>5, <2>6 DEF TypeOK, ControlOK, PvcsOK, Record
  <2>8. Tracked'
    <3>1. \A v \in Reserving : v # w => worker'[v].name = worker[v].name
      BY <1>1, OthersHold DEF Reserving
    <3> QED BY <1>4, <2>3, <2>4, <3>1 DEF Tracked
  <2>9. ReleaseInv'
    BY <1>1, <1>4, OthersHold DEF ReleaseInv
  <2> QED BY <1>3, <2>4, <2>6, <2>7, <2>8, <2>9
<1> QED BY <1>5, <1>6

-----------------------------------------------------------------------------
(* The theorems.                                                           *)

\* At first there is nothing.
LEMMA InitInv == ASSUME Init PROVE PoolInv
<1>1. \A w \in Workers : worker[w] = Free
  BY DEF Init
<1>2. Reserving = {}
  BY <1>1 DEF Reserving, Free, CreateSteps
<1>3. TypeOK
  <2>1. Free \in Record
    BY DEF Free, Record, WorkerSteps
  <2>2. worker \in [Workers -> Record]
    BY <2>1 DEF Init
  <2>3. todo \in Seq(Actions)
    <3>1. <<>> \in Seq(Actions)
      OBVIOUS
    <3> QED BY <3>1 DEF Init
  <2> QED BY <2>2, <2>3 DEF Init, TypeOK, Record
<1>4. InflightExact /\ PoolWithinLimit
  BY <1>2, FS_EmptySet, PoolAssumption DEF Init, InflightExact, PoolWithinLimit
<1>5. NameInv /\ ReleaseInv
  BY <1>1 DEF NameInv, NameOK, Known, ReleaseInv, Free
<1>6. FlagInv /\ Tracked
  BY DEF Init, FlagInv, Tracked
<1> QED BY <1>3, <1>4, <1>5, <1>6 DEF PoolInv

\* A PVC that disappears.
LEMMA ReclaimInv == ASSUME PoolInv, NEW n \in Names, Reclaim(n) PROVE PoolInv'
<1> USE DEF PoolInv
<1>1. UNCHANGED <<pool, inflight, dirty, flagged, worker>> /\ UNCHANGED control
      /\ cluster' = cluster \ {n} /\ lost' = lost \ {n}
  BY DEF Reclaim, books
<1>2. TypeOK'
  BY <1>1 DEF TypeOK, Reclaim, control
<1>3. Reserving' = Reserving
  BY <1>1 DEF Reserving
<1>4. NameInv' /\ InflightExact' /\ PoolWithinLimit' /\ FlagInv'
  BY <1>1, <1>3 DEF NameInv, InflightExact, PoolWithinLimit, FlagInv
<1>5. Tracked' /\ ReleaseInv'
  BY <1>1, <1>3 DEF Tracked, ReleaseInv
<1> QED BY <1>2, <1>4, <1>5

\* Doing nothing.
LEMMA StutterInv == ASSUME PoolInv, UNCHANGED vars PROVE PoolInv'
<1> USE DEF PoolInv
<1>1. /\ UNCHANGED <<pool, inflight, dirty, flagged, worker>>
      /\ UNCHANGED <<cluster, terminating, labelled, written, lost, ran>> /\ UNCHANGED control
  BY DEF vars, books, pvcs
<1>2. TypeOK'
  BY <1>1 DEF TypeOK, control
<1>3. Reserving' = Reserving
  BY <1>1 DEF Reserving
<1>4. NameInv' /\ InflightExact' /\ PoolWithinLimit' /\ FlagInv'
  BY <1>1, <1>3 DEF NameInv, InflightExact, PoolWithinLimit, FlagInv
<1>5. Tracked' /\ ReleaseInv'
  BY <1>1, <1>3 DEF Tracked, ReleaseInv
<1> QED BY <1>2, <1>4, <1>5

\* One step.
LEMMA NextInv == ASSUME PoolInv, [Next]_vars PROVE PoolInv'
<1>1. CASE Thread \/ request_shutdown
  BY <1>1, ThreadInv
<1>2. ASSUME NEW w \in Workers, Begins(w) PROVE PoolInv'
  BY <1>2, BeginsInv
<1>3. ASSUME NEW w \in Workers, Works(w) PROVE PoolInv'
  <2>1. CASE _delete_tracked_clone(w) \/ _run_vdbench_on_pvc(w)
    BY <2>1, OtherWorkInv
  <2>2. CASE _create_and_track_clone(w)
    BY <2>2, ReserveInv, CreateInv, HoldInv, GiveBackInv DEF _create_and_track_clone
  <2> QED BY <1>3, <2>1, <2>2 DEF Works
<1>4. ASSUME NEW n \in Names, Reclaim(n) PROVE PoolInv'
  BY <1>4, ReclaimInv
<1>5. CASE UNCHANGED vars
  BY <1>5, StutterInv
<1> QED BY <1>1, <1>2, <1>3, <1>4, <1>5 DEF Next, Terminated

\* Only a delete removes entries, and only of clones that are gone.
LEMMA RemovalStep == ASSUME PoolInv, [Next]_vars PROVE (pool \ pool') \cap cluster = {}
<1>1. ASSUME NEW w \in Workers, _delete_tracked_clone(w) \/ _run_vdbench_on_pvc(w)
      PROVE  (pool \ pool') \cap cluster = {}
  BY <1>1, OtherWorkInv
<1>2. ASSUME NEW w \in Workers, _create_and_track_clone(w) PROVE pool \subseteq pool'
  BY <1>2 DEF _create_and_track_clone, _try_reserve_clone_slots, create_pvc_clone,
     _label_owned_resource, wait_for_bound, Track, UndoCreate, UndoWait, _release_clone_slots, books
<1>3. ASSUME NEW w \in Workers, Begins(w) PROVE pool' = pool
  BY <1>3 DEF Begins, BeginCreate, BeginDelete, BeginVictim, BeginIo, books
<1>4. CASE Thread \/ request_shutdown \/ UNCHANGED vars \/ \E n \in Names : Reclaim(n)
  <2>1. UNCHANGED books
    BY <1>4 DEF Thread, run, BeginAction, StopActions, EndAction, cleanup_all, request_shutdown,
       _cleanup_orphan_aggressive_resources, Reclaim, vars
  <2>2. pool' = pool
    BY <2>1 DEF books
  <2> QED BY <2>2
<1> QED BY <1>1, <1>2, <1>3, <1>4 DEF Next, Works, Terminated

\* The inductive invariant holds in every reachable state.
THEOREM Invariance == Spec => []PoolInv
<1>1. Init => PoolInv
  BY InitInv
<1>2. PoolInv /\ [Next]_vars => PoolInv'
  BY NextInv
<1> QED BY <1>1, <1>2, PTL DEF Spec

\* The pool, its counter, the cluster's PVCs and the workers stay well typed.
THEOREM PoolTypeCorrect == Spec => []TypeOK
<1>1. PoolInv => TypeOK
  BY DEF PoolInv
<1> QED BY <1>1, Invariance, PTL

\* No path of _create_and_track_clone loses a reservation or returns one twice.
THEOREM ReservationsExact == Spec => []InflightExact
<1>1. PoolInv => InflightExact
  BY DEF PoolInv
<1> QED BY <1>1, Invariance, PTL

\* Entries and reservations together never exceed max_pool_size.
THEOREM PoolLimitKept == Spec => []PoolWithinLimit
<1>1. PoolInv => PoolWithinLimit
  BY DEF PoolInv
<1> QED BY <1>1, Invariance, PTL

\* Every clone in the cluster is an entry of the pool or in the hands of the worker
\* that makes it, except those a create or an undo left behind by failing itself.
THEOREM NothingUntracked == Spec => []Tracked
<1>1. PoolInv => Tracked
  BY DEF PoolInv
<1> QED BY <1>1, Invariance, PTL

\* An entry leaves the pool only when its PVC is gone.
THEOREM NoEntryLost == Spec => RemovedMeansGone
<1>1. PoolInv /\ [Next]_vars => [(pool \ pool') \cap cluster = {}]_vars
  BY RemovalStep
<1> QED BY <1>1, Invariance, PTL DEF Spec, RemovedMeansGone

\* max_pool_size also bounds the clones that exist in the cluster, except those left
\* behind: each is an entry or the clone of a worker with a slot.
THEOREM ClusterLimitKept == Spec => []ClusterWithinLimit
<1>1. PoolInv => ClusterWithinLimit
  <2> DEFINE Kept == cluster \ lost
  <2> SUFFICES ASSUME PoolInv
               PROVE  Cardinality(Kept) <= MaxPool
    BY DEF ClusterWithinLimit
  <2> USE DEF PoolInv
  <2> DEFINE Held == {worker[w].name : w \in Reserving}
  <2>1. IsFiniteSet(pool) /\ Cardinality(pool) \in Nat
    BY FS_Subset, FS_CardinalityType, PoolAssumption DEF TypeOK
  <2>2. IsFiniteSet(Held) /\ Cardinality(Held) <= Cardinality(Reserving)
    <3> DEFINE f == [w \in Reserving |-> worker[w].name]
    <3>1. f \in Surjection(Reserving, Held)
      BY DEF Surjection
    <3> HIDE DEF f
    <3> QED BY <3>1, FS_Surjection, ReservingFinite
  <2>3. Cardinality(Held) \in Nat
    BY <2>2, FS_CardinalityType
  <2>4. Kept \subseteq pool \cup Held
    BY DEF Tracked
  <2> HIDE DEF Held, Kept
  <2>5. IsFiniteSet(pool \cup Held) /\ Cardinality(pool \cup Held) <= Cardinality(pool) + Cardinality(Held)
    <3>1. IsFiniteSet(pool \cap Held)
      BY <2>1, FS_Subset
    <3>2. Cardinality(pool \cap Held) \in Nat
      BY <3>1, FS_CardinalityType
    <3> QED BY <2>1, <2>2, <2>3, <3>2, FS_Union
  <2>6. Cardinality(Kept) <= Cardinality(pool \cup Held)
        /\ Cardinality(Kept) \in Nat /\ Cardinality(pool \cup Held) \in Nat
    BY <2>4, <2>5, FS_Subset, FS_CardinalityType
  <2> QED BY <2>1, <2>2, <2>3, <2>5, <2>6, ReservingFinite, PoolAssumption
          DEF InflightExact, PoolWithinLimit
<1> QED BY <1>1, Invariance, PTL

-----------------------------------------------------------------------------
(* The data on the clones.                                                 *)

LEMMA InitData == ASSUME Init PROVE DataInv
<1>1. \A w \in Workers : worker[w] = Free
  BY DEF Init
<1>2. AloneInv
  BY <1>1 DEF Init, AloneInv, NothingLeft, Quiet
<1>3. MakerInv
  BY <1>1 DEF MakerInv, Reserving, Free, CreateSteps
<1>4. WrittenInv /\ NoCheckAfterWorkload
  BY DEF Init, WrittenInv, NoCheckAfterWorkload
<1> QED BY <1>2, <1>3, <1>4 DEF DataInv

\* A worker only does something for an action that is not a check.
LEMMA Acting ==
    ASSUME AloneInv, NEW w \in Workers, Begins(w) \/ Works(w)
    PROVE  act \notin Checks \cup {"none"} /\ UNCHANGED <<act, subject>>
<1>1. UNCHANGED <<act, subject>>
  <2>1. CASE Begins(w)
    BY <2>1 DEF Begins, BeginCreate, BeginDelete, BeginVictim, BeginIo, Steady
  <2>2. CASE _create_and_track_clone(w)
    BY <2>2 DEF _create_and_track_clone, _try_reserve_clone_slots, create_pvc_clone,
       _label_owned_resource, wait_for_bound, UndoCreate, UndoWait, _release_clone_slots, Raise,
       Rest, Steady
  <2>3. CASE _delete_tracked_clone(w) \/ _run_vdbench_on_pvc(w)
    BY <2>3 DEF _delete_tracked_clone, Reload, CheckDeleted, Delete, Deleting, wait_for_delete,
       _run_vdbench_on_pvc, StartWorkload, _mark_clone_dirty, StopWorkload, Rest, Steady
  <2> QED BY <2>1, <2>2, <2>3 DEF Works
<1>2. ~NothingLeft
  <2>1. CASE Begins(w)
    BY <2>1 DEF Begins, BeginCreate, BeginDelete, BeginVictim, BeginIo, NothingLeft
  <2>2. CASE Works(w)
    <3>1. worker[w].step # "idle"
      BY <2>2 DEF Works, _create_and_track_clone, _try_reserve_clone_slots, create_pvc_clone,
         _label_owned_resource, wait_for_bound, UndoCreate, UndoWait, _release_clone_slots,
         _delete_tracked_clone, Reload, CheckDeleted, Delete, Deleting, wait_for_delete,
         _run_vdbench_on_pvc, StartWorkload, _mark_clone_dirty, StopWorkload, At
    <3> QED BY <3>1 DEF NothingLeft, Quiet, Free
  <2> QED BY <2>1, <2>2
<1> QED BY <1>1, <1>2 DEF AloneInv

\* What the operation's thread and the cluster leave alone.
LEMMA ThreadLeaves ==
    ASSUME Thread \/ request_shutdown
    PROVE  UNCHANGED <<pool, dirty, ran, worker>>
BY DEF Thread, run, BeginAction, StopActions, EndAction, cleanup_all, request_shutdown,
       _cleanup_orphan_aggressive_resources, books, pvcs

\* The entry an action chooses: none, or, for a check or a nested clone, one of the
\* pool, which for a check of the data is not a dirty one.
LEMMA PlanChoice ==
    ASSUME NEW a \in Actions, Plan(a)
    PROVE  /\ act' = a
           /\ a \in Checks => creates' = 0 /\ deletes' = 0 /\ victims' = {} /\ io' = {}
           /\ subject' # NoName => a \in Checks \cup {"_nested_clone"} /\ subject' \in pool
           /\ (a = "_integrity_verify_clones" /\ subject' # NoName) => subject' \notin dirty
<1>2. CASE PlanCreate(a)
  BY <1>2 DEF PlanCreate, ParallelCreates, Begin, Checks, PoolActions
<1>3. CASE PlanIo(a)
  BY <1>3 DEF PlanIo, Begin, Checks, PoolActions
<1>4. CASE PlanDelete(a)
  BY <1>4 DEF PlanDelete, Begin, Checks, PoolActions
<1>5. CASE PlanCheck(a)
  BY <1>5 DEF PlanCheck, Begin, Checks, PoolActions
<1> QED BY <1>2, <1>3, <1>4, <1>5 DEF Plan

LEMMA NextAlone == ASSUME PoolInv, AloneInv, [Next]_vars PROVE AloneInv'
<1>1. CASE BeginAction
  <2>1. Head(todo) \in Actions /\ Plan(Head(todo)) /\ act = "none" /\ worker' = worker
    BY <1>1 DEF BeginAction, PoolInv, TypeOK
  <2>2. PICK a \in Actions : a = Head(todo)
    BY <2>1
  <2>3. /\ act' = a
        /\ a \in Checks => creates' = 0 /\ deletes' = 0 /\ victims' = {} /\ io' = {}
        /\ subject' # NoName => a \in Checks \cup {"_nested_clone"}
    BY <2>1, <2>2, PlanChoice
  <2>4. act' # "none"
    BY <2>3, PoolAssumption DEF CreateActions, PoolActions, ParallelCreates
  <2>5. Quiet'
    BY <2>1 DEF AloneInv, NothingLeft, Quiet
  <2> QED BY <2>3, <2>4, <2>5 DEF AloneInv, NothingLeft
<1>2. CASE run \/ StopActions \/ EndAction \/ request_shutdown \/ _cleanup_orphan_aggressive_resources
  <2>1. UNCHANGED <<creates, deletes, victims, io, worker>>
    BY <1>2 DEF run, StopActions, EndAction, request_shutdown, _cleanup_orphan_aggressive_resources
  <2>2. NothingLeft <=> NothingLeft'
    BY <2>1 DEF NothingLeft, Quiet
  <2>3. \/ UNCHANGED <<act, subject>>
        \/ act' = "none" /\ NothingLeft /\ subject' = NoName
        \/ act' = "none" /\ NothingLeft /\ subject' = subject /\ act = "cleanup_all"
    BY <1>2 DEF run, StopActions, EndAction, request_shutdown, _cleanup_orphan_aggressive_resources
  <2> QED BY <2>2, <2>3 DEF AloneInv, Checks, PoolActions
<1>3. CASE cleanup_all
  BY <1>3 DEF cleanup_all, Begin, AloneInv, Checks, PoolActions
<1>4. ASSUME NEW w \in Workers, Begins(w) \/ Works(w) PROVE AloneInv'
  BY <1>4, Acting DEF AloneInv
<1>5. CASE UNCHANGED vars \/ \E n \in Names : Reclaim(n)
  BY <1>5 DEF Reclaim, vars, control, AloneInv, NothingLeft, Quiet
<1> QED BY <1>1, <1>2, <1>3, <1>4, <1>5 DEF Next, Thread, Terminated

-----------------------------------------------------------------------------
(* Who makes which clone.                                                  *)

Taken == pool \cup io \cup victims \cup ran

\* A worker goes on without a slot, or keeps its clone or gives it up.
LEMMA MakerStep ==
    ASSUME TypeOK, MakerInv, NEW w \in Workers, NEW x, Moves(w, x),
           \/ /\ x.step \notin CreateSteps
              /\ x.name \in {NoName, worker[w].name} \cup pool \cup io \cup victims
              /\ Taken' \subseteq Taken \cup {worker[w].name}
           \/ /\ worker[w].step \in CreateSteps \/ x.name = NoName
              /\ x.name \in {NoName, worker[w].name}
              /\ Taken' \subseteq Taken
    PROVE  MakerInv'
<1> SUFFICES ASSUME NEW v \in Workers, worker'[v].step \in CreateSteps, worker'[v].name # NoName
             PROVE  /\ worker'[v].name \notin Taken'
                    /\ \A u \in Workers \ {v} : worker'[u].name # worker'[v].name
  BY DEF MakerInv, Reserving, Taken
<1>1. /\ worker'[w] = x
      /\ \A u \in Workers : u # w => worker'[u] = worker[u]
  BY OthersHold
<1>2. CASE v = w
  <2>1. worker[w].step \in CreateSteps /\ x.name = worker[w].name /\ Taken' \subseteq Taken
    BY <1>1, <1>2
  <2>2. /\ worker[w].name \notin Taken
        /\ \A u \in Workers \ {w} : worker[u].name # worker[w].name
    BY <1>1, <1>2, <2>1 DEF MakerInv, Reserving, Taken
  <2> QED BY <1>1, <1>2, <2>1, <2>2
<1>3. CASE v # w
  <2>1. worker'[v] = worker[v]
    BY <1>1, <1>3
  <2>2. /\ worker[v].name \notin Taken
        /\ \A u \in Workers \ {v} : worker[u].name # worker[v].name
    BY <2>1 DEF MakerInv, Reserving, Taken
  <2>3. worker[v].name \notin Taken'
    BY <1>3, <2>2
  <2>4. x.name # worker[v].name
    BY <1>3, <2>1, <2>2 DEF Taken
  <2> QED BY <1>1, <2>1, <2>2, <2>3, <2>4
<1> QED BY <1>2, <1>3

LEMMA RaiseKeeps ==
    ASSUME UNCHANGED Rest \/ Raise
    PROVE  io' \subseteq io /\ victims' = victims
BY DEF Rest, Raise, Steady

LEMMA BeginsMaker == ASSUME PoolInv, MakerInv, NEW w \in Workers, Begins(w) PROVE MakerInv'
<1>0. TypeOK
  BY DEF PoolInv
<1>1. Taken' \subseteq Taken
  BY DEF Taken, Begins, BeginCreate, BeginDelete, BeginVictim, BeginIo, books, pvcs, Steady
<1>2. CASE BeginCreate(w)
  <2>1. PICK x \in Record : Moves(w, x) /\ x.step = "reserve" /\ x.name = worker[w].name
    BY <1>0, <1>2, GotoMoves DEF BeginCreate, WorkerSteps
  <2> QED BY <1>0, <1>1, <2>1, MakerStep DEF CreateSteps
<1>3. CASE UNCHANGED worker
  <2>1. \A v \in Workers : worker'[v] = worker[v]
    BY <1>3
  <2> QED BY <1>1, <2>1 DEF MakerInv, Reserving, Taken
<1>4. CASE ~BeginCreate(w) /\ worker' # worker
  <2>1. PICK e \in pool \cup io \cup victims, s \in {"reload", "start"} :
          Moves(w, [step |-> s, name |-> e])
    BY <1>4 DEF Begins, BeginDelete, BeginVictim, BeginIo, Moves
  <2> DEFINE x == [step |-> s, name |-> e]
  <2>2. x.step \notin CreateSteps /\ x.name \in pool \cup io \cup victims
    BY <2>1 DEF CreateSteps
  <2>3. Moves(w, x)
    BY <2>1
  <2> HIDE DEF x
  <2> QED BY <1>0, <1>1, <2>2, <2>3, MakerStep
<1> QED BY <1>2, <1>3, <1>4

LEMMA OtherWorkMaker ==
    ASSUME PoolInv, MakerInv, NEW w \in Workers, _delete_tracked_clone(w) \/ _run_vdbench_on_pvc(w)
    PROVE  MakerInv'
<1>0. TypeOK
  BY DEF PoolInv
<1>1. \/ Done(w) \/ Goto(w, "check") \/ Goto(w, "delete") \/ Goto(w, "deleting") \/ Goto(w, "wait")
      \/ Goto(w, "mark") \/ Goto(w, "io")
  BY DEF _delete_tracked_clone, Reload, CheckDeleted, Delete, Deleting, wait_for_delete, Remove,
         Retain, _run_vdbench_on_pvc, StartWorkload, _mark_clone_dirty, StopWorkload
<1>2. PICK x \in Record :
        Moves(w, x) /\ x.step \notin CreateSteps /\ x.name \in {NoName, worker[w].name}
  <2>1. {"idle", "check", "delete", "deleting", "wait", "mark", "io"} \subseteq WorkerSteps \ CreateSteps
    BY DEF WorkerSteps, CreateSteps
  <2> QED BY <1>0, <1>1, <2>1, GotoMoves, DoneMoves
<1>3. pool' \subseteq pool /\ UNCHANGED <<io, victims>>
  BY DEF _delete_tracked_clone, Reload, CheckDeleted, Delete, Deleting, wait_for_delete, Remove,
         Retain, _run_vdbench_on_pvc, StartWorkload, _mark_clone_dirty, StopWorkload, books, Rest, Steady
<1>4. ran' \subseteq ran \cup {worker[w].name}
  <2>1. CASE StartWorkload(w)
    BY <2>1 DEF StartWorkload
  <2>2. CASE ~StartWorkload(w)
    BY <2>2 DEF _delete_tracked_clone, Reload, CheckDeleted, Delete, Deleting, wait_for_delete,
                _run_vdbench_on_pvc, _mark_clone_dirty, StopWorkload, pvcs
  <2> QED BY <2>1, <2>2
<1>5. Taken' \subseteq Taken \cup {worker[w].name}
  BY <1>3, <1>4 DEF Taken
<1> QED BY <1>0, <1>2, <1>5, MakerStep

LEMMA CreateMaker ==
    ASSUME PoolInv, AloneInv, MakerInv, NEW w \in Workers, _create_and_track_clone(w)
    PROVE  MakerInv'
<1>0. TypeOK
  BY DEF PoolInv
<1>1. CASE _try_reserve_clone_slots(w)
  <2>1. worker[w].name = NoName
    BY <1>1 DEF _try_reserve_clone_slots, At, PoolInv, NameInv, NameOK
  <2>2. PICK x \in Record : Moves(w, x) /\ x.name = NoName
    <3>1. Goto(w, "create") \/ Done(w)
      BY <1>1 DEF _try_reserve_clone_slots
    <3>2. "create" \in WorkerSteps
      BY DEF WorkerSteps, CreateSteps
    <3> QED BY <1>0, <2>1, <3>1, <3>2, GotoMoves, DoneMoves
  <2>3. Taken' \subseteq Taken
    <3>1. UNCHANGED <<pool, ran>>
      BY <1>1 DEF _try_reserve_clone_slots, pvcs
    <3>2. io' \subseteq io /\ victims' = victims
      BY <1>1, RaiseKeeps DEF _try_reserve_clone_slots, Steady
    <3> QED BY <3>1, <3>2 DEF Taken
  <2> QED BY <1>0, <2>2, <2>3, MakerStep
<1>2. CASE create_pvc_clone(w)
  <2>0. worker[w].name = NoName /\ pool' = pool /\ io' \subseteq io /\ victims' = victims
    <3>1. worker[w].name = NoName
      BY <1>2 DEF create_pvc_clone, At, PoolInv, NameInv, NameOK
    <3>2. pool' = pool /\ (UNCHANGED Rest \/ Raise)
      BY <1>2 DEF create_pvc_clone
    <3> QED BY <3>1, <3>2, RaiseKeeps
  <2>2. CASE Goto(w, "release")
    <3>1. PICK x \in Record : Moves(w, x) /\ x.name = NoName
      BY <1>0, <2>0, <2>2, GotoMoves DEF WorkerSteps, CreateSteps
    <3>2. ran' \subseteq ran
      BY <1>2 DEF create_pvc_clone
    <3>3. Taken' \subseteq Taken
      BY <2>0, <3>2 DEF Taken
    <3> QED BY <1>0, <3>1, <3>3, MakerStep
  <2>3. CASE ~Goto(w, "release")
    <3>1. PICK n \in Names :
            /\ Unused(n) /\ ran' = ran \ {n}
            /\ worker' = [worker EXCEPT ![w] = [step |-> "label", name |-> n]]
      BY <1>2, <2>3 DEF create_pvc_clone
    <3> DEFINE x == [step |-> "label", name |-> n]
    <3>2. Moves(w, x) /\ x.name = n
      BY <3>1 DEF Moves
    <3> HIDE DEF x
    <3>3. worker'[w] = x /\ \A v \in Workers : v # w => worker'[v] = worker[v]
      BY <1>0, <3>2, OthersHold
    <3>4. n \notin Taken' /\ \A v \in Workers : worker[v].name # n
      BY <2>0, <3>1 DEF Taken, Unused
    <3>5. Taken' \subseteq Taken
      BY <2>0, <3>1 DEF Taken
    <3> SUFFICES ASSUME NEW v \in Workers, worker'[v].step \in CreateSteps, worker'[v].name # NoName
                 PROVE  /\ worker'[v].name \notin Taken'
                        /\ \A u \in Workers \ {v} : worker'[u].name # worker'[v].name
      BY DEF MakerInv, Reserving, Taken
    <3>6. CASE v = w
      BY <3>2, <3>3, <3>4, <3>6
    <3>7. CASE v # w
      <4>1. worker'[v] = worker[v]
        BY <3>3, <3>7
      <4>2. /\ worker[v].name \notin Taken
            /\ \A u \in Workers \ {v} : worker[u].name # worker[v].name
        BY <4>1 DEF MakerInv, Reserving, Taken
      <4> QED BY <3>2, <3>3, <3>4, <3>5, <4>1, <4>2
    <3> QED BY <3>6, <3>7
  <2> QED BY <2>2, <2>3
<1>3. CASE \/ _label_owned_resource(w) \/ UndoCreate(w) \/ UndoWait(w)
           \/ wait_for_bound(w) /\ ~Done(w)
  <2>1. /\ worker[w].step \in CreateSteps /\ UNCHANGED <<pool, ran>>
        /\ UNCHANGED Rest \/ Raise
    BY <1>3 DEF _label_owned_resource, UndoCreate, UndoWait, wait_for_bound, At, books, pvcs, CreateSteps
  <2>2. Goto(w, "bound") \/ Goto(w, "undo") \/ Goto(w, "undo_wait") \/ Goto(w, "release")
    BY <1>3 DEF _label_owned_resource, UndoCreate, UndoWait, wait_for_bound
  <2>3. PICK x \in Record : Moves(w, x) /\ x.name = worker[w].name
    BY <1>0, <2>2, GotoMoves DEF WorkerSteps, CreateSteps
  <2>4. Taken' \subseteq Taken
    BY <2>1, RaiseKeeps DEF Taken
  <2> QED BY <1>0, <2>1, <2>3, <2>4, MakerStep
<1>4. CASE _release_clone_slots(w) \/ (wait_for_bound(w) /\ Done(w))
  <2>1. PICK x \in Record : Moves(w, x) /\ x.step = "idle" /\ x.name = NoName
    BY <1>0, <1>4, DoneMoves DEF _release_clone_slots
  <2>2. Taken' \subseteq Taken \cup {worker[w].name}
    <3>1. /\ ran' = ran /\ pool' \subseteq pool \cup {worker[w].name}
      BY <1>4 DEF _release_clone_slots, wait_for_bound, Track, pvcs
    <3>2. io' \subseteq io \cup {worker[w].name} /\ victims' = victims
      BY <1>4, RaiseKeeps DEF _release_clone_slots, wait_for_bound, Steady
    <3> QED BY <3>1, <3>2 DEF Taken
  <2>3. x.step \notin CreateSteps
    BY <2>1 DEF CreateSteps
  <2> QED BY <1>0, <2>1, <2>2, <2>3, MakerStep
<1> QED BY <1>1, <1>2, <1>3, <1>4 DEF _create_and_track_clone

LEMMA NextMaker == ASSUME PoolInv, AloneInv, MakerInv, [Next]_vars PROVE MakerInv'
<1>1. CASE Thread \/ request_shutdown
  <2>1. UNCHANGED <<pool, ran, worker>>
    BY <1>1, ThreadLeaves
  <2>2. CASE act = "none"
    <3>1. Quiet
      BY <2>2 DEF AloneInv, NothingLeft
    <3> QED BY <2>1, <3>1 DEF MakerInv, Reserving, Quiet, Free, CreateSteps
  <2>3. CASE act # "none"
    <3>1. UNCHANGED <<victims, io>>
      BY <1>1, <2>3 DEF Thread, run, BeginAction, StopActions, EndAction, cleanup_all,
         request_shutdown, _cleanup_orphan_aggressive_resources
    <3> QED BY <2>1, <3>1 DEF MakerInv, Reserving
  <2> QED BY <2>2, <2>3
<1>2. ASSUME NEW w \in Workers, Begins(w) \/ Works(w) PROVE MakerInv'
  BY <1>2, BeginsMaker, OtherWorkMaker, CreateMaker DEF Works
<1>3. CASE \E n \in Names : Reclaim(n)
  BY <1>3 DEF Reclaim, books, control, MakerInv, Reserving
<1>4. CASE UNCHANGED vars
  BY <1>4 DEF vars, books, pvcs, control, MakerInv, Reserving
<1> QED BY <1>1, <1>2, <1>3, <1>4 DEF Next, Terminated

-----------------------------------------------------------------------------
(* Where a workload was started.                                           *)

\* A worker's step is its own.
LEMMA OthersStay ==
    ASSUME TypeOK, NEW w \in Workers, Begins(w) \/ Works(w)
    PROVE  \A v \in Workers : v # w => worker'[v] = worker[v]
<1>1. CASE Begins(w)
  BY <1>1 DEF TypeOK, Begins, BeginCreate, BeginDelete, BeginVictim, BeginIo, Goto
<1>2. CASE _create_and_track_clone(w)
  BY <1>2 DEF TypeOK, _create_and_track_clone, _try_reserve_clone_slots, create_pvc_clone,
     _label_owned_resource, wait_for_bound, UndoCreate, UndoWait, _release_clone_slots, Goto, Done
<1>3. CASE _delete_tracked_clone(w) \/ _run_vdbench_on_pvc(w)
  BY <1>3 DEF TypeOK, _delete_tracked_clone, Reload, CheckDeleted, Delete, Deleting,
     wait_for_delete, Remove, Retain, _run_vdbench_on_pvc, StartWorkload, _mark_clone_dirty,
     StopWorkload, Goto, Done
<1> QED BY <1>1, <1>2, <1>3 DEF Works

\* Only the worker that marks an entry ceases to be about to.
LEMMA MarkingStays ==
    ASSUME TypeOK, NEW w \in Workers, Begins(w) \/ Works(w)
    PROVE  /\ worker[w].step # "mark" => Marking \subseteq Marking'
           /\ Marking \subseteq Marking' \cup {worker[w].name}
<1>1. \A v \in Workers : v # w => worker'[v] = worker[v]
  BY OthersStay
<1> QED BY <1>1 DEF Marking

LEMMA NextWritten ==
    ASSUME PoolInv, AloneInv, MakerInv, WrittenInv, [Next]_vars
    PROVE  WrittenInv'
<1>0. TypeOK
  BY DEF PoolInv
<1>1. CASE Thread \/ request_shutdown
  BY <1>1, ThreadLeaves DEF WrittenInv, Marking
<1>2. CASE UNCHANGED vars \/ \E n \in Names : Reclaim(n)
  BY <1>2 DEF vars, books, pvcs, Reclaim, WrittenInv, Marking
<1>3. ASSUME NEW w \in Workers, Begins(w) PROVE WrittenInv'
  <2>1. worker[w].step = "idle" /\ UNCHANGED <<pool, dirty, ran>>
    BY <1>3 DEF Begins, BeginCreate, BeginDelete, BeginVictim, BeginIo, At, books, pvcs
  <2> QED BY <1>0, <1>3, <2>1, MarkingStays DEF WrittenInv
<1>4. ASSUME NEW w \in Workers, _create_and_track_clone(w) PROVE WrittenInv'
  <2>0. Works(w)
    BY <1>4 DEF Works
  <2>1. worker[w].step # "mark"
    BY <1>4 DEF _create_and_track_clone, _try_reserve_clone_slots, create_pvc_clone, At,
       _label_owned_resource, wait_for_bound, UndoCreate, UndoWait, _release_clone_slots
  <2>2. Marking \subseteq Marking'
    BY <1>0, <2>0, <2>1, MarkingStays
  <2>3. CASE create_pvc_clone(w)
    <3>2. CASE UNCHANGED <<ran, dirty>>
      BY <2>2, <2>3, <3>2 DEF create_pvc_clone, WrittenInv
    <3>3. CASE ~UNCHANGED <<ran, dirty>>
      <4>1. PICK n \in Names : ran' = ran \ {n} /\ dirty' = dirty \ {n} /\ n \notin pool
        BY <2>3, <3>3 DEF create_pvc_clone, Unused
      <4>2. pool' = pool
        BY <2>3 DEF create_pvc_clone
      <4> QED BY <2>2, <4>1, <4>2 DEF WrittenInv
    <3> QED BY <3>2, <3>3
  <2>4. CASE wait_for_bound(w)
    <3>1. pool' \subseteq pool \cup {worker[w].name} /\ UNCHANGED <<ran, dirty>>
      BY <2>4 DEF wait_for_bound, Track, pvcs
    <3>2. worker[w].name \notin ran
      <4>1. w \in Reserving
        BY <2>4 DEF wait_for_bound, At, Reserving, CreateSteps
      <4>2. worker[w].name \in Names
        BY <2>4 DEF wait_for_bound, At, PoolInv, NameInv, NameOK, Known
      <4> QED BY <4>1, <4>2, PoolAssumption DEF MakerInv
    <3> QED BY <2>2, <3>1, <3>2 DEF WrittenInv
  <2>5. CASE ~create_pvc_clone(w) /\ ~wait_for_bound(w)
    <3>1. UNCHANGED <<pool, ran, dirty>>
      BY <1>4, <2>5 DEF _create_and_track_clone, _try_reserve_clone_slots, _label_owned_resource,
         UndoCreate, UndoWait, _release_clone_slots, books, pvcs
    <3> QED BY <2>2, <3>1 DEF WrittenInv
  <2> QED BY <2>3, <2>4, <2>5
<1>5. ASSUME NEW w \in Workers, _delete_tracked_clone(w) PROVE WrittenInv'
  <2>1. worker[w].step # "mark"
    BY <1>5 DEF _delete_tracked_clone, Reload, CheckDeleted, Delete, Deleting, wait_for_delete, At
  <2>2. Marking \subseteq Marking'
    BY <1>0, <1>5, <2>1, MarkingStays DEF Works
  <2>3. \/ UNCHANGED <<pool, dirty>>
        \/ pool' = pool \ {worker[w].name} /\ dirty' = dirty \ {worker[w].name}
    BY <1>5 DEF _delete_tracked_clone, Reload, CheckDeleted, Delete, Deleting, wait_for_delete,
       Remove, Retain
  <2>4. ran' = ran
    BY <1>5 DEF _delete_tracked_clone, Reload, CheckDeleted, Delete, Deleting, wait_for_delete, pvcs
  <2> QED BY <2>2, <2>3, <2>4 DEF WrittenInv
<1>6. ASSUME NEW w \in Workers, StartWorkload(w) PROVE WrittenInv'
  <2>1. Marking \subseteq Marking'
    BY <1>0, <1>6, MarkingStays DEF Works, _run_vdbench_on_pvc, StartWorkload, At
  <2>2. UNCHANGED <<pool, dirty>>
    BY <1>6 DEF StartWorkload, books
  <2>3. CASE ran' = ran
    BY <2>1, <2>2, <2>3 DEF WrittenInv
  <2>4. CASE ran' # ran
    <3>1. ran' = ran \cup {worker[w].name} /\ Goto(w, "mark")
      BY <1>6, <2>4 DEF StartWorkload
    <3>2. PICK x \in Record : Moves(w, x) /\ x.step = "mark" /\ x.name = worker[w].name
      BY <1>0, <3>1, GotoMoves DEF WorkerSteps
    <3>3. worker'[w] = x
      BY <1>0, <3>2, OthersHold
    <3>4. worker[w].name \in Marking'
      BY <3>2, <3>3 DEF Marking
    <3> QED BY <2>1, <2>2, <3>1, <3>4 DEF WrittenInv
  <2> QED BY <2>3, <2>4
<1>7. ASSUME NEW w \in Workers, _mark_clone_dirty(w) PROVE WrittenInv'
  <2>1. Marking \subseteq Marking' \cup {worker[w].name}
    BY <1>0, <1>7, MarkingStays DEF Works, _run_vdbench_on_pvc
  <2>2. dirty' = dirty \cup ({worker[w].name} \cap pool) /\ UNCHANGED <<pool, ran>>
    BY <1>7 DEF _mark_clone_dirty, pvcs
  <2> QED BY <2>1, <2>2 DEF WrittenInv
<1>8. ASSUME NEW w \in Workers, StopWorkload(w) PROVE WrittenInv'
  <2>1. Marking \subseteq Marking'
    BY <1>0, <1>8, MarkingStays DEF Works, _run_vdbench_on_pvc, StopWorkload, At
  <2>2. UNCHANGED <<pool, dirty, ran>>
    BY <1>8 DEF StopWorkload, books, pvcs
  <2> QED BY <2>1, <2>2 DEF WrittenInv
<1> QED BY <1>1, <1>2, <1>3, <1>4, <1>5, <1>6, <1>7, <1>8
        DEF Next, Works, _run_vdbench_on_pvc, Terminated

\* An entry is chosen for a check of its data when no worker is about to mark one.
LEMMA NextIntegrity ==
    ASSUME PoolInv, AloneInv, WrittenInv, NoCheckAfterWorkload, [Next]_vars
    PROVE  NoCheckAfterWorkload'
<1>1. CASE BeginAction
  <2>1. Head(todo) \in Actions /\ Plan(Head(todo)) /\ act = "none" /\ UNCHANGED ran
    BY <1>1 DEF BeginAction, PoolInv, TypeOK, pvcs
  <2>2. PICK a \in Actions : a = Head(todo)
    BY <2>1
  <2>3. /\ act' = a
        /\ subject' # NoName => subject' \in pool
        /\ (a = "_integrity_verify_clones" /\ subject' # NoName) => subject' \notin dirty
    BY <2>1, <2>2, PlanChoice
  <2>4. Marking = {}
    BY <2>1 DEF AloneInv, NothingLeft, Quiet, Free, Marking
  <2> QED BY <2>1, <2>3, <2>4 DEF WrittenInv, NoCheckAfterWorkload
<1>2. CASE run \/ StopActions \/ EndAction \/ request_shutdown \/ cleanup_all
           \/ _cleanup_orphan_aggressive_resources
  <2>1. \/ UNCHANGED <<act, subject>>
        \/ act' \in {"none", "cleanup_all"}
    BY <1>2 DEF run, StopActions, EndAction, request_shutdown, cleanup_all, Begin,
       _cleanup_orphan_aggressive_resources
  <2>2. ran' = ran
    BY <1>2, ThreadLeaves DEF Thread
  <2> QED BY <2>1, <2>2 DEF NoCheckAfterWorkload
<1>3. ASSUME NEW w \in Workers, Begins(w) \/ Works(w) PROVE NoCheckAfterWorkload'
  BY <1>3, Acting DEF NoCheckAfterWorkload, Checks, PoolActions
<1>4. CASE UNCHANGED vars \/ \E n \in Names : Reclaim(n)
  BY <1>4 DEF vars, pvcs, control, Reclaim, NoCheckAfterWorkload
<1> QED BY <1>1, <1>2, <1>3, <1>4 DEF Next, Thread, Terminated

\* _integrity_verify_clones never compares a clone on which a workload was started
\* with its source: the start and the mark on the entry are two steps of a worker, but
\* no check begins between them, and a name that comes back into the pool is that of a
\* new clone, on which no workload was started.  Whatever the actions and the faults.
THEOREM ChecksAreMeaningful == Spec => []NoCheckAfterWorkload
<1>1. Init => DataInv
  BY InitData
<1>2. PoolInv /\ DataInv /\ [Next]_vars => DataInv'
  BY NextAlone, NextMaker, NextWritten, NextIntegrity DEF DataInv
<1>3. DataInv => NoCheckAfterWorkload
  BY DEF DataInv
<1> QED BY <1>1, <1>2, <1>3, Invariance, PTL DEF Spec
=============================================================================
