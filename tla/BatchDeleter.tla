---------------------------- MODULE BatchDeleter ----------------------------
(***************************************************************************)
(* S3BatchDeleter, which empties a bucket.                                 *)
(*                                                                         *)
(* The caller lists the objects page by page and has every page deleted as *)
(* one batch, by the threads of an executor (delete_in_parallel) or before *)
(* it asks for the next page (delete_sequentially).  It reads the results  *)
(* when too many objects are held in memory and at the end.  What could not*)
(* be deleted is tried a second time, and named in an exception when that  *)
(* fails too.  A batch whose request raises is counted with a list instead *)
(* of a number, over which the caller trips.                               *)
(*                                                                         *)
(* Data.  An object is its place in the order of the listing.  A batch is  *)
(* the set of its objects; no two batches share one.  Numbers of deleted   *)
(* objects are only logged: a result says whether it has a number at all.  *)
(*                                                                         *)
(* Bounds.  NKeys for the objects of the bucket; nobody adds to it.        *)
(***************************************************************************)
EXTENDS Integers, FiniteSets

CONSTANTS
    NKeys,          \* objects in the bucket
    Workers,        \* threads of the executor
    MAX_BATCH_SIZE,
    MAX_OBJS_TO_KEEP_IN_MEMORY,
    Faults          \* what may fail

Keys == 1 .. NKeys

ASSUME DeleterAssumption ==
    /\ NKeys \in Nat
    /\ IsFiniteSet(Workers) /\ Workers # {}
    /\ MAX_BATCH_SIZE \in Nat \ {0} /\ MAX_OBJS_TO_KEEP_IN_MEMORY \in Nat \ {0}
    /\ Faults \subseteq {"list", "error", "exception"}

VARIABLES
    parallel,       \* delete_in_parallel, or delete_sequentially
    bucket,         \* the objects there are
    main,           \* where the caller is
    marker,         \* the last object listed
    queued,         \* batches submitted to the executor
    work,           \* the batch of each of its threads, {} for none
    results,        \* results the caller has not read
    queued_obj_count,
    failed_deletions,
    retry,          \* failed objects that are not tried again yet
    final_errors,
    outcome,        \* how the call ended
    tried           \* how often the deletion of each object was asked for

caller == <<parallel, main, marker, queued_obj_count, failed_deletions, retry, final_errors,
            outcome>>
executor == <<queued, work, results>>
vars == <<caller, executor, bucket, tried>>

Outcomes == {"none", "returned", "Exception", "TypeError", "ClientError"}

Result(B, number, E) == [batch |-> B, number |-> number, errors |-> E]

Init ==
    /\ parallel \in BOOLEAN
    /\ bucket = Keys
    /\ main = "list" /\ marker = 0
    /\ queued = {} /\ work = [w \in Workers |-> {}] /\ results = {}
    /\ queued_obj_count = 0 /\ failed_deletions = {}
    /\ retry = {} /\ final_errors = {}
    /\ outcome = "none"
    /\ tried = [k \in Keys |-> 0]

Least(m, n) == IF m <= n THEN m ELSE n

\* The threads have nothing to do.
Idle == queued = {} /\ \A w \in Workers : work[w] = {}

-----------------------------------------------------------------------------
(* _delete_batch.                                                          *)

\* Three stands for more.
Asked(B) == tried' = [k \in Keys |-> IF k \in B THEN Least(tried[k] + 1, 3) ELSE tried[k]]

\* A request deletes some of the objects and reports the others, or raises,
\* whatever it had deleted by then; then every object counts as failed.
_delete_batch(B, number, E) ==
    \/ /\ number
       /\ E \subseteq B
       /\ E = {} \/ "error" \in Faults
       /\ bucket' = bucket \ (B \ E)
       /\ Asked(B)
    \/ /\ "exception" \in Faults
       /\ ~number /\ E = B
       /\ \E D \in SUBSET B : bucket' = bucket \ D
       /\ Asked(B)

-----------------------------------------------------------------------------
(* The caller.                                                             *)

\* A page is the next objects after the marker that are there by now.
IsPage(P) ==
    LET rest == {k \in bucket : k > marker} IN
    /\ P \subseteq rest
    /\ Cardinality(P) = Least(MAX_BATCH_SIZE, Cardinality(rest))
    /\ \A p \in P, k \in rest \ P : p < k

\* Variant: a larger page is one more than may be kept.
MustDrainLate == ~parallel \/ queued_obj_count' > MAX_OBJS_TO_KEEP_IN_MEMORY

\* Without an executor every batch is waited for.
MustDrain == ~parallel \/ queued_obj_count' >= MAX_OBJS_TO_KEEP_IN_MEMORY

\* Variant: every listing begins anew.
ListPageAgain ==
    /\ main = "list" /\ bucket # {}
    /\ \E P \in SUBSET bucket :
         /\ Cardinality(P) = Least(MAX_BATCH_SIZE, Cardinality(bucket))
         /\ \A p \in P, k \in bucket \ P : p < k
         /\ queued' = queued \cup {P}
         /\ queued_obj_count' = queued_obj_count + Cardinality(P)
    /\ main' = IF MustDrain THEN "drain" ELSE "list"
    /\ UNCHANGED <<parallel, bucket, marker, work, results, failed_deletions, retry, final_errors,
                   outcome, tried>>

\* The next page is submitted as a batch.
ListPage ==
    /\ main = "list"
    /\ \E P \in SUBSET bucket :
         /\ P # {} /\ IsPage(P)
         /\ \E p \in P : marker' = p /\ \A q \in P : q <= p
         /\ queued' = queued \cup {P}
         /\ queued_obj_count' = queued_obj_count + Cardinality(P)
    /\ main' = IF MustDrain THEN "drain" ELSE "list"
    /\ UNCHANGED <<parallel, bucket, work, results, failed_deletions, retry, final_errors,
                   outcome, tried>>

\* The listing is over, or it fails.
EndList ==
    /\ main = "list"
    /\ \/ (\A k \in bucket : k <= marker) /\ main' = "rest" /\ UNCHANGED outcome
       \/ "list" \in Faults /\ main' = "shutdown" /\ outcome' = "ClientError"
    /\ UNCHANGED <<parallel, marker, queued_obj_count, failed_deletions, retry, final_errors,
                   executor, bucket, tried>>

\* Variant: the errors of the last result are kept.
ExtendLast(E) == failed_deletions' = E

Extend(E) == failed_deletions' = failed_deletions \cup E

\* as_completed: the results are read in any order.  Adding a list to the total
\* raises; what the other results say is lost.
ReadResult ==
    /\ main \in {"drain", "rest"}
    /\ \E r \in results :
         /\ results' = results \ {r}
         /\ \/ r.number /\ Extend(r.errors) /\ UNCHANGED <<main, outcome>>
            \/ /\ ~r.number
               /\ main' = "shutdown" /\ outcome' = "TypeError"
               /\ UNCHANGED failed_deletions
    /\ UNCHANGED <<parallel, marker, queued_obj_count, retry, final_errors, queued, work, bucket,
                   tried>>

\* All futures are read: the listing goes on, or the executor is closed.
EndDrain ==
    /\ main \in {"drain", "rest"} /\ Idle /\ results = {}
    /\ \/ main = "drain" /\ main' = "list" /\ queued_obj_count' = 0 /\ UNCHANGED retry
       \/ main = "rest" /\ main' = "retry" /\ retry' = failed_deletions /\ UNCHANGED queued_obj_count
    /\ UNCHANGED <<parallel, marker, failed_deletions, final_errors, outcome, executor, bucket,
                   tried>>

\* Variant: the executor is not waited for.
ShutdownNoWait ==
    /\ main = "shutdown"
    /\ main' = "ended"
    /\ UNCHANGED <<parallel, marker, queued_obj_count, failed_deletions, retry, final_errors,
                   outcome, executor, bucket, tried>>

\* Leaving the executor's block waits for every batch that was submitted.
Shutdown ==
    /\ main = "shutdown" /\ Idle
    /\ main' = "ended"
    /\ UNCHANGED <<parallel, marker, queued_obj_count, failed_deletions, retry, final_errors,
                   outcome, executor, bucket, tried>>

\* One batch after the other, once.
_retry_failed ==
    /\ main = "retry" /\ retry # {}
    /\ \E B \in SUBSET retry, E \in SUBSET retry, number \in BOOLEAN :
         /\ Cardinality(B) = Least(MAX_BATCH_SIZE, Cardinality(retry))
         /\ _delete_batch(B, number, E)
         /\ retry' = retry \ B
         /\ final_errors' = final_errors \cup E
    /\ UNCHANGED <<parallel, main, marker, queued_obj_count, failed_deletions, outcome, executor>>

\* Variant: it tells that it failed.
EndRetryTold ==
    /\ main = "retry" /\ retry = {}
    /\ main' = "ended"
    /\ outcome' = IF final_errors = {} THEN "returned" ELSE "failed"
    /\ UNCHANGED <<parallel, marker, queued_obj_count, failed_deletions, retry, final_errors,
                   executor, bucket, tried>>

\* It raises when something failed twice.
EndRetry ==
    /\ main = "retry" /\ retry = {}
    /\ main' = "ended"
    /\ outcome' = IF final_errors = {} THEN "returned" ELSE "Exception"
    /\ UNCHANGED <<parallel, marker, queued_obj_count, failed_deletions, retry, final_errors,
                   executor, bucket, tried>>

Caller ==
    \/ ListPage \/ EndList \/ ReadResult \/ EndDrain \/ Shutdown \/ _retry_failed \/ EndRetry

-----------------------------------------------------------------------------
(* The threads of the executor; without one, the caller deletes itself.    *)

Start(w) ==
    /\ work[w] = {}
    /\ \E B \in queued :
         /\ queued' = queued \ {B}
         /\ work' = [work EXCEPT ![w] = B]
    /\ UNCHANGED <<caller, results, bucket, tried>>

Delete(w) ==
    /\ work[w] # {}
    /\ \E E \in SUBSET work[w], number \in BOOLEAN :
         /\ _delete_batch(work[w], number, E)
         /\ results' = results \cup {Result(work[w], number, E)}
    /\ work' = [work EXCEPT ![w] = {}]
    /\ UNCHANGED <<caller, queued>>

Terminated == main = "ended" /\ UNCHANGED vars

Next ==
    \/ Caller
    \/ \E w \in Workers : Start(w) \/ Delete(w)
    \/ Terminated

Spec == Init /\ [][Next]_vars

\* The caller and the threads run, and requests end.
FairSpec ==
    /\ Spec
    /\ WF_vars(Caller)
    /\ \A w \in Workers : WF_vars(Start(w) \/ Delete(w))

-----------------------------------------------------------------------------
(* Properties.                                                             *)

TypeOK ==
    /\ parallel \in BOOLEAN
    /\ bucket \subseteq Keys
    /\ main \in {"list", "drain", "rest", "shutdown", "retry", "ended"}
    /\ marker \in 0 .. NKeys
    /\ queued \subseteq SUBSET Keys /\ work \in [Workers -> SUBSET Keys]
    /\ results \subseteq [batch : SUBSET Keys, number : BOOLEAN, errors : SUBSET Keys]
    /\ queued_obj_count \in Nat
    /\ failed_deletions \subseteq Keys /\ retry \subseteq Keys /\ final_errors \subseteq Keys
    /\ outcome \in Outcomes
    /\ tried \in [Keys -> 0 .. 3]

\* delete_all_objects_in_batches, "Delete all objects from an S3 bucket in
\* batches": a call that returns has emptied the bucket, although pages were
\* listed while others were being deleted, and requests failed or raised.  "If any
\* objects fail to delete after a retry attempt", what is left is named.
ReturnMeansEmpty ==
    /\ outcome = "returned" => bucket = {}
    /\ outcome = "Exception" => bucket \subseteq final_errors /\ final_errors # {}

Held == UNION (queued \cup {work[w] : w \in Workers} \cup {r.batch : r \in results})

\* "Cap to prevent excessive memory usage": the objects submitted whose result is
\* not read yet exceed MAX_OBJS_TO_KEEP_IN_MEMORY by less than a page, although the
\* listing may be far ahead of the threads.
MemoryBound == Cardinality(Held) < MAX_OBJS_TO_KEEP_IN_MEMORY + MAX_BATCH_SIZE

\* "retrying once": no object is asked for more than twice, and a second time
\* only after its first request is known to have failed.
RetriedOnce ==
    \A k \in Keys : tried[k] <= 2 /\ (tried[k] = 2 => k \in failed_deletions)

\* The call ends, and whichever exception ended it, no thread deletes on then.
EndsQuiet == <>(main = "ended") /\ [](main = "ended" => Idle)
=============================================================================
