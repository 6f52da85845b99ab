------------------------- MODULE BatchDeleter_proofs -------------------------
(***************************************************************************)
(* Proofs about BatchDeleter, for any number of objects and threads, any   *)
(* limits and whatever fails.                                              *)
(*                                                                         *)
(* The listing overtakes the threads, so the invariant follows every object*)
(* of the bucket: one that was listed is in a batch, in the errors of a    *)
(* result or among the failed ones (AccountInv).  The batches that wait or *)
(* are worked on share no object and were not asked for yet (PendingInv),  *)
(* and what is in memory is bounded by the count the caller keeps          *)
(* (CountInv).                                                             *)
(***************************************************************************)
EXTENDS BatchDeleter, FiniteSetTheorems, TLAPS

\* The steps in which batches are submitted, worked on and read.
Reading == {"list", "drain", "rest"}

\* The batches whose deletion was not asked for yet.
Pending(k) == (\E B \in queued : k \in B) \/ (\E w \in Workers : k \in work[w])

\* An object that was listed and is still there has not been lost.
Accounted(k) == Pending(k) \/ (\E r \in results : k \in r.errors) \/ k \in failed_deletions

\* Nothing that was listed is lost, until a result without a number is read.
AccountInv ==
    /\ main \in Reading => \A k \in bucket : k <= marker => Accounted(k)
    /\ main = "rest" => \A k \in bucket : k <= marker
    /\ main = "retry" => bucket \subseteq retry \cup final_errors
    /\ main \in Reading \cup {"retry"} => outcome = "none"
    /\ outcome \in {"returned", "Exception"} => main = "ended"
    /\ ReturnMeansEmpty

\* No object is in two batches that are still to be deleted.
Disjoint ==
    /\ \A B, C \in queued : B = C \/ B \cap C = {}
    /\ \A B \in queued, w \in Workers : B \cap work[w] = {}
    /\ \A v, w \in Workers : v = w \/ work[v] \cap work[w] = {}

\* An object is asked for once before the retry, and once in it.
PendingInv ==
    /\ Disjoint
    /\ \A k \in Keys : Pending(k) => k <= marker /\ tried[k] = 0
    /\ main \in Reading => \A k \in Keys : k > marker => tried[k] = 0
    /\ main \in Reading \cup {"shutdown"} => \A k \in Keys : tried[k] <= 1
    /\ main \in {"retry", "ended"} => Idle
    /\ main = "retry" => retry \subseteq failed_deletions /\ \A k \in retry : tried[k] <= 1
    /\ RetriedOnce

\* The count is at least what is held, and below the limit when a page is asked for.
CountInv ==
    /\ Cardinality(Held) <= queued_obj_count
    /\ main = "list" => queued_obj_count < MAX_OBJS_TO_KEEP_IN_MEMORY
    /\ queued_obj_count < MAX_OBJS_TO_KEEP_IN_MEMORY + MAX_BATCH_SIZE

DeleterInv == TypeOK /\ AccountInv /\ PendingInv /\ CountInv

-----------------------------------------------------------------------------
(* Numbers and sets.                                                       *)

\* The numbers among the constants.
LEMMA Numbers ==
    /\ NKeys \in Nat
    /\ MAX_BATCH_SIZE \in Nat /\ MAX_BATCH_SIZE > 0
    /\ MAX_OBJS_TO_KEEP_IN_MEMORY \in Nat /\ MAX_OBJS_TO_KEEP_IN_MEMORY > 0
BY DeleterAssumption

\* There are finitely many objects.
LEMMA SomeKeys ==
    ASSUME NEW S \in SUBSET Keys
    PROVE  IsFiniteSet(S) /\ Cardinality(S) \in Nat
<1>1. IsFiniteSet(Keys)
  BY Numbers, FS_Interval DEF Keys
<1> QED BY <1>1, FS_Subset, FS_CardinalityType

\* What a request does to the bucket and to the counts.
LEMMA Request ==
    ASSUME TypeOK, NEW B \in SUBSET Keys, NEW E, NEW number \in BOOLEAN,
           _delete_batch(B, number, E)
    PROVE  /\ E \subseteq B
           /\ bucket' \subseteq bucket
           /\ \A k \in bucket' : k \in B => k \in E
           /\ tried' \in [Keys -> 0 .. 3]
           /\ \A k \in Keys : /\ k \notin B => tried'[k] = tried[k]
                              /\ k \in B /\ tried[k] <= 1 => tried'[k] = tried[k] + 1
<1>1. /\ E \subseteq B
      /\ bucket' \subseteq bucket
      /\ \A k \in bucket' : k \in B => k \in E
      /\ Asked(B)
  BY DEF _delete_batch
<1>2. \A k \in Keys : tried[k] \in 0 .. 3
  BY DEF TypeOK
<1>3. \A k \in Keys : /\ tried'[k] \in 0 .. 3
                      /\ k \notin B => tried'[k] = tried[k]
                      /\ k \in B /\ tried[k] <= 1 => tried'[k] = tried[k] + 1
  BY <1>1, <1>2 DEF Asked, Least
<1>4. tried' \in [Keys -> 0 .. 3]
  <2>1. tried' = [k \in Keys |-> tried'[k]]
    BY <1>1 DEF Asked
  <2> QED BY <1>3, <2>1
<1> QED BY <1>1, <1>3, <1>4

\* The page that is submitted.
LEMMA Page ==
    ASSUME TypeOK, ListPage
    PROVE  \E P \in SUBSET Keys :
             /\ queued' = queued \cup {P}
             /\ queued_obj_count' = queued_obj_count + Cardinality(P)
             /\ Cardinality(P) <= MAX_BATCH_SIZE
             /\ marker' \in Keys /\ marker' > marker
             /\ \A k \in P : k > marker /\ k <= marker'
             /\ \A k \in bucket : k > marker /\ k <= marker' => k \in P
<1> DEFINE rest == {k \in bucket : k > marker}
<1>1. PICK P \in SUBSET bucket :
        /\ P # {} /\ IsPage(P)
        /\ \E p \in P : marker' = p /\ \A q \in P : q <= p
        /\ queued' = queued \cup {P}
        /\ queued_obj_count' = queued_obj_count + Cardinality(P)
  BY DEF ListPage
<1>2. PICK p \in P : marker' = p /\ \A q \in P : q <= p
  BY <1>1
<1>3. P \subseteq rest /\ Cardinality(P) = Least(MAX_BATCH_SIZE, Cardinality(rest))
      /\ \A q \in P, k \in rest \ P : q < k
  BY <1>1 DEF IsPage
<1>4. bucket \subseteq Keys /\ \A k \in Keys : k \in Int
  BY DEF TypeOK, Keys
<1>5. Cardinality(rest) \in Nat
  <2>1. rest \in SUBSET Keys
    BY <1>4
  <2> QED BY <2>1, SomeKeys
<1>6. Cardinality(P) <= MAX_BATCH_SIZE
  <2> HIDE DEF rest
  <2> QED BY <1>3, <1>5, Numbers DEF Least
<1>7. marker' \in Keys /\ marker' > marker /\ \A k \in P : k > marker /\ k <= marker'
  BY <1>2, <1>3, <1>4
<1>8. \A k \in bucket : k > marker /\ k <= marker' => k \in P
  BY <1>2, <1>3, <1>4
<1> QED BY <1>1, <1>4, <1>6, <1>7, <1>8

-----------------------------------------------------------------------------
(* Types.                                                                  *)

LEMMA CallerType == ASSUME TypeOK, Caller PROVE TypeOK'
<1>1. CASE ListPage
  <2>1. PICK P \in SUBSET Keys :
          /\ queued' = queued \cup {P}
          /\ queued_obj_count' = queued_obj_count + Cardinality(P)
          /\ marker' \in Keys
    BY <1>1, Page
  <2>2. queued_obj_count' \in Nat /\ marker' \in 0 .. NKeys
    BY <2>1, SomeKeys, Numbers DEF TypeOK, Keys
  <2>3. main' \in {"list", "drain"}
    BY <1>1 DEF ListPage
  <2> QED BY <1>1, <2>1, <2>2, <2>3 DEF ListPage, TypeOK
<1>2. CASE EndList
  BY <1>2 DEF EndList, executor, TypeOK, Outcomes
<1>3. CASE ReadResult
  BY <1>3 DEF ReadResult, Extend, TypeOK, Outcomes
<1>4. CASE EndDrain
  BY <1>4 DEF EndDrain, executor, TypeOK
<1>5. CASE Shutdown \/ EndRetry
  BY <1>5 DEF Shutdown, EndRetry, executor, TypeOK, Outcomes
<1>6. CASE _retry_failed
  <2>1. PICK B \in SUBSET retry, E \in SUBSET retry, number \in BOOLEAN :
          /\ _delete_batch(B, number, E)
          /\ retry' = retry \ B /\ final_errors' = final_errors \cup E
    BY <1>6 DEF _retry_failed
  <2>2. B \in SUBSET Keys
    BY DEF TypeOK
  <2>3. bucket' \subseteq bucket /\ tried' \in [Keys -> 0 .. 3]
    BY <2>1, <2>2, Request
  <2> QED BY <1>6, <2>1, <2>3 DEF _retry_failed, executor, TypeOK
<1> QED BY <1>1, <1>2, <1>3, <1>4, <1>5, <1>6 DEF Caller

LEMMA WorkerType == ASSUME TypeOK, NEW w \in Workers, Start(w) \/ Delete(w) PROVE TypeOK'
<1>1. CASE Start(w)
  BY <1>1 DEF Start, caller, TypeOK
<1>2. CASE Delete(w)
  <2>1. PICK E \in SUBSET work[w], number \in BOOLEAN :
          /\ _delete_batch(work[w], number, E)
          /\ results' = results \cup {Result(work[w], number, E)}
    BY <1>2 DEF Delete
  <2>2. work[w] \in SUBSET Keys
    BY DEF TypeOK
  <2>3. bucket' \subseteq bucket /\ tried' \in [Keys -> 0 .. 3]
    BY <2>1, <2>2, Request
  <2>4. Result(work[w], number, E) \in [batch : SUBSET Keys, number : BOOLEAN, errors : SUBSET Keys]
    BY <2>2 DEF Result
  <2>5. work' \in [Workers -> SUBSET Keys]
    BY <1>2 DEF Delete, TypeOK
  <2>6. UNCHANGED caller /\ queued' = queued
    BY <1>2 DEF Delete
  <2> QED BY <2>1, <2>3, <2>4, <2>5, <2>6 DEF caller, TypeOK
<1> QED BY <1>1, <1>2

-----------------------------------------------------------------------------
(* The invariant.                                                          *)

LEMMA InitInv == ASSUME Init PROVE DeleterInv
<1>1. TypeOK
  BY Numbers DEF Init, TypeOK, Keys, Outcomes
<1>2. \A k \in Keys : k \in Int /\ k > 0
  BY DEF Keys
<1>3. AccountInv
  BY <1>1, <1>2 DEF Init, AccountInv, TypeOK, Reading, ReturnMeansEmpty
<1>4. PendingInv
  BY <1>1, <1>2 DEF Init, PendingInv, Disjoint, Pending, Reading, RetriedOnce
<1>5. CountInv
  <2>1. Held = {}
    BY DEF Init, Held
  <2>2. Cardinality(Held) = 0
    BY <2>1, FS_EmptySet
  <2> QED BY <2>2, Numbers DEF Init, CountInv
<1> QED BY <1>1, <1>3, <1>4, <1>5 DEF DeleterInv

\* The limits stay kept while nothing is submitted.
LEMMA HeldShrinks ==
    ASSUME DeleterInv, TypeOK', Held' \subseteq Held,
           queued_obj_count' = queued_obj_count, main' = "list" => main = "list"
    PROVE  CountInv'
<1>1. Held \in SUBSET Keys /\ Held' \in SUBSET Keys
  <2>1. Held \subseteq Keys
    BY DEF Held, DeleterInv, TypeOK
  <2> QED BY <2>1
<1>2. Cardinality(Held') <= Cardinality(Held)
  BY <1>1, SomeKeys, FS_Subset
<1>3. Cardinality(Held') \in Nat /\ Cardinality(Held) \in Nat /\ queued_obj_count \in Nat
  BY <1>1, SomeKeys DEF DeleterInv, TypeOK
<1> QED BY <1>2, <1>3 DEF DeleterInv, CountInv

\* A page is listed: its objects are new.
LEMMA ListPageInv == ASSUME DeleterInv, ListPage PROVE DeleterInv'
<1> USE DEF DeleterInv
<1>1. TypeOK'
  BY CallerType DEF Caller
<1>2. PICK P \in SUBSET Keys :
        /\ queued' = queued \cup {P}
        /\ queued_obj_count' = queued_obj_count + Cardinality(P)
        /\ Cardinality(P) <= MAX_BATCH_SIZE
        /\ marker' \in Keys /\ marker' > marker
        /\ \A k \in P : k > marker /\ k <= marker'
        /\ \A k \in bucket : k > marker /\ k <= marker' => k \in P
  BY Page
<1>3. /\ UNCHANGED <<parallel, bucket, work, results, failed_deletions, retry, final_errors,
                     outcome, tried>>
      /\ main = "list" /\ main' \in {"list", "drain"}
      /\ main' = "list" => queued_obj_count' < MAX_OBJS_TO_KEEP_IN_MEMORY
  BY <1>1, Numbers DEF ListPage, MustDrain, TypeOK
<1>4. \A k \in Keys : k \in Int
  BY DEF Keys
<1>5. marker \in Int /\ marker' \in Int /\ bucket \subseteq Keys
  BY <1>1, <1>4 DEF TypeOK
<1>6. \A k \in Keys : Pending(k)' <=> Pending(k) \/ k \in P
  BY <1>2, <1>3 DEF Pending
<1>7. AccountInv'
  <2>1. \A k \in bucket : k <= marker' => Accounted(k)'
    BY <1>2, <1>3, <1>4, <1>5, <1>6 DEF AccountInv, Reading, Accounted
  <2> QED BY <1>3, <2>1 DEF AccountInv, Reading, ReturnMeansEmpty
<1>8. PendingInv'
  <2>1. \A k \in P : ~Pending(k)
    BY <1>2, <1>4, <1>5 DEF PendingInv
  <2>2. Disjoint'
    BY <1>2, <1>3, <2>1 DEF PendingInv, Disjoint, Pending
  <2>3. \A k \in Keys : Pending(k)' => k <= marker' /\ tried[k] = 0
    BY <1>2, <1>3, <1>4, <1>5, <1>6 DEF PendingInv, Reading
  <2>4. \A k \in Keys : k > marker' => tried[k] = 0
    BY <1>2, <1>3, <1>4, <1>5 DEF PendingInv, Reading
  <2> QED BY <1>3, <2>2, <2>3, <2>4 DEF PendingInv, Reading, RetriedOnce
<1>9. CountInv'
  <2>1. Held \in SUBSET Keys
    <3>1. Held \subseteq Keys
      BY DEF Held, TypeOK
    <3> QED BY <3>1
  <2>2. Held' = Held \cup P
    BY <1>2, <1>3 DEF Held
  <2>3. IsFiniteSet(Held) /\ IsFiniteSet(P) /\ Cardinality(Held) \in Nat /\ Cardinality(P) \in Nat
    BY <2>1, SomeKeys
  <2>4. Cardinality(Held \cap P) \in Nat
    <3>1. Held \cap P \in SUBSET Keys
      OBVIOUS
    <3> QED BY <3>1, SomeKeys
  <2>5. Cardinality(Held') = Cardinality(Held) + Cardinality(P) - Cardinality(Held \cap P)
    BY <2>2, <2>3, FS_Union
  <2>6. queued_obj_count \in Nat /\ queued_obj_count < MAX_OBJS_TO_KEEP_IN_MEMORY
        /\ Cardinality(Held) <= queued_obj_count
    BY <1>3 DEF CountInv, TypeOK
  <2> QED BY <1>2, <1>3, <2>3, <2>4, <2>5, <2>6, Numbers DEF CountInv
<1> QED BY <1>1, <1>7, <1>8, <1>9

\* The listing ends.
LEMMA EndListInv == ASSUME DeleterInv, EndList PROVE DeleterInv'
<1> USE DEF DeleterInv
<1>1. TypeOK'
  BY CallerType DEF Caller
<1>2. /\ UNCHANGED <<marker, queued_obj_count, failed_deletions, retry, final_errors, queued, work,
                     results, bucket, tried>>
      /\ main = "list"
      /\ \/ (\A k \in bucket : k <= marker) /\ main' = "rest" /\ outcome' = outcome
         \/ main' = "shutdown" /\ outcome' = "ClientError"
  BY DEF EndList, executor
<1>3. \A k : Accounted(k)' = Accounted(k) /\ Pending(k)' = Pending(k)
  BY <1>2 DEF Accounted, Pending
<1>4. AccountInv'
  BY <1>2, <1>3 DEF AccountInv, Reading, ReturnMeansEmpty
<1>5. PendingInv'
  BY <1>2, <1>3 DEF PendingInv, Disjoint, Reading, RetriedOnce
<1>6. CountInv'
  <2>1. Held' = Held
    BY <1>2 DEF Held
  <2> QED BY <1>1, <1>2, <2>1, HeldShrinks
<1> QED BY <1>1, <1>4, <1>5, <1>6

\* A result is read: its errors move to the failed objects, or the caller trips.
LEMMA ReadResultInv == ASSUME DeleterInv, ReadResult PROVE DeleterInv'
<1> USE DEF DeleterInv
<1>1. TypeOK'
  BY CallerType DEF Caller
<1>2. PICK r \in results :
        /\ results' = results \ {r}
        /\ \/ r.number /\ failed_deletions' = failed_deletions \cup r.errors
              /\ main' = main /\ outcome' = outcome
           \/ main' = "shutdown" /\ outcome' = "TypeError" /\ failed_deletions' = failed_deletions
  BY DEF ReadResult, Extend
<1>3. /\ UNCHANGED <<marker, queued_obj_count, retry, final_errors, queued, work, bucket, tried>>
      /\ main \in {"drain", "rest"}
  BY DEF ReadResult
<1>4. \A k : Pending(k)' = Pending(k)
  BY <1>3 DEF Pending
<1>5. AccountInv'
  <2>1. CASE main' = "shutdown"
    BY <1>2, <1>3, <2>1 DEF AccountInv, Reading, ReturnMeansEmpty
  <2>2. CASE main' # "shutdown"
    <3>1. \A k : Accounted(k) => Accounted(k)'
      BY <1>2, <1>4, <2>2 DEF Accounted
    <3> QED BY <1>2, <1>3, <2>2, <3>1 DEF AccountInv, Reading, ReturnMeansEmpty
  <2> QED BY <2>1, <2>2
<1>6. PendingInv'
  BY <1>2, <1>3, <1>4 DEF PendingInv, Disjoint, Reading, RetriedOnce
<1>7. CountInv'
  <2>1. Held' \subseteq Held
    BY <1>2, <1>3 DEF Held
  <2> QED BY <1>1, <1>2, <1>3, <2>1, HeldShrinks
<1> QED BY <1>1, <1>5, <1>6, <1>7

\* All results are read: nothing is held any more, and what is left has failed.
LEMMA EndDrainInv == ASSUME DeleterInv, EndDrain PROVE DeleterInv'
<1> USE DEF DeleterInv
<1>1. TypeOK'
  BY CallerType DEF Caller
<1>2. /\ UNCHANGED <<marker, failed_deletions, final_errors, outcome, queued, work, results, bucket,
                     tried>>
      /\ Idle /\ results = {}
      /\ \/ main = "drain" /\ main' = "list" /\ queued_obj_count' = 0 /\ retry' = retry
         \/ main = "rest" /\ main' = "retry" /\ retry' = failed_deletions
            /\ queued_obj_count' = queued_obj_count
  BY DEF EndDrain, executor
<1>3. \A k : Accounted(k)' = Accounted(k) /\ Pending(k)' = Pending(k) /\ ~Pending(k)
  BY <1>2 DEF Accounted, Pending, Idle
<1>4. AccountInv'
  <2>1. main = "rest" => bucket \subseteq failed_deletions
    BY <1>2, <1>3 DEF AccountInv, Accounted, Reading
  <2> QED BY <1>2, <1>3, <2>1 DEF AccountInv, Reading, ReturnMeansEmpty
<1>5. PendingInv'
  <2>1. Idle' /\ Disjoint'
    BY <1>2 DEF Idle, PendingInv, Disjoint
  <2>2. \A k \in Keys : tried[k] <= 1
    BY <1>2 DEF PendingInv, Reading
  <2> QED BY <1>1, <1>2, <1>3, <2>1, <2>2 DEF PendingInv, Reading, RetriedOnce, TypeOK
<1>6. CountInv'
  <2>1. Held = {} /\ Held' = {}
    BY <1>2 DEF Held, Idle
  <2>2. Cardinality(Held') = 0
    BY <2>1, FS_EmptySet
  <2>3. queued_obj_count \in Nat
    BY DEF TypeOK
  <2> QED BY <1>2, <2>2, <2>3, Numbers DEF CountInv
<1> QED BY <1>1, <1>4, <1>5, <1>6

\* The call ends, with nothing at work.
LEMMA EndsInv == ASSUME DeleterInv, Shutdown \/ EndRetry PROVE DeleterInv'
<1> USE DEF DeleterInv
<1>1. TypeOK'
  BY CallerType DEF Caller
<1>2. /\ UNCHANGED <<marker, queued_obj_count, failed_deletions, retry, final_errors, queued, work,
                     results, bucket, tried>>
      /\ main' = "ended"
  BY DEF Shutdown, EndRetry, executor
<1>3. \A k : Pending(k)' = Pending(k)
  BY <1>2 DEF Pending
<1>4. Idle'
  <2>1. Idle
    BY DEF Shutdown, EndRetry, PendingInv
  <2> QED BY <1>2, <2>1 DEF Idle
<1>5. AccountInv'
  BY <1>2 DEF Shutdown, EndRetry, AccountInv, Reading, ReturnMeansEmpty
<1>6. PendingInv'
  BY <1>2, <1>3, <1>4 DEF PendingInv, Disjoint, Reading, RetriedOnce
<1>7. CountInv'
  <2>1. Held' = Held
    BY <1>2 DEF Held
  <2> QED BY <1>1, <1>2, <2>1, HeldShrinks
<1> QED BY <1>1, <1>5, <1>6, <1>7

\* A failed batch is tried again: what fails twice is in the final errors.
LEMMA RetryInv == ASSUME DeleterInv, _retry_failed PROVE DeleterInv'
<1> USE DEF DeleterInv
<1>1. TypeOK'
  BY CallerType DEF Caller
<1>2. PICK B \in SUBSET retry, E \in SUBSET retry, number \in BOOLEAN :
        /\ _delete_batch(B, number, E)
        /\ retry' = retry \ B /\ final_errors' = final_errors \cup E
  BY DEF _retry_failed
<1>3. /\ UNCHANGED <<main, marker, queued_obj_count, failed_deletions, outcome, queued, work,
                     results>>
      /\ main = "retry"
  BY DEF _retry_failed, executor
<1>4. B \in SUBSET Keys /\ retry \subseteq Keys
  BY DEF TypeOK
<1>5. /\ E \subseteq B /\ bucket' \subseteq bucket
      /\ \A k \in bucket' : k \in B => k \in E
      /\ \A k \in Keys : /\ k \notin B => tried'[k] = tried[k]
                         /\ k \in B /\ tried[k] <= 1 => tried'[k] = tried[k] + 1
  <2>1. TypeOK
    OBVIOUS
  <2> HIDE DEF DeleterInv
  <2> QED BY <1>2, <1>4, <2>1, Request
<1>6. \A k : Pending(k)' = Pending(k) /\ ~Pending(k)
  BY <1>3 DEF Pending, PendingInv, Idle
<1>7. AccountInv'
  BY <1>2, <1>3, <1>5 DEF AccountInv, Reading, ReturnMeansEmpty
<1>8. PendingInv'
  <2>1. Idle' /\ Disjoint'
    BY <1>3 DEF Idle, PendingInv, Disjoint
  <2>2. \A k \in Keys : tried[k] \in 0 .. 3
    BY DEF TypeOK
  <2>3. \A k \in B : k \in failed_deletions /\ tried[k] <= 1
    BY <1>3 DEF PendingInv
  <2> QED BY <1>2, <1>3, <1>4, <1>5, <1>6, <2>1, <2>2, <2>3 DEF PendingInv, Reading, RetriedOnce
<1>9. CountInv'
  <2>1. Held' = Held
    BY <1>3 DEF Held
  <2> QED BY <1>1, <1>3, <2>1, HeldShrinks
<1> QED BY <1>1, <1>7, <1>8, <1>9

\* A thread takes a batch.
LEMMA StartInv == ASSUME DeleterInv, NEW w \in Workers, Start(w) PROVE DeleterInv'
<1> USE DEF DeleterInv
<1>1. TypeOK'
  BY WorkerType
<1>2. PICK B \in queued : queued' = queued \ {B} /\ work' = [work EXCEPT ![w] = B]
  BY DEF Start
<1>3. /\ UNCHANGED <<main, marker, queued_obj_count, failed_deletions, retry, final_errors, outcome,
                     results, bucket, tried>>
      /\ work[w] = {}
  BY DEF Start, caller
<1>4. work'[w] = B /\ \A v \in Workers : v # w => work'[v] = work[v]
  BY <1>2 DEF TypeOK
<1>5. \A k : Pending(k)' <=> Pending(k)
  BY <1>2, <1>3, <1>4 DEF Pending
<1>6. AccountInv'
  <2>1. \A k : Accounted(k)' <=> Accounted(k)
    BY <1>3, <1>5 DEF Accounted
  <2> QED BY <1>3, <2>1 DEF AccountInv, ReturnMeansEmpty
<1>7. PendingInv'
  <2>1. Disjoint'
    BY <1>2, <1>3, <1>4 DEF PendingInv, Disjoint
  <2>2. main \notin {"retry", "ended"}
    BY <1>2 DEF PendingInv, Idle
  <2> QED BY <1>3, <1>5, <2>1, <2>2 DEF PendingInv, RetriedOnce
<1>8. CountInv'
  <2>1. Held' \subseteq Held
    BY <1>2, <1>3, <1>4 DEF Held
  <2> QED BY <1>1, <1>3, <2>1, HeldShrinks
<1> QED BY <1>1, <1>6, <1>7, <1>8

\* A thread deletes its batch: what is left of it is in the errors of the result.
LEMMA DeleteInv == ASSUME DeleterInv, NEW w \in Workers, Delete(w) PROVE DeleterInv'
<1> USE DEF DeleterInv
<1>1. TypeOK'
  BY WorkerType
<1>2. PICK E \in SUBSET work[w], number \in BOOLEAN :
        /\ _delete_batch(work[w], number, E)
        /\ results' = results \cup {Result(work[w], number, E)}
  BY DEF Delete
<1>3. /\ UNCHANGED <<main, marker, queued_obj_count, failed_deletions, retry, final_errors, outcome,
                     queued>>
      /\ work[w] # {}
  BY DEF Delete, caller
<1>4. work'[w] = {} /\ \A v \in Workers : v # w => work'[v] = work[v]
  BY DEF Delete, TypeOK
<1>5. work[w] \in SUBSET Keys
  BY DEF TypeOK
<1>6. /\ bucket' \subseteq bucket
      /\ \A k \in bucket' : k \in work[w] => k \in E
      /\ \A k \in Keys : /\ k \notin work[w] => tried'[k] = tried[k]
                         /\ k \in work[w] /\ tried[k] <= 1 => tried'[k] = tried[k] + 1
  <2>1. TypeOK
    OBVIOUS
  <2>2. PICK B \in SUBSET Keys : B = work[w]
    BY <1>5
  <2>3. _delete_batch(B, number, E)
    BY <1>2, <2>2
  <2> HIDE DEF DeleterInv
  <2>4. /\ bucket' \subseteq bucket
        /\ \A k \in bucket' : k \in B => k \in E
        /\ \A k \in Keys : /\ k \notin B => tried'[k] = tried[k]
                           /\ k \in B /\ tried[k] <= 1 => tried'[k] = tried[k] + 1
    BY <2>1, <2>3, Request
  <2> QED BY <2>2, <2>4
<1>7. \A k : Pending(k)' => Pending(k) /\ k \notin work[w]
  BY <1>3, <1>4 DEF Pending, PendingInv, Disjoint
<1>8. \A k : Pending(k) /\ k \notin work[w] => Pending(k)'
  BY <1>3, <1>4 DEF Pending
<1>9. Result(work[w], number, E).errors = E /\ Result(work[w], number, E).batch = work[w]
  BY DEF Result
<1>10. AccountInv'
  <2>1. \A k \in bucket' : Accounted(k) => Accounted(k)'
    BY <1>2, <1>3, <1>6, <1>8, <1>9 DEF Accounted
  <2> QED BY <1>3, <1>6, <2>1 DEF AccountInv, ReturnMeansEmpty
<1>11. PendingInv'
  <2>1. Disjoint'
    BY <1>3, <1>4 DEF PendingInv, Disjoint
  <2>2. main \notin {"retry", "ended"}
    BY <1>3 DEF PendingInv, Idle
  <2>3. \A k \in work[w] : Pending(k)
    BY DEF Pending
  <2>4. \A k \in work[w] : k \in Keys /\ k <= marker /\ tried[k] = 0 /\ tried'[k] = 1
    BY <1>5, <1>6, <2>3 DEF PendingInv
  <2>5. marker \in Int /\ \A k \in Keys : k \in Int
    BY DEF TypeOK, Keys
  <2>6. main \in Reading \cup {"shutdown"}
    BY <2>2 DEF TypeOK, Reading
  <2>7. \A k \in Keys : tried'[k] <= 1
    BY <1>6, <2>4, <2>6 DEF PendingInv
  <2>8. RetriedOnce'
    BY <1>1, <2>7 DEF RetriedOnce, TypeOK
  <2>9. \A k \in Keys : Pending(k)' => k <= marker' /\ tried'[k] = 0
    BY <1>3, <1>6, <1>7 DEF PendingInv
  <2>10. main' \in Reading => \A k \in Keys : k > marker' => tried'[k] = 0
    BY <1>3, <1>6, <2>4, <2>5 DEF PendingInv
  <2> QED BY <1>3, <2>1, <2>2, <2>7, <2>8, <2>9, <2>10 DEF PendingInv
<1>12. CountInv'
  <2>1. Held' \subseteq Held
    BY <1>2, <1>3, <1>4, <1>9 DEF Held
  <2> QED BY <1>1, <1>3, <2>1, HeldShrinks
<1> QED BY <1>1, <1>10, <1>11, <1>12

\* A step that changes nothing.
LEMMA StutterInv == ASSUME DeleterInv, UNCHANGED vars PROVE DeleterInv'
<1>1. TypeOK'
  BY DEF DeleterInv, TypeOK, vars, caller, executor
<1>2. \A k : Accounted(k)' = Accounted(k) /\ Pending(k)' = Pending(k)
  BY DEF Accounted, Pending, vars, caller, executor
<1>3. AccountInv'
  BY <1>2 DEF DeleterInv, AccountInv, ReturnMeansEmpty, vars, caller, executor
<1>4. PendingInv'
  BY <1>2 DEF DeleterInv, PendingInv, Disjoint, Idle, RetriedOnce, vars, caller, executor
<1>5. CountInv'
  <2>1. Held' = Held
    BY DEF Held, vars, executor
  <2> QED BY <1>1, <2>1, HeldShrinks DEF vars, caller
<1> QED BY <1>1, <1>3, <1>4, <1>5 DEF DeleterInv

\* Every step keeps the invariant.
LEMMA NextInv == ASSUME DeleterInv, [Next]_vars PROVE DeleterInv'
BY ListPageInv, EndListInv, ReadResultInv, EndDrainInv, EndsInv, RetryInv, StartInv, DeleteInv,
   StutterInv
   DEF Next, Caller, Terminated

\* The invariant holds throughout.
THEOREM Invariance == Spec => []DeleterInv
BY InitInv, NextInv, PTL DEF Spec

-----------------------------------------------------------------------------
(* The theorems.                                                           *)

\* The state of the caller and of the executor is type-correct.
THEOREM DeleterTypeCorrect == Spec => []TypeOK
<1>1. DeleterInv => TypeOK
  BY DEF DeleterInv
<1> QED BY <1>1, Invariance, PTL

\* A call that returns has emptied the bucket, and one that raises after the retry
\* names all that is left, for any number of threads and in any order of results.
THEOREM BucketEmptied == Spec => []ReturnMeansEmpty
<1>1. DeleterInv => ReturnMeansEmpty
  BY DEF DeleterInv, AccountInv
<1> QED BY <1>1, Invariance, PTL

\* The objects in memory exceed the limit by less than a page.
THEOREM MemoryBounded == Spec => []MemoryBound
<1>1. DeleterInv => MemoryBound
  <2> SUFFICES ASSUME DeleterInv PROVE MemoryBound
    OBVIOUS
  <2>1. Held \in SUBSET Keys
    <3>1. Held \subseteq Keys
      BY DEF Held, DeleterInv, TypeOK
    <3> QED BY <3>1
  <2>2. Cardinality(Held) \in Nat /\ queued_obj_count \in Nat
    BY <2>1, SomeKeys DEF DeleterInv, TypeOK
  <2> QED BY <2>2, Numbers DEF DeleterInv, CountInv, MemoryBound
<1> QED BY <1>1, Invariance, PTL

\* No object is asked for more than twice, and twice only after it failed.
THEOREM AskedTwiceAtMost == Spec => []RetriedOnce
<1>1. DeleterInv => RetriedOnce
  BY DEF DeleterInv, PendingInv
<1> QED BY <1>1, Invariance, PTL

\* When the call has ended, however it did, no thread deletes any more: leaving the
\* executor's block waits for all of them.
THEOREM NothingDeletesAfter == Spec => [](main = "ended" => Idle)
<1>1. DeleterInv => (main = "ended" => Idle)
  BY DEF DeleterInv, PendingInv
<1> QED BY <1>1, Invariance, PTL
=============================================================================
