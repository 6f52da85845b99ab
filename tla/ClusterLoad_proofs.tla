------------------------- MODULE ClusterLoad_proofs -------------------------
(***************************************************************************)
(* Proofs about ClusterLoad, for any pool of identifiers, any bound, any   *)
(* set of fixtures, with or without faults and time-outs.                  *)
(*                                                                         *)
(* The invariant has three parts beside the types.  LoadOK: the            *)
(* deployments listed are, in their order, among the PVCs listed, which is *)
(* why taking the last of both lists never takes the PVC of a deployment   *)
(* that stays.  HeldInv: while the status is an answer, the watcher is not *)
(* in the middle of something that changes the load.  TargetInv: the       *)
(* target exists only after the set-up.                                    *)
(*                                                                         *)
(* A paused test needs two more: AskedInv, that without time-outs the      *)
(* watcher reduces the load only while the test that asked for it waits,   *)
(* so that the answer a pausing test sees is its own; and PodsListed, that *)
(* without faults every deployment in the cluster is listed.               *)
(***************************************************************************)
EXTENDS ClusterLoad, SequenceTheorems, TLAPS

\* d is, in order, a selection of p.
Aligned(d, p) ==
    \E f \in [1 .. Len(d) -> 1 .. Len(p)] :
        /\ \A i, j \in 1 .. Len(d) : i < j => f[i] < f[j]
        /\ \A i \in 1 .. Len(d) : p[f[i]].id = d[i].id

LoadOK ==
    /\ dc_objs \in Seq(Object) /\ pvc_objs \in Seq(Object)
    /\ pods \subseteq Ids /\ pvcs \subseteq Ids
    /\ Aligned(dc_objs, pvc_objs)

\* The watcher reads load_status, or has stopped.
Reading == {"top", "metrics", "is_running", "is_pause", "is_reduce", "is_resume", "stopped"}
InSetup == {"ramp", "drop", "fill", "setup_done"}

HeldInv ==
    /\ load_status \in {"paused", "reduced"} => watcher \in Reading
    /\ load_status = "paused" => dc_objs = <<>>
    /\ watcher = "pausing" => keep = 0
    /\ main = "measuring" => load_status = "paused"

TargetInv ==
    /\ main \in InSetup => watcher = "none" /\ load_status = "unset"
    /\ main \in {"ramp", "drop", "fill"} => target_pods_number = NoTarget

LoadInv == TypeOK /\ LoadOK /\ HeldInv /\ TargetInv

\* As long as no polling times out, the load is only reduced for a test that waits
\* for it, and what a paused test was told stays true.
AskedInv ==
    /\ load_status = "to_be_reduced" => main = "wait_reduced" /\ fixture = "reduce_and_resume"
    /\ load_status = "reduced" => main \in {"wait_reduced", "body"} /\ fixture = "reduce_and_resume"
    /\ watcher = "reducing" => main = "wait_reduced" /\ fixture = "reduce_and_resume"
    /\ (main = "body" /\ answered /\ fixture \in {"pause", "pause_and_resume"})
          => load_status = "paused"

\* What runs in the cluster is listed.
PodsListed == pods \subseteq Listed(dc_objs)

PauseInv == (~Timeouts => AskedInv) /\ (~Faults => PodsListed)

-----------------------------------------------------------------------------
(* Lists.                                                                  *)

\* Taking the last element off a list.
LEMMA FrontFacts ==
    ASSUME NEW S, NEW s \in Seq(S), s # <<>>
    PROVE  /\ Len(s) \in Nat \ {0}
           /\ Last(s) \in S
           /\ Front(s) \in Seq(S)
           /\ Len(Front(s)) = Len(s) - 1
           /\ \A i \in 1 .. Len(s) - 1 : Front(s)[i] = s[i]
<1>1. Len(s) \in Nat /\ Len(s) # 0
  OBVIOUS
<1>2. \A i \in 1 .. Len(s) : s[i] \in S
  OBVIOUS
<1>3. \A i \in 1 .. Len(s) - 1 : s[i] \in S
  BY <1>1, <1>2
<1> DEFINE n == Len(s) - 1
           t == SubSeq(s, 1, n)
<1>4. n \in Nat
  BY <1>1
<1>5. \A i \in 1 .. n : s[i] \in S
  BY <1>3
<1> HIDE DEF n
<1>6. /\ t \in Seq(S)
      /\ Len(t) = IF 1 <= n THEN n - 1 + 1 ELSE 0
      /\ \A i \in 1 .. n - 1 + 1 : t[i] = s[1 + i - 1]
  BY <1>4, <1>5, SubSeqProperties
<1> HIDE DEF t
<1>7. Len(t) = n
  BY <1>4, <1>6
<1>8. \A i \in 1 .. n : t[i] = s[i]
  BY <1>4, <1>6
<1>9. Last(s) \in S
  BY <1>1, <1>2 DEF Last
<1>10. Front(s) = t
  BY DEF Front, t, n
<1> QED BY <1>1, <1>6, <1>7, <1>8, <1>9, <1>10 DEF n

\* Setting the _is_deleted flag of the last element.
LEMMA FlagFacts ==
    ASSUME NEW s \in Seq(Object), s # <<>>, NEW b \in BOOLEAN
    PROVE  /\ [s EXCEPT ![Len(s)].deleted = b] \in Seq(Object)
           /\ Len([s EXCEPT ![Len(s)].deleted = b]) = Len(s)
           /\ \A i \in 1 .. Len(s) : [s EXCEPT ![Len(s)].deleted = b][i].id = s[i].id
<1> DEFINE t == [s EXCEPT ![Len(s)].deleted = b]
<1>1. Len(s) \in Nat \ {0} /\ s \in [1 .. Len(s) -> Object]
  OBVIOUS
<1>2. t \in [1 .. Len(s) -> Object]
  BY <1>1 DEF Object
<1>3. \A i \in 1 .. Len(s) : t[i].id = s[i].id
  BY <1>1 DEF Object
<1> HIDE DEF t
<1>4. t \in Seq(Object) /\ Len(t) = Len(s)
  BY <1>1, <1>2
<1> QED BY <1>3, <1>4 DEF t

\* Below the last index.
LEMMA BelowLast == \A k \in Nat : \A j \in 1 .. k + 1 : j # k + 1 => j \in 1 .. k
OBVIOUS

\* Alignment only depends on the identifiers.
LEMMA AlignedSame ==
    ASSUME NEW d \in Seq(Object), NEW p \in Seq(Object),
           NEW e \in Seq(Object), NEW q \in Seq(Object),
           Aligned(d, p), Len(e) = Len(d), Len(q) = Len(p),
           \A i \in 1 .. Len(d) : e[i].id = d[i].id,
           \A i \in 1 .. Len(p) : q[i].id = p[i].id
    PROVE  Aligned(e, q)
<1>1. PICK f \in [1 .. Len(d) -> 1 .. Len(p)] :
        /\ \A i, j \in 1 .. Len(d) : i < j => f[i] < f[j]
        /\ \A i \in 1 .. Len(d) : p[f[i]].id = d[i].id
  BY DEF Aligned
<1>2. f \in [1 .. Len(e) -> 1 .. Len(q)]
  OBVIOUS
<1>3. \A i, j \in 1 .. Len(e) : i < j => f[i] < f[j]
  BY <1>1
<1>4. \A i \in 1 .. Len(e) : q[f[i]].id = e[i].id
  BY <1>1
<1> QED BY <1>2, <1>3, <1>4 DEF Aligned

\* A PVC may be listed without a deployment.
LEMMA AlignedMorePvcs ==
    ASSUME NEW d \in Seq(Object), NEW p \in Seq(Object), NEW o \in Object, Aligned(d, p)
    PROVE  Aligned(d, Append(p, o))
<1>1. PICK f \in [1 .. Len(d) -> 1 .. Len(p)] :
        /\ \A i, j \in 1 .. Len(d) : i < j => f[i] < f[j]
        /\ \A i \in 1 .. Len(d) : p[f[i]].id = d[i].id
  BY DEF Aligned
<1>2. /\ Len(p) \in Nat /\ Len(Append(p, o)) = Len(p) + 1
      /\ \A i \in 1 .. Len(p) : Append(p, o)[i] = p[i]
  OBVIOUS
<1>3. f \in [1 .. Len(d) -> 1 .. Len(Append(p, o))]
  BY <1>2
<1>4. \A i \in 1 .. Len(d) : Append(p, o)[f[i]].id = d[i].id
  BY <1>1, <1>2
<1> QED BY <1>1, <1>3, <1>4 DEF Aligned

\* A deployment is listed together with its PVC.
LEMMA AlignedMore ==
    ASSUME NEW d \in Seq(Object), NEW p \in Seq(Object), NEW o \in Object, Aligned(d, p)
    PROVE  Aligned(Append(d, o), Append(p, o))
<1>1. PICK f \in [1 .. Len(d) -> 1 .. Len(p)] :
        /\ \A i, j \in 1 .. Len(d) : i < j => f[i] < f[j]
        /\ \A i \in 1 .. Len(d) : p[f[i]].id = d[i].id
  BY DEF Aligned
<1> DEFINE n == Len(d) + 1
           g == [i \in 1 .. n |-> IF i = n THEN Len(p) + 1 ELSE f[i]]
<1>2. /\ Len(d) \in Nat /\ Len(Append(d, o)) = n
      /\ Append(d, o)[n] = o
      /\ \A i \in 1 .. Len(d) : Append(d, o)[i] = d[i]
  OBVIOUS
<1>3. /\ Len(p) \in Nat /\ Len(Append(p, o)) = Len(p) + 1
      /\ Append(p, o)[Len(p) + 1] = o
      /\ \A i \in 1 .. Len(p) : Append(p, o)[i] = p[i]
  OBVIOUS
<1>4. g \in [1 .. n -> 1 .. Len(p) + 1]
  BY <1>2, <1>3
<1>5. \A i, j \in 1 .. n : i < j => g[i] < g[j]
  <2> SUFFICES ASSUME NEW i \in 1 .. n, NEW j \in 1 .. n, i < j
               PROVE  g[i] < g[j]
    OBVIOUS
  <2>1. i \in 1 .. Len(d) /\ i # n /\ g[i] = f[i] /\ f[i] \in 1 .. Len(p)
    BY <1>2
  <2>2. CASE j = n
    BY <1>3, <2>1, <2>2
  <2>3. CASE j # n
    <3>1. j \in 1 .. Len(d)
      BY <1>2, <2>3, BelowLast
    <3>2. g[j] = f[j]
      BY <2>3
    <3> QED BY <1>1, <2>1, <3>1, <3>2
  <2> QED BY <2>2, <2>3
<1>6. \A i \in 1 .. n : Append(p, o)[g[i]].id = Append(d, o)[i].id
  BY <1>1, <1>2, <1>3
<1> HIDE DEF g, n
<1>7. \E h \in [1 .. Len(Append(d, o)) -> 1 .. Len(Append(p, o))] :
        /\ \A i, j \in 1 .. Len(Append(d, o)) : i < j => h[i] < h[j]
        /\ \A i \in 1 .. Len(Append(d, o)) : Append(p, o)[h[i]].id = Append(d, o)[i].id
  <2>1. Len(Append(d, o)) = n /\ Len(Append(p, o)) = Len(p) + 1
    BY <1>2, <1>3 DEF n
  <2> QED BY <1>4, <1>5, <1>6, <2>1
<1> QED BY <1>7 DEF Aligned

\* The last deployment goes; then the last PVC may go too.
LEMMA AlignedLess ==
    ASSUME NEW d \in Seq(Object), NEW p \in Seq(Object), Aligned(d, p), d # <<>>
    PROVE  p # <<>> /\ Aligned(Front(d), p) /\ Aligned(Front(d), Front(p))
<1>1. PICK f \in [1 .. Len(d) -> 1 .. Len(p)] :
        /\ \A i, j \in 1 .. Len(d) : i < j => f[i] < f[j]
        /\ \A i \in 1 .. Len(d) : p[f[i]].id = d[i].id
  BY DEF Aligned
<1>2. /\ Len(d) \in Nat \ {0}
      /\ Front(d) \in Seq(Object)
      /\ Len(Front(d)) = Len(d) - 1
      /\ \A i \in 1 .. Len(d) - 1 : Front(d)[i] = d[i]
  BY FrontFacts
<1>3. p # <<>>
  <2>1. f[Len(d)] \in 1 .. Len(p)
    BY <1>2
  <2> QED BY <2>1
<1>4. /\ Len(p) \in Nat \ {0}
      /\ Front(p) \in Seq(Object)
      /\ Len(Front(p)) = Len(p) - 1
      /\ \A i \in 1 .. Len(p) - 1 : Front(p)[i] = p[i]
  BY <1>3, FrontFacts
<1> DEFINE g == [i \in 1 .. Len(d) - 1 |-> f[i]]
<1>5. \A i \in 1 .. Len(d) - 1 : g[i] \in 1 .. Len(p) - 1 /\ g[i] = f[i]
  <2> SUFFICES ASSUME NEW i \in 1 .. Len(d) - 1
               PROVE  f[i] \in 1 .. Len(p) - 1
    OBVIOUS
  <2>1. i \in 1 .. Len(d) /\ Len(d) \in 1 .. Len(d) /\ i < Len(d)
    BY <1>2
  <2>2. f[i] < f[Len(d)] /\ f[i] \in 1 .. Len(p) /\ f[Len(d)] \in 1 .. Len(p)
    BY <1>1, <2>1
  <2> QED BY <1>4, <2>2
<1>6. \A i, j \in 1 .. Len(d) - 1 : i < j => g[i] < g[j]
  BY <1>1, <1>2
<1>7. g \in [1 .. Len(d) - 1 -> 1 .. Len(p)] /\ g \in [1 .. Len(d) - 1 -> 1 .. Len(p) - 1]
  <2>1. \A i \in 1 .. Len(d) - 1 : f[i] \in 1 .. Len(p) - 1 /\ f[i] \in 1 .. Len(p)
    BY <1>4, <1>5
  <2> QED BY <2>1
<1>8. \A i \in 1 .. Len(d) - 1 : p[g[i]].id = Front(d)[i].id /\ Front(p)[g[i]].id = Front(d)[i].id
  <2> SUFFICES ASSUME NEW i \in 1 .. Len(d) - 1
               PROVE  p[g[i]].id = Front(d)[i].id /\ Front(p)[g[i]].id = Front(d)[i].id
    OBVIOUS
  <2>1. g[i] = f[i] /\ f[i] \in 1 .. Len(p) - 1 /\ i \in 1 .. Len(d)
    BY <1>2, <1>5
  <2>2. Front(d)[i] = d[i] /\ Front(p)[f[i]] = p[f[i]] /\ p[f[i]].id = d[i].id
    BY <1>1, <1>2, <1>4, <2>1
  <2> QED BY <2>1, <2>2
<1> HIDE DEF g
<1> DEFINE e == Front(d)
           q == Front(p)
<1>9. /\ g \in [1 .. Len(e) -> 1 .. Len(p)] /\ g \in [1 .. Len(e) -> 1 .. Len(q)]
      /\ \A i, j \in 1 .. Len(e) : i < j => g[i] < g[j]
      /\ \A i \in 1 .. Len(e) : p[g[i]].id = e[i].id /\ q[g[i]].id = e[i].id
  <2>1. Len(e) = Len(d) - 1 /\ Len(q) = Len(p) - 1
    BY <1>2, <1>4
  <2> HIDE DEF e, q
  <2> QED BY ONLY <1>6, <1>7, <1>8, <2>1 DEF e, q
<1> HIDE DEF e, q
<1>10. Aligned(e, p)
  BY <1>9 DEF Aligned
<1>11. Aligned(e, q)
  BY <1>9 DEF Aligned
<1> QED BY <1>3, <1>10, <1>11 DEF e, q

-----------------------------------------------------------------------------
(* The two calls that change the load.                                     *)

\* What a deletion can come to.
LEMMA DeleteTypes ==
    \A o, live, used : \A r \in Delete(o, live, used) :
        r.done \in BOOLEAN /\ r.deleted \in BOOLEAN /\ r.gone \in BOOLEAN
BY DEF Delete

\* increase_load keeps the lists aligned and adds at most one deployment.
LEMMA IncreaseKeeps ==
    ASSUME LoadOK, NEW ok \in BOOLEAN, increase_load(ok)
    PROVE  LoadOK' /\ Len(dc_objs') <= Len(dc_objs) + 1 /\ Len(dc_objs') \in Nat
<1>0. Len(dc_objs) \in Nat
  BY DEF LoadOK
<1>1. CASE UNCHANGED load
  <2>1. dc_objs' = dc_objs /\ pvc_objs' = pvc_objs /\ pods' = pods /\ pvcs' = pvcs
    BY <1>1 DEF load
  <2>2. Aligned(dc_objs, pvc_objs)'
    BY <2>1 DEF LoadOK, Aligned
  <2> QED BY <1>0, <2>1, <2>2 DEF LoadOK
<1>2. CASE ~UNCHANGED load
  <2>1. PICK id \in Ids :
          LET obj == [id |-> id, deleted |-> FALSE] IN
          /\ pvcs' = pvcs \cup {id}
          /\ \/ /\ pvc_objs' = Append(pvc_objs, obj)
                /\ dc_objs' = Append(dc_objs, obj)
                /\ pods' = pods \cup {id}
             \/ UNCHANGED <<pvc_objs, dc_objs, pods>>
             \/ /\ pvc_objs' = Append(pvc_objs, obj)
                /\ pods' \in {pods, pods \cup {id}}
                /\ UNCHANGED dc_objs
    BY <1>2 DEF increase_load
  <2> DEFINE obj == [id |-> id, deleted |-> FALSE]
  <2>2. obj \in Object
    BY DEF Object
  <2>3. pods' \subseteq Ids /\ pvcs' \subseteq Ids
    BY <2>1 DEF LoadOK
  <2> HIDE DEF obj
  <2>4. CASE pvc_objs' = Append(pvc_objs, obj) /\ dc_objs' = Append(dc_objs, obj)
    <3>1. dc_objs' \in Seq(Object) /\ pvc_objs' \in Seq(Object)
      BY <2>2, <2>4 DEF LoadOK
    <3>2. Len(dc_objs') = Len(dc_objs) + 1
      BY <2>2, <2>4 DEF LoadOK
    <3>3. Aligned(dc_objs', pvc_objs')
      BY <2>2, <2>4, AlignedMore DEF LoadOK
    <3>4. Aligned(dc_objs, pvc_objs)'
      BY <3>3 DEF Aligned
    <3> QED BY <1>0, <2>3, <3>1, <3>2, <3>4 DEF LoadOK
  <2>5. CASE pvc_objs' = pvc_objs /\ dc_objs' = dc_objs
    <3>1. Aligned(dc_objs, pvc_objs)'
      BY <2>5 DEF LoadOK, Aligned
    <3> QED BY <1>0, <2>3, <2>5, <3>1 DEF LoadOK
  <2>6. CASE pvc_objs' = Append(pvc_objs, obj) /\ dc_objs' = dc_objs
    <3>1. dc_objs' \in Seq(Object) /\ pvc_objs' \in Seq(Object)
      BY <2>2, <2>6 DEF LoadOK
    <3>3. Aligned(dc_objs', pvc_objs')
      BY <2>2, <2>6, AlignedMorePvcs DEF LoadOK
    <3>4. Aligned(dc_objs, pvc_objs)'
      BY <3>3 DEF Aligned
    <3> QED BY <1>0, <2>3, <2>6, <3>1, <3>4 DEF LoadOK
  <2> QED BY <2>1, <2>4, <2>5, <2>6 DEF obj
<1> QED BY <1>1, <1>2

\* decrease_load keeps the lists aligned and never adds a deployment.
LEMMA DecreaseKeeps ==
    ASSUME LoadOK, NEW ok \in BOOLEAN, decrease_load(ok)
    PROVE  LoadOK' /\ Len(dc_objs') <= Len(dc_objs) /\ Len(dc_objs') \in Nat
<1> DEFINE d == Last(dc_objs)
           p == Last(pvc_objs)
<1>1. dc_objs \in Seq(Object) /\ pvc_objs \in Seq(Object) /\ dc_objs # <<>>
  BY DEF LoadOK, decrease_load
<1>2. /\ pvc_objs # <<>>
      /\ Aligned(Front(dc_objs), pvc_objs)
      /\ Aligned(Front(dc_objs), Front(pvc_objs))
  BY <1>1, AlignedLess DEF LoadOK
<1>3. /\ Len(dc_objs) \in Nat \ {0} /\ Front(dc_objs) \in Seq(Object)
      /\ Len(Front(dc_objs)) = Len(dc_objs) - 1
      /\ Front(pvc_objs) \in Seq(Object)
  BY <1>1, <1>2, FrontFacts
<1>4. PICK r \in Delete(d, pods, {}) :
        /\ pods' = IF r.gone THEN pods \ {d.id} ELSE pods
        /\ \/ /\ ~r.done /\ ~ok
              /\ dc_objs' = [dc_objs EXCEPT ![Len(dc_objs)].deleted = r.deleted]
              /\ UNCHANGED <<pvc_objs, pvcs>>
           \/ /\ r.done
              /\ dc_objs' = Front(dc_objs)
              /\ \E q \in Delete(p, pvcs, pods') :
                   /\ ok = q.done
                   /\ pvcs' = IF q.gone THEN pvcs \ {p.id} ELSE pvcs
                   /\ pvc_objs' = IF q.done THEN Front(pvc_objs)
                                  ELSE [pvc_objs EXCEPT ![Len(pvc_objs)].deleted = q.deleted]
  BY DEF decrease_load
<1>5. pods' \subseteq Ids
  BY <1>4 DEF LoadOK
<1>6. CASE /\ dc_objs' = [dc_objs EXCEPT ![Len(dc_objs)].deleted = r.deleted]
           /\ UNCHANGED <<pvc_objs, pvcs>>
  <2>1. r.deleted \in BOOLEAN
    BY DeleteTypes
  <2>2. /\ dc_objs' \in Seq(Object) /\ Len(dc_objs') = Len(dc_objs)
        /\ \A i \in 1 .. Len(dc_objs) : dc_objs'[i].id = dc_objs[i].id
    BY <1>1, <1>6, <2>1, FlagFacts
  <2>3. Aligned(dc_objs', pvc_objs)
    BY <1>1, <2>2, AlignedSame DEF LoadOK
  <2>4. Aligned(dc_objs, pvc_objs)'
    BY <1>6, <2>3 DEF Aligned
  <2> QED BY <1>3, <1>5, <1>6, <2>2, <2>4 DEF LoadOK
<1>7. CASE /\ dc_objs' = Front(dc_objs)
           /\ \E q \in Delete(p, pvcs, pods') :
                /\ pvcs' = IF q.gone THEN pvcs \ {p.id} ELSE pvcs
                /\ pvc_objs' = IF q.done THEN Front(pvc_objs)
                               ELSE [pvc_objs EXCEPT ![Len(pvc_objs)].deleted = q.deleted]
  <2>1. PICK q \in Delete(p, pvcs, pods') :
          /\ pvcs' = IF q.gone THEN pvcs \ {p.id} ELSE pvcs
          /\ pvc_objs' = IF q.done THEN Front(pvc_objs)
                         ELSE [pvc_objs EXCEPT ![Len(pvc_objs)].deleted = q.deleted]
    BY <1>7
  <2>2. q.deleted \in BOOLEAN
    BY DeleteTypes
  <2>3. pvcs' \subseteq Ids
    BY <2>1 DEF LoadOK
  <2>4. pvc_objs' \in Seq(Object) /\ Aligned(Front(dc_objs), pvc_objs')
    <3>1. CASE q.done
      BY <1>2, <1>3, <2>1, <3>1
    <3>2. CASE ~q.done
      <4>1. /\ pvc_objs' \in Seq(Object) /\ Len(pvc_objs') = Len(pvc_objs)
            /\ \A i \in 1 .. Len(pvc_objs) : pvc_objs'[i].id = pvc_objs[i].id
        BY <1>1, <1>2, <2>1, <2>2, <3>2, FlagFacts
      <4> QED BY <1>1, <1>2, <1>3, <4>1, AlignedSame
    <3> QED BY <3>1, <3>2
  <2>5. Aligned(dc_objs, pvc_objs)'
    BY <1>7, <2>4 DEF Aligned
  <2> QED BY <1>3, <1>5, <1>7, <2>3, <2>4, <2>5 DEF LoadOK
<1> QED BY <1>4, <1>6, <1>7

\* A step that leaves the load alone.
LEMMA LoadKept ==
    ASSUME LoadOK, UNCHANGED load
    PROVE  LoadOK' /\ dc_objs' = dc_objs /\ Len(dc_objs) \in Nat
<1>1. dc_objs' = dc_objs /\ pvc_objs' = pvc_objs /\ pods' = pods /\ pvcs' = pvcs
  BY DEF load
<1>2. Aligned(dc_objs, pvc_objs)'
  BY <1>1 DEF LoadOK, Aligned
<1> QED BY <1>1, <1>2 DEF LoadOK

-----------------------------------------------------------------------------
(* The invariant.                                                          *)

\* The session begins with empty lists.
LEMMA InitInv == ASSUME Init PROVE LoadInv
<1>1. dc_objs = <<>> /\ pvc_objs = <<>> /\ pods = {} /\ pvcs = {}
  BY DEF Init
<1>2. /\ load_status = "unset" /\ target_pods_number = NoTarget /\ keep = 0
      /\ fixture = "none" /\ answered = FALSE /\ watcher = "none"
      /\ main \in {"ramp", "setup_done"} /\ made \in BOOLEAN /\ cluster_load_error \in BOOLEAN
  BY DEF Init
<1>3. TypeOK
  <2>1. dc_objs \in Seq(Object) /\ pvc_objs \in Seq(Object) /\ pods \subseteq Ids /\ pvcs \subseteq Ids
    BY <1>1
  <2>2. load_status \in Statuses /\ main \in MainSteps /\ watcher \in WatcherSteps
    BY <1>2 DEF Statuses, MainSteps, WatcherSteps
  <2>3. /\ target_pods_number \in Nat \cup {NoTarget} /\ keep \in Nat
        /\ fixture \in AllFixtures \cup {"none"}
    BY <1>2
  <2> QED BY <1>2, <2>1, <2>2, <2>3 DEF TypeOK
<1>4. LoadOK
  <2>1. Len(dc_objs) = 0 /\ dc_objs \in Seq(Object) /\ pvc_objs \in Seq(Object)
    BY <1>1
  <2> DEFINE f == [i \in 1 .. 0 |-> i]
  <2>2. f \in [1 .. Len(dc_objs) -> 1 .. Len(pvc_objs)] /\ 1 .. Len(dc_objs) = {}
    BY <2>1
  <2> HIDE DEF f
  <2>3. Aligned(dc_objs, pvc_objs)
    BY <2>2 DEF Aligned
  <2> QED BY <1>1, <2>1, <2>3 DEF LoadOK
<1>5. HeldInv /\ TargetInv
  BY <1>2 DEF HeldInv, TargetInv, InSetup, NoTarget
<1> QED BY <1>3, <1>4, <1>5 DEF LoadInv

\* The set-up of the session fixture.
LEMMA SetupInv == ASSUME LoadInv, Setup PROVE LoadInv'
<1> USE DEF LoadInv
<1>0. Len(dc_objs) \in Nat
  BY DEF LoadOK
<1>1. main \in InSetup /\ watcher = "none" /\ load_status = "unset"
  BY DEF Setup, NoPercentage, Ramp, Drop, Fill, StartWatcher, TargetInv, InSetup
<1>2. LoadOK' /\ Len(dc_objs') \in Nat
  <2>1. CASE NoPercentage \/ StartWatcher
    BY <1>0, <2>1, LoadKept DEF NoPercentage, StartWatcher
  <2>2. CASE Ramp \/ Fill
    BY <2>2, IncreaseKeeps DEF Ramp, Fill
  <2>3. CASE Drop
    BY <2>3, DecreaseKeeps DEF Drop
  <2> QED BY <2>1, <2>2, <2>3 DEF Setup
<1>3. CASE NoPercentage \/ Ramp \/ Drop \/ Fill
  <2>1. /\ load_status' = load_status /\ keep' = keep /\ made' = made /\ fixture' = fixture
        /\ answered' = answered /\ watcher' = watcher
        /\ target_pods_number = NoTarget
    BY <1>3 DEF NoPercentage, Ramp, Drop, Fill, SetupVars, TargetInv
  <2>2. main' \in InSetup /\ cluster_load_error' \in BOOLEAN
    BY <1>3 DEF NoPercentage, Ramp, Drop, Fill, SetupFailed, InSetup, TypeOK
  <2>3. \/ target_pods_number' = NoTarget
        \/ main' = "setup_done" /\ target_pods_number' = Len(dc_objs')
    BY <1>3, <2>1 DEF NoPercentage, Ramp, Drop, Fill, SetupFailed
  <2>4. TypeOK'
    BY <1>1, <1>2, <2>1, <2>2, <2>3 DEF TypeOK, LoadOK, InSetup, MainSteps, Statuses
  <2>5. HeldInv'
    BY <1>1, <2>1, <2>2 DEF HeldInv, InSetup
  <2>6. TargetInv'
    BY <1>1, <1>2, <2>1, <2>2, <2>3 DEF TargetInv
  <2> QED BY <1>2, <2>4, <2>5, <2>6
<1>4. CASE StartWatcher
  <2>1. /\ load_status' = "running" /\ watcher' = "top" /\ main' = "idle"
        /\ dc_objs' = dc_objs
        /\ UNCHANGED <<target_pods_number, keep, made, cluster_load_error, fixture, answered>>
    BY <1>4 DEF StartWatcher, load
  <2>2. TypeOK'
    BY <1>2, <2>1 DEF TypeOK, LoadOK, Statuses, MainSteps, WatcherSteps
  <2>3. HeldInv' /\ TargetInv'
    BY <2>1 DEF HeldInv, TargetInv, InSetup
  <2> QED BY <1>2, <2>2, <2>3
<1> QED BY <1>3, <1>4 DEF Setup

\* The watcher's reads.
LEMMA ReadInv ==
    ASSUME LoadInv, WatchTop \/ WatchMetrics \/ IsRunning \/ IsPause \/ IsReduce \/ IsResume
    PROVE  LoadInv'
<1> USE DEF LoadInv
<1>1. UNCHANGED load /\ load_status' = load_status
  BY DEF WatchTop, WatchMetrics, IsRunning, IsPause, IsReduce, IsResume
<1>2. LoadOK' /\ dc_objs' = dc_objs /\ Len(dc_objs) \in Nat
  BY <1>1, LoadKept
<1>3. /\ UNCHANGED <<main, fixture, answered>>
      /\ UNCHANGED <<made, cluster_load_error, target_pods_number>>
  BY DEF WatchTop, WatchMetrics, IsRunning, IsPause, IsReduce, IsResume, WatcherVars, session
<1>4. watcher \in Reading
  BY DEF WatchTop, WatchMetrics, IsRunning, IsPause, IsReduce, IsResume, Reading
<1>5. /\ watcher' \in Reading \cup {"adjust", "pausing", "reducing", "resuming"}
      /\ watcher' \notin Reading => load_status \notin {"paused", "reduced"}
      /\ watcher' = "pausing" => keep' = 0
      /\ keep' \in Nat
  <2>1. CASE WatchTop \/ WatchMetrics \/ IsRunning \/ IsResume
    BY <2>1 DEF WatchTop, WatchMetrics, IsRunning, IsResume, Reading, TypeOK
  <2>2. CASE IsPause
    BY <2>2 DEF IsPause, Reading, TypeOK, pods_to_keep
  <2>3. CASE IsReduce
    BY <1>2, <2>3 DEF IsReduce, Reading, TypeOK, pods_to_keep
  <2> QED BY <2>1, <2>2, <2>3
<1>6. TypeOK'
  BY <1>1, <1>2, <1>3, <1>5 DEF TypeOK, LoadOK, Reading, WatcherSteps
<1>7. HeldInv'
  BY <1>1, <1>2, <1>3, <1>5 DEF HeldInv
<1>8. TargetInv'
  BY <1>1, <1>2, <1>3, <1>4 DEF TargetInv, Reading
<1> QED BY <1>2, <1>6, <1>7, <1>8

\* The watcher's work and its answers.
LEMMA WorkInv ==
    ASSUME LoadInv, adjust_load_if_needed \/ reduce_load \/ resume_load
    PROVE  LoadInv'
<1> USE DEF LoadInv
<1>0. Len(dc_objs) \in Nat
  BY DEF LoadOK
<1>1. /\ UNCHANGED <<main, fixture, answered>>
      /\ UNCHANGED <<made, cluster_load_error, target_pods_number>>
      /\ keep' = keep
  BY DEF adjust_load_if_needed, reduce_load, resume_load, WatcherVars, session
<1>2. watcher \in {"adjust", "pausing", "reducing", "resuming"}
  BY DEF adjust_load_if_needed, reduce_load, resume_load
<1>3. load_status \notin {"paused", "reduced"} /\ main \notin InSetup /\ main # "measuring"
  BY <1>2 DEF HeldInv, TargetInv, Reading
<1>4. /\ LoadOK' /\ Len(dc_objs') \in Nat
      /\ \/ Len(dc_objs') <= Len(dc_objs)
         \/ PodsMissing /\ Len(dc_objs') <= Len(dc_objs) + 1
  <2>1. CASE UNCHANGED load
    BY <1>0, <2>1, LoadKept
  <2>2. CASE \E ok \in BOOLEAN : decrease_load(ok)
    BY <2>2, DecreaseKeeps
  <2>3. CASE PodsMissing /\ \E ok \in BOOLEAN : increase_load(ok)
    BY <2>3, IncreaseKeeps
  <2> QED BY <2>1, <2>2, <2>3 DEF adjust_load_if_needed, reduce_load, resume_load
<1>6. TargetInv'
  BY <1>1, <1>3 DEF TargetInv, InSetup
<1>7. \/ load_status' = load_status /\ watcher' \in {watcher, "top"}
      \/ load_status' \in {"running", "reduced"} /\ watcher' = "top"
      \/ load_status' = "paused" /\ watcher' = "top" /\ dc_objs' = <<>>
  <2>1. CASE adjust_load_if_needed \/ resume_load
    BY <2>1 DEF adjust_load_if_needed, resume_load
  <2>2. CASE reduce_load /\ Len(dc_objs) > keep
    BY <1>0, <2>2 DEF reduce_load, TypeOK
  <2>3. CASE reduce_load /\ ~(Len(dc_objs) > keep)
    <3>1. /\ load_status' = IF watcher = "pausing" THEN "paused" ELSE "reduced"
          /\ watcher' = "top" /\ dc_objs' = dc_objs /\ Len(dc_objs) <= keep
      BY <2>3 DEF reduce_load, load
    <3>2. watcher = "pausing" => dc_objs = <<>>
      <4>1. watcher = "pausing" => Len(dc_objs) = 0
        BY <1>0, <3>1 DEF HeldInv
      <4> QED BY <4>1 DEF LoadOK
    <3> QED BY <3>1, <3>2
  <2> QED BY <2>1, <2>2, <2>3
<1>8. TypeOK'
  BY <1>1, <1>2, <1>4, <1>7 DEF TypeOK, LoadOK, Statuses, WatcherSteps
<1>9. HeldInv'
  BY <1>1, <1>2, <1>3, <1>7 DEF HeldInv, Reading
<1> QED BY <1>4, <1>6, <1>8, <1>9

\* The tests of the session.
LEMMA TestsInv == ASSUME LoadInv, Tests PROVE LoadInv'
<1> USE DEF LoadInv
<1>1. UNCHANGED load /\ UNCHANGED <<target_pods_number, keep, made, cluster_load_error, watcher>>
  BY DEF Tests, TestSetup, PollReduced, TestTeardown, PollRunning, PollPaused, Measured,
         finish_cluster_load, Joined, MainVars
<1>2. LoadOK' /\ dc_objs' = dc_objs
  BY <1>1, LoadKept
<1>3. main \in MainSteps \ InSetup /\ main' \in MainSteps \ InSetup
  <2>1. CASE \E f \in Fixtures : TestSetup(f)
    BY <2>1, LoadAssumption DEF TestSetup, AllFixtures, MainSteps, InSetup
  <2>2. CASE ~\E f \in Fixtures : TestSetup(f)
    BY <2>2 DEF Tests, PollReduced, TestTeardown, PollRunning, PollPaused, Measured,
                finish_cluster_load, Joined, MainSteps, InSetup
  <2> QED BY <2>1, <2>2
<1>4. /\ load_status' \in {load_status, "to_be_paused", "to_be_reduced", "to_be_resumed", "finished"}
      /\ main' = "measuring" => load_status' = "paused"
  <2>1. CASE \E f \in Fixtures : TestSetup(f)
    BY <2>1, LoadAssumption DEF TestSetup, AllFixtures
  <2>2. CASE PollReduced \/ PollRunning \/ PollPaused \/ Joined \/ finish_cluster_load
    BY <2>2 DEF PollReduced, PollRunning, PollPaused, Joined, finish_cluster_load
  <2>3. CASE TestTeardown \/ Measured
    BY <2>3 DEF TestTeardown, Measured
  <2> QED BY <2>1, <2>2, <2>3 DEF Tests
<1>5. fixture' \in AllFixtures \cup {"none"} /\ answered' \in BOOLEAN
  <2>1. CASE \E f \in Fixtures : TestSetup(f)
    BY <2>1, LoadAssumption DEF TestSetup
  <2>2. CASE ~\E f \in Fixtures : TestSetup(f)
    BY <2>2 DEF Tests, PollReduced, TestTeardown, PollRunning, PollPaused, Measured,
                finish_cluster_load, Joined, TypeOK
  <2> QED BY <2>1, <2>2
<1>6. TypeOK'
  BY <1>1, <1>2, <1>3, <1>4, <1>5 DEF TypeOK, LoadOK, Statuses
<1>7. HeldInv'
  BY <1>1, <1>2, <1>4 DEF HeldInv
<1>8. TargetInv'
  BY <1>1, <1>2, <1>3 DEF TargetInv, InSetup
<1> QED BY <1>2, <1>6, <1>7, <1>8

\* A step that changes nothing.
LEMMA StutterInv == ASSUME LoadInv, UNCHANGED vars PROVE LoadInv'
<1> USE DEF LoadInv
<1>1. UNCHANGED load
  BY DEF vars, load
<1>2. LoadOK' /\ dc_objs' = dc_objs
  BY <1>1, LoadKept
<1>3. TypeOK'
  BY DEF vars, TypeOK
<1>4. HeldInv' /\ TargetInv'
  BY DEF vars, HeldInv, TargetInv
<1> QED BY <1>2, <1>3, <1>4

\* Every step keeps the invariant.
LEMMA NextInv == ASSUME LoadInv, [Next]_vars PROVE LoadInv'
BY SetupInv, TestsInv, ReadInv, WorkInv, StutterInv DEF Next, Watcher, Terminated

-----------------------------------------------------------------------------
(* The theorems.                                                           *)

\* The invariant holds in every reachable state.
THEOREM Invariance == Spec => []LoadInv
<1>1. Init => LoadInv
  BY InitInv
<1>2. LoadInv /\ [Next]_vars => LoadInv'
  BY NextInv
<1> QED BY <1>1, <1>2, PTL DEF Spec

\* The variables of the session and of the ClusterLoad object keep their types.
THEOREM LoadTypeCorrect == Spec => []TypeOK
<1>1. LoadInv => TypeOK
  BY DEF LoadInv
<1> QED BY <1>1, Invariance, PTL

\* measure_workload_idle measures a cluster none of the listed FIO deployments
\* loads, after any history of requests, time-outs and failures.
THEOREM QuietMeasurement == Spec => []MeasureWhileQuiet
<1>1. LoadInv => MeasureWhileQuiet
  BY DEF LoadInv, HeldInv, MeasureWhileQuiet
<1> QED BY <1>1, Invariance, PTL

\* decrease_load and increase_load, however they fail, never unlist the PVC of a
\* deployment that is still listed.
THEOREM PvcsKept == Spec => []PodsKeepTheirPvc
<1>1. LoadInv => PodsKeepTheirPvc
  <2> SUFFICES ASSUME LoadInv, NEW i \in 1 .. Len(dc_objs)
               PROVE  dc_objs[i].id \in Listed(pvc_objs)
    BY DEF PodsKeepTheirPvc
  <2>1. PICK f \in [1 .. Len(dc_objs) -> 1 .. Len(pvc_objs)] :
          \A j \in 1 .. Len(dc_objs) : pvc_objs[f[j]].id = dc_objs[j].id
    BY DEF LoadInv, LoadOK, Aligned
  <2> QED BY <2>1 DEF Listed
<1> QED BY <1>1, Invariance, PTL

\* While the status says paused or reduced, no step creates a FIO deployment.
THEOREM HeldLoadDoesNotGrow == Spec => NoGrowthWhileHeld
<1>1. ASSUME LoadInv, [Next]_vars, load_status \in {"paused", "reduced"}
      PROVE  Len(dc_objs') <= Len(dc_objs)
  <2>0. Len(dc_objs) \in Nat
    BY <1>1 DEF LoadInv, LoadOK
  <2>1. watcher \in Reading /\ main \notin InSetup
    BY <1>1 DEF LoadInv, HeldInv, TargetInv, Reading
  <2>2. ~Setup
    BY <2>1 DEF Setup, NoPercentage, Ramp, Drop, Fill, StartWatcher, InSetup
  <2>3. ~(adjust_load_if_needed \/ reduce_load \/ resume_load)
    BY <2>1 DEF adjust_load_if_needed, reduce_load, resume_load, Reading
  <2>4. dc_objs' = dc_objs
    BY <1>1, <2>2, <2>3 DEF Next, Tests, Watcher, Terminated, vars, load, MainVars,
       WatchTop, WatchMetrics, IsRunning, IsPause, IsReduce, IsResume,
       TestSetup, PollReduced, TestTeardown, PollRunning, PollPaused, Measured,
       finish_cluster_load, Joined
  <2> QED BY <2>0, <2>4
<1> QED BY <1>1, Invariance, PTL DEF Spec, NoGrowthWhileHeld

-----------------------------------------------------------------------------
(* What leaves the list, and a test that paused the load.                  *)

\* A deployment that was deleted is gone.
LEMMA DoneIsGone ==
    \A o, live, used : \A r \in Delete(o, live, used) : r.done => r.gone
BY DEF Delete

LEMMA IncreaseLists ==
    ASSUME LoadOK, NEW ok \in BOOLEAN, increase_load(ok), ~Faults, PodsListed
    PROVE  PodsListed'
<1>1. PICK id \in Ids :
        LET obj == [id |-> id, deleted |-> FALSE] IN
          dc_objs' = Append(dc_objs, obj) /\ pods' = pods \cup {id}
  BY DEF increase_load
<1> DEFINE obj == [id |-> id, deleted |-> FALSE]
<1>2. obj \in Object /\ obj.id = id
  BY DEF Object
<1> HIDE DEF obj
<1>3. dc_objs \in Seq(Object) /\ dc_objs' = Append(dc_objs, obj)
  BY <1>1 DEF LoadOK, obj
<1>4. /\ Len(dc_objs) \in Nat /\ Len(dc_objs') = Len(dc_objs) + 1
      /\ \A i \in 1 .. Len(dc_objs) : dc_objs'[i] = dc_objs[i]
      /\ dc_objs'[Len(dc_objs) + 1] = obj
  BY <1>2, <1>3
<1>5. id \in Listed(dc_objs')
  <2>1. Len(dc_objs) + 1 \in 1 .. Len(dc_objs')
    BY <1>4
  <2> QED BY <1>2, <1>4, <2>1 DEF Listed
<1>6. Listed(dc_objs) \subseteq Listed(dc_objs')
  <2> SUFFICES ASSUME NEW i \in 1 .. Len(dc_objs)
               PROVE  dc_objs[i].id \in Listed(dc_objs')
    BY DEF Listed
  <2>1. i \in 1 .. Len(dc_objs') /\ dc_objs'[i] = dc_objs[i]
    BY <1>4
  <2> QED BY <2>1 DEF Listed
<1>7. pods' \subseteq Listed(dc_objs')
  BY <1>1, <1>5, <1>6 DEF PodsListed
<1> QED BY <1>7 DEF PodsListed, Listed

\* decrease_load only takes a deployment off its list that is gone.
LEMMA DecreaseForgets ==
    ASSUME LoadOK, NEW ok \in BOOLEAN, decrease_load(ok)
    PROVE  pods' \subseteq pods /\ (Listed(dc_objs) \ Listed(dc_objs')) \cap pods' = {}
<1> DEFINE d == Last(dc_objs)
<1>1. dc_objs \in Seq(Object) /\ dc_objs # <<>>
  BY DEF LoadOK, decrease_load
<1>2. PICK r \in Delete(d, pods, {}) :
        /\ pods' = IF r.gone THEN pods \ {d.id} ELSE pods
        /\ \/ dc_objs' = [dc_objs EXCEPT ![Len(dc_objs)].deleted = r.deleted]
           \/ r.done /\ dc_objs' = Front(dc_objs)
  BY DEF decrease_load
<1>3. CASE dc_objs' = [dc_objs EXCEPT ![Len(dc_objs)].deleted = r.deleted]
  <2>1. r.deleted \in BOOLEAN
    BY DeleteTypes
  <2>2. /\ Len(dc_objs') = Len(dc_objs)
        /\ \A i \in 1 .. Len(dc_objs) : dc_objs'[i].id = dc_objs[i].id
    BY <1>1, <1>3, <2>1, FlagFacts
  <2>3. Listed(dc_objs') = Listed(dc_objs)
    BY <2>2 DEF Listed
  <2> QED BY <1>2, <2>3
<1>4. CASE r.done /\ dc_objs' = Front(dc_objs)
  <2>1. pods' = pods \ {d.id}
    BY <1>2, <1>4, DoneIsGone
  <2>2. /\ Len(dc_objs) \in Nat \ {0} /\ Len(dc_objs') = Len(dc_objs) - 1
        /\ \A i \in 1 .. Len(dc_objs) - 1 : dc_objs'[i] = dc_objs[i]
    BY <1>1, <1>4, FrontFacts
  <2>3. ASSUME NEW x \in Listed(dc_objs), x # d.id
        PROVE  x \in Listed(dc_objs')
    <3>1. PICK i \in 1 .. Len(dc_objs) : x = dc_objs[i].id
      BY <2>3 DEF Listed
    <3>2. i # Len(dc_objs)
      BY <2>3, <3>1 DEF Last
    <3>3. i \in 1 .. Len(dc_objs')
      BY <2>2, <3>2
    <3>4. x = dc_objs'[i].id
      BY <2>2, <3>1, <3>3
    <3> QED BY <3>3, <3>4 DEF Listed
  <2> QED BY <2>1, <2>3
<1> QED BY <1>2, <1>3, <1>4

LEMMA DecreaseLists ==
    ASSUME LoadOK, NEW ok \in BOOLEAN, decrease_load(ok), PodsListed
    PROVE  PodsListed'
<1>1. pods' \subseteq Listed(dc_objs')
  BY DecreaseForgets DEF PodsListed
<1> QED BY <1>1 DEF PodsListed, Listed

\* increase_load takes no deployment off the list.
LEMMA IncreaseForgets ==
    ASSUME LoadOK, NEW ok \in BOOLEAN, increase_load(ok)
    PROVE  Listed(dc_objs) \subseteq Listed(dc_objs')
<1>1. CASE dc_objs' = dc_objs
  BY <1>1
<1>2. CASE \E id \in Ids : dc_objs' = Append(dc_objs, [id |-> id, deleted |-> FALSE])
  <2>1. PICK id \in Ids : dc_objs' = Append(dc_objs, [id |-> id, deleted |-> FALSE])
    BY <1>2
  <2> DEFINE obj == [id |-> id, deleted |-> FALSE]
  <2>2. obj \in Object
    BY DEF Object
  <2> HIDE DEF obj
  <2>3. dc_objs \in Seq(Object) /\ dc_objs' = Append(dc_objs, obj)
    BY <2>1 DEF LoadOK, obj
  <2>4. /\ Len(dc_objs) \in Nat /\ Len(dc_objs') = Len(dc_objs) + 1
        /\ \A i \in 1 .. Len(dc_objs) : dc_objs'[i] = dc_objs[i]
    BY <2>2, <2>3
  <2> SUFFICES ASSUME NEW i \in 1 .. Len(dc_objs)
               PROVE  dc_objs[i].id \in Listed(dc_objs')
    BY DEF Listed
  <2>5. i \in 1 .. Len(dc_objs') /\ dc_objs'[i] = dc_objs[i]
    BY <2>4
  <2> QED BY <2>5 DEF Listed
<1> QED BY <1>1, <1>2 DEF increase_load, load

\* The load only changes by these two calls.
LEMMA LoadSteps ==
    ASSUME [Next]_vars
    PROVE  \/ UNCHANGED <<dc_objs, pods>>
           \/ \E ok \in BOOLEAN : decrease_load(ok) \/ increase_load(ok)
<1>1. CASE Setup
  BY <1>1 DEF Setup, NoPercentage, Ramp, Drop, Fill, StartWatcher, load
<1>2. CASE Tests
  BY <1>2 DEF Tests, TestSetup, PollReduced, TestTeardown, PollRunning, PollPaused, Measured,
              finish_cluster_load, Joined, MainVars, load
<1>3. CASE Watcher
  BY <1>3 DEF Watcher, WatchTop, WatchMetrics, IsRunning, IsPause, IsReduce, IsResume,
              adjust_load_if_needed, reduce_load, resume_load, load
<1>4. CASE UNCHANGED vars
  BY <1>4 DEF vars
<1> QED BY <1>1, <1>2, <1>3, <1>4 DEF Next, Terminated

\* No step forgets a deployment that still runs: decrease_load deletes, waits, and
\* only then takes it off dc_objs.
THEOREM ForgottenDeploymentsAreGone == Spec => UnlistedIsGone
<1>1. ASSUME LoadInv, [Next]_vars
      PROVE  (Listed(dc_objs) \ Listed(dc_objs')) \cap pods' = {}
  <2>0. LoadOK
    BY <1>1 DEF LoadInv
  <2>1. CASE UNCHANGED <<dc_objs, pods>>
    BY <2>1
  <2>2. CASE \E ok \in BOOLEAN : decrease_load(ok) \/ increase_load(ok)
    BY <2>0, <2>2, DecreaseForgets, IncreaseForgets
  <2> QED BY <1>1, <2>1, <2>2, LoadSteps
<1> QED BY <1>1, Invariance, PTL DEF Spec, UnlistedIsGone

\* Without faults every deployment in the cluster is a listed one.
LEMMA NextListed ==
    ASSUME LoadInv, ~Faults, PodsListed, [Next]_vars
    PROVE  PodsListed'
<1>0. LoadOK
  BY DEF LoadInv
<1>1. CASE UNCHANGED <<dc_objs, pods>>
  BY <1>1 DEF PodsListed, Listed
<1>2. CASE \E ok \in BOOLEAN : decrease_load(ok) \/ increase_load(ok)
  BY <1>0, <1>2, DecreaseLists, IncreaseLists
<1> QED BY <1>1, <1>2, LoadSteps

\* A test waits for its answer, so that no two requests are under way.
LEMMA NextAsked ==
    ASSUME LoadInv, ~Timeouts, AskedInv, [Next]_vars
    PROVE  AskedInv'
<1> USE DEF LoadInv
<1>1. CASE Setup
  <2>1. main \in InSetup
    BY <1>1 DEF Setup, NoPercentage, Ramp, Drop, Fill, StartWatcher, InSetup
  <2>2. /\ main' # "body" /\ watcher' \in {"none", "top"} /\ load_status' \in {"unset", "running"}
    BY <1>1, <2>1 DEF Setup, NoPercentage, Ramp, Drop, Fill, StartWatcher, SetupFailed, SetupVars,
                      TargetInv, InSetup
  <2> QED BY <2>2 DEF AskedInv
<1>2. CASE WatchTop \/ WatchMetrics \/ IsRunning \/ IsPause \/ IsReduce \/ IsResume
  <2>1. UNCHANGED <<load_status, main, fixture, answered>>
    BY <1>2 DEF WatchTop, WatchMetrics, IsRunning, IsPause, IsReduce, IsResume, WatcherVars, session
  <2>2. watcher' = "reducing" => load_status = "to_be_reduced"
    BY <1>2 DEF WatchTop, WatchMetrics, IsRunning, IsPause, IsReduce, IsResume
  <2> QED BY <2>1, <2>2 DEF AskedInv
<1>3. CASE adjust_load_if_needed \/ reduce_load \/ resume_load
  <2>1. /\ UNCHANGED <<main, fixture, answered>>
        /\ watcher \in {"adjust", "pausing", "reducing", "resuming"}
        /\ watcher' \in {watcher, "top"}
    BY <1>3 DEF adjust_load_if_needed, reduce_load, resume_load, WatcherVars, session
  <2>2. load_status # "paused"
    BY <2>1 DEF HeldInv, Reading
  <2>3. \/ load_status' = load_status
        \/ load_status' \in {"paused", "running"}
        \/ load_status' = "reduced" /\ watcher = "reducing"
    BY <1>3 DEF adjust_load_if_needed, reduce_load, resume_load
  <2> QED BY <2>1, <2>2, <2>3 DEF AskedInv
<1>4. ASSUME NEW f \in Fixtures, TestSetup(f) PROVE AskedInv'
  <2>1. f \in AllFixtures
    BY LoadAssumption
  <2>2. main = "idle" /\ fixture' = f /\ answered' = FALSE /\ watcher' = watcher
    BY <1>4 DEF TestSetup, MainVars
  <2>3. watcher # "reducing" /\ load_status \notin {"to_be_reduced", "reduced"}
    BY <2>2 DEF AskedInv
  <2>4. CASE f = "reduce_and_resume"
    <3>1. main' = "wait_reduced" /\ load_status' = "to_be_reduced"
      BY <1>4, <2>4 DEF TestSetup
    <3> QED BY <2>2, <2>3, <2>4, <3>1 DEF AskedInv
  <2>5. CASE f = "resume"
    <3>1. load_status' = load_status
      BY <1>4, <2>5 DEF TestSetup
    <3> QED BY <2>2, <2>3, <3>1 DEF AskedInv
  <2>6. CASE f \in {"pause", "pause_and_resume", "measure_idle", "resize_osd"}
    <3>1. load_status' = "to_be_paused"
      BY <1>4, <2>6 DEF TestSetup
    <3> QED BY <2>2, <2>3, <3>1 DEF AskedInv
  <2> QED BY <2>1, <2>4, <2>5, <2>6 DEF AllFixtures
<1>5. CASE PollReduced
  <2>1. /\ main = "wait_reduced" /\ main' = "body" /\ UNCHANGED <<load_status, fixture, watcher>>
        /\ load_status \in {"paused", "reduced"}
    BY <1>5 DEF PollReduced, MainVars
  <2>2. watcher # "reducing"
    BY <2>1 DEF HeldInv, Reading
  <2> QED BY <2>1, <2>2 DEF AskedInv
<1>6. CASE TestTeardown
  <2>1. main = "body" /\ answered' = FALSE /\ UNCHANGED <<fixture, watcher>>
    BY <1>6 DEF TestTeardown, MainVars
  <2>2. watcher # "reducing" /\ load_status # "to_be_reduced"
    BY <2>1 DEF AskedInv
  <2>3. CASE fixture = "pause"
    <3>1. load_status' = load_status
      BY <1>6, <2>3 DEF TestTeardown
    <3> QED BY <2>1, <2>2, <2>3, <3>1 DEF AskedInv
  <2>4. CASE fixture # "pause"
    <3>1. load_status' = "to_be_resumed"
      BY <1>6, <2>4 DEF TestTeardown
    <3> QED BY <2>1, <2>2, <3>1 DEF AskedInv
  <2> QED BY <2>3, <2>4
<1>7. CASE PollRunning \/ PollPaused \/ Measured \/ finish_cluster_load \/ Joined
  <2>1. /\ main \notin {"wait_reduced", "body"} /\ main' # "body"
        /\ load_status' \in {load_status, "to_be_resumed", "finished"} /\ watcher' = watcher
    BY <1>7 DEF PollRunning, PollPaused, Measured, finish_cluster_load, Joined, MainVars
  <2> QED BY <2>1 DEF AskedInv
<1>8. CASE UNCHANGED vars
  BY <1>8 DEF vars, AskedInv
<1> QED BY <1>1, <1>2, <1>3, <1>4, <1>5, <1>6, <1>7, <1>8 DEF Next, Tests, Watcher, Terminated

\* The invariant about paused tests holds throughout.
THEOREM PauseInvariance == Spec => []PauseInv
<1>1. Init => PauseInv
  BY DEF Init, PauseInv, AskedInv, PodsListed
<1>2. LoadInv /\ PauseInv /\ [Next]_vars => PauseInv'
  BY NextListed, NextAsked DEF PauseInv
<1> QED BY <1>1, <1>2, Invariance, PTL DEF Spec

\* The fixtures that pause the load give their test a cluster without FIO
\* deployments, whichever fixtures came before and however the watcher interleaves,
\* as long as no polling times out.
THEOREM PausedTestsAreQuiet == Spec => []PausedTestQuiet
<1>1. LoadInv /\ PauseInv => PausedTestQuiet
  <2> SUFFICES ASSUME LoadInv, PauseInv, ~Timeouts, main = "body", answered,
                      fixture \in {"pause", "pause_and_resume"}
               PROVE  dc_objs = <<>> /\ (~Faults => pods = {})
    BY DEF PausedTestQuiet
  <2>1. dc_objs = <<>>
    BY DEF PauseInv, AskedInv, LoadInv, HeldInv
  <2>2. Listed(dc_objs) = {}
    BY <2>1 DEF Listed
  <2> QED BY <2>1, <2>2 DEF PauseInv, PodsListed
<1> QED BY <1>1, Invariance, PauseInvariance, PTL
=============================================================================
