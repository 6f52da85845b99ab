---------------------- MODULE MultiClusterConfig_proofs ----------------------
(***************************************************************************)
(* Proofs about MultiClusterConfig.  Type correctness and the absence of   *)
(* stale thread-local indexes hold whatever the threads do.  That every    *)
(* thread is on the cluster it asked for holds when only the main thread   *)
(* moves the context (OnlyMainSwitches), for any clusters, any number of   *)
(* pool threads and any nesting, until a removal shifts a position that    *)
(* some thread holds.                                                      *)
(***************************************************************************)
EXTENDS MultiClusterConfig, SequenceTheorems, WellFoundedInduction, TLAPS

\* The code the pool threads run never moves the context.
OnlyMainSwitches == \A t \in Workers : MayUse[t] = {}

-----------------------------------------------------------------------------
(* The inductive invariant behind the properties.                          *)

Positions == 0 .. Len(clusters) - 1

\* The clusters of the command line keep their positions for the whole run;
\* what follows them are hosted clusters.
ListInv ==
    /\ nclusters = Len(clusters)
    /\ NoDuplicates(clusters)
    /\ mode[Main] \in {"boot", "plain"}
    /\ mode[Main] = "boot" => /\ clusters = <<NoCluster>>
                              /\ \A t \in Threads : frames[t] = <<>> /\ pending[t] = Nothing
                              /\ \A t \in Workers : mode[t] = "idle"
    /\ mode[Main] = "plain" => /\ Len(Boot) <= Len(clusters)
                               /\ \A k \in 1 .. Len(Boot) : clusters[k] = Boot[k]
                               /\ \A k \in Len(Boot) + 1 .. Len(clusters) : clusters[k] \in Hosted

\* Exactly the threads that run a config-safe task have an index of their own.
BindingInv == \A t \in Threads : config_index[t] # NoIndex <=> mode[t] = "bound"

\* Clusters are removed by the main thread, and the one it is about to remove
\* is still in the list.
RemoveInv ==
    \A t \in Threads : pending[t].step = "remove" =>
        /\ t = Main
        /\ pending[t].goal \in Hosted
        /\ NameIndexes(pending[t].goal) # {}

\* Pool threads that do not move the context stay on their cluster.
WorkerInv ==
    \A t \in Workers :
        /\ frames[t] = <<>>
        /\ pending[t] = Nothing
        /\ mode[t] = "bound" => /\ config_index[t] \in Positions
                                /\ ClusterAt(config_index[t]) = want[t]

\* The main thread is on the cluster it wants, or is about to switch to it.
MainInv ==
    /\ cur_index \in Positions
    /\ pending[Main].step # "switch" => ClusterAt(cur_index) = want[Main]
    /\ pending[Main].step = "switch" => /\ pending[Main].index \in Positions
                                        /\ ClusterAt(pending[Main].index) = want[Main]
    /\ pending[Main].step = "enter" => /\ pending[Main].original \in Positions
                                       /\ ClusterAt(pending[Main].original) = want[Main]
                                       /\ pending[Main].index \in Positions
                                       /\ ClusterAt(pending[Main].index) = pending[Main].goal
    /\ pending[Main].step = "remove" => want[Main] \notin Hosted

\* Every frame's saved index selects the cluster to return to; the contexts
\* made in a client loop all return to where the loop was entered.
FrameFits(s, k, w) ==
    /\ s[k].original \in Positions
    /\ ClusterAt(s[k].original) = s[k].back
    /\ s[k].todo \subseteq Positions
    /\ s[k].kind = "clients" =>
          s[k].back = IF k = Len(s) THEN w ELSE s[k + 1].back

FrameInv == \A k \in 1 .. Depth(Main) : FrameFits(frames[Main], k, want[Main])

ContextInv ==
    /\ ListInv /\ BindingInv /\ RemoveInv
    /\ WorkerInv /\ MainInv /\ FrameInv
    /\ \A t \in Threads : error[t] # "IndexError"

-----------------------------------------------------------------------------
(* Lookups.                                                                *)

\* `First' picks an element: a non-empty set of indexes has a least one.
LEMMA FirstInSet ==
    ASSUME NEW S \in SUBSET Nat, S # {}
    PROVE  First(S) \in S
<1>1. PICK x \in S : \A y \in S : ~(<<y, x>> \in OpToRel(<, Nat))
  BY WFMin, NatLessThanWellFounded
<1>2. \A y \in S : ~(y < x)
  BY <1>1, Zenon DEF OpToRel
<1>3. \A y \in S : x <= y
  BY <1>2
<1> QED BY <1>3 DEF First

\* A list read by index yields a cluster, or NoCluster outside of the list.
LEMMA ClusterAtType ==
    ASSUME TypeOK, NEW i \in Nat
    PROVE  /\ ClusterAt(i) \in AnyCluster
           /\ i \in Positions => ClusterAt(i) = clusters[i + 1]
BY DEF TypeOK, ClusterAt, AnyCluster, Positions

\* get_provider_index returns an index of the list or the global index, and a
\* thread without an index of its own gets the provider it was promised.
LEMMA ProviderLookup ==
    ASSUME TypeOK, NEW t \in Threads, ProviderIndexes(t) # {}
    PROVE  /\ ProviderIndexes(t) \subseteq Positions \cup {cur_index}
           /\ First(ProviderIndexes(t)) \in ProviderIndexes(t)
           /\ First(ProviderIndexes(t)) \in Nat
           /\ Provider(t) \in AnyCluster
           /\ config_index[t] = NoIndex =>
                 Provider(t) = ClusterAt(First(ProviderIndexes(t)))
<1>1. ProviderIndexes(t) \subseteq Positions \cup {cur_index}
  BY DEF ProviderIndexes, NameIndexes, TypeIndexes, Positions
<1>2. ProviderIndexes(t) \subseteq Nat
  BY <1>1 DEF TypeOK, Positions
<1>3. First(ProviderIndexes(t)) \in ProviderIndexes(t)
  BY <1>2, FirstInSet
<1>4. EffectiveIndex(t) \in Nat
  BY DEF TypeOK, EffectiveIndex
<1>5. Provider(t) \in AnyCluster
  BY <1>2, <1>3, <1>4, ClusterAtType DEF Provider, Effective
<1>6. ASSUME config_index[t] = NoIndex
      PROVE  Provider(t) = ClusterAt(First(ProviderIndexes(t)))
  <2>1. CASE /\ ProviderNameOf[Effective(t)] = NoCluster
             /\ ClusterType[Effective(t)] = "provider"
    <3>1. ProviderIndexes(t) = {cur_index}
      BY <2>1 DEF ProviderIndexes
    <3>2. First(ProviderIndexes(t)) = cur_index
      BY <3>1, <1>3
    <3> QED BY <2>1, <3>2, <1>6 DEF Provider, Effective, EffectiveIndex
  <2>2. CASE ~ (/\ ProviderNameOf[Effective(t)] = NoCluster
                /\ ClusterType[Effective(t)] = "provider")
    BY <2>2 DEF Provider
  <2> QED BY <2>1, <2>2
<1> QED BY <1>1, <1>2, <1>3, <1>5, <1>6

\* get_active_acm_index returns the position recorded at start-up; it still
\* selects the active hub, because hosted clusters come after the boot list.
LEMMA AcmLookup ==
    ASSUME TypeOK, ListInv, mode[Main] = "plain", AcmClusters # {}
    PROVE  /\ AcmCluster \in AcmClusters
           /\ MulticlusterIndex(AcmCluster) \in Positions
           /\ ClusterAt(MulticlusterIndex(AcmCluster)) = AcmCluster
<1> DEFINE S == IF activeAcm = {} THEN AcmClusters ELSE activeAcm
<1>1. S # {} /\ S \subseteq AcmClusters
  BY DEF TypeOK
<1>2. PICK c \in S : c \in Clusters /\ InSequence(c, Boot)
  BY <1>1, ClusterAssumption
<1>3. PICK k \in 1 .. Len(Boot) : Boot[k] = c
  BY <1>2 DEF InSequence
<1>4. k - 1 \in AcmIndexes(S)
  BY <1>2, <1>3, ClusterAssumption DEF AcmIndexes, ClusterAt, ListInv, TypeOK
<1>5. AcmIndexes(S) \in SUBSET Nat
  BY DEF AcmIndexes, TypeOK
<1>6. First(AcmIndexes(S)) \in AcmIndexes(S)
  BY <1>4, <1>5, FirstInSet
<1>7. AcmCluster \in S
  BY <1>6 DEF AcmCluster, AcmIndexes
<1>8. AcmCluster \in AcmClusters
  BY <1>1, <1>7
<1>9. PICK j \in 1 .. Len(Boot) : /\ Boot[j] = AcmCluster
                                  /\ MulticlusterIndex(AcmCluster) = j - 1
  BY <1>8, ClusterAssumption DEF InSequence, MulticlusterIndex
<1>10. j \in 1 .. Len(clusters) /\ clusters[j] = AcmCluster
  BY <1>9, ClusterAssumption DEF ListInv, TypeOK
<1> QED BY <1>8, <1>9, <1>10, ClusterAssumption DEF Positions, ClusterAt, TypeOK

-----------------------------------------------------------------------------
(* Type correctness and the shape of the list, for any use of the API.     *)

ShapeInv == TypeOK /\ ListInv /\ BindingInv /\ RemoveInv

\* Stacks: what pushing, popping and updating the top frame yields.
LEMMA StackFacts ==
    ASSUME TypeOK, NEW t \in Threads
    PROVE  /\ Depth(t) \in Nat
           /\ \A f \in Frame : /\ Append(frames[t], f) \in Seq(Frame)
                               /\ Len(Append(frames[t], f)) = Depth(t) + 1
                               /\ Append(frames[t], f)[Depth(t) + 1] = f
                               /\ \A k \in 1 .. Depth(t) :
                                     Append(frames[t], f)[k] = frames[t][k]
           /\ Depth(t) > 0 =>
                 /\ Top(t) \in Frame
                 /\ Pop(t) \in Seq(Frame)
                 /\ Len(Pop(t)) = Depth(t) - 1
                 /\ \A k \in 1 .. Depth(t) - 1 : Pop(t)[k] = frames[t][k]
<1>1. frames[t] \in Seq(Frame)
  BY DEF TypeOK
<1>2. Depth(t) \in Nat /\ \A k \in 1 .. Depth(t) : frames[t][k] \in Frame
  BY <1>1, LenProperties, ElementOfSeq DEF Depth
<1>3. ASSUME Depth(t) > 0
      PROVE  /\ Pop(t) \in Seq(Frame)
             /\ Len(Pop(t)) = Depth(t) - 1
             /\ \A k \in 1 .. Depth(t) - 1 : Pop(t)[k] = frames[t][k]
  <2>1. \A k \in 1 .. Depth(t) - 1 : frames[t][k] \in Frame
    BY <1>2
  <2>2. /\ SubSeq(frames[t], 1, Depth(t) - 1) \in Seq(Frame)
        /\ Len(SubSeq(frames[t], 1, Depth(t) - 1)) =
              IF 1 <= Depth(t) - 1 THEN Depth(t) - 1 - 1 + 1 ELSE 0
        /\ \A k \in 1 .. Depth(t) - 1 - 1 + 1 :
              SubSeq(frames[t], 1, Depth(t) - 1)[k] = frames[t][1 + k - 1]
    BY <1>2, <2>1, SubSeqProperties
  <2> QED BY <1>2, <1>3, <2>2 DEF Pop
<1>4. Depth(t) > 0 => Top(t) \in Frame
  BY <1>2 DEF Top
<1>5. ASSUME NEW f \in Frame
      PROVE  /\ Append(frames[t], f) \in Seq(Frame)
             /\ Len(Append(frames[t], f)) = Depth(t) + 1
             /\ Append(frames[t], f)[Depth(t) + 1] = f
             /\ \A k \in 1 .. Depth(t) : Append(frames[t], f)[k] = frames[t][k]
  BY <1>1 DEF Depth
<1> QED BY <1>2, <1>3, <1>4, <1>5

\* A step that leaves the list, its length and the threads' modes alone, and
\* neither starts a removal nor moves a frame under one, keeps the shape.
LEMMA ShapeFrame ==
    ASSUME ShapeInv, TypeOK',
           clusters' = clusters, nclusters' = nclusters, mode' = mode,
           mode[Main] = "plain",
           \A t \in Threads : config_index'[t] # NoIndex <=> config_index[t] # NoIndex,
           \A t \in Threads : pending'[t].step = "remove" =>
                pending'[t] = pending[t] /\ frames'[t] = frames[t]
    PROVE  ShapeInv'
<1>1. ListInv'
  BY DEF ShapeInv, ListInv
<1>2. BindingInv'
  BY DEF ShapeInv, BindingInv
<1>3. RemoveInv'
  BY DEF ShapeInv, RemoveInv, NameIndexes, ClusterAt
<1> QED BY <1>1, <1>2, <1>3 DEF ShapeInv

\* Nothing is pending and no code runs before start-up has ended.
LEMMA NotBooting ==
    ASSUME ShapeInv, NEW t \in Threads,
           mode[t] \in {"plain", "bound"} \/ pending[t].step # "none"
    PROVE  mode[Main] = "plain"
BY DEF ShapeInv, ListInv, Threads, Nothing

\* What a switch writes is typed, and gives no thread an index or takes one.
LEMMA SetIndexFacts ==
    ASSUME TypeOK, NEW t \in Threads, NEW i \in Nat, SetIndex(t, i)
    PROVE  /\ cur_index' \in Nat
           /\ config_index' \in [Threads -> Nat \cup {NoIndex}]
           /\ error' \in [Threads -> {"none", "IndexError", "TypeError"}]
           /\ \A u \in Threads : config_index'[u] # NoIndex <=> config_index[u] # NoIndex
BY ClusterAssumption DEF TypeOK, SetIndex

\* The same for constructing a context.
LEMMA ConstructFacts ==
    ASSUME ShapeInv, NEW t \in Threads, NEW i \in Nat, NEW g \in AnyCluster,
           Construct(t, i, g), activeAcm' \subseteq AcmClusters
    PROVE  ShapeInv'
<1>1. mode[Main] = "plain"
  BY NotBooting DEF Construct, Running
<1>2. TypeOK'
  BY DEF ShapeInv, TypeOK, Construct, Pending
<1>3. \A u \in Threads : pending'[u].step = "remove" =>
            pending'[u] = pending[u] /\ frames'[u] = frames[u]
  BY DEF Construct, ShapeInv, TypeOK
<1> QED BY <1>1, <1>2, <1>3, ShapeFrame DEF Construct

\* What is left to do after comparing the wanted index with the current one.
LEMMA SwitchUnlessType ==
    ASSUME NEW b \in BOOLEAN, NEW i \in Nat
    PROVE  /\ SwitchUnless(b, i) \in Pending
           /\ SwitchUnless(b, i).step # "remove"
           /\ b => SwitchUnless(b, i).step = "none"
           /\ ~b => /\ SwitchUnless(b, i).step = "switch"
                    /\ SwitchUnless(b, i).index = i
BY DEF SwitchUnless, Nothing, Pending, AnyCluster

\* Every step of a thread keeps the shape.
LEMMA ShapeThread ==
    ASSUME ShapeInv, NEW t \in Threads, Step(t)
    PROVE  ShapeInv'
<1> USE DEF ShapeInv
<1>0. Nothing \in Pending /\ Nothing.step = "none"
  BY DEF Nothing, Pending, AnyCluster
<1>a. ASSUME NEW i \in Indexes PROVE i \in Nat /\ ClusterAt(i) \in AnyCluster
  BY <1>a, ClusterAtType DEF Indexes, TypeOK
<1>1. ASSUME NEW i \in Indexes, SwitchCtx(t, i) PROVE ShapeInv'
  <2>1. TypeOK'
    BY <1>1, <1>a, SetIndexFacts DEF SwitchCtx, TypeOK
  <2> QED BY <1>1, <1>a, <2>1, SetIndexFacts, NotBooting, ShapeFrame DEF SwitchCtx, Running
<1>2. ASSUME NEW i \in Indexes, RunWithConfigContext(t, i) PROVE ShapeInv'
  BY <1>2, <1>a, ConstructFacts DEF RunWithConfigContext, TypeOK
<1>3. ASSUME NEW i \in Indexes, StartBound(t, i) PROVE ShapeInv'
  <2>1. TypeOK'
    BY <1>3, <1>a DEF StartBound, TypeOK
  <2>2. t # Main
    BY <1>3, ThreadAssumption DEF StartBound
  <2>3. ListInv'
    BY <1>3, <2>2 DEF StartBound, ListInv, TypeOK
  <2>4. BindingInv'
    BY <1>3, <1>a, ClusterAssumption DEF StartBound, BindingInv, TypeOK
  <2>5. RemoveInv'
    BY <1>3 DEF StartBound, RemoveInv, NameIndexes, ClusterAt
  <2> QED BY <2>1, <2>3, <2>4, <2>5
<1>4. ASSUME SwitchToProvider(t) PROVE ShapeInv'
  <2>1. First(ProviderIndexes(t)) \in Nat /\ Provider(t) \in AnyCluster
    BY <1>4, ProviderLookup DEF SwitchToProvider
  <2>2. TypeOK'
    BY <1>4, <2>1, SetIndexFacts DEF SwitchToProvider, TypeOK
  <2> QED BY <1>4, <2>1, <2>2, SetIndexFacts, NotBooting, ShapeFrame
          DEF SwitchToProvider, Running
<1>5. ASSUME SwitchAcmCtx(t) PROVE ShapeInv'
  <2>1. mode[Main] = "plain"
    BY <1>5, NotBooting DEF SwitchAcmCtx, Running
  <2>2. AcmCluster \in AcmClusters /\ MulticlusterIndex(AcmCluster) \in Nat
    BY <1>5, <2>1, AcmLookup, AcmAssumption DEF SwitchAcmCtx, Positions, TypeOK
  <2>3. AcmCluster \in AnyCluster
    BY <2>2, ClusterAssumption DEF AnyCluster
  <2>4. TypeOK'
    BY <1>5, <2>2, <2>3 DEF SwitchAcmCtx, TypeOK
  <2> QED BY <1>5, <2>1, <2>4, ShapeFrame DEF SwitchAcmCtx
<1>6. ASSUME ResetCtx(t) PROVE ShapeInv'
  <2>1. TypeOK'
    BY <1>6, ClusterAtType DEF ResetCtx, TypeOK
  <2> QED BY <1>6, <2>1, NotBooting, ShapeFrame DEF ResetCtx, Running
<1>7. ASSUME FinishSwitch(t) PROVE ShapeInv'
  <2>1. pending[t].index \in Nat
    BY DEF TypeOK, Pending
  <2>2. TypeOK'
    BY <1>0, <1>7, <2>1, SetIndexFacts DEF FinishSwitch, TypeOK
  <2>3. \A u \in Threads : pending'[u].step = "remove" =>
            pending'[u] = pending[u] /\ frames'[u] = frames[u]
    BY <1>0, <1>7 DEF FinishSwitch, TypeOK
  <2> QED BY <1>7, <2>1, <2>2, <2>3, SetIndexFacts, NotBooting, ShapeFrame DEF FinishSwitch
<1>8. ASSUME RunWithAcmConfigContext(t) PROVE ShapeInv'
  <2>1. mode[Main] = "plain"
    BY <1>8, NotBooting DEF RunWithAcmConfigContext, Construct, Running
  <2>2. AcmCluster \in AcmClusters /\ MulticlusterIndex(AcmCluster) \in Nat
    BY <1>8, <2>1, AcmLookup, AcmAssumption
    DEF RunWithAcmConfigContext, Positions, TypeOK
  <2>3. AcmCluster \in AnyCluster
    BY <2>2, ClusterAssumption DEF AnyCluster
  <2> QED BY <1>8, <2>2, <2>3, ConstructFacts DEF RunWithAcmConfigContext, TypeOK
<1>b. cur_index \in Nat /\ Effective(t) \in AnyCluster
  BY ClusterAtType DEF TypeOK, Effective, EffectiveIndex
<1>9. ASSUME RunWithProviderConfigContextIfAvailable(t) PROVE ShapeInv'
  BY <1>9, <1>b, ProviderLookup, ConstructFacts
     DEF RunWithProviderConfigContextIfAvailable, TypeOK
<1>10. ASSUME RunWithFirstConsumerConfigContextIfAvailable(t) PROVE ShapeInv'
  <2>1. ConsumerIndexes \in SUBSET Nat
    BY DEF ConsumerIndexes, TypeIndexes, TypeOK
  <2>2. ConsumerIndexes # {} =>
            First(ConsumerIndexes) \in Nat /\ ClusterAt(First(ConsumerIndexes)) \in AnyCluster
    BY <2>1, FirstInSet, ClusterAtType
  <2> QED BY <1>10, <1>b, <2>2, ConstructFacts
          DEF RunWithFirstConsumerConfigContextIfAvailable, TypeOK
<1>11. ASSUME Enter(t) PROVE ShapeInv'
  <2> DEFINE f == [kind |-> "with", original |-> pending[t].original,
                   todo |-> {}, back |-> want[t]]
  <2>1. f \in Frame /\ pending[t].index \in Nat /\ pending[t].goal \in AnyCluster
    BY DEF TypeOK, Pending, Frame
  <2>2. Append(frames[t], f) \in Seq(Frame)
    BY <2>1, StackFacts
  <2>3. /\ SwitchUnless(pending[t].index = cur_index, pending[t].index) \in Pending
        /\ SwitchUnless(pending[t].index = cur_index, pending[t].index).step # "remove"
    BY <2>1, SwitchUnlessType
  <2>4. TypeOK'
    BY <1>11, <2>1, <2>2, <2>3 DEF Enter, TypeOK
  <2>5. \A u \in Threads : pending'[u].step = "remove" =>
            pending'[u] = pending[u] /\ frames'[u] = frames[u]
    BY <1>11, <2>3 DEF Enter, TypeOK
  <2> QED BY <1>11, <2>4, <2>5, NotBooting, ShapeFrame DEF Enter
<1>12. ASSUME Exit(t) PROVE ShapeInv'
  <2>1. Top(t).original \in Nat /\ Top(t).back \in AnyCluster /\ Pop(t) \in Seq(Frame)
    BY <1>12, StackFacts DEF Exit, Frame
  <2>2. /\ SwitchUnless(Top(t).original = cur_index, Top(t).original) \in Pending
        /\ SwitchUnless(Top(t).original = cur_index, Top(t).original).step # "remove"
    BY <2>1, SwitchUnlessType
  <2>3. TypeOK'
    BY <1>12, <2>1, <2>2 DEF Exit, TypeOK
  <2>4. \A u \in Threads : pending'[u].step = "remove" =>
            pending'[u] = pending[u] /\ frames'[u] = frames[u]
    BY <1>12, <2>2 DEF Exit, TypeOK
  <2> QED BY <1>12, <2>3, <2>4, NotBooting, ShapeFrame DEF Exit, Running
<1>13. ASSUME RunForAllClusters(t) PROVE ShapeInv'
  <2> DEFINE f == [kind |-> "all", original |-> cur_index,
                   todo |-> 1 .. nclusters - 1, back |-> want[t]]
  <2>1. f \in Frame
    BY DEF TypeOK, Frame
  <2>2. Append(frames[t], f) \in Seq(Frame)
    BY <2>1, StackFacts
  <2>3. SwitchUnless(FALSE, 0) \in Pending /\ SwitchUnless(FALSE, 0).step # "remove"
    BY SwitchUnlessType
  <2>4. TypeOK'
    BY <1>13, <2>2, <2>3, ClusterAtType DEF RunForAllClusters, TypeOK
  <2>5. \A u \in Threads : pending'[u].step = "remove" =>
            pending'[u] = pending[u] /\ frames'[u] = frames[u]
    BY <1>13, <2>3 DEF RunForAllClusters, TypeOK
  <2> QED BY <1>13, <2>4, <2>5, NotBooting, ShapeFrame DEF RunForAllClusters, Running
<1>c. ASSUME Depth(t) > 0, Top(t).todo # {}
      PROVE  /\ First(Top(t).todo) \in Top(t).todo
             /\ First(Top(t).todo) \in Nat
             /\ ClusterAt(First(Top(t).todo)) \in AnyCluster
             /\ [frames EXCEPT ![t][Depth(t)].todo = @ \ {First(@)}] \in [Threads -> Seq(Frame)]
  <2>1. Top(t) \in Frame /\ Depth(t) \in 1 .. Len(frames[t])
    BY <1>c, StackFacts DEF Depth
  <2>2. First(Top(t).todo) \in Top(t).todo /\ First(Top(t).todo) \in Nat
    BY <1>c, <2>1, FirstInSet DEF Frame
  <2>3. [Top(t) EXCEPT !.todo = @ \ {First(@)}] \in Frame
    BY <2>1 DEF Frame
  <2>4. [frames[t] EXCEPT ![Depth(t)] = [Top(t) EXCEPT !.todo = @ \ {First(@)}]] \in Seq(Frame)
    BY <2>1, <2>3, ExceptSeq DEF TypeOK
  <2>5. [frames EXCEPT ![t][Depth(t)].todo = @ \ {First(@)}] \in [Threads -> Seq(Frame)]
    BY <2>4 DEF TypeOK, Top
  <2> QED BY <2>2, <2>5, ClusterAtType
<1>14. ASSUME NextCluster(t) PROVE ShapeInv'
  <2>1. /\ SwitchUnless(FALSE, First(Top(t).todo)) \in Pending
        /\ SwitchUnless(FALSE, First(Top(t).todo)).step # "remove"
    BY <1>14, <1>c, SwitchUnlessType DEF NextCluster
  <2>2. TypeOK'
    BY <1>14, <1>c, <2>1 DEF NextCluster, TypeOK
  <2>3. \A u \in Threads : pending'[u].step = "remove" =>
            pending'[u] = pending[u] /\ frames'[u] = frames[u]
    BY <1>14, <2>1 DEF NextCluster, TypeOK
  <2> QED BY <1>14, <2>2, <2>3, NotBooting, ShapeFrame DEF NextCluster, Running
<1>15. ASSUME EndForAllClusters(t) PROVE ShapeInv'
  <2>1. Top(t).original \in Nat /\ Top(t).back \in AnyCluster /\ Pop(t) \in Seq(Frame)
    BY <1>15, StackFacts DEF EndForAllClusters, Frame
  <2>2. /\ SwitchUnless(FALSE, Top(t).original) \in Pending
        /\ SwitchUnless(FALSE, Top(t).original).step # "remove"
    BY <2>1, SwitchUnlessType
  <2>3. TypeOK'
    BY <1>15, <2>1, <2>2 DEF EndForAllClusters, TypeOK
  <2>4. \A u \in Threads : pending'[u].step = "remove" =>
            pending'[u] = pending[u] /\ frames'[u] = frames[u]
    BY <1>15, <2>2 DEF EndForAllClusters, TypeOK
  <2> QED BY <1>15, <2>3, <2>4, NotBooting, ShapeFrame DEF EndForAllClusters, Running
<1>16. ASSUME GetClientContexts(t) PROVE ShapeInv'
  <2> DEFINE f == [kind |-> "clients", original |-> cur_index,
                   todo |-> ConsumerIndexes, back |-> want[t]]
  <2>1. f \in Frame
    BY DEF TypeOK, Frame, ConsumerIndexes, TypeIndexes
  <2>2. Append(frames[t], f) \in Seq(Frame)
    BY <2>1, StackFacts
  <2>3. TypeOK'
    BY <1>16, <2>2 DEF GetClientContexts, TypeOK
  <2>4. \A u \in Threads : pending'[u].step = "remove" =>
            pending'[u] = pending[u] /\ frames'[u] = frames[u]
    BY <1>16 DEF GetClientContexts, Running, TypeOK
  <2> QED BY <1>16, <2>3, <2>4, NotBooting, ShapeFrame DEF GetClientContexts, Running
<1>17. ASSUME NextClient(t) PROVE ShapeInv'
  <2>1. Top(t).original \in Nat
    BY <1>17, StackFacts DEF NextClient, InClientLoop, Frame
  <2>2. TypeOK'
    BY <1>17, <1>c, <2>1 DEF NextClient, InClientLoop, TypeOK, Pending
  <2>3. \A u \in Threads : pending'[u].step = "remove" =>
            pending'[u] = pending[u] /\ frames'[u] = frames[u]
    BY <1>17 DEF NextClient, TypeOK
  <2> QED BY <1>17, <2>2, <2>3, NotBooting, ShapeFrame DEF NextClient, InClientLoop
<1>18. ASSUME EndClients(t) PROVE ShapeInv'
  <2>1. Pop(t) \in Seq(Frame)
    BY <1>18, StackFacts DEF EndClients, InClientLoop
  <2>2. TypeOK'
    BY <1>18, <2>1 DEF EndClients, TypeOK
  <2>3. \A u \in Threads : pending'[u].step = "remove" =>
            pending'[u] = pending[u] /\ frames'[u] = frames[u]
    BY <1>18 DEF EndClients, InClientLoop, TypeOK
  <2> QED BY <1>18, <2>2, <2>3, NotBooting, ShapeFrame DEF EndClients, InClientLoop
<1>19. ASSUME StartPlain(t) PROVE ShapeInv'
  <2>1. TypeOK'
    BY <1>19, <1>b DEF StartPlain, TypeOK
  <2>2. t # Main
    BY <1>19, ThreadAssumption DEF StartPlain
  <2>3. ListInv'
    BY <1>19, <2>2 DEF StartPlain, ListInv, TypeOK
  <2>4. BindingInv'
    BY <1>19 DEF StartPlain, BindingInv, TypeOK
  <2>5. RemoveInv'
    BY <1>19 DEF StartPlain, RemoveInv, NameIndexes, ClusterAt
  <2> QED BY <2>1, <2>3, <2>4, <2>5
<1>20. ASSUME EndTask(t) PROVE ShapeInv'
  <2>1. TypeOK'
    BY <1>20 DEF EndTask, TypeOK, AnyCluster
  <2>2. t # Main
    BY <1>20, ThreadAssumption DEF EndTask
  <2>3. ListInv'
    BY <1>20, <2>2, NotBooting DEF EndTask, Running, ListInv, TypeOK
  <2>4. BindingInv'
    BY <1>20 DEF EndTask, BindingInv, TypeOK
  <2>5. RemoveInv'
    BY <1>20 DEF EndTask, RemoveInv, NameIndexes, ClusterAt
  <2> QED BY <2>1, <2>3, <2>4, <2>5
<1> QED
  BY <1>1, <1>2, <1>3, <1>4, <1>5, <1>6, <1>7, <1>8, <1>9, <1>10, <1>11, <1>12, <1>13,
     <1>14, <1>15, <1>16, <1>17, <1>18, <1>19, <1>20 DEF Step

\* Removing a hosted cluster: its position is behind the boot list, the list
\* without it has the others in their order.
LEMMA RemoveFacts ==
    ASSUME ShapeInv, RemoveCluster
    PROVE  \E p \in Len(Boot) + 1 .. Len(clusters) :
              /\ clusters[p] = pending[Main].goal
              /\ shifted' = (shifted \/ \E t \in Threads : \E i \in Held(t) : i >= p - 1)
              /\ clusters' \in Seq(AnyCluster)
              /\ Len(clusters') = Len(clusters) - 1
              /\ \A k \in 1 .. Len(clusters) - 1 :
                    clusters'[k] = IF k < p THEN clusters[k] ELSE clusters[k + 1]
<1> DEFINE c == pending[Main].goal
           p == First(NameIndexes(c)) + 1
<1>1. Main \in Threads /\ mode[Main] = "plain"
  BY NotBooting DEF RemoveCluster, Threads
<1>2. c \in Hosted /\ NameIndexes(c) # {}
  BY <1>1 DEF ShapeInv, RemoveInv, RemoveCluster
<1>3. First(NameIndexes(c)) \in NameIndexes(c)
  <2>1. NameIndexes(c) \in SUBSET Nat
    BY DEF NameIndexes, ShapeInv, TypeOK
  <2> QED BY <1>2, <2>1, FirstInSet
<1>4. p \in 1 .. Len(clusters) /\ clusters[p] = c /\ Len(clusters) \in Nat
  <2>1. Len(clusters) \in Nat
    BY DEF ShapeInv, TypeOK
  <2>2. First(NameIndexes(c)) \in 0 .. Len(clusters) - 1 /\ ClusterAt(First(NameIndexes(c))) = c
    BY <1>3 DEF NameIndexes
  <2> QED BY <2>1, <2>2 DEF ClusterAt
<1>5. Len(Boot) \in Nat
  BY ClusterAssumption
<1>6. p \in Len(Boot) + 1 .. Len(clusters)
  BY <1>1, <1>2, <1>4, <1>5, ClusterAssumption DEF ShapeInv, ListInv, InSequence
<1> DEFINE a == SubSeq(clusters, 1, p - 1)
           b == SubSeq(clusters, p + 1, Len(clusters))
<1>a. First(NameIndexes(c)) = p - 1 /\ First(NameIndexes(c)) + 2 = p + 1
  <2>1. First(NameIndexes(c)) \in Int
    BY <1>3 DEF NameIndexes, ShapeInv, TypeOK
  <2> QED BY <2>1
<1>b. DropPosition(p - 1) /\ p - 1 + 2 = p + 1
  BY <1>4, <1>a DEF RemoveCluster
<1> HIDE DEF p
<1>7. \A k \in 1 .. Len(clusters) : clusters[k] \in AnyCluster
  BY DEF ShapeInv, TypeOK
<1>8. /\ a \in Seq(AnyCluster)
      /\ Len(a) = p - 1
      /\ \A k \in 1 .. p - 1 : a[k] = clusters[k]
  <2>1. \A k \in 1 .. p - 1 : clusters[k] \in AnyCluster
    BY <1>4, <1>7
  <2>2. /\ a \in Seq(AnyCluster)
        /\ Len(a) = IF 1 <= p - 1 THEN p - 1 - 1 + 1 ELSE 0
        /\ \A k \in 1 .. p - 1 - 1 + 1 : a[k] = clusters[1 + k - 1]
    BY <1>4, <2>1, SubSeqProperties
  <2> QED BY <1>4, <2>2
<1>9. /\ b \in Seq(AnyCluster)
      /\ Len(b) = Len(clusters) - p
      /\ \A k \in 1 .. Len(clusters) - p : b[k] = clusters[p + k]
  <2>1. \A k \in p + 1 .. Len(clusters) : clusters[k] \in AnyCluster
    BY <1>4, <1>7
  <2>2. /\ b \in Seq(AnyCluster)
        /\ Len(b) = IF p + 1 <= Len(clusters) THEN Len(clusters) - (p + 1) + 1 ELSE 0
        /\ \A k \in 1 .. Len(clusters) - (p + 1) + 1 : b[k] = clusters[p + 1 + k - 1]
    BY <1>4, <2>1, SubSeqProperties
  <2> QED BY <1>4, <2>2
<1>10. clusters' = a \o b
  BY <1>b DEF DropPosition
<1>c. shifted' = (shifted \/ \E t \in Threads : \E i \in Held(t) : i >= p - 1)
  BY <1>b DEF DropPosition
<1> HIDE DEF a, b
<1>11. /\ a \o b \in Seq(AnyCluster)
       /\ Len(a \o b) = Len(a) + Len(b)
       /\ \A k \in 1 .. Len(a) + Len(b) :
             (a \o b)[k] = IF k <= Len(a) THEN a[k] ELSE b[k - Len(a)]
  BY <1>8, <1>9, ConcatProperties
<1>12. Len(clusters') = Len(clusters) - 1
  BY <1>4, <1>8, <1>9, <1>10, <1>11
<1>13. ASSUME NEW k \in 1 .. Len(clusters) - 1
       PROVE  clusters'[k] = IF k < p THEN clusters[k] ELSE clusters[k + 1]
  <2>1. CASE k < p
    <3>1. k \in 1 .. Len(a) + Len(b) /\ k <= Len(a) /\ k \in 1 .. p - 1
      BY <2>1, <1>4, <1>8, <1>9
    <3> QED BY <2>1, <3>1, <1>8, <1>10, <1>11
  <2>2. CASE ~(k < p)
    <3>1. k - Len(a) \in 1 .. Len(clusters) - p /\ ~(k <= Len(a))
      BY <2>2, <1>4, <1>8
    <3>2. clusters'[k] = b[k - Len(a)]
      <4>1. k \in 1 .. Len(a) + Len(b)
        BY <1>4, <1>8, <1>9
      <4> QED BY <4>1, <3>1, <1>10, <1>11
    <3>3. b[k - Len(a)] = clusters[p + (k - Len(a))]
      BY <3>1, <1>9
    <3>4. p + (k - Len(a)) = k + 1
      BY <1>4, <1>8
    <3> QED BY <3>2, <3>3, <3>4, <2>2
  <2> QED BY <2>1, <2>2
<1> QED BY <1>4, <1>6, <1>c, <1>10, <1>11, <1>12, <1>13

\* Adding a hosted cluster: behind the others, and not one of them.
LEMMA InsertFacts ==
    ASSUME ShapeInv, NEW c \in Hosted, InsertClusterConfig(c)
    PROVE  /\ clusters' \in Seq(AnyCluster)
           /\ Len(clusters') = Len(clusters) + 1
           /\ clusters'[Len(clusters) + 1] = c
           /\ \A k \in 1 .. Len(clusters) : clusters'[k] = clusters[k] /\ clusters[k] # c
<1>1. clusters \in Seq(AnyCluster) /\ c \in AnyCluster
  BY ClusterAssumption DEF ShapeInv, TypeOK, AnyCluster
<1>2. \A k \in 1 .. Len(clusters) : clusters[k] # c
  <2> SUFFICES ASSUME NEW k \in 1 .. Len(clusters), clusters[k] = c PROVE FALSE
    OBVIOUS
  <2>1. k - 1 \in NameIndexes(c)
    BY <1>1 DEF NameIndexes, ClusterAt
  <2> QED BY <2>1 DEF InsertClusterConfig
<1> QED BY <1>1, <1>2 DEF InsertClusterConfig

\* Every step keeps the shape.
LEMMA ShapeNext ==
    ASSUME ShapeInv, [Next]_vars
    PROVE  ShapeInv'
<1> USE DEF ShapeInv
<1>0. Nothing \in Pending /\ Nothing.step = "none" /\ Main \in Threads
  BY DEF Nothing, Pending, AnyCluster, Threads
<1>1. ASSUME InitClusterConfigs PROVE ShapeInv'
  <2>1. Boot \in Seq(AnyCluster) /\ Len(Boot) \in Nat /\ Boot[DefaultIndex + 1] \in AnyCluster
    BY ClusterAssumption DEF AnyCluster
  <2>2. TypeOK'
    BY <1>0, <1>1, <2>1, ClusterAssumption DEF InitClusterConfigs, TypeOK
  <2>3. ListInv'
    BY <1>0, <1>1, <2>1, ClusterAssumption DEF InitClusterConfigs, ListInv, TypeOK
  <2>4. BindingInv'
    BY <1>0, <1>1 DEF InitClusterConfigs, BindingInv, TypeOK
  <2>5. RemoveInv'
    BY <1>0, <1>1 DEF InitClusterConfigs, RemoveInv, ListInv
  <2> QED BY <2>2, <2>3, <2>4, <2>5
<1>2. ASSUME NEW t \in Threads, Step(t) PROVE ShapeInv'
  BY <1>2, ShapeThread
<1>3. ASSUME NEW c \in Hosted, InsertClusterConfig(c) PROVE ShapeInv'
  <2>1. mode[Main] = "plain"
    BY <1>0, <1>3, NotBooting DEF InsertClusterConfig, Running
  <2>2. TypeOK'
    BY <1>3, InsertFacts DEF InsertClusterConfig, TypeOK
  <2>3. NoDuplicates(clusters')
    <3>1. Len(clusters) \in Nat /\ NoDuplicates(clusters)
      BY DEF TypeOK, ListInv
    <3>2. /\ Len(clusters') = Len(clusters) + 1
          /\ clusters'[Len(clusters) + 1] = c
          /\ \A k \in 1 .. Len(clusters) : clusters'[k] = clusters[k] /\ clusters[k] # c
      BY <1>3, InsertFacts
    <3> SUFFICES ASSUME NEW j \in 1 .. Len(clusters) + 1, NEW k \in 1 .. Len(clusters) + 1,
                        clusters'[j] = clusters'[k]
                 PROVE  j = k
      BY <3>2 DEF NoDuplicates
    <3>3. CASE j \in 1 .. Len(clusters) /\ k \in 1 .. Len(clusters)
      BY <3>1, <3>2, <3>3 DEF NoDuplicates
    <3>4. CASE j = Len(clusters) + 1 \/ k = Len(clusters) + 1
      BY <3>1, <3>2, <3>4
    <3> QED BY <3>1, <3>3, <3>4
  <2>4. ListInv'
    <3>1. Len(Boot) \in Nat /\ Len(clusters) \in Nat /\ nclusters = Len(clusters)
      BY ClusterAssumption DEF TypeOK, ListInv
    <3>2. nclusters' = Len(clusters') /\ mode' = mode
      BY <1>3, <3>1, InsertFacts DEF InsertClusterConfig
    <3>3. Len(Boot) <= Len(clusters') /\ \A k \in 1 .. Len(Boot) : clusters'[k] = Boot[k]
      BY <1>3, <2>1, <3>1, InsertFacts DEF ListInv
    <3>4. \A k \in Len(Boot) + 1 .. Len(clusters') : clusters'[k] \in Hosted
      <4> TAKE k \in Len(Boot) + 1 .. Len(clusters')
      <4>1. CASE k = Len(clusters) + 1
        BY <1>3, <4>1, InsertFacts
      <4>2. CASE k # Len(clusters) + 1
        <5>1. k \in Len(Boot) + 1 .. Len(clusters) /\ k \in 1 .. Len(clusters)
          BY <1>3, <3>1, <4>2, InsertFacts
        <5>2. clusters'[k] = clusters[k]
          BY <1>3, <5>1, InsertFacts
        <5> QED BY <2>1, <5>1, <5>2 DEF ListInv
      <4> QED BY <4>1, <4>2
    <3> QED BY <2>1, <2>3, <3>2, <3>3, <3>4 DEF ListInv
  <2>5. BindingInv'
    BY <1>3 DEF InsertClusterConfig, BindingInv
  <2>6. \A d : NameIndexes(d) \subseteq NameIndexes(d)'
    BY <1>3, InsertFacts DEF NameIndexes, ClusterAt, TypeOK
  <2>7. RemoveInv'
    BY <1>3, <2>6 DEF InsertClusterConfig, RemoveInv
  <2> QED BY <2>2, <2>4, <2>5, <2>7
<1>4. ASSUME NEW c \in Hosted, HostedClusterRemove(c) PROVE ShapeInv'
  <2> DEFINE r == [Nothing EXCEPT !.step = "remove", !.goal = c]
  <2>1. r \in Pending /\ r.goal = c
    BY ClusterAssumption DEF Nothing, Pending, AnyCluster
  <2>2. First(ProviderIndexes(Main)) \in Nat /\ Provider(Main) \in AnyCluster
    BY <1>0, <1>4, ProviderLookup DEF HostedClusterRemove
  <2>3. TypeOK'
    BY <1>0, <1>4, <2>1, <2>2, SetIndexFacts DEF HostedClusterRemove, TypeOK
  <2>4. ListInv'
    BY <1>0, <1>4, NotBooting DEF HostedClusterRemove, Running, ListInv, TypeOK
  <2>5. BindingInv'
    BY <1>0, <1>4, <2>2, SetIndexFacts DEF HostedClusterRemove, BindingInv
  <2>6. NameIndexes(c)' = NameIndexes(c)
    BY <1>4 DEF HostedClusterRemove, NameIndexes, ClusterAt
  <2>7. pending' = [pending EXCEPT ![Main] = r] /\ frames' = frames /\ clusters' = clusters
    BY <1>4 DEF HostedClusterRemove
  <2>8. RemoveInv'
    <3> SUFFICES ASSUME NEW u \in Threads, pending'[u].step = "remove"
                 PROVE  /\ u = Main
                        /\ pending'[u].goal \in Hosted
                        /\ (NameIndexes(pending[u].goal) # {})'
      BY DEF RemoveInv
    <3>1. u = Main
      BY <2>7 DEF RemoveInv, TypeOK
    <3>2. pending'[u] = r
      BY <1>0, <2>7, <3>1 DEF TypeOK
    <3>3. pending'[u].goal = c
      BY <2>1, <3>2
    <3>4. (NameIndexes(pending[u].goal))' = NameIndexes(c)
      BY <2>7, <3>3 DEF NameIndexes, ClusterAt
    <3> QED BY <1>4, <2>7, <3>1, <3>3, <3>4 DEF HostedClusterRemove
  <2> QED BY <2>3, <2>4, <2>5, <2>8
<1>5. ASSUME RemoveCluster PROVE ShapeInv'
  <2>1. mode[Main] = "plain"
    BY <1>0, <1>5, NotBooting DEF RemoveCluster
  <2>2. PICK p \in Len(Boot) + 1 .. Len(clusters) :
              /\ shifted' \in BOOLEAN
              /\ clusters' \in Seq(AnyCluster)
              /\ Len(clusters') = Len(clusters) - 1
              /\ \A k \in 1 .. Len(clusters) - 1 :
                    clusters'[k] = IF k < p THEN clusters[k] ELSE clusters[k + 1]
    BY <1>5, RemoveFacts
  <2>3. Len(Boot) \in Nat /\ Len(clusters) \in Nat /\ nclusters = Len(clusters)
    BY ClusterAssumption DEF TypeOK, ListInv
  <2>a. /\ nclusters' = nclusters - 1
        /\ pending' = [pending EXCEPT ![Main] = Nothing]
        /\ UNCHANGED <<cur_index, config_index, activeAcm, mode, frames, error, want>>
    BY <1>5 DEF RemoveCluster
  <2>4. TypeOK'
    <3>1. nclusters' \in Nat
      BY <2>a, <2>2, <2>3
    <3> QED BY <1>0, <2>a, <2>2, <3>1 DEF TypeOK
  <2>5. NoDuplicates(clusters')
    <3> SUFFICES ASSUME NEW j \in 1 .. Len(clusters) - 1, NEW k \in 1 .. Len(clusters) - 1,
                        clusters'[j] = clusters'[k]
                 PROVE  j = k
      BY <2>2 DEF NoDuplicates
    <3>1. /\ j \in 1 .. Len(clusters) /\ j + 1 \in 1 .. Len(clusters)
          /\ k \in 1 .. Len(clusters) /\ k + 1 \in 1 .. Len(clusters)
      BY <2>3
    <3>2. /\ clusters'[j] = IF j < p THEN clusters[j] ELSE clusters[j + 1]
          /\ clusters'[k] = IF k < p THEN clusters[k] ELSE clusters[k + 1]
      BY <2>2
    <3>3. \A x, y \in 1 .. Len(clusters) : clusters[x] = clusters[y] => x = y
      BY DEF ListInv, NoDuplicates
    <3> DEFINE x == IF j < p THEN j ELSE j + 1
               y == IF k < p THEN k ELSE k + 1
    <3>4. x \in 1 .. Len(clusters) /\ y \in 1 .. Len(clusters) /\ clusters[x] = clusters[y]
      BY <3>1, <3>2
    <3>5. x = y
      BY <3>3, <3>4
    <3> QED BY <2>3, <3>5
  <2>6. ListInv'
    <3>1. nclusters' = Len(clusters') /\ Len(Boot) <= Len(clusters')
      BY <2>a, <2>2, <2>3
    <3>2. \A k \in 1 .. Len(Boot) : clusters'[k] = Boot[k]
      <4> TAKE k \in 1 .. Len(Boot)
      <4>1. k < p /\ k \in 1 .. Len(clusters) - 1
        BY <2>2, <2>3
      <4> QED BY <2>1, <2>2, <4>1 DEF ListInv
    <3>3. \A k \in Len(Boot) + 1 .. Len(clusters') : clusters'[k] \in Hosted
      <4> TAKE k \in Len(Boot) + 1 .. Len(clusters')
      <4>1. /\ k \in 1 .. Len(clusters) - 1
            /\ k \in Len(Boot) + 1 .. Len(clusters)
            /\ k + 1 \in Len(Boot) + 1 .. Len(clusters)
        BY <2>2, <2>3
      <4>2. clusters'[k] = IF k < p THEN clusters[k] ELSE clusters[k + 1]
        BY <2>2, <4>1
      <4> QED BY <2>1, <4>1, <4>2 DEF ListInv
    <3> QED BY <2>1, <2>a, <2>5, <3>1, <3>2, <3>3 DEF ListInv
  <2>7. BindingInv'
    BY <2>a DEF BindingInv
  <2>8. RemoveInv'
    BY <1>0, <2>a DEF RemoveInv, TypeOK
  <2> QED BY <2>4, <2>6, <2>7, <2>8
<1>6. ASSUME DestroyFailed PROVE ShapeInv'
  <2>1. TypeOK'
    BY <1>0, <1>6 DEF DestroyFailed, TypeOK
  <2>2. \A u \in Threads : pending'[u].step = "remove" =>
            pending'[u] = pending[u] /\ frames'[u] = frames[u]
    BY <1>0, <1>6 DEF DestroyFailed, TypeOK
  <2>3. mode[Main] = "plain"
    BY <1>0, <1>6, NotBooting DEF DestroyFailed
  <2> QED BY <1>6, <2>1, <2>2, <2>3, ShapeFrame DEF DestroyFailed
<1>7. CASE UNCHANGED vars
  BY <1>7 DEF vars, TypeOK, ListInv, BindingInv, RemoveInv, NameIndexes, ClusterAt
<1> QED BY <1>1, <1>2, <1>3, <1>4, <1>5, <1>6, <1>7 DEF Next

\* The initial state has the shape.
LEMMA ShapeInit ==
    ASSUME Init
    PROVE  ShapeInv
<1>1. /\ Nothing \in Pending
      /\ Nothing.step = "none"
      /\ Main \in Threads
      /\ \A t \in Workers : t # Main
  BY ThreadAssumption DEF Nothing, Pending, AnyCluster, Threads
<1>2. TypeOK
  <2>1. shifted \in BOOLEAN
    BY DEF Init
  <2>2. clusters \in Seq(AnyCluster)
    BY DEF Init, AnyCluster
  <2> QED BY <1>1, <2>1, <2>2 DEF Init, TypeOK, AnyCluster
<1>3. ListInv
  BY <1>1 DEF Init, ListInv, NoDuplicates, Threads
<1>4. BindingInv
  BY <1>1 DEF Init, BindingInv
<1>5. RemoveInv
  BY <1>1 DEF Init, RemoveInv
<1> QED BY <1>2, <1>3, <1>4, <1>5 DEF ShapeInv

\* Type correctness of the configuration object, for every use of its API.
THEOREM TypeCorrect == Spec => []TypeOK
<1>1. Init => ShapeInv
  BY ShapeInit
<1>2. ShapeInv /\ [Next]_vars => ShapeInv'
  BY ShapeNext
<1>3. ShapeInv => TypeOK
  BY DEF ShapeInv
<1> QED BY <1>1, <1>2, <1>3, PTL DEF Spec

\* A pool thread never carries a config-safe task's index into a plain task,
\* whatever operations the tasks use (config_safe_thread_pool_task).
THEOREM NoBindingLeft == Spec => []NoStaleBinding
<1>1. Init => ShapeInv
  BY ShapeInit
<1>2. ShapeInv /\ [Next]_vars => ShapeInv'
  BY ShapeNext
<1>3. ShapeInv => NoStaleBinding
  BY DEF ShapeInv, BindingInv, NoStaleBinding, EffectiveIndex, Threads
<1> QED BY <1>1, <1>2, <1>3, PTL DEF Spec

-----------------------------------------------------------------------------
(* Every thread is on the cluster it asked for.                            *)

FullInv == TypeOK /\ ContextInv

\* FullInv contains the shape, which every step is known to keep.
LEMMA FullShape ==
    ASSUME FullInv
    PROVE  /\ ShapeInv
           /\ Main \in Threads
           /\ config_index[Main] = NoIndex
           /\ Indexes = Positions
           /\ Positions \subseteq Nat
           /\ 0 \in Positions
<1>1. ShapeInv /\ Main \in Threads
  BY DEF FullInv, ContextInv, ShapeInv, Threads
<1>2. config_index[Main] = NoIndex
  BY <1>1 DEF ShapeInv, BindingInv, ListInv
<1>3. Indexes = Positions
  BY <1>1 DEF ShapeInv, ListInv, Indexes, Positions
<1>4. Positions \subseteq Nat /\ 0 \in Positions
  BY DEF FullInv, ContextInv, MainInv, Positions, TypeOK
<1> QED BY <1>1, <1>2, <1>3, <1>4

\* With the list unchanged, indexes keep selecting the clusters they did.
LEMMA SameList ==
    ASSUME clusters' = clusters
    PROVE  /\ Positions' = Positions
           /\ \A i : ClusterAt(i)' = ClusterAt(i)
BY DEF Positions, ClusterAt

\* The same for what is asked of a frame.
LEMMA SameFrames ==
    ASSUME clusters' = clusters
    PROVE  \A k : FrameFits(frames[Main], k, want[Main])'
                    <=> FrameFits(frames'[Main], k, want'[Main])
BY DEF FrameFits, ClusterAt, Positions

\* Entering a context or a loop: the new frame returns to where the thread is.
LEMMA PushKeeps ==
    ASSUME FullInv, NEW f \in Frame, clusters' = clusters,
           frames' = [frames EXCEPT ![Main] = Append(@, f)],
           f.original \in Positions, ClusterAt(f.original) = f.back,
           f.todo \subseteq Positions, f.back = want[Main],
           f.kind = "clients" => want'[Main] = f.back
    PROVE  FrameInv'
<1>1. Main \in Threads /\ frames'[Main] = Append(frames[Main], f)
  BY FullShape DEF FullInv, TypeOK
<1>2. /\ Depth(Main) \in Nat
      /\ Len(frames'[Main]) = Depth(Main) + 1
      /\ frames'[Main][Depth(Main) + 1] = f
      /\ \A k \in 1 .. Depth(Main) : frames'[Main][k] = frames[Main][k]
  BY <1>1, StackFacts DEF FullInv
<1>3. Depth(Main)' = Depth(Main) + 1
  BY <1>2 DEF Depth
<1>4. FrameInv
  BY DEF FullInv, ContextInv
<1> SUFFICES ASSUME NEW k \in 1 .. Depth(Main) + 1
             PROVE  FrameFits(frames'[Main], k, want'[Main])
  BY <1>3, SameFrames DEF FrameInv
<1>5. CASE k = Depth(Main) + 1
  BY <1>2, <1>5 DEF FrameFits
<1>6. CASE k \in 1 .. Depth(Main)
  <2>1. frames'[Main][k] = frames[Main][k] /\ k # Depth(Main) + 1
    BY <1>2, <1>6
  <2>2. k = Depth(Main) => frames'[Main][k + 1].back = want[Main]
    BY <1>2
  <2>3. k # Depth(Main) => frames'[Main][k + 1] = frames[Main][k + 1]
    BY <1>2, <1>6
  <2>4. Len(frames[Main]) = Depth(Main) /\ FrameFits(frames[Main], k, want[Main])
    BY <1>4, <1>6 DEF FrameInv, Depth
  <2> QED BY <1>2, <2>1, <2>2, <2>3, <2>4 DEF FrameFits
<1> QED BY <1>2, <1>5, <1>6

\* Leaving one: the thread wants to be where the frame returns to.
LEMMA PopKeeps ==
    ASSUME FullInv, clusters' = clusters, Depth(Main) > 0,
           frames' = [frames EXCEPT ![Main] = Pop(Main)],
           want'[Main] = Top(Main).back
    PROVE  FrameInv'
<1>1. Main \in Threads /\ frames'[Main] = Pop(Main)
  BY FullShape DEF FullInv, TypeOK
<1>2. /\ Depth(Main) \in Nat
      /\ Len(frames'[Main]) = Depth(Main) - 1
      /\ \A k \in 1 .. Depth(Main) - 1 : frames'[Main][k] = frames[Main][k]
  BY <1>1, StackFacts DEF FullInv
<1>3. Depth(Main)' = Depth(Main) - 1
  BY <1>2 DEF Depth
<1>4. FrameInv
  BY DEF FullInv, ContextInv
<1> SUFFICES ASSUME NEW k \in 1 .. Depth(Main) - 1
             PROVE  FrameFits(frames'[Main], k, want'[Main])
  BY <1>3, SameFrames DEF FrameInv
<1>5. frames'[Main][k] = frames[Main][k] /\ k \in 1 .. Depth(Main) /\ k # Depth(Main)
  BY <1>2
<1>6. k = Depth(Main) - 1 => frames[Main][k + 1].back = want'[Main]
  BY <1>2 DEF Top
<1>7. k # Depth(Main) - 1 => frames'[Main][k + 1] = frames[Main][k + 1]
  BY <1>2
<1>8. Len(frames[Main]) = Depth(Main) /\ FrameFits(frames[Main], k, want[Main])
  BY <1>4, <1>5 DEF FrameInv, Depth
<1> QED BY <1>2, <1>5, <1>6, <1>7, <1>8 DEF FrameFits

\* A loop's next round only shortens what its frame has left to visit.
LEMMA TodoKeeps ==
    ASSUME FullInv, clusters' = clusters, Depth(Main) > 0, Top(Main).todo # {},
           frames' = [frames EXCEPT ![Main][Depth(Main)].todo = @ \ {First(@)}],
           want'[Main] = want[Main] \/ Top(Main).kind # "clients"
    PROVE  /\ FrameInv'
           /\ First(Top(Main).todo) \in Positions
<1>1. Main \in Threads /\ Depth(Main) \in Nat /\ frames[Main] \in Seq(Frame)
  BY FullShape, StackFacts DEF FullInv, TypeOK
<1> DEFINE d == Depth(Main)
           s == frames[Main]
           f == [s[d] EXCEPT !.todo = @ \ {First(@)}]
<1>2. frames'[Main] = [s EXCEPT ![d] = f]
  BY <1>1 DEF FullInv, TypeOK
<1>3. s[d] \in Frame /\ d \in 1 .. Len(s)
  BY <1>1, StackFacts DEF FullInv, Top, Depth
<1>4. /\ f \in Frame /\ f.original = s[d].original /\ f.back = s[d].back
      /\ f.kind = s[d].kind /\ f.todo \subseteq s[d].todo
  BY <1>3 DEF Frame
<1>5. /\ Len(frames'[Main]) = d
      /\ \A k \in 1 .. d : frames'[Main][k] = IF k = d THEN f ELSE s[k]
  <2> HIDE DEF f
  <2>1. Len(s) = d
    BY DEF Depth
  <2>2. /\ Len([s EXCEPT ![d] = f]) = Len(s)
        /\ \A k \in 1 .. Len(s) : [s EXCEPT ![d] = f][k] = IF k = d THEN f ELSE s[k]
    BY <1>1, <1>3, <1>4, ExceptSeq
  <2> QED BY <1>2, <2>1, <2>2
<1>6. FrameInv
  BY DEF FullInv, ContextInv
<1>7. First(s[d].todo) \in s[d].todo /\ s[d].todo \subseteq Positions
  BY <1>3, <1>6, FirstInSet DEF FrameInv, FrameFits, Frame, Top, Depth
<1>8. Depth(Main)' = d
  BY <1>5 DEF Depth
<1> HIDE DEF f
<1>9. FrameInv'
  <2> SUFFICES ASSUME NEW k \in 1 .. d
               PROVE  FrameFits(frames'[Main], k, want'[Main])
    BY <1>8, SameFrames DEF FrameInv
  <2>1. /\ frames'[Main][k].original = s[k].original
        /\ frames'[Main][k].back = s[k].back
        /\ frames'[Main][k].kind = s[k].kind
        /\ frames'[Main][k].todo \subseteq s[k].todo
    BY <1>4, <1>5
  <2>2. k # d => frames'[Main][k + 1].back = s[k + 1].back
    BY <1>1, <1>4, <1>5
  <2>3. k = d /\ s[k].kind = "clients" => want'[Main] = want[Main]
    BY DEF Top
  <2>4. Len(s) = d /\ FrameFits(s, k, want[Main])
    BY <1>6 DEF FrameInv, Depth
  <2> QED BY <1>5, <2>1, <2>2, <2>3, <2>4 DEF FrameFits
<1> QED BY <1>7, <1>9 DEF Top

\* A step of the main thread that leaves the list and the pool threads alone.
LEMMA WorkersKept ==
    ASSUME FullInv, clusters' = clusters, mode' = mode,
           \A w \in Workers : /\ frames'[w] = frames[w]
                              /\ pending'[w] = pending[w]
                              /\ want'[w] = want[w]
                              /\ config_index'[w] = config_index[w]
    PROVE  WorkerInv'
BY SameList DEF FullInv, ContextInv, WorkerInv

\* switch_ctx to an index of the list, on the main thread.
LEMMA SetIndexMain ==
    ASSUME FullInv, NEW i \in Positions, SetIndex(Main, i)
    PROVE  /\ cur_index' = i
           /\ \A w \in Workers : config_index'[w] = config_index[w]
           /\ \A t \in Threads : error'[t] # "IndexError"
<1>1. i \in 0 .. Len(clusters) - 1 /\ Main \notin Workers
  BY ThreadAssumption DEF Positions
<1> QED BY <1>1 DEF SetIndex, FullInv, ContextInv, TypeOK, Threads

\* Constructing a context on the main thread.
LEMMA ConstructMain ==
    ASSUME FullInv, NEW i \in Positions, Construct(Main, i, ClusterAt(i))
    PROVE  WorkerInv' /\ MainInv' /\ FrameInv' /\ \A t \in Threads : error'[t] # "IndexError"
<1>1. Main \in Threads /\ Main \notin Workers
  BY FullShape, ThreadAssumption
<1>2. /\ clusters' = clusters /\ mode' = mode /\ frames' = frames /\ want' = want
      /\ config_index' = config_index /\ cur_index' = cur_index /\ error' = error
  BY DEF Construct
<1>3. pending'[Main] = [step |-> "enter", original |-> cur_index, index |-> i,
                        goal |-> ClusterAt(i)]
  BY <1>1 DEF Construct, FullInv, TypeOK
<1>4. \A w \in Workers : pending'[w] = pending[w]
  BY <1>1 DEF Construct, FullInv, TypeOK, Threads
<1>5. WorkerInv'
  BY <1>2, <1>4, WorkersKept
<1>6. cur_index \in Positions /\ ClusterAt(cur_index) = want[Main]
  BY DEF FullInv, ContextInv, MainInv, Construct, Running
<1>7. MainInv'
  BY <1>2, <1>3, <1>6, SameList DEF MainInv
<1>8. FrameInv'
  BY <1>2, SameList DEF FullInv, ContextInv, FrameInv, FrameFits, Depth
<1> QED BY <1>2, <1>5, <1>7, <1>8 DEF FullInv, ContextInv

\* The main thread's own code may be sent elsewhere: only a client loop ties
\* its frame to where the thread is, and its body is not the thread's own code.
LEMMA RunningFrames ==
    ASSUME FullInv, Running(Main), UNCHANGED <<clusters, frames>>
    PROVE  FrameInv'
<1>1. Depth(Main)' = Depth(Main) /\ Depth(Main) \in Nat
  BY FullShape, StackFacts DEF Depth, FullInv
<1> SUFFICES ASSUME NEW k \in 1 .. Depth(Main)
             PROVE  FrameFits(frames[Main], k, want'[Main])
  BY <1>1, SameFrames DEF FrameInv
<1>2. k = Depth(Main) => frames[Main][k].kind # "clients"
  BY <1>1 DEF Running, Top
<1>3. Len(frames[Main]) = Depth(Main) /\ FrameFits(frames[Main], k, want[Main])
  BY DEF FullInv, ContextInv, FrameInv, Depth
<1> QED BY <1>2, <1>3 DEF FrameFits

\* A direct call of the main thread that changes the index at once: it ends on
\* the cluster it asked for, and no frame is concerned.
LEMMA DirectSwitch ==
    ASSUME FullInv, Running(Main), cur_index' \in Positions,
           want' = [want EXCEPT ![Main] = ClusterAt(cur_index')],
           \A w \in Workers : config_index'[w] = config_index[w],
           UNCHANGED <<clusters, mode, frames, pending>>
    PROVE  WorkerInv' /\ MainInv' /\ FrameInv'
<1>1. Main \in Threads /\ Main \notin Workers
  BY FullShape, ThreadAssumption
<1>2. want'[Main] = ClusterAt(cur_index') /\ \A w \in Workers : want'[w] = want[w]
  BY <1>1 DEF FullInv, TypeOK, Threads
<1>3. WorkerInv'
  BY <1>2, WorkersKept
<1>4. MainInv'
  <2>1. Positions' = Positions /\ ClusterAt(cur_index)' = ClusterAt(cur_index')
    BY DEF Positions, ClusterAt
  <2> QED BY <1>2, <2>1 DEF MainInv, Running
<1>5. FrameInv'
  BY RunningFrames
<1> QED BY <1>3, <1>4, <1>5

MoveInv == WorkerInv /\ MainInv /\ FrameInv /\ \A t \in Threads : error[t] # "IndexError"

\* A step of the main thread that only touches its own pending call, its own
\* stack and its own wish, and leaves the index for a later switch.
LEMMA Deferred ==
    ASSUME FullInv, NEW b \in BOOLEAN, NEW i \in Positions,
           pending' = [pending EXCEPT ![Main] = SwitchUnless(b, i)],
           b => i = cur_index,
           ClusterAt(i) = want'[Main],
           \A w \in Workers : frames'[w] = frames[w] /\ want'[w] = want[w],
           UNCHANGED <<clusters, cur_index, config_index, mode, error>>
    PROVE  WorkerInv' /\ MainInv' /\ \A t \in Threads : error'[t] # "IndexError"
<1>1. Main \in Threads /\ Main \notin Workers /\ i \in Nat
  BY FullShape, ThreadAssumption
<1>2. pending'[Main] = SwitchUnless(b, i) /\ \A w \in Workers : pending'[w] = pending[w]
  BY <1>1 DEF FullInv, TypeOK, Threads
<1>3. WorkerInv'
  BY <1>2, WorkersKept
<1>4. cur_index \in Positions
  BY DEF FullInv, ContextInv, MainInv
<1>5. MainInv'
  <2>1. CASE b
    <3>0. SwitchUnless(b, i).step = "none"
      BY <1>1, <2>1, SwitchUnlessType, Zenon
    <3>1. pending'[Main].step = "none"
      BY <1>2, <3>0
    <3> QED BY <1>4, <2>1, <3>1, SameList DEF MainInv
  <2>2. CASE ~b
    <3>1. pending'[Main].step = "switch" /\ pending'[Main].index = i
      BY <1>1, <1>2, <2>2, SwitchUnlessType
    <3> QED BY <1>4, <3>1, SameList DEF MainInv
  <2> QED BY <2>1, <2>2
<1> QED BY <1>3, <1>5 DEF FullInv, ContextInv

\* Every step of the main thread inside the API.
LEMMA MainStep ==
    ASSUME FullInv, Step(Main)
    PROVE  MoveInv'
<1>0. /\ ShapeInv /\ TypeOK /\ Main \in Threads /\ Main \notin Workers
      /\ WorkerInv /\ MainInv /\ FrameInv
      /\ \A t \in Threads : error[t] # "IndexError"
  BY FullShape, ThreadAssumption DEF FullInv, ContextInv
<1>a. /\ config_index[Main] = NoIndex /\ Indexes = Positions
      /\ Positions \subseteq Nat /\ 0 \in Positions
  BY FullShape
<1>b. cur_index \in Positions
  BY <1>0 DEF MainInv
<1>c. ProviderIndexes(Main) # {} =>
          /\ First(ProviderIndexes(Main)) \in Positions
          /\ Provider(Main) = ClusterAt(First(ProviderIndexes(Main)))
  BY <1>0, <1>a, <1>b, ProviderLookup
<1>d. Effective(Main) = ClusterAt(cur_index)
  BY <1>a DEF Effective, EffectiveIndex
<1>e. \A t \in Workers : t \in Threads
  BY DEF Threads
<1>1. ASSUME NEW i \in Indexes, SwitchCtx(Main, i) PROVE MoveInv'
  BY <1>1, <1>a, SetIndexMain, DirectSwitch DEF SwitchCtx, MoveInv
<1>2. ASSUME NEW i \in Indexes, RunWithConfigContext(Main, i) PROVE MoveInv'
  BY <1>2, <1>a, ConstructMain DEF RunWithConfigContext, MoveInv
<1>3. ASSUME NEW i \in Indexes, StartBound(Main, i) PROVE MoveInv'
  BY <1>3, <1>0 DEF StartBound
<1>4. ASSUME SwitchToProvider(Main) PROVE MoveInv'
  BY <1>4, <1>c, SetIndexMain, DirectSwitch DEF SwitchToProvider, MoveInv
<1>5. ASSUME SwitchAcmCtx(Main) PROVE MoveInv'
  <2>1. mode[Main] = "plain"
    BY <1>5, <1>0, NotBooting DEF SwitchAcmCtx, Running
  <2>2. /\ MulticlusterIndex(AcmCluster) \in Positions
        /\ ClusterAt(MulticlusterIndex(AcmCluster)) = AcmCluster
    BY <1>5, <1>0, <2>1, AcmLookup, AcmAssumption DEF SwitchAcmCtx, ShapeInv
  <2>3. WorkerInv' /\ MainInv' /\ FrameInv'
    BY <1>5, <2>2, DirectSwitch DEF SwitchAcmCtx
  <2> QED BY <1>5, <1>0, <2>3 DEF SwitchAcmCtx, MoveInv
<1>6. ASSUME ResetCtx(Main) PROVE MoveInv'
  <2>1. WorkerInv' /\ MainInv' /\ FrameInv'
    BY <1>6, <1>a, DirectSwitch DEF ResetCtx
  <2> QED BY <1>6, <1>0, <2>1 DEF ResetCtx, MoveInv
<1>7. ASSUME FinishSwitch(Main) PROVE MoveInv'
  <2> DEFINE i == pending[Main].index
  <2>1. i \in Positions /\ ClusterAt(i) = want[Main]
    BY <1>7, <1>0 DEF FinishSwitch, MainInv
  <2>2. /\ cur_index' = i
        /\ \A w \in Workers : config_index'[w] = config_index[w]
        /\ \A t \in Threads : error'[t] # "IndexError"
    BY <1>7, <2>1, SetIndexMain DEF FinishSwitch
  <2>3. /\ clusters' = clusters /\ mode' = mode /\ frames' = frames /\ want' = want
        /\ pending' = [pending EXCEPT ![Main] = Nothing]
    BY <1>7 DEF FinishSwitch
  <2>4. pending'[Main].step = "none" /\ \A w \in Workers : pending'[w] = pending[w]
    BY <1>0, <1>e, <2>3 DEF TypeOK, Nothing
  <2>5. WorkerInv'
    BY <2>2, <2>3, <2>4, WorkersKept
  <2>6. MainInv'
    <3>1. Positions' = Positions /\ ClusterAt(cur_index)' = ClusterAt(i)
      BY <2>2, <2>3 DEF Positions, ClusterAt
    <3> QED BY <2>1, <2>2, <2>3, <2>4, <3>1 DEF MainInv
  <2>7. FrameInv'
    BY <1>0, <2>3, SameList DEF FrameInv, FrameFits, Depth
  <2> QED BY <2>2, <2>5, <2>6, <2>7 DEF MoveInv
<1>8. ASSUME RunWithAcmConfigContext(Main) PROVE MoveInv'
  <2>1. mode[Main] = "plain"
    BY <1>8, <1>0, NotBooting DEF RunWithAcmConfigContext, Construct, Running
  <2>2. /\ MulticlusterIndex(AcmCluster) \in Positions
        /\ ClusterAt(MulticlusterIndex(AcmCluster)) = AcmCluster
    BY <1>8, <1>0, <2>1, AcmLookup, AcmAssumption DEF RunWithAcmConfigContext, ShapeInv
  <2> QED BY <1>8, <2>2, ConstructMain DEF RunWithAcmConfigContext, MoveInv
<1>9. ASSUME RunWithProviderConfigContextIfAvailable(Main) PROVE MoveInv'
  BY <1>9, <1>b, <1>c, <1>d, ConstructMain
     DEF RunWithProviderConfigContextIfAvailable, MoveInv
<1>10. ASSUME RunWithFirstConsumerConfigContextIfAvailable(Main) PROVE MoveInv'
  <2>1. ConsumerIndexes \subseteq Positions
    BY DEF ConsumerIndexes, TypeIndexes, Positions
  <2>2. ConsumerIndexes # {} => First(ConsumerIndexes) \in Positions
    BY <1>a, <2>1, FirstInSet
  <2> QED BY <1>10, <1>b, <1>d, <2>2, ConstructMain
          DEF RunWithFirstConsumerConfigContextIfAvailable, MoveInv
<1>11. ASSUME Enter(Main) PROVE MoveInv'
  <2> DEFINE f == [kind |-> "with", original |-> pending[Main].original,
                   todo |-> {}, back |-> want[Main]]
             i == pending[Main].index
  <2>1. /\ pending[Main].original \in Positions
        /\ ClusterAt(pending[Main].original) = want[Main]
        /\ i \in Positions /\ ClusterAt(i) = pending[Main].goal
    BY <1>0, <1>11 DEF Enter, MainInv
  <2>2. f \in Frame
    BY <1>0 DEF TypeOK, Pending, Frame
  <2>3. /\ want'[Main] = pending[Main].goal
        /\ \A w \in Workers : frames'[w] = frames[w] /\ want'[w] = want[w]
    BY <1>0, <1>e, <1>11 DEF Enter, TypeOK
  <2>4. FrameInv'
    BY <1>11, <2>1, <2>2, PushKeeps DEF Enter
  <2>5. WorkerInv' /\ MainInv' /\ \A t \in Threads : error'[t] # "IndexError"
    BY <1>11, <2>1, <2>3, Deferred DEF Enter
  <2> QED BY <2>4, <2>5 DEF MoveInv
<1>f. ASSUME Depth(Main) > 0
      PROVE  /\ Top(Main).original \in Positions
             /\ ClusterAt(Top(Main).original) = Top(Main).back
             /\ Top(Main).kind = "clients" => Top(Main).back = want[Main]
  <2>1. Depth(Main) \in Nat
    BY <1>0, StackFacts
  <2>2. Len(frames[Main]) = Depth(Main) /\ FrameFits(frames[Main], Depth(Main), want[Main])
    BY <1>0, <1>f, <2>1 DEF FrameInv, Depth
  <2> QED BY <2>2 DEF FrameFits, Top
<1>12. ASSUME Exit(Main) PROVE MoveInv'
  <2>1. /\ want'[Main] = Top(Main).back
        /\ \A w \in Workers : frames'[w] = frames[w] /\ want'[w] = want[w]
    BY <1>0, <1>e, <1>12 DEF Exit, TypeOK
  <2>2. FrameInv'
    BY <1>12, <2>1, PopKeeps DEF Exit
  <2>3. WorkerInv' /\ MainInv' /\ \A t \in Threads : error'[t] # "IndexError"
    BY <1>12, <1>f, <2>1, Deferred DEF Exit
  <2> QED BY <2>2, <2>3 DEF MoveInv
<1>13. ASSUME RunForAllClusters(Main) PROVE MoveInv'
  <2> DEFINE f == [kind |-> "all", original |-> cur_index,
                   todo |-> 1 .. nclusters - 1, back |-> want[Main]]
  <2>1. f \in Frame /\ 1 .. nclusters - 1 \subseteq Positions
    BY <1>0, <1>a DEF TypeOK, Frame, Indexes
  <2>2. /\ want'[Main] = ClusterAt(0)
        /\ \A w \in Workers : frames'[w] = frames[w] /\ want'[w] = want[w]
    BY <1>0, <1>e, <1>13 DEF RunForAllClusters, TypeOK
  <2>3. ClusterAt(cur_index) = want[Main]
    BY <1>0, <1>13 DEF RunForAllClusters, Running, MainInv
  <2>4. FrameInv'
    BY <1>13, <1>b, <2>1, <2>3, PushKeeps DEF RunForAllClusters
  <2>5. WorkerInv' /\ MainInv' /\ \A t \in Threads : error'[t] # "IndexError"
    BY <1>13, <1>a, <2>2, Deferred DEF RunForAllClusters
  <2> QED BY <2>4, <2>5 DEF MoveInv
<1>14. ASSUME NextCluster(Main) PROVE MoveInv'
  <2>1. /\ want'[Main] = ClusterAt(First(Top(Main).todo))
        /\ \A w \in Workers : frames'[w] = frames[w] /\ want'[w] = want[w]
    BY <1>0, <1>e, <1>14 DEF NextCluster, TypeOK
  <2>2. FrameInv' /\ First(Top(Main).todo) \in Positions
    BY <1>14, TodoKeeps DEF NextCluster
  <2>3. WorkerInv' /\ MainInv' /\ \A t \in Threads : error'[t] # "IndexError"
    BY <1>14, <2>1, <2>2, Deferred DEF NextCluster
  <2> QED BY <2>2, <2>3 DEF MoveInv
<1>15. ASSUME EndForAllClusters(Main) PROVE MoveInv'
  <2>1. /\ want'[Main] = Top(Main).back
        /\ \A w \in Workers : frames'[w] = frames[w] /\ want'[w] = want[w]
    BY <1>0, <1>e, <1>15 DEF EndForAllClusters, TypeOK
  <2>2. FrameInv'
    BY <1>15, <2>1, PopKeeps DEF EndForAllClusters
  <2>3. WorkerInv' /\ MainInv' /\ \A t \in Threads : error'[t] # "IndexError"
    BY <1>15, <1>f, <2>1, Deferred DEF EndForAllClusters
  <2> QED BY <2>2, <2>3 DEF MoveInv
<1>16. ASSUME GetClientContexts(Main) PROVE MoveInv'
  <2> DEFINE f == [kind |-> "clients", original |-> cur_index,
                   todo |-> ConsumerIndexes, back |-> want[Main]]
  <2>1. f \in Frame /\ ConsumerIndexes \subseteq Positions
    BY <1>0 DEF TypeOK, Frame, ConsumerIndexes, TypeIndexes, Positions
  <2>2. ClusterAt(cur_index) = want[Main]
    BY <1>0, <1>16 DEF GetClientContexts, Running, MainInv
  <2>3. /\ clusters' = clusters /\ mode' = mode /\ want' = want /\ pending' = pending
        /\ config_index' = config_index /\ cur_index' = cur_index
        /\ \A w \in Workers : frames'[w] = frames[w]
        /\ \A t \in Threads : error'[t] # "IndexError"
    BY <1>0, <1>e, <1>16 DEF GetClientContexts, TypeOK
  <2>4. FrameInv'
    <3>1. CASE frames' = [frames EXCEPT ![Main] = Append(@, f)]
      BY <1>b, <2>1, <2>2, <2>3, <3>1, PushKeeps
    <3>2. CASE frames' = frames
      BY <1>0, <2>3, <3>2, SameList DEF FrameInv, FrameFits, Depth
    <3> QED BY <1>16, <3>1, <3>2 DEF GetClientContexts
  <2>5. WorkerInv'
    BY <2>3, WorkersKept
  <2>6. MainInv'
    BY <1>0, <2>3, SameList DEF MainInv
  <2> QED BY <2>3, <2>4, <2>5, <2>6 DEF MoveInv
<1>17. ASSUME NextClient(Main) PROVE MoveInv'
  <2> DEFINE i == First(Top(Main).todo)
  <2>1. /\ clusters' = clusters /\ mode' = mode /\ want' = want /\ error' = error
        /\ config_index' = config_index /\ cur_index' = cur_index
        /\ \A w \in Workers : frames'[w] = frames[w] /\ pending'[w] = pending[w]
        /\ pending'[Main] = [step |-> "enter", original |-> Top(Main).original,
                             index |-> i, goal |-> ClusterAt(i)]
    BY <1>0, <1>e, <1>17 DEF NextClient, TypeOK
  <2>2. FrameInv' /\ i \in Positions
    BY <1>17, TodoKeeps DEF NextClient, InClientLoop
  <2>3. /\ Top(Main).original \in Positions
        /\ ClusterAt(Top(Main).original) = want[Main]
        /\ ClusterAt(cur_index) = want[Main]
    BY <1>0, <1>17, <1>f DEF NextClient, InClientLoop, MainInv
  <2>4. WorkerInv'
    BY <2>1, WorkersKept
  <2>5. MainInv'
    BY <1>b, <2>1, <2>2, <2>3, SameList DEF MainInv
  <2> QED BY <1>0, <2>1, <2>2, <2>4, <2>5 DEF MoveInv
<1>18. ASSUME EndClients(Main) PROVE MoveInv'
  <2>1. /\ clusters' = clusters /\ mode' = mode /\ want' = want /\ error' = error
        /\ config_index' = config_index /\ cur_index' = cur_index /\ pending' = pending
        /\ \A w \in Workers : frames'[w] = frames[w]
    BY <1>0, <1>e, <1>18 DEF EndClients, TypeOK
  <2>2. FrameInv'
    BY <1>18, <1>f, <2>1, PopKeeps DEF EndClients, InClientLoop
  <2>3. WorkerInv'
    BY <2>1, WorkersKept
  <2>4. MainInv'
    BY <1>0, <2>1, SameList DEF MainInv
  <2> QED BY <1>0, <2>1, <2>2, <2>3, <2>4 DEF MoveInv
<1>19. ASSUME StartPlain(Main) \/ EndTask(Main) PROVE MoveInv'
  BY <1>19, <1>0 DEF StartPlain, EndTask
<1> QED
  BY <1>1, <1>2, <1>3, <1>4, <1>5, <1>6, <1>7, <1>8, <1>9, <1>10, <1>11, <1>12, <1>13,
     <1>14, <1>15, <1>16, <1>17, <1>18, <1>19 DEF Step

\* What the pool threads do when only the main thread moves the context.
LEMMA WorkerStep ==
    ASSUME FullInv, OnlyMainSwitches, NEW w \in Workers, Step(w)
    PROVE  MoveInv'
<1>0. /\ ShapeInv /\ TypeOK /\ w \in Threads /\ w # Main /\ Main \in Threads
      /\ WorkerInv /\ MainInv /\ FrameInv
      /\ \A t \in Threads : error[t] # "IndexError"
  BY FullShape, ThreadAssumption DEF FullInv, ContextInv, Threads
<1>1. MayUse[w] = {} /\ frames[w] = <<>> /\ pending[w].step = "none" /\ Depth(w) = 0
  BY <1>0 DEF OnlyMainSwitches, WorkerInv, Nothing, Depth
<1>2. \/ \E i \in Indexes : StartBound(w, i)
      \/ StartPlain(w)
      \/ EndTask(w)
  BY <1>1 DEF Step, SwitchCtx, RunWithConfigContext, SwitchToProvider, SwitchAcmCtx,
              ResetCtx, FinishSwitch, RunWithAcmConfigContext,
              RunWithProviderConfigContextIfAvailable,
              RunWithFirstConsumerConfigContextIfAvailable, Enter, Exit,
              RunForAllClusters, NextCluster, EndForAllClusters, GetClientContexts,
              NextClient, EndClients, InClientLoop
<1>3. /\ clusters' = clusters /\ cur_index' = cur_index
      /\ frames' = frames /\ pending' = pending /\ error' = error
      /\ want'[Main] = want[Main]
  BY <1>0, <1>2 DEF StartBound, StartPlain, EndTask, TypeOK
<1>4. MainInv'
  BY <1>0, <1>3, SameList DEF MainInv
<1>5. FrameInv'
  BY <1>0, <1>3, SameList DEF FrameInv, FrameFits, Depth
<1>6. WorkerInv'
  <2> SUFFICES ASSUME NEW u \in Workers
               PROVE  mode'[u] = "bound" => /\ config_index'[u] \in Positions
                                            /\ ClusterAt(config_index'[u]) = want'[u]
    BY <1>0, <1>3, SameList DEF WorkerInv
  <2>1. u \in Threads
    BY DEF Threads
  <2>2. CASE u # w
    BY <1>0, <1>2, <2>1, <2>2 DEF StartBound, StartPlain, EndTask, TypeOK, WorkerInv
  <2>3. CASE u = w /\ \E i \in Indexes : StartBound(w, i)
    <3>1. PICK i \in Indexes : StartBound(w, i)
      BY <2>3
    <3>2. i \in Positions /\ config_index'[u] = i /\ want'[u] = ClusterAt(i)
      BY <1>0, <2>3, <3>1, FullShape DEF StartBound, TypeOK
    <3> QED BY <3>2
  <2>4. CASE u = w /\ (StartPlain(w) \/ EndTask(w))
    BY <1>0, <2>4 DEF StartPlain, EndTask, TypeOK
  <2> QED BY <1>2, <2>2, <2>3, <2>4
<1> QED BY <1>0, <1>3, <1>4, <1>5, <1>6 DEF MoveInv

\* Adding and removing hosted clusters, and start-up.  A removal keeps every
\* index that is held on its cluster, or is recorded as one that did not.
LEMMA ListStep ==
    ASSUME FullInv,
           \/ InitClusterConfigs
           \/ \E c \in Hosted : InsertClusterConfig(c) \/ HostedClusterRemove(c)
           \/ RemoveCluster \/ DestroyFailed
    PROVE  shifted' \/ MoveInv'
<1>0. /\ ShapeInv /\ TypeOK /\ Main \in Threads /\ Main \notin Workers
      /\ WorkerInv /\ MainInv /\ FrameInv
      /\ \A t \in Threads : error[t] # "IndexError"
      /\ config_index[Main] = NoIndex
      /\ \A t \in Workers : t \in Threads
      /\ Len(clusters) \in Nat /\ Len(Boot) \in Nat
  BY FullShape, ThreadAssumption, ClusterAssumption DEF FullInv, ContextInv, TypeOK, Threads
<1>1. ASSUME InitClusterConfigs PROVE MoveInv'
  <2>1. /\ \A t \in Threads : frames[t] = <<>> /\ pending[t] = Nothing
        /\ \A t \in Workers : mode[t] = "idle"
    BY <1>0, <1>1 DEF InitClusterConfigs, ShapeInv, ListInv
  <2>2. /\ clusters' = Boot /\ cur_index' = DefaultIndex
        /\ frames' = frames /\ pending' = pending /\ error' = error
        /\ want'[Main] = Boot[DefaultIndex + 1]
        /\ \A t \in Workers : mode'[t] = "idle"
    BY <1>0, <1>1, <2>1 DEF InitClusterConfigs, TypeOK
  <2>3. WorkerInv'
    BY <1>0, <2>1, <2>2 DEF WorkerInv
  <2>4. MainInv'
    <3>1. (cur_index \in Positions)' /\ (ClusterAt(cur_index) = want[Main])'
      BY <1>0, <2>2, ClusterAssumption DEF Positions, ClusterAt
    <3>2. pending'[Main].step = "none"
      BY <1>0, <2>1, <2>2 DEF Nothing
    <3> QED BY <3>1, <3>2 DEF MainInv
  <2>5. FrameInv'
    BY <1>0, <2>1, <2>2 DEF FrameInv, FrameFits, Depth
  <2> QED BY <1>0, <2>2, <2>3, <2>4, <2>5 DEF MoveInv
<1>2. ASSUME NEW c \in Hosted, InsertClusterConfig(c) PROVE MoveInv'
  <2>1. UNCHANGED <<cur_index, config_index, mode, frames, pending, error, want>>
    BY <1>2 DEF InsertClusterConfig
  <2>2. \A i \in Positions : i \in Positions' /\ ClusterAt(i)' = ClusterAt(i)
    BY <1>0, <1>2, InsertFacts DEF Positions, ClusterAt
  <2>3. WorkerInv'
    BY <1>0, <2>1, <2>2 DEF WorkerInv
  <2>4. MainInv'
    <3>1. (cur_index \in Positions)' /\ ClusterAt(cur_index)' = ClusterAt(cur_index)
      BY <1>0, <2>1, <2>2 DEF MainInv
    <3>2. pending[Main].step = "none"
      BY <1>2 DEF InsertClusterConfig, Running
    <3> QED BY <1>0, <2>1, <3>1, <3>2 DEF MainInv
  <2>5. FrameInv'
    <3> SUFFICES ASSUME NEW k \in 1 .. Depth(Main)
                 PROVE  /\ (frames[Main][k].original \in Positions)'
                        /\ ClusterAt(frames[Main][k].original)' = frames[Main][k].back
                        /\ (frames[Main][k].todo \subseteq Positions)'
                        /\ frames[Main][k].kind = "clients" =>
                              frames[Main][k].back = IF k = Depth(Main) THEN want[Main]
                                                     ELSE frames[Main][k + 1].back
      BY <2>1 DEF FrameInv, FrameFits, Depth
    <3>1. Len(frames[Main]) = Depth(Main) /\ FrameFits(frames[Main], k, want[Main])
      BY <1>0 DEF FrameInv, Depth
    <3> QED BY <2>1, <2>2, <3>1 DEF FrameFits
  <2> QED BY <1>0, <2>1, <2>3, <2>4, <2>5 DEF MoveInv
<1>3. ASSUME NEW c \in Hosted, HostedClusterRemove(c) PROVE MoveInv'
  <2> DEFINE i == First(ProviderIndexes(Main))
  <2>1. /\ i \in ProviderIndexes(Main) /\ i \in Positions
        /\ Provider(Main) = ClusterAt(i)
    BY <1>0, <1>3, ProviderLookup DEF HostedClusterRemove, MainInv
  <2>2. Effective(Main) = ClusterAt(cur_index) /\ mode[Main] = "plain"
    BY <1>0, <1>3, NotBooting DEF Effective, EffectiveIndex, HostedClusterRemove, Running
  <2>3. \A j \in Positions : ClusterAt(j) \in Clusters
    <3> TAKE j \in Positions
    <3>1. j + 1 \in 1 .. Len(clusters) /\ ClusterAt(j) = clusters[j + 1]
      BY <1>0 DEF Positions, ClusterAt
    <3>2. CASE j + 1 \in 1 .. Len(Boot)
      BY <1>0, <2>2, <3>1, <3>2, ClusterAssumption DEF ShapeInv, ListInv
    <3>3. CASE j + 1 \in Len(Boot) + 1 .. Len(clusters)
      BY <1>0, <2>2, <3>1, <3>3, ClusterAssumption DEF ShapeInv, ListInv
    <3> QED BY <1>0, <3>1, <3>2, <3>3
  <2>4. ClusterAt(i) \notin Hosted
    <3>1. Effective(Main) \in Clusters
      BY <1>0, <2>2, <2>3 DEF MainInv
    <3>2. CASE ProviderNameOf[Effective(Main)] # NoCluster
      BY <2>1, <3>1, <3>2, ClusterAssumption DEF ProviderIndexes, NameIndexes
    <3>3. CASE /\ ProviderNameOf[Effective(Main)] = NoCluster
               /\ ClusterType[Effective(Main)] = "provider"
      BY <2>1, <2>2, <3>1, <3>3, ClusterAssumption DEF ProviderIndexes
    <3>4. CASE /\ ProviderNameOf[Effective(Main)] = NoCluster
               /\ ClusterType[Effective(Main)] # "provider"
      BY <2>1, <2>3, <3>4, ClusterAssumption DEF ProviderIndexes, TypeIndexes
    <3> QED BY <3>2, <3>3, <3>4
  <2> HIDE DEF i
  <2>5. /\ cur_index' = i
        /\ \A w \in Workers : config_index'[w] = config_index[w]
        /\ \A t \in Threads : error'[t] # "IndexError"
    BY <1>3, <2>1, SetIndexMain DEF HostedClusterRemove, i
  <2>6. /\ clusters' = clusters /\ mode' = mode /\ frames' = frames
        /\ want'[Main] = ClusterAt(i) /\ pending'[Main].step = "remove"
        /\ \A w \in Workers : want'[w] = want[w] /\ pending'[w] = pending[w]
        /\ Running(Main)
    BY <1>0, <1>3, <2>1 DEF HostedClusterRemove, TypeOK, Nothing
  <2>7. WorkerInv'
    BY <2>5, <2>6, WorkersKept
  <2>8. MainInv'
    <3>1. Positions' = Positions /\ ClusterAt(cur_index)' = ClusterAt(i)
      BY <2>5, <2>6 DEF Positions, ClusterAt
    <3> QED BY <2>1, <2>4, <2>5, <2>6, <3>1 DEF MainInv
  <2>9. FrameInv'
    BY <2>6, RunningFrames
  <2> QED BY <2>5, <2>7, <2>8, <2>9 DEF MoveInv
<1>4. ASSUME RemoveCluster, ~shifted' PROVE MoveInv'
  <2>1. PICK p \in Len(Boot) + 1 .. Len(clusters) :
              /\ shifted' = (shifted \/ \E t \in Threads : \E i \in Held(t) : i >= p - 1)
              /\ Len(clusters') = Len(clusters) - 1
              /\ \A k \in 1 .. Len(clusters) - 1 :
                    clusters'[k] = IF k < p THEN clusters[k] ELSE clusters[k + 1]
    BY <1>0, <1>4, RemoveFacts
  <2>2. /\ cur_index' = cur_index /\ config_index' = config_index
        /\ frames' = frames /\ error' = error /\ want' = want
        /\ mode' = mode /\ pending' = [pending EXCEPT ![Main] = Nothing]
        /\ pending[Main].step = "remove"
    BY <1>4 DEF RemoveCluster
  <2>3. mode[Main] = "plain"
    BY <1>0, <2>2, NotBooting
  <2>4. ASSUME NEW i \in Positions, i < p - 1
        PROVE  (i \in Positions)' /\ ClusterAt(i)' = ClusterAt(i)
    <3>1. i \in Nat /\ i + 1 \in 1 .. Len(clusters) - 1 /\ i + 1 < p
      BY <1>0, <2>1, <2>4 DEF Positions
    <3>2. clusters'[i + 1] = clusters[i + 1]
      BY <2>1, <3>1
    <3> QED BY <1>0, <2>1, <3>1, <3>2 DEF Positions, ClusterAt
  <2>5. ASSUME NEW t \in Threads, NEW i \in Held(t), i \in Positions
        PROVE  (i \in Positions)' /\ ClusterAt(i)' = ClusterAt(i)
    <3>1. ~(i >= p - 1)
      BY <1>4, <2>1, <2>5
    <3>2. i < p - 1
      BY <1>0, <2>1, <2>5, <3>1 DEF Positions
    <3> QED BY <2>4, <2>5, <3>2
  <2>6. cur_index + 1 \in 1 .. Len(clusters) /\ clusters[cur_index + 1] \notin Hosted
    BY <1>0, <2>2 DEF MainInv, Positions, ClusterAt
  <2>7. cur_index + 1 \in 1 .. Len(Boot)
    BY <1>0, <2>3, <2>6 DEF ShapeInv, ListInv
  <2>8. cur_index \in Positions /\ cur_index < p - 1
    BY <1>0, <2>1, <2>7 DEF MainInv, Positions
  <2>9. /\ pending'[Main].step = "none"
        /\ \A w \in Workers : pending'[w] = pending[w]
    BY <1>0, <2>2 DEF TypeOK, Nothing
  <2>10. MainInv'
    <3>1. (cur_index \in Positions)' /\ ClusterAt(cur_index)' = ClusterAt(cur_index)
      BY <2>2, <2>4, <2>8
    <3>2. ClusterAt(cur_index) = want[Main]
      BY <1>0, <2>2 DEF MainInv
    <3> QED BY <2>2, <2>9, <3>1, <3>2 DEF MainInv
  <2>11. WorkerInv'
    <3> SUFFICES ASSUME NEW w \in Workers
                 PROVE  /\ frames[w] = <<>>
                        /\ pending[w] = Nothing
                        /\ mode[w] = "bound" =>
                              /\ (config_index[w] \in Positions)'
                              /\ ClusterAt(config_index[w])' = want[w]
      BY <2>2, <2>9 DEF WorkerInv
    <3>1. /\ frames[w] = <<>> /\ pending[w] = Nothing
          /\ mode[w] = "bound" => /\ config_index[w] \in Positions
                                  /\ ClusterAt(config_index[w]) = want[w]
      BY <1>0 DEF WorkerInv
    <3>2. ASSUME mode[w] = "bound"
          PROVE  (config_index[w] \in Positions)' /\ ClusterAt(config_index[w])' = want[w]
      <4>1. config_index[w] # NoIndex
        BY <1>0, <3>2 DEF ShapeInv, BindingInv
      <4>2. config_index[w] \in Held(w)
        BY <4>1 DEF Held
      <4>3. PICK i \in Held(w) : i = config_index[w]
        BY <4>2
      <4>4. (i \in Positions)' /\ ClusterAt(i)' = ClusterAt(i)
        BY <1>0, <2>5, <3>1, <3>2, <4>3
      <4> QED BY <2>2, <3>1, <3>2, <4>3, <4>4
    <3> QED BY <3>1, <3>2
  <2>12. FrameInv'
    <3> SUFFICES ASSUME NEW k \in 1 .. Depth(Main)
                 PROVE  /\ (frames[Main][k].original \in Positions)'
                        /\ ClusterAt(frames[Main][k].original)' = frames[Main][k].back
                        /\ (frames[Main][k].todo \subseteq Positions)'
                        /\ frames[Main][k].kind = "clients" =>
                              frames[Main][k].back = IF k = Depth(Main) THEN want[Main]
                                                     ELSE frames[Main][k + 1].back
      BY <2>2 DEF FrameInv, FrameFits, Depth
    <3>1. Len(frames[Main]) = Depth(Main) /\ FrameFits(frames[Main], k, want[Main])
      BY <1>0 DEF FrameInv, Depth
    <3>2. frames[Main][k].original \in Held(Main) /\ frames[Main][k].todo \subseteq Held(Main)
      BY DEF Held
    <3>3. PICK o \in Held(Main) : o = frames[Main][k].original
      BY <3>2
    <3>4. o \in Positions /\ ClusterAt(o) = frames[Main][k].back
      BY <3>1, <3>3 DEF FrameFits
    <3>5. (o \in Positions)' /\ ClusterAt(o)' = ClusterAt(o)
      BY <1>0, <2>5, <3>4
    <3>6. ASSUME NEW i \in frames[Main][k].todo PROVE (i \in Positions)'
      <4>1. i \in Held(Main) /\ i \in Positions
        BY <3>1, <3>2 DEF FrameFits
      <4> QED BY <1>0, <2>5, <4>1
    <3>7. (frames[Main][k].todo \subseteq Positions)'
      BY <2>2, <3>6
    <3> QED BY <2>2, <3>1, <3>3, <3>4, <3>5, <3>7 DEF FrameFits
  <2> QED BY <1>0, <2>2, <2>10, <2>11, <2>12 DEF MoveInv
<1>5. ASSUME DestroyFailed PROVE MoveInv'
  <2>1. /\ UNCHANGED <<clusters, cur_index, config_index, mode, frames, error, want>>
        /\ pending[Main].step = "remove"
        /\ pending'[Main].step = "none"
        /\ \A w \in Workers : pending'[w] = pending[w]
    BY <1>0, <1>5 DEF DestroyFailed, TypeOK, Nothing
  <2>2. WorkerInv'
    BY <2>1, WorkersKept
  <2>3. MainInv'
    BY <1>0, <2>1, SameList DEF MainInv
  <2>4. FrameInv'
    BY <1>0, <2>1, SameList DEF FrameInv, FrameFits, Depth
  <2> QED BY <1>0, <2>1, <2>2, <2>3, <2>4 DEF MoveInv
<1> QED BY <1>1, <1>2, <1>3, <1>4, <1>5

\* The invariant is inductive, up to a removal that shifts what is held.
LEMMA FullNext ==
    ASSUME FullInv, OnlyMainSwitches, [Next]_vars
    PROVE  shifted' \/ FullInv'
<1>1. ShapeInv'
  BY FullShape, ShapeNext
<1>2. shifted' \/ MoveInv'
  <2>1. ASSUME NEW t \in Threads, Step(t) PROVE MoveInv'
    BY <2>1, MainStep, WorkerStep DEF Threads
  <2>2. CASE UNCHANGED vars
    <3>1. MoveInv
      BY DEF FullInv, ContextInv, MoveInv
    <3> QED BY <2>2, <3>1 DEF vars, MoveInv, WorkerInv, MainInv, FrameInv, FrameFits, Depth,
                              ClusterAt, Positions
  <2> QED BY <2>1, <2>2, ListStep DEF Next
<1> QED BY <1>1, <1>2 DEF FullInv, ContextInv, ShapeInv, MoveInv

\* A shift is never forgotten.
LEMMA ShiftedStays ==
    ASSUME [Next]_vars, shifted
    PROVE  shifted'
BY DEF Next, vars, InitClusterConfigs, Step, SwitchCtx, RunWithConfigContext, StartBound,
       SwitchToProvider, SwitchAcmCtx, ResetCtx, FinishSwitch, RunWithAcmConfigContext,
       RunWithProviderConfigContextIfAvailable,
       RunWithFirstConsumerConfigContextIfAvailable, Construct, Enter, Exit,
       RunForAllClusters, NextCluster, EndForAllClusters, GetClientContexts, NextClient,
       EndClients, StartPlain, EndTask, InsertClusterConfig, HostedClusterRemove,
       RemoveCluster, DropPosition, DestroyFailed

\* The shape always, and the whole invariant as long as no removal shifted a
\* position that was held: this is inductive.
SafeInv == ShapeInv /\ (~shifted => FullInv)

LEMMA SafeNext ==
    ASSUME SafeInv, OnlyMainSwitches, [Next]_vars
    PROVE  SafeInv'
<1>1. ShapeInv'
  BY ShapeNext DEF SafeInv
<1>2. ~shifted' => FullInv'
  BY FullNext, ShiftedStays DEF SafeInv
<1> QED BY <1>1, <1>2 DEF SafeInv

\* The invariant holds initially.
LEMMA FullInit ==
    ASSUME Init
    PROVE  FullInv
<1>1. ShapeInv /\ Main \in Threads /\ \A t \in Workers : t \in Threads /\ t # Main
  BY ShapeInit, ThreadAssumption DEF Threads
<1>2. WorkerInv
  BY <1>1 DEF Init, WorkerInv
<1>3. MainInv
  BY <1>1 DEF Init, MainInv, Nothing, Positions, ClusterAt
<1>4. FrameInv
  BY <1>1 DEF Init, FrameInv, FrameFits, Depth
<1>5. \A t \in Threads : error[t] # "IndexError"
  BY DEF Init
<1> QED BY <1>1, <1>2, <1>3, <1>4, <1>5 DEF FullInv, ContextInv, ShapeInv

LEMMA SafeInit ==
    ASSUME Init
    PROVE  SafeInv
BY FullInit, ShapeInit DEF SafeInv

\* While only the main thread moves the context, it is inside every context,
\* loop and nesting of them on the cluster it asked for, and back on the one
\* it came from afterwards; pool threads stay on the cluster they were given;
\* and hosted clusters may come and go, at any moment, as long as none is
\* removed at or before a position that a thread still holds.
THEOREM ExpectedCluster ==
    ASSUME OnlyMainSwitches
    PROVE  Spec => []OnExpectedCluster
<1>1. Init => SafeInv
  BY SafeInit
<1>2. SafeInv /\ [Next]_vars => SafeInv'
  BY SafeNext
<1>3. SafeInv => OnExpectedCluster
  <2> SUFFICES ASSUME FullInv, NEW t \in Threads,
                      pending[t].step \in {"none", "remove"}, t = Main \/ mode[t] = "bound"
               PROVE  Effective(t) = want[t]
    BY DEF OnExpectedCluster, SafeInv
  <2>1. CASE t = Main
    BY <2>1, FullShape DEF FullInv, ContextInv, MainInv, Effective, EffectiveIndex
  <2>2. CASE t # Main
    <3>1. t \in Workers /\ mode[t] = "bound"
      BY <2>2 DEF Threads
    <3>2. config_index[t] # NoIndex /\ ClusterAt(config_index[t]) = want[t]
      BY <3>1 DEF FullInv, ContextInv, BindingInv, WorkerInv, Threads
    <3> QED BY <3>2 DEF Effective, EffectiveIndex
  <2> QED BY <2>1, <2>2
<1> QED BY <1>1, <1>2, <1>3, PTL DEF Spec

\* nclusters always counts the list, and under the same assumptions no saved,
\* pending or current index ever points outside of it, so no call of the API
\* ends in IndexError.
THEOREM ValidIndexes ==
    ASSUME OnlyMainSwitches
    PROVE  Spec => []IndexesValid
<1>1. Init => SafeInv
  BY SafeInit
<1>2. SafeInv /\ [Next]_vars => SafeInv'
  BY SafeNext
<1>3. SafeInv => IndexesValid
  <2>0. SafeInv => nclusters = Len(clusters)
    BY DEF SafeInv, ShapeInv, ListInv
  <2> SUFFICES ASSUME FullInv
               PROVE  /\ cur_index \in Indexes
                      /\ \A t \in Threads :
                            /\ config_index[t] # NoIndex => config_index[t] \in Indexes
                            /\ pending[t].step = "switch" => pending[t].index \in Indexes
                            /\ \A k \in 1 .. Depth(t) : frames[t][k].original \in Indexes
                            /\ error[t] # "IndexError"
    BY <2>0 DEF SafeInv, IndexesValid
  <2>1. cur_index \in Indexes /\ Indexes = Positions
    BY FullShape DEF FullInv, ContextInv, MainInv
  <2>2. ASSUME NEW t \in Threads
        PROVE  /\ config_index[t] # NoIndex => config_index[t] \in Positions
               /\ pending[t].step = "switch" => pending[t].index \in Positions
               /\ \A k \in 1 .. Depth(t) : frames[t][k].original \in Positions
               /\ error[t] # "IndexError"
    <3>1. CASE t = Main
      BY <3>1, FullShape DEF FullInv, ContextInv, MainInv, FrameInv, FrameFits
    <3>2. CASE t \in Workers
      BY <3>2 DEF FullInv, ContextInv, BindingInv, WorkerInv, Depth, Nothing
    <3> QED BY <3>1, <3>2 DEF Threads
  <2> QED BY <2>1, <2>2
<1> QED BY <1>1, <1>2, <1>3, PTL DEF Spec
=============================================================================
