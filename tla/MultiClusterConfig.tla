------------------------- MODULE MultiClusterConfig -------------------------
(***************************************************************************)
(* The process-wide configuration object of the framework                  *)
(* (src/ocs_ci/framework/__init__.py): a list of cluster configurations,   *)
(* one global index into it, and an optional index of its own for every    *)
(* thread started through ConfigSafeThread or                              *)
(* config_safe_thread_pool_task.  Every attribute read of `config' goes    *)
(* to the cluster the reading thread's index selects, so a thread on the   *)
(* wrong index silently runs its commands against the wrong cluster.       *)
(*                                                                         *)
(* A `with' block, run_for_all_clusters and the client loop are frames on  *)
(* their thread's stack.  A context manager takes three steps              *)
(* (construction, __enter__'s comparison, switch_ctx) between which other  *)
(* threads run.  `want', `goal' and `back' are history values: the cluster *)
(* the thread asked to be on, compared with the one it is on.  `shifted'   *)
(* records that a removal moved a position some thread still holds: the    *)
(* code stores positions, and remove_cluster corrects none of them.        *)
(***************************************************************************)
EXTENDS Integers, Sequences, FiniteSets

CONSTANTS
    Clusters,         \* the clusters: one Config() object and one name each
    NoCluster,        \* the unnamed Config() present before the init
    Boot,             \* the clusters of the command line, in order
    Hosted,           \* hosted clusters, added and removed while tests run
    ClusterType,      \* ENV_DATA["cluster_type"] of each cluster
    ProviderNameOf,   \* ENV_DATA["provider_cluster_name"], NoCluster if unset
    AcmClusters,      \* clusters with MULTICLUSTER["acm_cluster"]
    DefaultIndex,     \* ENV_DATA["default_cluster_context_index"]
    Main, Workers,    \* the main thread and the threads of pools
    NoIndex,          \* no thread-local config_index
    MayUse,           \* the operations the code run by each thread uses
    MaxDepth          \* bound: how deep contexts nest

Threads == {Main} \cup Workers

Types == {"provider", "consumer", "hci_client", "client", "other"}
ConsumerTypes == {"consumer", "hci_client", "client"}

Operations == {"switch", "provider", "acm", "reset", "with", "with_acm",
               "with_provider", "with_consumer", "all", "clients", "hosted"}

InSequence(c, s) == \E k \in 1 .. Len(s) : s[k] = c

NoDuplicates(s) == \A j, k \in 1 .. Len(s) : s[j] = s[k] => j = k

ASSUME ThreadAssumption ==
    /\ Main \notin Workers
    /\ MayUse \in [Threads -> SUBSET Operations]
    /\ MaxDepth \in Nat

ASSUME ClusterAssumption ==
    /\ NoCluster \notin Clusters
    /\ NoIndex \notin Nat
    /\ Boot \in Seq(Clusters)
    /\ Boot # <<>>
    /\ NoDuplicates(Boot)
    /\ Hosted \subseteq Clusters
    /\ \A c \in Hosted : ~InSequence(c, Boot)
    /\ ClusterType \in [Clusters \cup {NoCluster} -> Types]
    /\ ProviderNameOf \in [Clusters \cup {NoCluster} -> Clusters \cup {NoCluster}]
    /\ \A c \in Clusters : ProviderNameOf[c] \notin Hosted
    /\ \A c \in Hosted : ClusterType[c] # "provider"
    /\ \A c \in AcmClusters : c \in Clusters /\ InSequence(c, Boot)
    /\ DefaultIndex \in 0 .. Len(Boot) - 1

\* Callers of the ACM lookups (the disaster-recovery helpers and tests, the ACM
\* deployment) run on fleets that have a hub; without one
\* get_active_acm_index returns None.
ASSUME AcmAssumption ==
    (\E t \in Threads : MayUse[t] \cap {"acm", "with_acm"} # {}) => AcmClusters # {}

VARIABLES
    clusters,       \* self.clusters
    nclusters,      \* self.nclusters, kept apart from the list
    cur_index,      \* self.cur_index
    config_index,   \* thread_local_data.config_index of every thread
    activeAcm,      \* clusters with MULTICLUSTER["active_acm_cluster"]
    mode,           \* what every thread is doing
    frames,         \* the contexts and loops every thread is inside of
    pending,        \* what is left of the call every thread is in
    error,          \* the last exception a call raised in every thread
    want,           \* history: the cluster every thread asked to be on
    shifted         \* history: a removal moved a position a thread held

vars == <<clusters, nclusters, cur_index, config_index, activeAcm, mode,
          frames, pending, error, want, shifted>>

AnyCluster == Clusters \cup {NoCluster}
Indexes == 0 .. nclusters - 1

Frame == [kind : {"with", "all", "clients"}, original : Nat,
          todo : SUBSET Nat, back : AnyCluster]

Pending == [step : {"none", "enter", "switch", "remove"}, original : Nat,
            index : Nat, goal : AnyCluster]

Nothing == [step |-> "none", original |-> 0, index |-> 0, goal |-> NoCluster]

TypeOK ==
    /\ clusters \in Seq(AnyCluster)
    /\ nclusters \in Nat
    /\ cur_index \in Nat
    /\ config_index \in [Threads -> Nat \cup {NoIndex}]
    /\ activeAcm \subseteq AcmClusters
    /\ mode \in [Threads -> {"boot", "idle", "plain", "bound"}]
    /\ frames \in [Threads -> Seq(Frame)]
    /\ pending \in [Threads -> Pending]
    /\ error \in [Threads -> {"none", "IndexError", "TypeError"}]
    /\ want \in [Threads -> AnyCluster]
    /\ shifted \in BOOLEAN

-----------------------------------------------------------------------------
(* What a thread sees, and the lookups.                                    *)

\* clusters[i] of Python; NoCluster stands for its IndexError.
ClusterAt(i) ==
    IF i + 1 \in 1 .. Len(clusters) THEN clusters[i + 1] ELSE NoCluster

\* The index __getattr__ and cluster_ctx use: the thread's own if it has one.
EffectiveIndex(t) ==
    IF config_index[t] # NoIndex THEN config_index[t] ELSE cur_index

Effective(t) == ClusterAt(EffectiveIndex(t))

First(S) == CHOOSE i \in S : \A j \in S : i <= j

TypeIndexes(types) ==
    {i \in 0 .. Len(clusters) - 1 : ClusterType[ClusterAt(i)] \in types}

ConsumerIndexes == TypeIndexes(ConsumerTypes)

NameIndexes(c) == {i \in 0 .. Len(clusters) - 1 : ClusterAt(i) = c}

\* The thread's index selects no cluster: every attribute read raises
\* IndexError, and a lookup that begins with one ends there.
Dangling(t) == EffectiveIndex(t) \notin 0 .. Len(clusters) - 1

\* The indexes get_provider_index chooses the first of; {} is its
\* ClusterNotFoundException.  A thread that is on a provider gets cur_index.
ProviderIndexes(t) ==
    IF ProviderNameOf[Effective(t)] # NoCluster
    THEN NameIndexes(ProviderNameOf[Effective(t)])
    ELSE IF ClusterType[Effective(t)] = "provider"
         THEN {cur_index}
         ELSE TypeIndexes({"provider"})

\* The cluster the documentation of the provider lookups promises.
Provider(t) ==
    IF /\ ProviderNameOf[Effective(t)] = NoCluster
       /\ ClusterType[Effective(t)] = "provider"
    THEN Effective(t)
    ELSE ClusterAt(First(ProviderIndexes(t)))

\* get_active_acm_index: the active hub, or the first hub if none is active.
\* The index is the position recorded at start-up, not the current one.
AcmIndexes(S) == {i \in 0 .. Len(clusters) - 1 : ClusterAt(i) \in S}

AcmCluster ==
    ClusterAt(First(AcmIndexes(IF activeAcm = {} THEN AcmClusters ELSE activeAcm)))

MulticlusterIndex(c) == (CHOOSE k \in 1 .. Len(Boot) : Boot[k] = c) - 1

-----------------------------------------------------------------------------
(* Start-up: one cluster object, replaced by one per cluster of the        *)
(* command line, each visited to load its files, then the default one.     *)

Init ==
    /\ clusters = <<NoCluster>>
    /\ nclusters = 1
    /\ cur_index = 0
    /\ config_index = [t \in Threads |-> NoIndex]
    /\ activeAcm = {}
    /\ mode = [t \in Threads |-> IF t = Main THEN "boot" ELSE "idle"]
    /\ frames = [t \in Threads |-> <<>>]
    /\ pending = [t \in Threads |-> Nothing]
    /\ error = [t \in Threads |-> "none"]
    /\ want = [t \in Threads |-> NoCluster]
    /\ shifted = FALSE

InitClusterConfigs ==
    /\ mode[Main] = "boot"
    /\ clusters' = Boot
    /\ nclusters' = Len(Boot)
    /\ cur_index' = DefaultIndex
    /\ \E active \in {{}} \cup {{c} : c \in AcmClusters} : activeAcm' = active
    /\ mode' = [mode EXCEPT ![Main] = "plain"]
    /\ want' = [want EXCEPT ![Main] = Boot[DefaultIndex + 1]]
    /\ UNCHANGED <<config_index, frames, pending, error, shifted>>

-----------------------------------------------------------------------------
(* switch_ctx and the calls built on it.                                   *)

Depth(t) == Len(frames[t])
Top(t) == frames[t][Depth(t)]
Pop(t) == SubSeq(frames[t], 1, Depth(t) - 1)

\* The body of a `with' block or of a looped function runs, or the test does.
Running(t) ==
    /\ mode[t] \in {"plain", "bound"}
    /\ pending[t].step = "none"
    /\ Depth(t) > 0 => Top(t).kind # "clients"

\* switch_ctx(index): the global index always, the thread's own one too if it
\* has one; the log line that follows reads the selected cluster's name.
SetIndex(t, index) ==
    /\ cur_index' = index
    /\ config_index' = [config_index EXCEPT ![t] =
                            IF @ = NoIndex THEN NoIndex ELSE index]
    /\ error' = [error EXCEPT ![t] =
                    IF index \in 0 .. Len(clusters) - 1 THEN "none" ELSE "IndexError"]

SwitchCtx(t, index) ==
    /\ "switch" \in MayUse[t]
    /\ Running(t)
    /\ SetIndex(t, index)
    /\ want' = [want EXCEPT ![t] = ClusterAt(index)]
    /\ UNCHANGED <<clusters, nclusters, activeAcm, mode, frames, pending, shifted>>

SwitchToProvider(t) ==
    /\ "provider" \in MayUse[t]
    /\ Running(t)
    /\ ~Dangling(t)
    /\ ProviderIndexes(t) # {}
    /\ SetIndex(t, First(ProviderIndexes(t)))
    /\ want' = [want EXCEPT ![t] = Provider(t)]
    /\ UNCHANGED <<clusters, nclusters, activeAcm, mode, frames, pending, shifted>>

SwitchAcmCtx(t) ==
    /\ "acm" \in MayUse[t]
    /\ Running(t)
    /\ cur_index' = MulticlusterIndex(AcmCluster)
    /\ activeAcm' = IF activeAcm = {} THEN {AcmCluster} ELSE activeAcm
    /\ want' = [want EXCEPT ![t] = AcmCluster]
    /\ UNCHANGED <<clusters, nclusters, config_index, mode, frames, pending, error,
                   shifted>>

ResetCtx(t) ==
    /\ "reset" \in MayUse[t]
    /\ Running(t)
    /\ cur_index' = 0
    /\ want' = [want EXCEPT ![t] = ClusterAt(0)]
    /\ UNCHANGED <<clusters, nclusters, config_index, activeAcm, mode, frames,
                   pending, error, shifted>>

\* The second half of a call that had already decided to call switch_ctx.
FinishSwitch(t) ==
    /\ pending[t].step = "switch"
    /\ SetIndex(t, pending[t].index)
    /\ pending' = [pending EXCEPT ![t] = Nothing]
    /\ UNCHANGED <<clusters, nclusters, activeAcm, mode, frames, want, shifted>>

-----------------------------------------------------------------------------
(* RunWithConfigContext and its subclasses.                                *)

\* __init__: remember cur_index; `goal' is the cluster the caller was promised.
Construct(t, index, goal) ==
    /\ Running(t)
    /\ Depth(t) < MaxDepth
    /\ pending' = [pending EXCEPT ![t] =
            [step |-> "enter", original |-> cur_index, index |-> index, goal |-> goal]]
    /\ UNCHANGED <<clusters, nclusters, cur_index, config_index, mode, frames,
                   error, want, shifted>>

RunWithConfigContext(t, index) ==
    /\ "with" \in MayUse[t]
    /\ Construct(t, index, ClusterAt(index))
    /\ UNCHANGED activeAcm

RunWithAcmConfigContext(t) ==
    /\ "with_acm" \in MayUse[t]
    /\ Construct(t, MulticlusterIndex(AcmCluster), AcmCluster)
    /\ activeAcm' = IF activeAcm = {} THEN {AcmCluster} ELSE activeAcm

RunWithProviderConfigContextIfAvailable(t) ==
    /\ "with_provider" \in MayUse[t]
    /\ ~Dangling(t)
    /\ \/ /\ ProviderIndexes(t) # {}
          /\ Construct(t, First(ProviderIndexes(t)), Provider(t))
       \/ /\ ProviderIndexes(t) = {}
          /\ Construct(t, cur_index, Effective(t))
    /\ UNCHANGED activeAcm

RunWithFirstConsumerConfigContextIfAvailable(t) ==
    /\ "with_consumer" \in MayUse[t]
    /\ \/ /\ ConsumerIndexes # {}
          /\ Construct(t, First(ConsumerIndexes), ClusterAt(First(ConsumerIndexes)))
       \/ /\ ConsumerIndexes = {}
          /\ Construct(t, cur_index, Effective(t))
    /\ UNCHANGED activeAcm

\* A call to switch_ctx that is now certain, or nothing left to do.
SwitchUnless(same, index) ==
    IF same THEN Nothing ELSE [Nothing EXCEPT !.step = "switch", !.index = index]

\* __enter__ compares with the global index, whatever the thread's own one is.
Enter(t) ==
    /\ pending[t].step = "enter"
    /\ frames' = [frames EXCEPT ![t] = Append(@,
            [kind |-> "with", original |-> pending[t].original,
             todo |-> {}, back |-> want[t]])]
    /\ want' = [want EXCEPT ![t] = pending[t].goal]
    /\ pending' = [pending EXCEPT ![t] =
            SwitchUnless(pending[t].index = cur_index, pending[t].index)]
    /\ UNCHANGED <<clusters, nclusters, cur_index, config_index, activeAcm, mode,
                   error, shifted>>

\* Variant: the block is left without switching back.
ExitNoRestore(t) ==
    /\ Running(t)
    /\ Depth(t) > 0
    /\ Top(t).kind = "with"
    /\ frames' = [frames EXCEPT ![t] = Pop(t)]
    /\ want' = [want EXCEPT ![t] = Top(t).back]
    /\ UNCHANGED <<clusters, nclusters, cur_index, config_index, activeAcm, mode,
                   pending, error, shifted>>

\* __exit__, after a body that returned or raised.
Exit(t) ==
    /\ Running(t)
    /\ Depth(t) > 0
    /\ Top(t).kind = "with"
    /\ frames' = [frames EXCEPT ![t] = Pop(t)]
    /\ want' = [want EXCEPT ![t] = Top(t).back]
    /\ pending' = [pending EXCEPT ![t] =
            SwitchUnless(Top(t).original = cur_index, Top(t).original)]
    /\ UNCHANGED <<clusters, nclusters, cur_index, config_index, activeAcm, mode,
                   error, shifted>>

-----------------------------------------------------------------------------
(* run_for_all_clusters: the wrapper remembers cur_index, runs the         *)
(* function once per cluster and switches back in its `finally'.           *)

RunForAllClusters(t) ==
    /\ "all" \in MayUse[t]
    /\ Running(t)
    /\ Depth(t) < MaxDepth
    /\ frames' = [frames EXCEPT ![t] = Append(@,
            [kind |-> "all", original |-> cur_index,
             todo |-> 1 .. nclusters - 1, back |-> want[t]])]
    /\ pending' = [pending EXCEPT ![t] = SwitchUnless(FALSE, 0)]
    /\ want' = [want EXCEPT ![t] = ClusterAt(0)]
    /\ UNCHANGED <<clusters, nclusters, cur_index, config_index, activeAcm, mode,
                   error, shifted>>

NextCluster(t) ==
    /\ Running(t)
    /\ Depth(t) > 0
    /\ Top(t).kind = "all"
    /\ Top(t).todo # {}
    /\ frames' = [frames EXCEPT ![t][Depth(t)].todo = @ \ {First(@)}]
    /\ pending' = [pending EXCEPT ![t] = SwitchUnless(FALSE, First(Top(t).todo))]
    /\ want' = [want EXCEPT ![t] = ClusterAt(First(Top(t).todo))]
    /\ UNCHANGED <<clusters, nclusters, cur_index, config_index, activeAcm, mode,
                   error, shifted>>

\* After the last cluster, or as soon as the function raises.
EndForAllClusters(t) ==
    /\ Running(t)
    /\ Depth(t) > 0
    /\ Top(t).kind = "all"
    /\ frames' = [frames EXCEPT ![t] = Pop(t)]
    /\ want' = [want EXCEPT ![t] = Top(t).back]
    /\ pending' = [pending EXCEPT ![t] = SwitchUnless(FALSE, Top(t).original)]
    /\ UNCHANGED <<clusters, nclusters, cur_index, config_index, activeAcm, mode,
                   error, shifted>>

-----------------------------------------------------------------------------
(* for ctx in get_client_contexts_if_available(): with ctx: ...  All the   *)
(* contexts are constructed, with one cur_index, before the first is       *)
(* entered.  Without consumers the call returns a nullcontext, over which  *)
(* the `for' raises TypeError.                                             *)

GetClientContexts(t) ==
    /\ "clients" \in MayUse[t]
    /\ Running(t)
    /\ Depth(t) + 1 < MaxDepth
    /\ \/ /\ ConsumerIndexes # {}
          /\ frames' = [frames EXCEPT ![t] = Append(@,
                [kind |-> "clients", original |-> cur_index,
                 todo |-> ConsumerIndexes, back |-> want[t]])]
          /\ UNCHANGED error
       \/ /\ ConsumerIndexes = {}
          /\ error' = [error EXCEPT ![t] = "TypeError"]
          /\ UNCHANGED frames
    /\ UNCHANGED <<clusters, nclusters, cur_index, config_index, activeAcm, mode,
                   pending, want, shifted>>

InClientLoop(t) ==
    /\ mode[t] \in {"plain", "bound"}
    /\ pending[t].step = "none"
    /\ Depth(t) > 0
    /\ Top(t).kind = "clients"

NextClient(t) ==
    /\ InClientLoop(t)
    /\ Top(t).todo # {}
    /\ frames' = [frames EXCEPT ![t][Depth(t)].todo = @ \ {First(@)}]
    /\ pending' = [pending EXCEPT ![t] =
            [step |-> "enter", original |-> Top(t).original,
             index |-> First(Top(t).todo), goal |-> ClusterAt(First(Top(t).todo))]]
    /\ UNCHANGED <<clusters, nclusters, cur_index, config_index, activeAcm, mode,
                   error, want, shifted>>

\* After the last client, or as soon as a body raises.
EndClients(t) ==
    /\ InClientLoop(t)
    /\ frames' = [frames EXCEPT ![t] = Pop(t)]
    /\ UNCHANGED <<clusters, nclusters, cur_index, config_index, activeAcm, mode,
                   pending, error, want, shifted>>

-----------------------------------------------------------------------------
(* Threads.                                                                *)

\* ConfigSafeThread.run or config_safe_thread_pool_task, up to the task.
StartBound(t, index) ==
    /\ t \in Workers
    /\ mode[Main] = "plain"
    /\ mode[t] = "idle"
    /\ config_index' = [config_index EXCEPT ![t] = index]
    /\ mode' = [mode EXCEPT ![t] = "bound"]
    /\ want' = [want EXCEPT ![t] = ClusterAt(index)]
    /\ UNCHANGED <<clusters, nclusters, cur_index, activeAcm, frames, pending,
                   error, shifted>>

\* A pool thread is given a task that is not wrapped.
StartPlain(t) ==
    /\ t \in Workers
    /\ mode[Main] = "plain"
    /\ mode[t] = "idle"
    /\ mode' = [mode EXCEPT ![t] = "plain"]
    /\ UNCHANGED <<clusters, nclusters, cur_index, config_index, activeAcm, frames,
                   pending, error, want, shifted>>

\* Variant: the pool task leaves its index behind.
EndTaskKeepsIndex(t) ==
    /\ t \in Workers
    /\ Running(t)
    /\ frames[t] = <<>>
    /\ mode' = [mode EXCEPT ![t] = "idle"]
    /\ want' = [want EXCEPT ![t] = NoCluster]
    /\ UNCHANGED <<clusters, nclusters, cur_index, config_index, activeAcm, frames,
                   pending, error, shifted>>

\* The task ended; the wrapper's `finally' deletes the thread's index (a
\* ConfigSafeThread fails there, but its thread-local data ends with it).
EndTask(t) ==
    /\ t \in Workers
    /\ Running(t)
    /\ frames[t] = <<>>
    /\ config_index' = [config_index EXCEPT ![t] = NoIndex]
    /\ mode' = [mode EXCEPT ![t] = "idle"]
    /\ want' = [want EXCEPT ![t] = NoCluster]
    /\ UNCHANGED <<clusters, nclusters, cur_index, activeAcm, frames, pending,
                   error, shifted>>

-----------------------------------------------------------------------------
(* Hosted clusters come and go on the main thread.  insert_cluster_config  *)
(* takes an index, and both of its callers (vmware.py and hub_spoke.py)    *)
(* give it nclusters, the end of the list.  A removal may come while the   *)
(* main thread is inside a context and while pool threads run.             *)

InsertClusterConfig(c) ==
    /\ "hosted" \in MayUse[Main]
    /\ Running(Main)
    /\ c \in Hosted
    /\ NameIndexes(c) = {}
    /\ clusters' = Append(clusters, c)
    /\ nclusters' = nclusters + 1
    /\ UNCHANGED <<cur_index, config_index, activeAcm, mode, frames, pending,
                   error, want, shifted>>

\* hosted_cluster_remove_factory: to the provider first, then destroy the
\* cluster, then, if that succeeded, drop its configuration.
HostedClusterRemove(c) ==
    /\ "hosted" \in MayUse[Main]
    /\ Running(Main)
    /\ ~Dangling(Main)
    /\ c \in Hosted
    /\ NameIndexes(c) # {}
    /\ ProviderIndexes(Main) # {}
    /\ SetIndex(Main, First(ProviderIndexes(Main)))
    /\ want' = [want EXCEPT ![Main] = Provider(Main)]
    /\ pending' = [pending EXCEPT ![Main] = [Nothing EXCEPT !.step = "remove", !.goal = c]]
    /\ UNCHANGED <<clusters, nclusters, activeAcm, mode, frames, shifted>>

\* The positions a thread has stored and will use again: its own index, the
\* ones of the call it is in, those of its contexts and loops.
Held(t) ==
    ({config_index[t]} \ {NoIndex}) \cup {pending[t].original, pending[t].index}
        \cup UNION {{frames[t][k].original} \cup frames[t][k].todo : k \in 1 .. Depth(t)}

\* The list without position p + 1: what follows it moves down by one, and
\* whoever held such a position now has another cluster, or none.
DropPosition(p) ==
    /\ clusters' = SubSeq(clusters, 1, p) \o SubSeq(clusters, p + 2, Len(clusters))
    /\ shifted' = (shifted \/ \E t \in Threads : \E i \in Held(t) : i >= p)

\* Variant: nclusters is not decremented.
RemoveClusterKeepsCount ==
    /\ pending[Main].step = "remove"
    /\ DropPosition(First(NameIndexes(pending[Main].goal)))
    /\ pending' = [pending EXCEPT ![Main] = Nothing]
    /\ UNCHANGED <<nclusters, cur_index, config_index, activeAcm, mode, frames,
                   error, want>>

RemoveCluster ==
    /\ pending[Main].step = "remove"
    /\ DropPosition(First(NameIndexes(pending[Main].goal)))
    /\ nclusters' = nclusters - 1
    /\ pending' = [pending EXCEPT ![Main] = Nothing]
    /\ UNCHANGED <<cur_index, config_index, activeAcm, mode, frames, error, want>>

\* The cluster was not destroyed and stays in the list.
DestroyFailed ==
    /\ pending[Main].step = "remove"
    /\ pending' = [pending EXCEPT ![Main] = Nothing]
    /\ UNCHANGED <<clusters, nclusters, cur_index, config_index, activeAcm, mode,
                   frames, error, want, shifted>>

-----------------------------------------------------------------------------

Step(t) ==
    \/ \E index \in Indexes :
          SwitchCtx(t, index) \/ RunWithConfigContext(t, index) \/ StartBound(t, index)
    \/ SwitchToProvider(t) \/ SwitchAcmCtx(t) \/ ResetCtx(t) \/ FinishSwitch(t)
    \/ RunWithAcmConfigContext(t)
    \/ RunWithProviderConfigContextIfAvailable(t)
    \/ RunWithFirstConsumerConfigContextIfAvailable(t)
    \/ Enter(t) \/ Exit(t)
    \/ RunForAllClusters(t) \/ NextCluster(t) \/ EndForAllClusters(t)
    \/ GetClientContexts(t) \/ NextClient(t) \/ EndClients(t)
    \/ StartPlain(t) \/ EndTask(t)

Next ==
    \/ InitClusterConfigs
    \/ \E t \in Threads : Step(t)
    \/ \E c \in Hosted : InsertClusterConfig(c) \/ HostedClusterRemove(c)
    \/ RemoveCluster \/ DestroyFailed

Spec == Init /\ [][Next]_vars

-----------------------------------------------------------------------------
(* Properties.                                                             *)

\* Whenever the main thread, or a thread with an index of its own, is in its
\* own code, the configuration it reads is the one of the cluster it asked
\* for: the block's inside a context or loop, the one it had before after any
\* nesting of them, and still the same cluster when hosted clusters have been
\* added to the list and removed from it meanwhile, unless a removal shifted
\* a position that some thread still held.
OnExpectedCluster ==
    ~shifted => \A t \in Threads :
        (pending[t].step \in {"none", "remove"} /\ (t = Main \/ mode[t] = "bound"))
            => Effective(t) = want[t]

\* A pool thread that has run a config-safe task carries no index over into
\* the plain task it is given next.
NoStaleBinding ==
    \A t \in Workers : mode[t] \in {"idle", "plain"} => EffectiveIndex(t) = cur_index

\* nclusters counts the list.  Unless a removal shifted a position that was
\* held, every index a thread is still going to use, the saved ones of
\* contexts and loops included, selects a cluster: no call ends in IndexError.
IndexesValid ==
    /\ nclusters = Len(clusters)
    /\ ~shifted =>
          /\ cur_index \in Indexes
          /\ \A t \in Threads :
                /\ config_index[t] # NoIndex => config_index[t] \in Indexes
                /\ pending[t].step = "switch" => pending[t].index \in Indexes
                /\ \A k \in 1 .. Depth(t) : frames[t][k].original \in Indexes
                /\ error[t] # "IndexError"

\* What the docstring of ConfigSafeThread says: a config-safe thread that
\* changes its own context does not modify the main thread's.
MainContextUntouched ==
    (pending[Main].step = "none" /\ mode[Main] = "plain") => Effective(Main) = want[Main]
=============================================================================
