------------------------ MODULE MCMultiClusterConfig ------------------------
(* Small instances of MultiClusterConfig for TLC: a hub, a provider, a      *)
(* client and a hosted client cluster; one main thread and a pool thread.   *)
EXTENDS MultiClusterConfig, TLC

CONSTANTS hub, prov, client, hosted1, hosted2, main, w1

MCClusters == {hub, prov, client, hosted1, hosted2}
MCBoot == <<hub, prov, client>>
MCBootNoClient == <<hub, prov>>
MCHosted == {hosted1, hosted2}
MCClusterType ==
    (hub :> "other") @@ (prov :> "provider") @@ (client :> "client")
    @@ (hosted1 :> "hci_client") @@ (hosted2 :> "hci_client")
    @@ (NoCluster :> "other")
MCNoProviderName == [c \in MCClusters \cup {NoCluster} |-> NoCluster]
MCProviderName == [c \in MCClusters \cup {NoCluster} |->
                        IF c \in MCHosted THEN prov ELSE NoCluster]

\* The hosted clusters differ in nothing but their name.
HostedSymmetry == Permutations(MCHosted)

\* What the invariants can tell apart: they say nothing of the history values
\* once a removal has shifted a position, and no action reads them.
Told ==
    IF shifted
    THEN <<clusters, nclusters, cur_index, config_index, activeAcm, mode, error, pending,
           [t \in Threads |-> [k \in 1 .. Depth(t) |->
                <<frames[t][k].kind, frames[t][k].original, frames[t][k].todo>>]]>>
    ELSE <<vars>>

\* Only the main thread moves the context; pool threads read their own.
MCMainOnly == [t \in Threads |-> IF t = main THEN Operations ELSE {}]
\* The main thread waits for its pool, whose threads call switch_ctx.
MCPoolSwitches == [t \in Threads |-> IF t = main THEN {} ELSE {"switch"}]
=============================================================================
