CONSTANTS
    hub = hub
    prov = prov
    client = client
    hosted1 = hosted1
    hosted2 = hosted2
    main = main
    w1 = w1
    NoCluster = NoCluster
    NoIndex = NoIndex
    Main = main
    Workers = {w1}
    Clusters <- MCClusters
    Boot <- MCBoot
    Hosted <- MCHosted
    ClusterType <- MCClusterType
    ProviderNameOf <- MCNoProviderName
    AcmClusters = {hub}
    DefaultIndex = 0
    MayUse <- MCPoolSwitches
    MaxDepth = 1
SPECIFICATION Spec
INVARIANTS
    MainContextUntouched

