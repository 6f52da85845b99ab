CONSTANTS
    hub = hub
    prov = prov
    client = client
    hosted1 = hosted1
    hosted2 = hosted2
    main = main
    w1 = w1
    NoCluster = NoCluster
    NoIndex = NoIndex
    Main = main
    Workers = {w1}
    Clusters <- MCClusters
    Boot <- MCBootNoClient
    Hosted <- MCHosted
    ClusterType <- MCClusterType
    ProviderNameOf <- MCProviderName
    AcmClusters = {hub}
    DefaultIndex = 0
    MayUse <- MCMainOnly
    MaxDepth = 2
SPECIFICATION Spec
INVARIANTS
    OnExpectedCluster
    NoStaleBinding
    IndexesValid

SYMMETRY HostedSymmetry
VIEW Told
