SPECIFICATION Spec
CONSTANTS
    Getters = {}
    RawGetters = {u1, u2}
    Filterers = {}
    Metrics = {HostMetric}
    MaxConcurrency = 1
    h1 = h1
    h2 = h2
    HostMetric = HostMetric
    ClusterMetric = ClusterMetric
    NilMetric = NilMetric
    HostTypes <- MCHostTypes
    MetricSources <- MCSources
    ClusterSources <- MCClusterSources
    metricToSource <- MCMetricToSource
    sourceToHosts <- MCSourceToHosts
    allHostTypes <- MCHostTypes
    qcHostTypes <- MCHostTypes
    hasRegistry = TRUE
    Unmapped = Unmapped
    ClusterScope = ClusterScope
    AnyHost = AnyHost
    NoEntry = NoEntry
    NoFetch = NoFetch
PROPERTY UnfilteredStable
