SPECIFICATION Spec
CONSTANTS
    Getters = {g1, g2}
    RawGetters = {}
    Filterers = {f1}
    Metrics = {HostMetric, ClusterMetric, NilMetric}
    MaxConcurrency = 1
    h1 = h1
    h2 = h2
    HostMetric = HostMetric
    ClusterMetric = ClusterMetric
    NilMetric = NilMetric
    HostTypes <- MCHostTypes
    MetricSources <- MCSources
    ClusterSources <- MCClusterSources
    metricToSource <- MCMetricToSource
    sourceToHosts <- MCSourceToHosts
    allHostTypes <- MCHostTypes
    qcHostTypes <- MCHostTypes
    hasRegistry = TRUE
    Unmapped = Unmapped
    ClusterScope = ClusterScope
    AnyHost = AnyHost
    NoEntry = NoEntry
    NoFetch = NoFetch
SYMMETRY MCSymmetry
INVARIANTS TypeOK SingleFlight NoOrphanWaiter AnswersAgree EmptyIsHonest SlotsMatchWorkers
PROPERTY FilteredStable
