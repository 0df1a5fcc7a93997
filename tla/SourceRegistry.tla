---------------------------- MODULE SourceRegistry ----------------------------
(***************************************************************************)
(* The registry that decides which PromQL selectors a metric is fetched    *)
(* with (util/otelmetrics/source_registry.go, and the branch at the top of *)
(* QueryCache.fetchFiltered that consults it).  A registry is built once,   *)
(* before the cache, and never changes: it is a parameter here.            *)
(***************************************************************************)

CONSTANTS
    Metrics,          \* metric names the suite asks for
    HostTypes,        \* values of host.type that nodes of a cluster have
    MetricSources,    \* the MetricSource constants in use
    ClusterSources,   \* those of them IsClusterScoped names
    Unmapped,         \* stands for a metric no SourceMapping lists
    metricToSource,   \* Metrics -> MetricSources \cup {Unmapped}
    sourceToHosts,    \* MetricSources -> SUBSET HostTypes; {} is a nil slice
    allHostTypes,     \* fallback of the registry
    hasRegistry,      \* was the cache built WithSourceRegistry?
    qcHostTypes,      \* the cache's own WithHostTypes list
    ClusterScope,     \* the selector  host.type=""
    AnyHost           \* no host.type selector at all

ASSUME RegistryAssumption ==
    /\ Unmapped \notin MetricSources
    /\ ClusterSources \subseteq MetricSources
    /\ metricToSource \in [Metrics -> MetricSources \cup {Unmapped}]
    /\ sourceToHosts \in [MetricSources -> SUBSET HostTypes]
    /\ allHostTypes \subseteq HostTypes
    /\ qcHostTypes \subseteq HostTypes
    /\ hasRegistry \in BOOLEAN
    /\ ClusterScope \notin HostTypes
    /\ AnyHost \notin HostTypes
    /\ ClusterScope # AnyHost

\* What one query of a fetch selects: one host type, the series without a
\* host type, or every series of the metric in the cluster.
Targets == HostTypes \cup {ClusterScope, AnyHost}

IsClusterScoped(m) == metricToSource[m] \in ClusterSources

HostTypesFor(m) ==
    IF metricToSource[m] = Unmapped
    THEN allHostTypes
    ELSE sourceToHosts[metricToSource[m]]

TargetHosts(m) == IF hasRegistry THEN HostTypesFor(m) ELSE qcHostTypes

\* The queries one fetch of m makes: the three branches of fetchFiltered.
QueriesFor(m) ==
    IF hasRegistry /\ IsClusterScoped(m) THEN {ClusterScope}
    ELSE IF TargetHosts(m) # {} THEN TargetHosts(m)
    ELSE {AnyHost}

===============================================================================
