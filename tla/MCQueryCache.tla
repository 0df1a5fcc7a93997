----------------------------- MODULE MCQueryCache -----------------------------
(***************************************************************************)
(* Instances of QueryCache for TLC.  Three metrics stand for the three     *)
(* branches of fetchFiltered: one that both host types of the cluster      *)
(* produce, a control-plane metric, and one of a source whose host list is *)
(* nil although it is not cluster-scoped (Karpenter, KEDA, KSMNodeScoped). *)
(***************************************************************************)
EXTENDS QueryCache, TLC

CONSTANTS HostMetric, ClusterMetric, NilMetric, h1, h2

MCMetricToSource ==
    [m \in Metrics |-> CASE m = HostMetric -> "NodeExporter"
                         [] m = ClusterMetric -> "ControlPlane"
                         [] m = NilMetric -> "KSMNodeScoped"]
MCSources == {"NodeExporter", "ControlPlane", "KubeStateMetrics", "KSMNodeScoped"}
MCClusterSources == {"ControlPlane", "KubeStateMetrics"}
MCSourceToHosts ==
    [s \in MCSources |-> IF s = "NodeExporter" THEN {h1, h2} ELSE {}]
MCHostTypes == {h1, h2}

\* Getters are interchangeable in the safety runs.
MCSymmetry == Permutations(Getters)

===============================================================================
