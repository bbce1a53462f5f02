------------------------------ MODULE DSNSEvents ------------------------------
(***************************************************************************)
(* What a DSNSEvent says of the object it is about, apart from its         *)
(* records: category, cluster context and severity.  Objects are those of  *)
(* DSNSRecords.                                                            *)
(***************************************************************************)
EXTENDS DSNSRecords

Categories == {"cluster-topology", "identity-plane", "pack-lineage", "execution-authority"}
Severities == {"informational", "warning", "critical"}
Operations == {"created", "updated", "deleted"}

categoryForKind(kind) ==
    CASE kind \in {"IdentityBinding", "IdentityProvider"} -> "identity-plane"
      [] kind \in {"InfrastructurePackInstance", "InfrastructureClusterPack",
                   "InfrastructurePackExecution"} -> "pack-lineage"
      [] kind = "InfrastructureRunnerConfig" -> "execution-authority"
      [] OTHER -> "cluster-topology"

clusterContextForNamespace(ns) ==
    IF clusterFromNamespace(ns) = <<>> THEN <<"management">> ELSE clusterFromNamespace(ns)

severityForObject(obj) ==
    IF obj.kind = "InfrastructureRunnerConfig" /\ hasConditionTrue(obj, "Degraded")
    THEN "warning" ELSE "informational"

=============================================================================
