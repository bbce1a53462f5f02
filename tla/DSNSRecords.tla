----------------------------- MODULE DSNSRecords -----------------------------
(***************************************************************************)
(* Record derivation of the DSNSReconciler: what a watched object          *)
(* contributes to the zone.                                                *)
(*                                                                         *)
(* A DNS name is the sequence of its labels, so that "api." + name is      *)
(* <<"api">> \o name; the names of Kubernetes objects may have several     *)
(* labels.  An object is a record of the fields its kind reads; a field    *)
(* that is not set is <<>> for a name or an endpoint and "" for a text.  A *)
(* namespace is <<"seam-tenant", cluster>> or <<name>>; the data of a      *)
(* record is a sequence of texts.  Names are in lower case, which is what  *)
(* recordKey compares.                                                     *)
(***************************************************************************)
EXTENDS Sequences

CONSTANT SubjectHash   \* subjectHash: [subjects -> labels]

DNSRecord(type, name, value) == [key |-> <<type, name>>, value |-> value]

\* The host of "host:port" or of "host": an endpoint is <<host, port>> or <<host>>.
clusterEndpointIP(endpoint) == Head(endpoint)

clusterFromNamespace(ns) == IF Len(ns) = 2 /\ ns[1] = "seam-tenant" THEN <<ns[2]>> ELSE <<>>

hasConditionTrue(obj, type) == type \in obj.conditions

\* The first text that is set.
Default(text, fallback) == IF text = "" THEN fallback ELSE text

deriveTalosClusterRecords(obj) ==
    LET ip == <<clusterEndpointIP(obj.clusterEndpoint)>>
        role == Default(obj.origin, Default(obj.mode, "general"))
    IN  IF ~hasConditionTrue(obj, "Ready") \/ obj.clusterEndpoint = <<>>
        THEN {}
        ELSE {DNSRecord("A", obj.name, ip), DNSRecord("A", <<"api">> \o obj.name, ip)}
               \cup IF obj.provider = "screen"
                    THEN {DNSRecord("NS", obj.name, <<"ns">> \o obj.name),
                          DNSRecord("A", <<"ns">> \o obj.name, ip)}
                    ELSE {DNSRecord("TXT", <<"role">> \o obj.name, <<role>>)}

deriveIdentityBindingRecords(obj) ==
    LET cluster == clusterFromNamespace(obj.namespace)
    IN  IF ~hasConditionTrue(obj, "TrustAnchorResolved") \/ cluster = <<>> \/ obj.subject = ""
        THEN {}
        ELSE {DNSRecord("TXT", <<"identity", SubjectHash[obj.subject], "guardian">> \o cluster,
                        <<obj.rbacProfile, obj.identityProvider>>)}

deriveIdentityProviderRecords(obj) ==
    IF ~hasConditionTrue(obj, "Valid") \/ obj.issuerURL = ""
    THEN {}
    ELSE {DNSRecord("TXT", <<"idp">> \o obj.name \o <<"guardian">>, <<obj.issuerURL>>)}

derivePackInstanceRecords(obj) ==
    LET pack == IF obj.clusterPackRef = <<>> THEN obj.name ELSE obj.clusterPackRef
        version == IF obj.version = <<>> THEN <<"unknown">> ELSE obj.version
        cluster == IF obj.targetClusterRef = <<>>
                   THEN clusterFromNamespace(obj.namespace) ELSE obj.targetClusterRef
    IN  IF ~hasConditionTrue(obj, "Ready") \/ cluster = <<>>
        THEN {}
        ELSE {DNSRecord("TXT", <<"pack">> \o pack \o version \o <<"wrapper">> \o cluster,
                        <<Default(obj.receiptDigest, "delivered")>>)}

deriveRunnerConfigRecords(obj) ==
    LET tenant == clusterFromNamespace(obj.namespace)
        cluster == IF tenant = <<>> THEN <<"management">> ELSE tenant
        Run(phase, type) ==
            {DNSRecord("TXT", <<"run">> \o obj.name \o <<"conductor">> \o cluster,
                       <<phase, obj.lastTransitionTime[type]>>)}
    IN  IF hasConditionTrue(obj, "Ready") THEN Run("Completed", "Ready")
        ELSE IF hasConditionTrue(obj, "Degraded") THEN Run("Failed", "Degraded")
        ELSE {}

deriveRecords(obj) ==
    CASE obj.kind = "InfrastructureTalosCluster" -> deriveTalosClusterRecords(obj)
      [] obj.kind = "IdentityBinding" -> deriveIdentityBindingRecords(obj)
      [] obj.kind = "IdentityProvider" -> deriveIdentityProviderRecords(obj)
      [] obj.kind = "InfrastructurePackInstance" -> derivePackInstanceRecords(obj)
      [] obj.kind = "InfrastructureRunnerConfig" -> deriveRunnerConfigRecords(obj)
      [] OTHER -> {}

=============================================================================
