---------------------------- MODULE MCDSNSNotify ----------------------------
(* Instances of DSNSNotify for TLC, with the events that DSNSEvents describes. *)
EXTENDS DSNSNotify, DSNSEvents

Runner == "InfrastructureRunnerConfig"

\* A run that completed, failed, or is not over.
RunnerConfig(s) ==
    [kind |-> Runner, namespace |-> <<"seam-tenant", "c1">>, name |-> <<"r1">>,
     conditions |-> CASE s = "up" -> {"Ready"} [] s = "moved" -> {"Degraded"} [] OTHER -> {},
     lastTransitionTime |-> [Ready |-> "t1", Degraded |-> "t2"]]

KindOfRunner == [o \in Objects |-> Runner]
DeriveRunner == [o \in Objects |-> [s \in States |-> deriveRecords(RunnerConfig(s))]]
Derived == UNION {deriveRecords(RunnerConfig(s)) : s \in States}

Glue == <<"A", <<"ns">>>>
LoadBalancer == <<"lb">>
EnvIP == <<"env">>
Addresses == {LoadBalancer, EnvIP}
NoAuthority == {}
NoSubjects == <<>>
AllKeys == {Glue} \cup KeysOf(Derived)
AllValues == {r.value : r \in Derived} \cup Addresses

CategoryOfKinds == [k \in Kinds |-> categoryForKind(k)]
ContextOfObjects == [o \in Objects |-> clusterContextForNamespace(RunnerConfig("up").namespace)]
SeverityOfObjects == [o \in Objects |-> [s \in States |-> severityForObject(RunnerConfig(s))]]

=============================================================================
