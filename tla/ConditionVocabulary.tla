-------------------------- MODULE ConditionVocabulary --------------------------
(***************************************************************************)
(* The condition types and reasons of the Seam operators: the constants    *)
(* that pkg/conditions declares, by section of conditions.go, and the map  *)
(* from types to valid reasons that ValidateCondition consults.            *)
(*                                                                         *)
(* The map is the relation of its pairs: every type in it has a reason.    *)
(* A constant is its value, so two constants with one value are one.       *)
(***************************************************************************)

-----------------------------------------------------------------------------
(* The constants of conditions.go. *)

\* Every operator.
DeclaredCommon ==
    [types |-> {"LineageSynced"},
     reasons |-> {"LineageControllerAbsent"}]

\* Guardian: bootstrap label, identity bindings and providers, permission sets.
DeclaredGuardianIdentity ==
    [types |-> {"BootstrapLabelAbsent", "TrustAnchorResolved",
                "IdentityBindingValid", "Reachable", "Valid", "PermissionSetValid"},
     reasons |-> {"LabelAbsent", "LabelPresent", "TrustAnchorResolved",
                  "TrustAnchorNotFound", "TrustAnchorInvalid",
                  "TrustAnchorTypeMismatch", "TrustMethodMismatch", "Valid",
                  "Invalid", "PermissionSetMissing", "PermissionSetNotFound",
                  "TokenTTLExceeded", "Reachable", "Unreachable", "Pending"}]

\* Guardian: policies, profiles, webhook, permission snapshots.
DeclaredGuardianPolicy ==
    [types |-> {"RBACPolicyDegraded", "RBACPolicyValid", "PolicyCompliant",
                "Provisioned", "ProfileValidated", "WebhookRegistered", "Fresh",
                "Compliant"},
     reasons |-> {"ValidationFailed", "PolicyViolation", "StructureInvalid",
                  "PolicyNotFound", "EPGPending", "ValidationPassed",
                  "BootstrapProfilesReady", "BootstrapProfilesPending",
                  "ProvisioningComplete", "ProvisioningFailed", "WebhookRegistered",
                  "SnapshotFresh", "SnapshotStale", "DriftAbsent"}]

\* Platform: Ready and Degraded.
DeclaredLifecycle ==
    [types |-> {"Ready", "Degraded"},
     reasons |-> {"ClusterReady", "CAPIClusterRunning", "JobComplete",
                  "ResetComplete", "AllControlPlaneMachinesReady",
                  "PackReceiptReady", "Degraded", "BootstrapJobFailed",
                  "ConductorJobGateBlocked", "JobFailed", "CapabilityUnknown",
                  "ReconcilerNotImplemented", "S3DestinationAbsent"}]

\* Platform: Running, Pending, bootstrap, import, CNI.
DeclaredProgress ==
    [types |-> {"Running", "Pending", "Bootstrapping", "Importing", "CiliumPending"},
     reasons |-> {"JobSubmitted", "JobSucceeded", "Pending", "GatesClearing",
                  "AwaitingSignature", "AwaitingConductorReady",
                  "BootstrapJobSubmitted", "BootstrapJobComplete",
                  "CAPIObjectsCreated", "ImportComplete", "CiliumPackPending",
                  "CiliumPackReady"}]

\* Platform: reachability, Conductor, bootstrap failures.
DeclaredCluster ==
    [types |-> {"ControlPlaneUnreachable", "PartialWorkerAvailability",
                "ConductorReady", "Bootstrapped", "ScreenProviderNotImplemented",
                "PhaseFailed", "KubeconfigUnavailable"},
     reasons |-> {"ControlPlaneNodeUnreachable", "WorkerNodeUnreachable",
                  "ConductorBootstrapComplete", "ConductorBootstrapPending",
                  "ConductorDeploymentAvailable", "ConductorDeploymentUnavailable",
                  "ScreenNotImplemented", "TalosVersionRequired",
                  "TalosConfigSecretAbsent"}]

\* Platform: maintenance and day-2 operations.
DeclaredMaintenance ==
    [types |-> {"Paused", "WindowActive", "CAPIDelegated", "PendingApproval",
                "EtcdBackupDestinationAbsent"},
     reasons |-> {"CAPIPaused", "CAPIResumed", "MaintenanceWindowOpen",
                  "MaintenanceWindowClosed", "CAPIDelegated", "ApprovalRequired",
                  "CAPIClusterDeleting", "CAPIClusterDrained"}]

\* Platform: CAPI infrastructure provider.
DeclaredMachines ==
    [types |-> {"InfrastructureReady", "MachineReady", "PortReachable"},
     reasons |-> {"ControlPlaneMachinesNotReady", "ControlPlaneMachinesPending",
                  "MachineReady", "MachineConfigApplied", "MachineConfigFailed",
                  "BootstrapDataNotReady", "CAPIMachineNotBound",
                  "MachineOutOfMaintenance", "PortUnreachable"}]

\* Wrapper: ClusterPack.
DeclaredClusterPack ==
    [types |-> {"Available", "ImmutabilityViolation", "Revoked", "SignaturePending"},
     reasons |-> {"PackAvailable", "SignaturePending", "ImmutabilityViolation",
                  "PackRevoked", "PackSigned"}]

\* Wrapper: PackExecution.
DeclaredPackExecution ==
    [types |-> {"Waiting", "PackSignaturePending", "PackRevoked",
                "PermissionSnapshotOutOfSync", "RBACProfileNotProvisioned",
                "WrapperRunnerRBACNotReady", "Failed", "Succeeded"},
     reasons |-> {"ClusterPackRevoked", "SnapshotOutOfSync",
                  "RBACProfileNotProvisioned", "WrapperRunnerRBACNotReady",
                  "OperationResultNotFound"}]

\* Wrapper: PackInstance.
DeclaredPackInstance ==
    [types |-> {"Ready", "DependencyBlocked", "Drifted", "Progressing",
                "SecurityViolation"},
     reasons |-> {"AwaitingDelivery", "DependencyDrifted", "DriftDetected",
                  "NoDrift", "PackDelivered", "PackReceiptNotFound",
                  "SignatureVerifyFailed", "SecurityViolationCleared"}]

\* Platform: version upgrade and hardening.
DeclaredUpgrade ==
    [types |-> {"VersionUpgradePending", "VersionRegressionBlocked",
                "HardeningApplied"},
     reasons |-> {"VersionUpgradeRequested", "VersionUpgradeSubmitted",
                  "VersionUpgradeComplete", "VersionRegressionAttempted",
                  "HardeningApplied", "HardeningPending",
                  "HardeningProfileNotValid"}]

Declared ==
    {DeclaredCommon, DeclaredGuardianIdentity, DeclaredGuardianPolicy,
     DeclaredLifecycle, DeclaredProgress, DeclaredCluster,
     DeclaredMaintenance, DeclaredMachines, DeclaredClusterPack,
     DeclaredPackExecution, DeclaredPackInstance, DeclaredUpgrade}
DeclaredTypes == UNION {section.types : section \in Declared}
DeclaredReasons == UNION {section.reasons : section \in Declared}

-----------------------------------------------------------------------------
(* The map of validate.go. *)

\* Every operator.
CommonVocabulary ==
    UNION {{"LineageSynced"} \X {"LineageControllerAbsent"}}

\* Guardian.
GuardianVocabulary ==
    UNION {{"BootstrapLabelAbsent"} \X {"LabelAbsent", "LabelPresent"},
           {"TrustAnchorResolved"} \X {"TrustAnchorResolved", "TrustAnchorNotFound",
                                       "TrustAnchorInvalid",
                                       "TrustAnchorTypeMismatch",
                                       "TrustMethodMismatch"},
           {"IdentityBindingValid"} \X {"Valid", "Invalid", "PermissionSetMissing",
                                        "PermissionSetNotFound", "TokenTTLExceeded"},
           {"Reachable"} \X {"Reachable", "Unreachable", "Pending"},
           {"Valid"} \X {"Valid", "Invalid"},
           {"PermissionSetValid"} \X {"Valid", "Invalid", "PermissionSetNotFound"},
           {"RBACPolicyDegraded"} \X {"ValidationFailed", "PolicyViolation",
                                      "StructureInvalid", "PolicyNotFound",
                                      "EPGPending"},
           {"RBACPolicyValid"} \X {"ValidationPassed", "ValidationFailed"},
           {"PolicyCompliant"} \X {"BootstrapProfilesReady",
                                   "BootstrapProfilesPending"},
           {"Provisioned"} \X {"ProvisioningComplete", "ProvisioningFailed"},
           {"ProfileValidated"} \X {"ValidationPassed", "ValidationFailed"},
           {"WebhookRegistered"} \X {"WebhookRegistered"},
           {"Fresh"} \X {"SnapshotFresh", "SnapshotStale"},
           {"Compliant"} \X {"DriftAbsent", "DriftDetected"}}

\* Platform: the types that several kinds share.
LifecycleVocabulary ==
    UNION {{"Ready"} \X {"ClusterReady", "CAPIClusterRunning", "JobComplete",
                         "ResetComplete", "AllControlPlaneMachinesReady",
                         "PackReceiptReady", "PackReceiptNotFound",
                         "SignatureVerifyFailed", "DependencyDrifted",
                         "DriftDetected"},
           {"Degraded"} \X {"Degraded", "BootstrapJobFailed",
                            "ConductorJobGateBlocked", "JobFailed",
                            "CapabilityUnknown", "ReconcilerNotImplemented",
                            "S3DestinationAbsent"},
           {"Running"} \X {"JobSubmitted", "JobFailed", "JobComplete",
                           "JobSucceeded"},
           {"Pending"} \X {"Pending", "JobSubmitted", "JobFailed", "JobComplete",
                           "CapabilityUnknown", "ReconcilerNotImplemented",
                           "GatesClearing", "AwaitingSignature",
                           "AwaitingConductorReady"}}

\* Platform: the types of one kind.
PlatformVocabulary ==
    UNION {{"Bootstrapping"} \X {"BootstrapJobSubmitted", "BootstrapJobComplete",
                                 "BootstrapJobFailed", "CAPIObjectsCreated",
                                 "CAPIClusterRunning"},
           {"Importing"} \X {"ImportComplete"},
           {"CiliumPending"} \X {"CiliumPackPending", "CiliumPackReady"},
           {"ControlPlaneUnreachable"} \X {"ControlPlaneNodeUnreachable"},
           {"PartialWorkerAvailability"} \X {"WorkerNodeUnreachable"},
           {"ConductorReady"} \X {"ConductorBootstrapComplete",
                                  "ConductorBootstrapPending"},
           {"Paused"} \X {"CAPIPaused", "CAPIResumed", "ConductorJobGateBlocked"},
           {"WindowActive"} \X {"MaintenanceWindowOpen", "MaintenanceWindowClosed"},
           {"CAPIDelegated"} \X {"CAPIDelegated"},
           {"PendingApproval"} \X {"ApprovalRequired"},
           {"EtcdBackupDestinationAbsent"} \X {"S3DestinationAbsent"},
           {"InfrastructureReady"} \X {"AllControlPlaneMachinesReady",
                                       "ControlPlaneMachinesNotReady",
                                       "ControlPlaneMachinesPending"},
           {"MachineReady"} \X {"MachineReady", "MachineConfigApplied",
                                "MachineConfigFailed", "BootstrapDataNotReady",
                                "CAPIMachineNotBound", "MachineOutOfMaintenance"},
           {"PortReachable"} \X {"PortUnreachable"}}

\* Wrapper.
WrapperVocabulary ==
    UNION {{"Available"} \X {"PackAvailable", "SignaturePending", "PackSigned"},
           {"ImmutabilityViolation"} \X {"ImmutabilityViolation"},
           {"Revoked"} \X {"PackRevoked"},
           {"SignaturePending"} \X {"SignaturePending", "PackSigned"},
           {"Waiting"} \X {"AwaitingConductorReady"},
           {"PackSignaturePending"} \X {"AwaitingSignature", "PackSigned"},
           {"PackRevoked"} \X {"ClusterPackRevoked"},
           {"PermissionSnapshotOutOfSync"} \X {"SnapshotOutOfSync"},
           {"RBACProfileNotProvisioned"} \X {"RBACProfileNotProvisioned"},
           {"WrapperRunnerRBACNotReady"} \X {"WrapperRunnerRBACNotReady"},
           {"Failed"} \X {"JobFailed", "OperationResultNotFound"},
           {"Succeeded"} \X {"JobSucceeded"},
           {"DependencyBlocked"} \X {"DependencyDrifted"},
           {"Drifted"} \X {"DriftDetected", "NoDrift"},
           {"Progressing"} \X {"PackDelivered", "PackReceiptNotFound"},
           {"SecurityViolation"} \X {"SignatureVerifyFailed",
                                     "SecurityViolationCleared"}}

vocabulary ==
    CommonVocabulary \cup GuardianVocabulary \cup LifecycleVocabulary
        \cup PlatformVocabulary \cup WrapperVocabulary

KnownConditionTypes == {pair[1] : pair \in vocabulary}

\* The empty set for a type that is not in the vocabulary.
ValidReasonsFor(type) == {pair[2] : pair \in {p \in vocabulary : p[1] = type}}

\* "" where ValidateCondition returns nil, else which of its errors.
ValidateCondition(type, reason) ==
    IF type = "" THEN "conditionType must not be empty"
    ELSE IF reason = "" THEN "reason must not be empty"
    ELSE IF type \notin KnownConditionTypes THEN "unknown condition type"
    ELSE IF <<type, reason>> \notin vocabulary THEN "reason is not valid"
    ELSE ""

-----------------------------------------------------------------------------
\* What holds of the two tables: the map is built from the constants, and the
\* declared types it has no entry for are these.
ASSUME VocabularyDeclared == vocabulary \subseteq DeclaredTypes \X DeclaredReasons
ASSUME VocabularyGap ==
    DeclaredTypes \ KnownConditionTypes =
        {"Bootstrapped", "ScreenProviderNotImplemented", "PhaseFailed", "KubeconfigUnavailable",
         "VersionUpgradePending", "VersionRegressionBlocked", "HardeningApplied"}

=============================================================================
