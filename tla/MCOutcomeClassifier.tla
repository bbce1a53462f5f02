------------------------ MODULE MCOutcomeClassifier ------------------------
(* Instances of OutcomeClassifier for TLC. *)
EXTENDS OutcomeClassifier

\* Reasons of Ready, of Drifted and of Failed, some of them shared, and one
\* that the vocabulary lists under another type only.
SomeReasons ==
    {"PackReceiptReady", "PackReceiptNotFound", "DependencyDrifted", "DriftDetected", "NoDrift",
     "JobFailed", "PackDelivered"}

=============================================================================
