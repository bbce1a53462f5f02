-------------------------- MODULE OutcomeClassifier --------------------------
(***************************************************************************)
(* The list status.conditions of one derived object: how its operator      *)
(* writes it (conditions.SetCondition, with pairs of the vocabulary), how  *)
(* the OutcomeReconciler reads it (classifyTerminalOutcome), and the entry *)
(* it appends for the object, once.  How the entry reaches the index among *)
(* concurrent writers is in LineageRegistry.                               *)
(*                                                                         *)
(* Messages and observedGeneration are left out.                           *)
(***************************************************************************)
EXTENDS Integers, Sequences, FiniteSetsExt, ConditionVocabulary

CONSTANTS
    Types,   \* condition types that the operator sets
    Reasons, \* reasons that the operator gives
    MaxTime  \* bound: last value of the clock

ASSUME VocabularyAssumption ==
    Types \subseteq KnownConditionTypes /\ Reasons \subseteq DeclaredReasons /\ MaxTime \in Nat

Statuses == {"True", "False", "Unknown"}
Condition == [type : Types, status : Statuses, reason : Reasons, lastTransitionTime : Nat]
Entry == [outcomeType : {"Succeeded", "Failed", "Drifted", "Superseded"}, outcomeRef : Reasons]
NoEntry == [outcomeType |-> "", outcomeRef |-> ""]
NotFound == 0

VARIABLES
    now,
    conditions, \* Seq(Condition)
    recorded,   \* the object's entry in the outcomeRegistry of its index
    changed     \* history: [Types -> time of the last change of its status]

vars == <<now, conditions, recorded, changed>>

-----------------------------------------------------------------------------
\* The index of the first condition of the type.
FindCondition(list, type) ==
    LET found == {i \in DOMAIN list : list[i].type = type}
    IN  IF found = {} THEN NotFound ELSE Min(found)

\* A type that is not on the list yet.
AppendCondition(list, type, status, reason, time) ==
    Append(list, [type |-> type, status |-> status, reason |-> reason, lastTransitionTime |-> time])

\* Mutant: every write is taken for a transition.
RestampCondition(list, type, status, reason, time) ==
    LET i == FindCondition(list, type)
    IN  IF i = NotFound
        THEN AppendCondition(list, type, status, reason, time)
        ELSE [list EXCEPT ![i].status = status, ![i].reason = reason,
                          ![i].lastTransitionTime = time]

\* Update in place, or append; the time moves only with the status.
SetCondition(list, type, status, reason, time) ==
    LET i == FindCondition(list, type)
    IN  IF i = NotFound
        THEN AppendCondition(list, type, status, reason, time)
        ELSE [list EXCEPT ![i].lastTransitionTime = IF list[i].status = status THEN @ ELSE time,
                          ![i].status = status,
                          ![i].reason = reason]

\* A condition at which the loop of the classifier returns, and what it returns.
Terminal(c) ==
    \/ c.type = "Ready" /\ c.status \in {"True", "False"}
    \/ c.type \in {"Drifted", "Succeeded", "Failed"} /\ c.status = "True"

\* The declared reasons that hold a word in any case; none of them holds one
\* in lower case.
Mentioning(word) ==
    CASE word = "drift" -> {"DependencyDrifted", "DriftAbsent", "DriftDetected", "NoDrift"}
      [] word = "superseded" -> {}

\* Mutant: the reason is not lowered before the search.
OutcomeOfAsWritten(c) ==
    IF c.type # "Ready" THEN c.type
    ELSE IF c.status = "True" THEN "Succeeded" ELSE "Failed"

OutcomeOf(c) ==
    IF c.type # "Ready" THEN c.type
    ELSE IF c.status = "True" THEN "Succeeded"
    ELSE IF c.reason \in Mentioning("drift") THEN "Drifted"
    ELSE IF c.reason \in Mentioning("superseded") THEN "Superseded"
    ELSE "Failed"

EntryOf(c) == [outcomeType |-> OutcomeOf(c), outcomeRef |-> c.reason]

\* Mutant: the loop does not stop at the first terminal condition.
ClassifyLast(list) ==
    LET hits == {i \in DOMAIN list : Terminal(list[i])}
    IN  IF hits = {} THEN NoEntry ELSE EntryOf(list[Max(hits)])

classifyTerminalOutcome(list) ==
    LET hits == {i \in DOMAIN list : Terminal(list[i])}
    IN  IF hits = {} THEN NoEntry ELSE EntryOf(list[Min(hits)])

-----------------------------------------------------------------------------
Init ==
    /\ now = 0
    /\ conditions = <<>>
    /\ recorded = NoEntry
    /\ changed = [t \in Types |-> 0]

\* The operator calls SetCondition, which reads a clock of limited resolution,
\* with a pair that its unit tests put through ValidateCondition.
Report(type, status, reason) ==
    LET i == FindCondition(conditions, type)
    IN  /\ ValidateCondition(type, reason) = ""
        /\ now' \in {now, now + 1} \cap 0..MaxTime
        /\ conditions' = SetCondition(conditions, type, status, reason, now')
        /\ changed' = IF i # NotFound /\ conditions[i].status = status
                      THEN changed ELSE [changed EXCEPT ![type] = now']
        /\ UNCHANGED recorded

\* Steps 4 to 6 of the OutcomeReconciler on the object as it is now.
Observe ==
    /\ recorded = NoEntry
    /\ recorded' = classifyTerminalOutcome(conditions)
    /\ recorded' # NoEntry
    /\ UNCHANGED <<now, conditions, changed>>

Next ==
    \/ \E type \in Types, status \in Statuses, reason \in Reasons : Report(type, status, reason)
    \/ Observe

Spec == Init /\ [][Next]_vars

-----------------------------------------------------------------------------
(* Properties. *)

\* One condition per type, dated at the last change of its status, however
\* often it was written in between.
ListFaithful ==
    /\ conditions \in Seq(Condition)
    /\ recorded \in Entry \cup {NoEntry}
    /\ \A i, j \in DOMAIN conditions : conditions[i].type = conditions[j].type => i = j
    /\ \A i \in DOMAIN conditions :
          conditions[i].lastTransitionTime = changed[conditions[i].type]

\* Once reported, Ready=True or False decides, as long as the operator put
\* Ready on the list before the other terminal types: nothing that is
\* reported later, in any order, overrides it.
ReadyDecides ==
    LET i == FindCondition(conditions, "Ready")
    IN  /\ i # NotFound
        /\ conditions[i].status # "Unknown"
        /\ \A j \in DOMAIN conditions : j < i => ~Terminal(conditions[j])
        => classifyTerminalOutcome(conditions) = EntryOf(conditions[i])

\* An object that did not succeed is recorded as Drifted exactly when the
\* reason kept as outcomeRef speaks of drift, under whichever condition the
\* operator reported it: the words the classifier looks for and the reasons
\* of the vocabulary fit together.
DriftRecordedAsDrift ==
    recorded.outcomeType \notin {"", "Succeeded"} =>
        (recorded.outcomeType = "Drifted" <=> recorded.outcomeRef \in Mentioning("drift"))

=============================================================================
