------------------------ MODULE OutcomeClassifier_proof ------------------------
(***************************************************************************)
(* Proofs about the condition list and its classification, for lists of    *)
(* any length, any condition types and reasons of the vocabulary, and any  *)
(* order of reports.                                                       *)
(***************************************************************************)
EXTENDS OutcomeClassifier, WellFoundedInduction, TLAPS

-----------------------------------------------------------------------------
(* The first of several positions. *)

\* A set of positions that is not empty has a least one.
LEMMA MinFacts ==
    ASSUME NEW S \in SUBSET Nat, S # {}
    PROVE  Min(S) \in S /\ \A n \in S : Min(S) <= n
<1>1. PICK m \in S : \A n \in S : ~(<<n, m>> \in OpToRel(<, Nat))
    BY WFMin, NatLessThanWellFounded
<1>2. \A n \in S : ~(n < m)
    BY <1>1, Zenon DEF OpToRel
<1>3. \A n \in S : m <= n
    BY <1>2
<1> QED
    BY <1>3 DEF Min

\* FindCondition returns the position of a condition of the type, or NotFound
\* when there is none.
LEMMA FindFacts ==
    ASSUME NEW list \in Seq(Condition), NEW type
    PROVE  LET i == FindCondition(list, type)
           IN  \/ i = NotFound /\ \A j \in DOMAIN list : list[j].type # type
               \/ i # NotFound /\ i \in DOMAIN list /\ list[i].type = type
<1> DEFINE found == {i \in DOMAIN list : list[i].type = type}
<1>1. found \in SUBSET Nat /\ \A i \in found : i # 0
    OBVIOUS
<1>2. CASE found = {}
    BY <1>2 DEF FindCondition
<1>3. CASE found # {}
  <2>1. Min(found) \in found
    BY <1>1, <1>3, MinFacts
  <2>2. FindCondition(list, type) = Min(found)
    BY <1>3 DEF FindCondition
  <2> QED
    BY <1>1, <2>1, <2>2 DEF NotFound
<1> QED
    BY <1>2, <1>3

-----------------------------------------------------------------------------
(* Writing the list. *)

\* An update in place changes status, reason and time of one condition; the
\* time is kept when the status is.
LEMMA SetConditionUpdates ==
    ASSUME NEW list \in Seq(Condition), NEW type, NEW status \in Statuses, NEW reason \in Reasons,
           NEW time \in Nat, FindCondition(list, type) # NotFound
    PROVE  LET i == FindCondition(list, type)
               new == SetCondition(list, type, status, reason, time)
           IN  /\ new \in Seq(Condition) /\ DOMAIN new = DOMAIN list
               /\ \A j \in DOMAIN list : new[j].type = list[j].type
               /\ \A j \in DOMAIN list \ {i} : new[j] = list[j]
               /\ new[i].reason = reason
               /\ new[i].lastTransitionTime
                      = IF list[i].status = status THEN list[i].lastTransitionTime ELSE time
<1> DEFINE i == FindCondition(list, type)
           stamp == IF list[i].status = status THEN list[i].lastTransitionTime ELSE time
           l1 == [list EXCEPT ![i].lastTransitionTime = stamp]
           c1 == [list[i] EXCEPT !.lastTransitionTime = stamp]
           l2 == [l1 EXCEPT ![i].status = status]
           c2 == [l1[i] EXCEPT !.status = status]
           l3 == [l2 EXCEPT ![i].reason = reason]
           c3 == [l2[i] EXCEPT !.reason = reason]
<1>1. i \in DOMAIN list /\ list[i].type = type
    BY FindFacts
<1>2. SetCondition(list, type, status, reason, time) = l3
    BY DEF SetCondition
<1>3. list[i] \in Condition
    BY <1>1
<1>4. stamp \in Nat
    BY <1>3 DEF Condition
<1> HIDE DEF i, stamp
<1>5. ASSUME NEW l \in Seq(Condition), DOMAIN l = DOMAIN list, NEW c \in Condition
      PROVE  /\ [l EXCEPT ![i] = c] \in Seq(Condition) /\ DOMAIN [l EXCEPT ![i] = c] = DOMAIN list
             /\ \A j \in DOMAIN list \ {i} : [l EXCEPT ![i] = c][j] = l[j]
             /\ [l EXCEPT ![i] = c][i] = c
    BY <1>1, <1>5
<1>6. ASSUME NEW c \in Condition
      PROVE  /\ [c EXCEPT !.lastTransitionTime = stamp] \in Condition
             /\ [c EXCEPT !.lastTransitionTime = stamp].type = c.type
             /\ [c EXCEPT !.lastTransitionTime = stamp].lastTransitionTime = stamp
             /\ [c EXCEPT !.status = status] \in Condition
             /\ [c EXCEPT !.status = status].type = c.type
             /\ [c EXCEPT !.status = status].lastTransitionTime = c.lastTransitionTime
             /\ [c EXCEPT !.reason = reason] \in Condition
             /\ [c EXCEPT !.reason = reason].type = c.type
             /\ [c EXCEPT !.reason = reason].lastTransitionTime = c.lastTransitionTime
             /\ [c EXCEPT !.reason = reason].reason = reason
    BY <1>4, <1>6 DEF Condition
<1>7. /\ l1 \in Seq(Condition) /\ DOMAIN l1 = DOMAIN list
      /\ \A j \in DOMAIN list \ {i} : l1[j] = list[j]
      /\ l1[i] \in Condition /\ l1[i].type = list[i].type /\ l1[i].lastTransitionTime = stamp
  <2>1. l1 = [list EXCEPT ![i] = c1]
    OBVIOUS
  <2>2. c1 \in Condition /\ c1.type = list[i].type /\ c1.lastTransitionTime = stamp
    BY <1>3, <1>6, Zenon
  <2> HIDE DEF l1, c1
  <2> QED
    BY <1>1, <1>5, <2>1, <2>2
<1> HIDE DEF l1
<1>8. /\ l2 \in Seq(Condition) /\ DOMAIN l2 = DOMAIN list
      /\ \A j \in DOMAIN list \ {i} : l2[j] = list[j]
      /\ l2[i] \in Condition /\ l2[i].type = list[i].type /\ l2[i].lastTransitionTime = stamp
  <2>1. l2 = [l1 EXCEPT ![i] = c2]
    OBVIOUS
  <2>2. c2 \in Condition /\ c2.type = l1[i].type /\ c2.lastTransitionTime = l1[i].lastTransitionTime
    BY <1>7, <1>6, Zenon
  <2> HIDE DEF l2, c2
  <2> QED
    BY <1>7, <1>5, <2>1, <2>2
<1> HIDE DEF l2
<1>9. /\ l3 \in Seq(Condition) /\ DOMAIN l3 = DOMAIN list
      /\ \A j \in DOMAIN list \ {i} : l3[j] = list[j]
      /\ l3[i].type = list[i].type /\ l3[i].lastTransitionTime = stamp /\ l3[i].reason = reason
  <2>1. l3 = [l2 EXCEPT ![i] = c3]
    OBVIOUS
  <2>2. c3 \in Condition /\ c3.type = l2[i].type /\ c3.lastTransitionTime = l2[i].lastTransitionTime /\ c3.reason = reason
    BY <1>8, <1>6, Zenon
  <2> HIDE DEF l3, c3
  <2> QED
    BY <1>8, <1>5, <2>1, <2>2
<1> HIDE DEF l3
<1> QED
    BY <1>1, <1>2, <1>9 DEF i, stamp

\* The list new is list with a condition of a new type at its end.
Appended(new, list, type, reason, time) ==
    /\ new \in Seq(Condition) /\ DOMAIN new = 1 .. Len(list) + 1
    /\ \A j \in DOMAIN list : new[j] = list[j] /\ list[j].type # type
    /\ \A j \in DOMAIN new \ DOMAIN list :
          /\ j = Len(list) + 1
          /\ new[j].type = type /\ new[j].reason = reason /\ new[j].lastTransitionTime = time

\* A condition of a new type is appended.
LEMMA SetConditionAppends ==
    ASSUME NEW list \in Seq(Condition), NEW type \in Types, NEW status \in Statuses,
           NEW reason \in Reasons, NEW time \in Nat, FindCondition(list, type) = NotFound
    PROVE  Appended(SetCondition(list, type, status, reason, time), list, type, reason, time)
<1> DEFINE c == [type |-> type, status |-> status, reason |-> reason, lastTransitionTime |-> time]
<1>1. c \in Condition /\ c.type = type /\ c.reason = reason /\ c.lastTransitionTime = time
    BY DEF Condition
<1>2. SetCondition(list, type, status, reason, time) = Append(list, c)
    BY DEF SetCondition, AppendCondition
<1>3. \A j \in DOMAIN list : list[j].type # type
    BY FindFacts
<1> HIDE DEF c
<1> QED
    BY <1>1, <1>2, <1>3 DEF Appended

-----------------------------------------------------------------------------
(* The list is faithful. *)

\* ListFaithful, with the types of the clock and of the history.
ListInv == ListFaithful /\ now \in Nat /\ changed \in [Types -> Nat]

\* The classifier gives the entry of the first terminal condition, or none.
LEMMA ClassifyFacts ==
    ASSUME NEW list \in Seq(Condition)
    PROVE  \/ classifyTerminalOutcome(list) = NoEntry /\ \A j \in DOMAIN list : ~Terminal(list[j])
           \/ \E i \in DOMAIN list :
                 /\ Terminal(list[i]) /\ classifyTerminalOutcome(list) = EntryOf(list[i])
                 /\ \A j \in DOMAIN list : j < i => ~Terminal(list[j])
<1> DEFINE hits == {i \in DOMAIN list : Terminal(list[i])}
<1>1. hits \in SUBSET Nat
    OBVIOUS
<1>2. CASE hits = {}
    BY <1>2 DEF classifyTerminalOutcome
<1>3. CASE hits # {}
  <2>1. Min(hits) \in hits /\ \A j \in hits : Min(hits) <= j
    BY <1>1, <1>3, MinFacts
  <2>2. classifyTerminalOutcome(list) = EntryOf(list[Min(hits)])
    BY <1>3 DEF classifyTerminalOutcome
  <2> DEFINE first == Min(hits)
  <2> HIDE DEF first, hits
  <2>3. ASSUME NEW j \in DOMAIN list, j < first PROVE ~Terminal(list[j])
    <3>1. j \in Nat /\ first \in Nat
      <4>1. first \in hits
        BY <2>1 DEF first
      <4>2. first \in Nat
        BY <1>1, <4>1
      <4> QED
        BY <4>2
    <3>2. j \notin hits
      BY <2>1, <2>3, <3>1 DEF first
    <3> QED
      BY <3>2 DEF hits
  <2> QED
    BY <2>1, <2>2, <2>3 DEF first, hits
<1> QED
    BY <1>2, <1>3

\* The entry of a terminal condition is well-formed.
LEMMA EntryFacts ==
    ASSUME NEW c \in Condition, Terminal(c)
    PROVE  EntryOf(c) \in Entry
<1>1. c.reason \in Reasons
    BY DEF Condition
<1>2. OutcomeOf(c) \in {"Succeeded", "Failed", "Drifted", "Superseded"}
    BY DEF OutcomeOf, Terminal
<1> QED
    BY <1>1, <1>2 DEF EntryOf, Entry

\* A report keeps one condition per type, and its date.
LEMMA ListReport ==
    ASSUME ListInv, NEW type \in Types, NEW status \in Statuses, NEW reason \in Reasons,
           Report(type, status, reason)
    PROVE  ListInv'
<1> DEFINE i == FindCondition(conditions, type)
           new == SetCondition(conditions, type, status, reason, now')
<1>1. /\ conditions \in Seq(Condition) /\ recorded \in Entry \cup {NoEntry}
      /\ \A j, l \in DOMAIN conditions : conditions[j].type = conditions[l].type => j = l
      /\ \A j \in DOMAIN conditions : conditions[j].lastTransitionTime = changed[conditions[j].type]
      /\ now \in Nat /\ changed \in [Types -> Nat]
    BY DEF ListInv, ListFaithful
<1>2. now' \in Nat /\ conditions' = new /\ UNCHANGED recorded
  <2>1. now' \in {now, now + 1} /\ conditions' = new /\ UNCHANGED recorded
    BY DEF Report
  <2> QED
    BY <1>1, <2>1
<1>3. ASSUME NEW j \in DOMAIN conditions
      PROVE  conditions[j] \in Condition /\ conditions[j].type \in Types
  <2>1. conditions[j] \in Condition
    BY <1>1
  <2> QED
    BY <2>1 DEF Condition
<1>4. CASE i = NotFound
  <2>1. changed' = [changed EXCEPT ![type] = now']
    BY <1>4 DEF Report
  <2>2. Appended(new, conditions, type, reason, now')
    BY <1>1, <1>2, <1>4, SetConditionAppends
  <2> HIDE DEF new
  <2>3. \A j, l \in DOMAIN new : new[j].type = new[l].type => j = l
    BY <1>1, <2>2 DEF Appended
  <2>4. changed' \in [Types -> Nat]
    BY <1>1, <1>2, <2>1
  <2>5. \A j \in DOMAIN new : new[j].lastTransitionTime = changed'[new[j].type]
    BY <1>1, <1>3, <2>1, <2>2 DEF Appended
  <2> QED
    BY <1>1, <1>2, <2>2, <2>3, <2>4, <2>5 DEF ListInv, ListFaithful, Appended
<1>5. CASE i # NotFound
  <2>1. /\ new \in Seq(Condition) /\ DOMAIN new = DOMAIN conditions
        /\ \A j \in DOMAIN conditions : new[j].type = conditions[j].type
        /\ \A j \in DOMAIN conditions \ {i} : new[j] = conditions[j]
        /\ new[i].lastTransitionTime
               = IF conditions[i].status = status THEN conditions[i].lastTransitionTime ELSE now'
    BY <1>1, <1>2, <1>5, SetConditionUpdates
  <2>2. i \in DOMAIN conditions /\ conditions[i].type = type
    BY <1>1, <1>5, FindFacts
  <2>3. changed' = IF conditions[i].status = status THEN changed ELSE [changed EXCEPT ![type] = now']
    BY <1>5 DEF Report
  <2> HIDE DEF new, i
  <2>4. \A j, l \in DOMAIN new : new[j].type = new[l].type => j = l
    BY <1>1, <2>1
  <2>5. changed' \in [Types -> Nat]
    BY <1>1, <1>2, <2>3
  <2>6. ASSUME NEW j \in DOMAIN new PROVE new[j].lastTransitionTime = changed'[new[j].type]
    <3>1. CASE j = i
      BY <1>1, <2>1, <2>2, <2>3, <3>1
    <3>2. CASE j # i
      <4>1. conditions[j].type \in Types \ {type} /\ new[j] = conditions[j]
        BY <1>1, <1>3, <2>1, <2>2, <2>6, <3>2
      <4> QED
        BY <1>1, <2>1, <2>3, <4>1
    <3> QED
      BY <3>1, <3>2
  <2> QED
    BY <1>1, <1>2, <2>1, <2>4, <2>5, <2>6 DEF ListInv, ListFaithful
<1> QED
    BY <1>4, <1>5

\* So does every step.
LEMMA ListStep == ListInv /\ [Next]_vars => ListInv'
<1> SUFFICES ASSUME ListInv, [Next]_vars PROVE ListInv'
    OBVIOUS
<1>1. CASE Observe
  <2>1. UNCHANGED <<now, conditions, changed>> /\ recorded' = classifyTerminalOutcome(conditions)
    BY <1>1 DEF Observe
  <2>2. conditions \in Seq(Condition)
    BY DEF ListInv, ListFaithful
  <2>3. recorded' \in Entry \cup {NoEntry}
    BY <2>1, <2>2, ClassifyFacts, EntryFacts
  <2> QED
    BY <2>1, <2>3 DEF ListInv, ListFaithful
<1>2. CASE UNCHANGED vars
    BY <1>2 DEF vars, ListInv, ListFaithful
<1> QED
    BY <1>1, <1>2, ListReport DEF Next

\* It is faithful always.
LEMMA ListAlways == Spec => []ListInv
<1>1. Init => ListInv
    BY DEF Init, ListInv, ListFaithful
<1> QED
    BY <1>1, ListStep, PTL DEF Spec

\* However often and in whatever order conditions are set, the list has one
\* condition per type, and its lastTransitionTime is the time its status last
\* changed, not the time it was last written (conditions.go, SetCondition).
THEOREM ListIsFaithful == Spec => []ListFaithful
    BY ListAlways, PTL DEF ListInv

-----------------------------------------------------------------------------
(* What is recorded. *)

\* A decided Ready that comes before every other terminal condition is what the
\* OutcomeReconciler records, whatever else is on the list
\* (outcome_reconciler.go, classifyTerminalOutcome).
THEOREM ReadyIsDecisive == Spec => []ReadyDecides
<1>1. ListInv => ReadyDecides
  <2> DEFINE i == FindCondition(conditions, "Ready")
  <2> SUFFICES ASSUME ListInv, i # NotFound, conditions[i].status # "Unknown",
                      \A j \in DOMAIN conditions : j < i => ~Terminal(conditions[j])
               PROVE  classifyTerminalOutcome(conditions) = EntryOf(conditions[i])
    BY DEF ReadyDecides
  <2>1. conditions \in Seq(Condition)
    BY DEF ListInv, ListFaithful
  <2>2. i \in DOMAIN conditions /\ conditions[i].type = "Ready"
    BY <2>1, FindFacts
  <2>3. conditions[i].status \in Statuses
    <3>1. conditions[i] \in Condition
      BY <2>1, <2>2
    <3> QED
      BY <3>1 DEF Condition
  <2>4. Terminal(conditions[i])
    BY <2>2, <2>3 DEF Terminal, Statuses
  <2> HIDE DEF i
  <2>5. PICK h \in DOMAIN conditions :
            /\ Terminal(conditions[h]) /\ classifyTerminalOutcome(conditions) = EntryOf(conditions[h])
            /\ \A j \in DOMAIN conditions : j < h => ~Terminal(conditions[j])
    BY <2>1, <2>2, <2>4, ClassifyFacts
  <2>6. h \in Nat /\ i \in Nat
    BY <2>1, <2>2
  <2>7. h = i
    BY <2>2, <2>4, <2>5, <2>6
  <2> QED
    BY <2>5, <2>7
<1> QED
    BY <1>1, ListAlways, PTL

\* The reasons that the vocabulary lists under Drifted speak of drift.
LEMMA DriftedReasons ==
    ASSUME NEW r, <<"Drifted", r>> \in vocabulary
    PROVE  r \in {"DriftDetected", "NoDrift"}
<1>1. <<"Drifted", r>> \notin CommonVocabulary
    BY DEF CommonVocabulary
<1>2. <<"Drifted", r>> \notin GuardianVocabulary
    BY DEF GuardianVocabulary
<1>3. <<"Drifted", r>> \notin LifecycleVocabulary
    BY DEF LifecycleVocabulary
<1>4. <<"Drifted", r>> \notin PlatformVocabulary
    BY DEF PlatformVocabulary
<1>5. <<"Drifted", r>> \in WrapperVocabulary => r \in {"DriftDetected", "NoDrift"}
    BY DEF WrapperVocabulary
<1> QED
    BY <1>1, <1>2, <1>3, <1>4, <1>5 DEF vocabulary

\* Those that it lists under Failed do not.
LEMMA FailedReasons ==
    ASSUME NEW r, <<"Failed", r>> \in vocabulary
    PROVE  r \in {"JobFailed", "OperationResultNotFound"}
<1>1. <<"Failed", r>> \notin CommonVocabulary
    BY DEF CommonVocabulary
<1>2. <<"Failed", r>> \notin GuardianVocabulary
    BY DEF GuardianVocabulary
<1>3. <<"Failed", r>> \notin LifecycleVocabulary
    BY DEF LifecycleVocabulary
<1>4. <<"Failed", r>> \notin PlatformVocabulary
    BY DEF PlatformVocabulary
<1>5. <<"Failed", r>> \in WrapperVocabulary => r \in {"JobFailed", "OperationResultNotFound"}
    BY DEF WrapperVocabulary
<1> QED
    BY <1>1, <1>2, <1>3, <1>4, <1>5 DEF vocabulary

\* Every condition on the list is a pair of the vocabulary.
InVocabulary(c) == <<c.type, c.reason>> \in vocabulary
VocabularyInv == \A i \in DOMAIN conditions : InVocabulary(conditions[i])

\* An entry is Drifted exactly when its reason speaks of drift.
LEMMA DriftOfCondition ==
    ASSUME NEW c \in Condition, Terminal(c), InVocabulary(c), OutcomeOf(c) # "Succeeded"
    PROVE  OutcomeOf(c) = "Drifted" <=> c.reason \in Mentioning("drift")
<1>1. /\ Mentioning("drift") = {"DependencyDrifted", "DriftAbsent", "DriftDetected", "NoDrift"}
      /\ Mentioning("superseded") = {}
    BY DEF Mentioning
<1>2. CASE c.type = "Drifted"
    BY <1>1, <1>2, DriftedReasons DEF OutcomeOf, InVocabulary
<1>3. CASE c.type = "Failed"
    BY <1>1, <1>3, FailedReasons DEF OutcomeOf, InVocabulary
<1>4. CASE c.type = "Ready"
    BY <1>1, <1>4 DEF OutcomeOf
<1>5. CASE c.type = "Succeeded"
    BY <1>5 DEF OutcomeOf
<1> QED
    BY <1>2, <1>3, <1>4, <1>5 DEF Terminal

\* A report that passed ValidateCondition puts a pair of the vocabulary on the
\* list, and no step takes one off.
LEMMA VocabularyStep == ListInv /\ VocabularyInv /\ [Next]_vars => VocabularyInv'
<1> SUFFICES ASSUME ListInv, VocabularyInv, [Next]_vars PROVE VocabularyInv'
    OBVIOUS
<1>1. ASSUME NEW type \in Types, NEW status \in Statuses, NEW reason \in Reasons,
             Report(type, status, reason)
      PROVE  VocabularyInv'
  <2> DEFINE i == FindCondition(conditions, type)
             new == SetCondition(conditions, type, status, reason, now')
  <2>1. /\ <<type, reason>> \in vocabulary /\ now' \in Nat /\ conditions' = new
        /\ conditions \in Seq(Condition)
    <3>1. /\ ValidateCondition(type, reason) = "" /\ now' \in {now, now + 1} /\ conditions' = new
          /\ now \in Nat /\ conditions \in Seq(Condition)
      BY <1>1 DEF Report, ListInv, ListFaithful
    <3>2. <<type, reason>> \in vocabulary
      <4>1. CASE type = "" \/ reason = "" \/ type \notin KnownConditionTypes
        BY <3>1, <4>1 DEF ValidateCondition
      <4>2. CASE ~(type = "" \/ reason = "" \/ type \notin KnownConditionTypes)
        BY <3>1, <4>2 DEF ValidateCondition
      <4> QED
        BY <4>1, <4>2
    <3>3. now' \in Nat
      <4>1. now' \in {now, now + 1} /\ now \in Nat
        BY <3>1
      <4> QED
        BY <4>1
    <3> QED
      BY <3>1, <3>2, <3>3
  <2>2. CASE i = NotFound
    <3>1. \A j \in DOMAIN new :
              \/ j \in DOMAIN conditions /\ new[j] = conditions[j]
              \/ new[j].type = type /\ new[j].reason = reason
      <4>1. Appended(new, conditions, type, reason, now')
        BY <2>1, <2>2, SetConditionAppends
      <4> QED
        BY <4>1 DEF Appended
    <3> QED
      BY <2>1, <3>1 DEF VocabularyInv, InVocabulary
  <2>3. CASE i # NotFound
    <3>1. i \in DOMAIN conditions /\ conditions[i].type = type
      BY <2>1, <2>3, FindFacts
    <3>2. \A j \in DOMAIN new :
              \/ j \in DOMAIN conditions /\ new[j] = conditions[j]
              \/ new[j].type = type /\ new[j].reason = reason
      BY <2>1, <2>3, <3>1, SetConditionUpdates
    <3> QED
      BY <2>1, <3>2 DEF VocabularyInv, InVocabulary
  <2> QED
    BY <2>2, <2>3
<1>2. CASE Observe \/ UNCHANGED vars
    BY <1>2 DEF Observe, vars, VocabularyInv
<1> QED
    BY <1>1, <1>2 DEF Next

\* What is recorded once stays, and was right when it was recorded.
LEMMA DriftStep ==
    ListInv /\ VocabularyInv /\ DriftRecordedAsDrift /\ [Next]_vars => DriftRecordedAsDrift'
<1> SUFFICES ASSUME ListInv, VocabularyInv, DriftRecordedAsDrift, [Next]_vars
             PROVE  DriftRecordedAsDrift'
    OBVIOUS
<1>1. CASE Observe
  <2>1. recorded' # NoEntry /\ recorded' = classifyTerminalOutcome(conditions)
    BY <1>1 DEF Observe
  <2>2. conditions \in Seq(Condition)
    BY DEF ListInv, ListFaithful
  <2>3. PICK i \in DOMAIN conditions : Terminal(conditions[i]) /\ recorded' = EntryOf(conditions[i])
    BY <2>1, <2>2, ClassifyFacts
  <2>4. conditions[i] \in Condition /\ InVocabulary(conditions[i])
    BY <2>2 DEF VocabularyInv
  <2>5. recorded'.outcomeType = OutcomeOf(conditions[i]) /\ recorded'.outcomeRef = conditions[i].reason
    BY <2>3 DEF EntryOf
  <2> QED
    BY <2>3, <2>4, <2>5, DriftOfCondition DEF DriftRecordedAsDrift
<1>2. CASE UNCHANGED recorded
    BY <1>2 DEF DriftRecordedAsDrift
<1>3. UNCHANGED recorded \/ Observe
    BY DEF Next, Report, vars
<1> QED
    BY <1>1, <1>2, <1>3

\* Whatever pairs of the vocabulary the operator reports, in any order, an
\* object that did not succeed is recorded as Drifted exactly when the recorded
\* reason speaks of drift (outcome_reconciler.go, classifyTerminalOutcome).
THEOREM DriftIsRecordedAsDrift == Spec => []DriftRecordedAsDrift
<1>1. Init => VocabularyInv /\ DriftRecordedAsDrift
  <2> SUFFICES ASSUME Init PROVE VocabularyInv /\ DriftRecordedAsDrift
    OBVIOUS
  <2>1. DOMAIN conditions = {}
    BY DEF Init
  <2>2. recorded.outcomeType = ""
    BY DEF Init, NoEntry
  <2> QED
    BY <2>1, <2>2 DEF VocabularyInv, DriftRecordedAsDrift
<1> QED
    BY <1>1, ListAlways, VocabularyStep, DriftStep, PTL DEF Spec

=============================================================================
