------------------------ MODULE LineageRegistry_proof ------------------------
(***************************************************************************)
(* Proofs about LineageRegistry, for any number of objects, kinds, indexes *)
(* and workers, any lag of the cache and any number of faults.             *)
(***************************************************************************)
EXTENDS LineageRegistry, TLAPS

-----------------------------------------------------------------------------
(* Type correctness. *)

\* The absent index and a new or changed one are well-formed (buildILI).
LEMMA IndexTypes ==
    /\ NotFound \in Index
    /\ \A i \in ILIs : LegacyIndex(i) \in Index
    /\ \A p \in Principals :
          [NotFound EXCEPT !.exists = TRUE, !.declaringPrincipal = p] \in Index
<1>1. NotFound \in Index
    BY DEF NotFound, Index, NoPrincipal
<1>2. ASSUME NEW i \in ILIs PROVE LegacyIndex(i) \in Index
  <2> DEFINE legacy == {[uid |-> u, createdAt |-> NilTime, actorRef |-> Labels[u].actor] :
                            u \in {v \in Legacy : Labels[v].ili = i}}
  <2>1. legacy \subseteq DescendantEntry
    BY ConstantsAssumption DEF DescendantEntry, Label, NilTime
  <2> HIDE DEF legacy
  <2>2. [NotFound EXCEPT !.exists = TRUE, !.descendantRegistry = legacy] \in Index
    BY <2>1 DEF NotFound, Index
  <2> QED
    BY <2>2 DEF LegacyIndex, legacy
<1>3. ASSUME NEW p \in Principals
      PROVE  [NotFound EXCEPT !.exists = TRUE, !.declaringPrincipal = p] \in Index
    BY DEF NotFound, Index, NoPrincipal
<1> QED
    BY <1>1, <1>2, <1>3

\* A patch of one field of a well-formed index gives a well-formed index.
LEMMA PatchedTypes ==
    ASSUME NEW index \in Index
    PROVE  /\ \A days \in Nat : [index EXCEPT !.retentionDays = days] \in Index
           /\ \A r \in SUBSET DescendantEntry : [index EXCEPT !.descendantRegistry = r] \in Index
           /\ \A r \in SUBSET OutcomeEntry : [index EXCEPT !.outcomeRegistry = r] \in Index
<1>1. \A days \in Nat : [index EXCEPT !.retentionDays = days] \in Index
    BY DEF Index
<1>2. \A r \in SUBSET DescendantEntry : [index EXCEPT !.descendantRegistry = r] \in Index
    BY DEF Index
<1>3. \A r \in SUBSET OutcomeEntry : [index EXCEPT !.outcomeRegistry = r] \in Index
    BY DEF Index
<1> QED
    BY <1>1, <1>2, <1>3

\* A write of a well-formed index leaves the API server and the watch
\* well-formed (client.Create, client.Patch).
LEMMA WriteIndexType ==
    ASSUME TypeOK, NEW i \in ILIs, NEW index \in Index, WriteIndex(i, index)
    PROVE  ili' \in [ILIs -> Index] /\ watch' \in [ILIs -> Seq(Index)]
    BY DEF TypeOK, WriteIndex

\* The idle records are well-formed worker states.
LEMMA IdleTypes == IdleD \in WorkerD /\ IdleO \in WorkerO /\ IdleP \in Pruner
    BY ConstantsAssumption DEF IdleD, IdleO, IdleP, WorkerD, WorkerO, Pruner, NoUid, NoOutcome

\* A new process queues names only, each under a kind.
LEMMA ListedType == \A kinds : Listed(kinds) \in [Kinds -> SUBSET Names]
<1>1. \A k : LiveNames(k) \subseteq Names
    BY ConstantsAssumption DEF LiveNames
<1> QED
    BY <1>1 DEF Listed

\* Adding names to a work queue and taking one out leave it well-formed.
LEMMA QueueTypes ==
    ASSUME NEW q \in [Kinds -> SUBSET Names], NEW k \in Kinds, NEW n \in Names
    PROVE  /\ [q EXCEPT ![k] = @ \cup {n}] \in [Kinds -> SUBSET Names]
           /\ [q EXCEPT ![k] = @ \ {n}] \in [Kinds -> SUBSET Names]
<1>1. q[k] \cup {n} \in SUBSET Names /\ q[k] \ {n} \in SUBSET Names
    OBVIOUS
<1> QED
    BY <1>1

\* An event puts a name in the queues of its kind and nothing else.
LEMMA EnqueueType ==
    ASSUME TypeOK, NEW u \in Uids, Enqueue(u)
    PROVE  queueD' \in [Kinds -> SUBSET Names] /\ queueO' \in [Kinds -> SUBSET Names]
<1>1. NameOf[u] \in Names /\ KindOf[NameOf[u]] \in Kinds
    BY ConstantsAssumption
<1>2. queueD[KindOf[NameOf[u]]] \cup {NameOf[u]} \in SUBSET Names
    BY <1>1 DEF TypeOK
<1>3. queueO[KindOf[NameOf[u]]] \cup {NameOf[u]} \in SUBSET Names
    BY <1>1 DEF TypeOK
<1> QED
    BY <1>1, <1>2, <1>3 DEF TypeOK, Enqueue

\* The fault counter stays within its bound.
LEMMA FaultType == TypeOK /\ Fault => faults' \in 0..MaxFaults
    BY ConstantsAssumption DEF TypeOK, Fault

\* Giving the worker of kind k a well-formed state leaves all of them so.
LEMMA WorkerDType ==
    ASSUME TypeOK, NEW k \in Kinds, NEW w \in WorkerD, w.pc # "idle" => Labelled(w.uid),
           workerD' = [workerD EXCEPT ![k] = w]
    PROVE  /\ workerD' \in [Kinds -> WorkerD]
           /\ \A j \in Kinds : workerD'[j].pc # "idle" => Labelled(workerD'[j].uid)
    BY DEF TypeOK

\* The same for the outcome workers.
LEMMA WorkerOType ==
    ASSUME TypeOK, NEW k \in Kinds, NEW w \in WorkerO, w.pc # "idle" => Labelled(w.uid),
           workerO' = [workerO EXCEPT ![k] = w]
    PROVE  /\ workerO' \in [Kinds -> WorkerO]
           /\ \A j \in Kinds : workerO'[j].pc # "idle" => Labelled(workerO'[j].uid)
    BY DEF TypeOK

\* The object in the hands of a busy worker has a name and an index.
LEMMA LabelledFacts ==
    ASSUME NEW u, Labelled(u)
    PROVE  u \in Uids /\ NameOf[u] \in Names /\ Labels[u].ili \in ILIs /\ Labels[u] \in Label
    BY ConstantsAssumption DEF Labelled, Label

\* The initial states are well typed.
LEMMA TypeInit == Init => TypeOK
<1> SUFFICES ASSUME Init PROVE TypeOK
    OBVIOUS
<1>1. ili \in [ILIs -> Index]
    BY IndexTypes DEF Init
<1>2. watch \in [ILIs -> Seq(Index)] /\ cache \in [ILIs -> Index]
    BY <1>1 DEF Init
<1>3. queueD \in [Kinds -> SUBSET Names] /\ queueO \in [Kinds -> SUBSET Names]
    BY ListedType DEF Init
<1>4. /\ workerD \in [Kinds -> WorkerD]
      /\ workerO \in [Kinds -> WorkerO]
      /\ \A k \in Kinds : workerD[k].pc = "idle" /\ workerO[k].pc = "idle"
    BY IdleTypes DEF Init, IdleD, IdleO
<1>5. pruner \in [ILIs -> Pruner]
    BY IdleTypes DEF Init
<1>6. now \in 0..MaxTime /\ faults \in 0..MaxFaults /\ prunes \in 0..MaxPrunes
    BY ConstantsAssumption DEF Init
<1> QED
    BY <1>1, <1>2, <1>3, <1>4, <1>5, <1>6 DEF Init, TypeOK, NilTime, NoOutcome

\* Users, operators and the API machinery keep the types.
LEMMA TypeEnvironment == TypeOK /\ Environment => TypeOK'
<1> SUFFICES ASSUME TypeOK, Environment PROVE TypeOK'
    OBVIOUS
<1> USE DEF objectVars, indexVars, queueVars
<1>1. CASE Tick
    BY <1>1, ConstantsAssumption DEF TypeOK, Tick
<1>2. ASSUME NEW u \in Uids, CreateObject(u) PROVE TypeOK'
    BY <1>2, EnqueueType, ConstantsAssumption DEF TypeOK, CreateObject
<1>3. ASSUME NEW u \in Uids, DeleteObject(u) PROVE TypeOK'
    BY <1>3, EnqueueType, ConstantsAssumption DEF TypeOK, DeleteObject
<1>4. ASSUME NEW u \in Uids, NEW t \in OutcomeTypes \cup {NoOutcome}, ReportConditions(u, t)
      PROVE  TypeOK'
    BY <1>4, EnqueueType, ConstantsAssumption DEF TypeOK, ReportConditions
<1>5. ASSUME NEW i \in ILIs, DeleteIndex(i) PROVE TypeOK'
    BY <1>5, WriteIndexType, IndexTypes DEF TypeOK, DeleteIndex
<1>6. ASSUME NEW i \in ILIs, DeliverWatch(i) PROVE TypeOK'
    BY <1>6 DEF TypeOK, DeliverWatch
<1>7. ASSUME NEW i \in ILIs, NEW p \in Principals, CreateIndex(i, p) PROVE TypeOK'
    BY <1>7, WriteIndexType, IndexTypes DEF TypeOK, CreateIndex, buildILI
<1>8. ASSUME NEW i \in ILIs, NEW days \in Retentions, SetRetention(i, days) PROVE TypeOK'
  <2>1. [ili[i] EXCEPT !.retentionDays = days] \in Index
    BY PatchedTypes, ConstantsAssumption DEF TypeOK
  <2> QED
    BY <1>8, <2>1, WriteIndexType DEF TypeOK, SetRetention
<1>9. ASSUME NEW k \in Kinds, Resync(k) PROVE TypeOK'
    BY <1>9, ListedType DEF TypeOK, Resync
<1>10. CASE Restart
  <2>1. /\ workerD' \in [Kinds -> WorkerD]
        /\ workerO' \in [Kinds -> WorkerO]
        /\ \A k \in Kinds : workerD'[k].pc = "idle" /\ workerO'[k].pc = "idle"
    BY <1>10, IdleTypes DEF Restart, IdleD, IdleO
  <2>2. queueD' \in [Kinds -> SUBSET Names] /\ queueO' \in [Kinds -> SUBSET Names]
    BY <1>10, ListedType DEF Restart
  <2>3. watch' \in [ILIs -> Seq(Index)] /\ cache' \in [ILIs -> Index] /\ pruner' \in [ILIs -> Pruner]
    BY <1>10, IdleTypes DEF Restart, TypeOK
  <2> QED
    BY <1>10, <2>1, <2>2, <2>3, FaultType DEF TypeOK, Restart
<1> QED
    BY <1>1, <1>2, <1>3, <1>4, <1>5, <1>6, <1>7, <1>8, <1>9, <1>10 DEF Environment

\* A step of a DescendantReconciler keeps the types.
LEMMA TypeDescendant ==
    ASSUME TypeOK, NEW k \in Kinds, DescendantReconciler(k)
    PROVE  TypeOK'
<1> USE DEF objectVars, indexVars, queueVars
<1> DEFINE u == workerD[k].uid
           requeued == [queueD EXCEPT ![k] = @ \cup {NameOf[u]}]
<1>1. ASSUME Labelled(u) PROVE requeued \in [Kinds -> SUBSET Names]
    BY <1>1, LabelledFacts, QueueTypes DEF TypeOK
<1>2. ASSUME NEW n \in Names, GetObjectD(k, n) PROVE TypeOK'
  <2>1. queueD' \in [Kinds -> SUBSET Names]
    BY <1>2, QueueTypes DEF TypeOK, GetObjectD
  <2>2. ASSUME NEW v \in Uids PROVE [IdleD EXCEPT !.pc = "fetch", !.uid = v] \in WorkerD
    BY DEF IdleD, WorkerD
  <2>3. /\ workerD' \in [Kinds -> WorkerD]
        /\ \A j \in Kinds : workerD'[j].pc # "idle" => Labelled(workerD'[j].uid)
    BY <1>2, <2>2 DEF TypeOK, GetObjectD, Live, Labelled, IdleD
  <2> QED
    BY <1>2, <2>1, <2>3 DEF TypeOK, GetObjectD
<1>3. CASE FetchIndexD(k)
  <2> DEFINE index == cache[Labels[u].ili]
             entry == NewDescendantEntry(index, u)
             next == [pc |-> "patch", uid |-> u, body |-> index.descendantRegistry \cup {entry}]
  <2>1. Labelled(u)
    BY <1>3 DEF FetchIndexD, TypeOK
  <2>2. index \in Index
    BY <2>1, LabelledFacts DEF TypeOK
  <2>3. entry \in DescendantEntry /\ index.descendantRegistry \subseteq DescendantEntry
    BY <2>1, <2>2, LabelledFacts, ConstantsAssumption
    DEF TypeOK, NewDescendantEntry, DescendantEntry, ActorRef, Index, Label
  <2>4. next \in WorkerD
    BY <2>1, <2>3, LabelledFacts DEF WorkerD
  <2>5. queueD' = queueD \/ queueD' = requeued
    BY <1>3 DEF FetchIndexD
  <2>6. workerD' = [workerD EXCEPT ![k] = IdleD] \/ workerD' = [workerD EXCEPT ![k] = next]
    BY <1>3 DEF FetchIndexD
  <2>7. queueD' \in [Kinds -> SUBSET Names]
    BY <1>1, <2>1, <2>5 DEF TypeOK
  <2>8. IdleD.pc = "idle" /\ next.uid = u
    BY DEF IdleD
  <2> HIDE DEF next, requeued, u
  <2>9. /\ workerD' \in [Kinds -> WorkerD]
        /\ \A j \in Kinds : workerD'[j].pc # "idle" => Labelled(workerD'[j].uid)
    BY <2>1, <2>4, <2>6, <2>8, IdleTypes, WorkerDType
  <2> QED
    BY <1>3, <2>7, <2>9 DEF FetchIndexD, TypeOK
<1>4. ASSUME workerD' = [workerD EXCEPT ![k] = IdleD]
      PROVE  /\ workerD' \in [Kinds -> WorkerD]
             /\ \A j \in Kinds : workerD'[j].pc # "idle" => Labelled(workerD'[j].uid)
  <2>1. IdleD.pc = "idle"
    BY DEF IdleD
  <2> QED
    BY <1>4, <2>1, IdleTypes, WorkerDType
<1>5. CASE PatchD(k)
  <2> DEFINE i == Labels[u].ili
  <2>1. Labelled(u) /\ workerD[k].body \subseteq DescendantEntry
    BY <1>5 DEF PatchD, TypeOK, WorkerD
  <2>2. [ili[i] EXCEPT !.descendantRegistry = workerD[k].body] \in Index
    BY <2>1, LabelledFacts, PatchedTypes DEF TypeOK
  <2>3. ili' \in [ILIs -> Index] /\ watch' \in [ILIs -> Seq(Index)]
    BY <1>5, <2>1, <2>2, LabelledFacts, WriteIndexType DEF PatchD
  <2>4. UNCHANGED <<queueD, faults>> \/ (Fault /\ queueD' = requeued)
    BY <1>5 DEF PatchD
  <2>5. queueD' \in [Kinds -> SUBSET Names] /\ faults' \in 0..MaxFaults
    BY <1>1, <2>1, <2>4, FaultType DEF TypeOK
  <2> QED
    BY <1>4, <1>5, <2>3, <2>5 DEF PatchD, TypeOK
<1>6. CASE PatchRefusedD(k) \/ CallFailsD(k)
  <2>1. Labelled(u)
    BY <1>6 DEF PatchRefusedD, CallFailsD, TypeOK
  <2>2. queueD' = requeued /\ (Fault \/ faults' = faults)
    BY <1>6 DEF PatchRefusedD, CallFailsD
  <2>3. queueD' \in [Kinds -> SUBSET Names] /\ faults' \in 0..MaxFaults
    BY <1>1, <2>1, <2>2, FaultType DEF TypeOK
  <2> QED
    BY <1>4, <1>6, <2>3 DEF PatchRefusedD, CallFailsD, TypeOK
<1> QED
    BY <1>2, <1>3, <1>5, <1>6 DEF DescendantReconciler

\* A step of an OutcomeReconciler keeps the types.
LEMMA TypeOutcome ==
    ASSUME TypeOK, NEW k \in Kinds, OutcomeReconciler(k)
    PROVE  TypeOK'
<1> USE DEF objectVars, indexVars, queueVars
<1> DEFINE u == workerO[k].uid
           requeued == [queueO EXCEPT ![k] = @ \cup {NameOf[u]}]
<1>1. ASSUME Labelled(u) PROVE requeued \in [Kinds -> SUBSET Names]
    BY <1>1, LabelledFacts, QueueTypes DEF TypeOK
<1>2. ASSUME NEW n \in Names, GetObjectO(k, n) PROVE TypeOK'
  <2>1. queueO' \in [Kinds -> SUBSET Names]
    BY <1>2, QueueTypes DEF TypeOK, GetObjectO
  <2>2. ASSUME NEW v \in Uids
        PROVE  [IdleO EXCEPT !.pc = "fetch", !.uid = v, !.outcomeType = outcome[v]] \in WorkerO
    BY DEF IdleO, WorkerO, TypeOK
  <2>3. /\ workerO' \in [Kinds -> WorkerO]
        /\ \A j \in Kinds : workerO'[j].pc # "idle" => Labelled(workerO'[j].uid)
    <3>1. CASE UNCHANGED workerO
      BY <3>1 DEF TypeOK
    <3>2. ASSUME NEW v \in Live(n), Labels[v].ili # NoILI,
                 workerO' = [workerO EXCEPT ![k] =
                    [IdleO EXCEPT !.pc = "fetch", !.uid = v, !.outcomeType = outcome[v]]]
          PROVE  <2>3
      <4> DEFINE next == [IdleO EXCEPT !.pc = "fetch", !.uid = v, !.outcomeType = outcome[v]]
      <4>1. next \in WorkerO /\ Labelled(v) /\ next.uid = v
        BY <2>2, <3>2 DEF Live, Labelled, IdleO
      <4> HIDE DEF next
      <4>2. workerO' = [workerO EXCEPT ![k] = next]
        BY <3>2 DEF next
      <4> QED
        BY <4>1, <4>2, WorkerOType
    <3> QED
      BY <1>2, <3>1, <3>2 DEF GetObjectO
  <2> QED
    BY <1>2, <2>1, <2>3 DEF TypeOK, GetObjectO
<1>3. CASE FetchIndexO(k)
  <2> DEFINE index == cache[Labels[u].ili]
             t == workerO[k].outcomeType
             entry == [derivedObjectUID |-> u, outcomeType |-> t]
             next == [pc |-> "patch", uid |-> u, outcomeType |-> t,
                      body |-> index.outcomeRegistry \cup {entry}]
  <2>1. Labelled(u) /\ t \in OutcomeTypes \cup {NoOutcome}
    BY <1>3 DEF FetchIndexO, TypeOK, WorkerO
  <2>2. index \in Index
    BY <2>1, LabelledFacts DEF TypeOK
  <2>3. \/ workerO' = [workerO EXCEPT ![k] = IdleO]
        \/ t # NoOutcome /\ workerO' = [workerO EXCEPT ![k] = next]
    BY <1>3 DEF FetchIndexO
  <2>4. ASSUME t # NoOutcome PROVE next \in WorkerO
    <3>1. entry \in OutcomeEntry
      BY <2>1, <2>4, LabelledFacts DEF OutcomeEntry
    <3>2. index.outcomeRegistry \cup {entry} \in SUBSET OutcomeEntry
      BY <2>2, <3>1 DEF Index
    <3> QED
      BY <2>1, <3>2, LabelledFacts DEF WorkerO
  <2>5. IdleO.pc = "idle" /\ next.uid = u
    BY DEF IdleO
  <2> HIDE DEF next, u, t
  <2>6. /\ workerO' \in [Kinds -> WorkerO]
        /\ \A j \in Kinds : workerO'[j].pc # "idle" => Labelled(workerO'[j].uid)
    BY <2>1, <2>3, <2>4, <2>5, IdleTypes, WorkerOType
  <2> QED
    BY <1>3, <2>6 DEF FetchIndexO, TypeOK
<1>4. ASSUME workerO' = [workerO EXCEPT ![k] = IdleO]
      PROVE  /\ workerO' \in [Kinds -> WorkerO]
             /\ \A j \in Kinds : workerO'[j].pc # "idle" => Labelled(workerO'[j].uid)
  <2>1. IdleO.pc = "idle"
    BY DEF IdleO
  <2> QED
    BY <1>4, <2>1, IdleTypes, WorkerOType
<1>5. CASE PatchO(k)
  <2> DEFINE i == Labels[u].ili
  <2>1. Labelled(u) /\ workerO[k].body \subseteq OutcomeEntry
    BY <1>5 DEF PatchO, TypeOK, WorkerO
  <2>2. [ili[i] EXCEPT !.outcomeRegistry = workerO[k].body] \in Index
    BY <2>1, LabelledFacts, PatchedTypes DEF TypeOK
  <2>3. ili' \in [ILIs -> Index] /\ watch' \in [ILIs -> Seq(Index)]
    BY <1>5, <2>1, <2>2, LabelledFacts, WriteIndexType DEF PatchO
  <2>4. UNCHANGED <<queueO, faults>> \/ (Fault /\ queueO' = requeued)
    BY <1>5 DEF PatchO
  <2>5. queueO' \in [Kinds -> SUBSET Names] /\ faults' \in 0..MaxFaults
    BY <1>1, <2>1, <2>4, FaultType DEF TypeOK
  <2> QED
    BY <1>4, <1>5, <2>3, <2>5 DEF PatchO, TypeOK
<1>6. CASE PatchRefusedO(k) \/ CallFailsO(k)
  <2>1. Labelled(u)
    BY <1>6 DEF PatchRefusedO, CallFailsO, TypeOK
  <2>2. queueO' = requeued /\ (Fault \/ faults' = faults)
    BY <1>6 DEF PatchRefusedO, CallFailsO
  <2>3. queueO' \in [Kinds -> SUBSET Names] /\ faults' \in 0..MaxFaults
    BY <1>1, <2>1, <2>2, FaultType DEF TypeOK
  <2> QED
    BY <1>4, <1>6, <2>3 DEF PatchRefusedO, CallFailsO, TypeOK
<1> QED
    BY <1>2, <1>3, <1>5, <1>6 DEF OutcomeReconciler

\* A step of pruneStaleDescendants keeps the types.
LEMMA TypePrune ==
    ASSUME TypeOK, NEW i \in ILIs, PruneStaleDescendants(i)
    PROVE  TypeOK'
<1> USE DEF objectVars, indexVars, queueVars
<1>1. CASE StartPrune(i)
  <2> DEFINE next == [IdleP EXCEPT !.pc = "check", !.retentionDays = cache[i].retentionDays,
                                   !.todo = cache[i].descendantRegistry]
  <2>1. next \in Pruner
    BY DEF TypeOK, Index, IdleP, Pruner
  <2>2. pruner' \in [ILIs -> Pruner]
    BY <1>1, <2>1 DEF StartPrune, TypeOK
  <2>3. prunes' \in 0..MaxPrunes
    BY <1>1, ConstantsAssumption DEF StartPrune, TypeOK
  <2> QED
    BY <1>1, <2>2, <2>3 DEF StartPrune, TypeOK
<1>2. ASSUME NEW e \in pruner[i].todo, CheckEntry(i, e) \/ CheckEntryFails(i, e) PROVE TypeOK'
  <2>1. pruner[i] \in Pruner /\ e \in DescendantEntry
    BY DEF TypeOK, Pruner
  <2>2. [pruner[i] EXCEPT !.todo = @ \ {e}, !.kept = @ \cup {e}] \in Pruner
    BY <2>1 DEF Pruner
  <2>3. [pruner[i] EXCEPT !.todo = @ \ {e}, !.pruned = TRUE] \in Pruner
    BY <2>1 DEF Pruner
  <2>4. \/ pruner' = [pruner EXCEPT ![i] = [pruner[i] EXCEPT !.todo = @ \ {e}, !.kept = @ \cup {e}]]
        \/ pruner' = [pruner EXCEPT ![i] = [pruner[i] EXCEPT !.todo = @ \ {e}, !.pruned = TRUE]]
    BY <1>2, <2>1 DEF CheckEntry, CheckEntryFails, TypeOK, Pruner
  <2>5. pruner' \in [ILIs -> Pruner]
    BY <2>2, <2>3, <2>4 DEF TypeOK
  <2> QED
    BY <1>2, <2>5 DEF CheckEntry, CheckEntryFails, TypeOK
<1>3. CASE EndPrune(i)
    BY <1>3, IdleTypes DEF EndPrune, TypeOK
<1>4. CASE PatchPruned(i)
  <2>1. pruner[i].kept \subseteq DescendantEntry
    BY DEF TypeOK, Pruner
  <2>2. [ili[i] EXCEPT !.descendantRegistry = pruner[i].kept] \in Index
    BY <2>1, PatchedTypes DEF TypeOK
  <2>3. ili' \in [ILIs -> Index] /\ watch' \in [ILIs -> Seq(Index)]
    BY <1>4, <2>2, WriteIndexType DEF PatchPruned
  <2> QED
    BY <1>4, <2>3, IdleTypes DEF PatchPruned, TypeOK
<1> QED
    BY <1>1, <1>2, <1>3, <1>4 DEF PruneStaleDescendants

\* A stuttering step keeps the types.
LEMMA TypeStutter == TypeOK /\ UNCHANGED vars => TypeOK'
    BY DEF TypeOK, vars

\* Every variable of the registries keeps its type, whatever the number of
\* controllers and the lag of the cache: the reconcilers never write a
\* malformed list and never work on an object without lineage labels.
THEOREM TypeCorrect == Spec => []TypeOK
<1>1. TypeOK /\ [Next]_vars => TypeOK'
    BY TypeEnvironment, TypeDescendant, TypeOutcome, TypePrune, TypeStutter DEF Next
<1> QED
    BY <1>1, TypeInit, PTL DEF Spec

-----------------------------------------------------------------------------
(* The safety invariants.  What must hold of the lists on the API server   *)
(* holds of every copy that may one day be written back over them: on the  *)
(* watch, in the cache, in the body of a patch, in a prune pass.           *)

\* What UniqueDescendants and EntriesJustified say of one copy of the list,
\* given the objects and the clock.
GoodDescendants(i, registry, objects, time) ==
    /\ UniquePerUid(registry)
    /\ \A e \in registry :
        objects[e.uid] # "none" /\ Labels[e.uid].ili = i /\ e.createdAt <= time

\* What UniqueOutcomes and OutcomesObserved say of one copy of the list.
GoodOutcomes(registry, reports) ==
    /\ UniquePerObject(registry)
    /\ \A o \in registry : <<o.derivedObjectUID, o.outcomeType>> \in reports

GoodIndex(i, index, objects, time, reports) ==
    /\ GoodDescendants(i, index.descendantRegistry, objects, time)
    /\ GoodOutcomes(index.outcomeRegistry, reports)

GoodReports == \A u \in Uids : outcome[u] # NoOutcome => <<u, outcome[u]>> \in reported
GoodServer == \A i \in ILIs : GoodIndex(i, ili[i], object, now, reported)
GoodCache == \A i \in ILIs : GoodIndex(i, cache[i], object, now, reported)
GoodWatch ==
    \A i \in ILIs : \A n \in DOMAIN watch[i] : GoodIndex(i, watch[i][n], object, now, reported)
GoodPruner ==
    \A i \in ILIs : GoodDescendants(i, pruner[i].todo \cup pruner[i].kept, object, now)
GoodWorkerD ==
    \A k \in Kinds : workerD[k].pc # "idle" =>
        /\ object[workerD[k].uid] # "none"
        /\ GoodDescendants(Labels[workerD[k].uid].ili, workerD[k].body, object, now)
GoodWorkerO ==
    \A k \in Kinds : workerO[k].pc # "idle" =>
        /\ workerO[k].outcomeType # NoOutcome => <<workerO[k].uid, workerO[k].outcomeType>> \in reported
        /\ GoodOutcomes(workerO[k].body, reported)

IndInv ==
    /\ TypeOK
    /\ GoodReports /\ GoodServer /\ GoodCache /\ GoodWatch
    /\ GoodPruner /\ GoodWorkerD /\ GoodWorkerO

\* Objects are never uncreated, reports never withdrawn, the clock runs on.
Grows ==
    /\ now <= now'
    /\ \A u \in Uids : object[u] # "none" => object'[u] # "none"
    /\ reported \subseteq reported'

\* A good copy of a list stays good while the history grows.
LEMMA GoodGrows ==
    ASSUME TypeOK, TypeOK', Grows
    PROVE  /\ \A i, r : r \in SUBSET DescendantEntry /\ GoodDescendants(i, r, object, now)
                            => GoodDescendants(i, r, object', now')
           /\ \A r : GoodOutcomes(r, reported) => GoodOutcomes(r, reported')
<1>1. now \in Int /\ now' \in Int
    BY DEF TypeOK
<1>2. ASSUME NEW i, NEW r \in SUBSET DescendantEntry, GoodDescendants(i, r, object, now)
      PROVE  GoodDescendants(i, r, object', now')
  <2>1. \A e \in r : e.uid \in Uids /\ e.createdAt \in Int
    BY DEF DescendantEntry
  <2> QED
    BY <1>1, <1>2, <2>1 DEF GoodDescendants, Grows
<1>3. ASSUME NEW r, GoodOutcomes(r, reported) PROVE GoodOutcomes(r, reported')
    BY <1>3 DEF GoodOutcomes, Grows
<1> QED
    BY <1>2, <1>3

\* The same for an index.
LEMMA GoodIndexGrows ==
    ASSUME TypeOK, TypeOK', Grows
    PROVE  \A i, index : index \in Index /\ GoodIndex(i, index, object, now, reported)
                            => GoodIndex(i, index, object', now', reported')
    BY GoodGrows DEF GoodIndex, Index

\* Copies that a step leaves alone stay good.
LEMMA Carry ==
    ASSUME IndInv, TypeOK', Grows
    PROVE  /\ ili' = ili => GoodServer'
           /\ cache' = cache => GoodCache'
           /\ watch' = watch => GoodWatch'
           /\ pruner' = pruner => GoodPruner'
           /\ workerD' = workerD => GoodWorkerD'
           /\ workerO' = workerO => GoodWorkerO'
           /\ outcome' = outcome => GoodReports'
<1> USE DEF IndInv
<1>1. ili' = ili => GoodServer'
    BY GoodIndexGrows DEF GoodServer, TypeOK
<1>2. cache' = cache => GoodCache'
    BY GoodIndexGrows DEF GoodCache, TypeOK
<1>3. watch' = watch => GoodWatch'
    BY GoodIndexGrows DEF GoodWatch, TypeOK
<1>4. pruner' = pruner => GoodPruner'
  <2>1. \A i \in ILIs : pruner[i].todo \cup pruner[i].kept \in SUBSET DescendantEntry
    BY DEF TypeOK, Pruner
  <2> QED
    BY <2>1, GoodGrows DEF GoodPruner
<1>5. workerD' = workerD => GoodWorkerD'
  <2>1. \A k \in Kinds : workerD[k].body \in SUBSET DescendantEntry
    BY DEF TypeOK, WorkerD
  <2>2. \A k \in Kinds : workerD[k].pc # "idle" => workerD[k].uid \in Uids
    BY DEF TypeOK, Labelled
  <2> QED
    BY <2>1, <2>2, GoodGrows DEF GoodWorkerD, Grows
<1>6. workerO' = workerO => GoodWorkerO'
    BY GoodGrows DEF GoodWorkerO, Grows
<1>7. outcome' = outcome => GoodReports'
    BY DEF GoodReports, Grows
<1> QED
    BY <1>1, <1>2, <1>3, <1>4, <1>5, <1>6, <1>7

\* A write of a good index keeps the API server and the watch good.
LEMMA GoodWrite ==
    ASSUME IndInv, TypeOK', UNCHANGED <<now, objectVars>>, NEW i \in ILIs, NEW index \in Index,
           GoodIndex(i, index, object, now, reported), WriteIndex(i, index)
    PROVE  GoodServer' /\ GoodWatch'
<1>1. GoodServer'
    BY DEF IndInv, TypeOK, GoodServer, WriteIndex, objectVars
<1>2. ASSUME NEW j \in ILIs, NEW n \in DOMAIN watch'[j]
      PROVE  GoodIndex(j, watch'[j][n], object, now, reported)
  <2>1. watch[j] \in Seq(Index)
    BY DEF IndInv, TypeOK
  <2>2. CASE j # i
    BY <2>1, <2>2 DEF IndInv, TypeOK, GoodWatch, WriteIndex
  <2>3. CASE j = i
    <3>1. watch'[j] = Append(watch[i], index)
      BY <2>3 DEF IndInv, TypeOK, WriteIndex
    <3>2. n \in 1..(Len(watch[i]) + 1) /\ DOMAIN watch[i] = 1..Len(watch[i])
      BY <2>1, <2>3, <3>1
    <3>3. CASE n = Len(watch[i]) + 1
      BY <2>1, <2>3, <3>1, <3>3
    <3>4. CASE n # Len(watch[i]) + 1
      BY <2>1, <2>3, <3>1, <3>2, <3>4 DEF IndInv, GoodWatch
    <3> QED
      BY <3>3, <3>4
  <2> QED
    BY <2>2, <2>3
<1> QED
    BY <1>1, <1>2 DEF GoodWatch, objectVars

\* The lists of an index that was never written are good.
LEMMA GoodEmpty ==
    ASSUME NEW i
    PROVE  /\ GoodDescendants(i, {}, object, now)
           /\ GoodOutcomes({}, reported)
           /\ GoodIndex(i, NotFound, object, now, reported)
    BY DEF GoodDescendants, GoodOutcomes, GoodIndex, NotFound, UniquePerUid, UniquePerObject

\* The inductive invariant holds initially.
LEMMA IndInit == Init => IndInv
<1> SUFFICES ASSUME Init PROVE IndInv
    OBVIOUS
<1>1. TypeOK
    BY TypeInit
<1>2. ASSUME NEW i \in ILIs PROVE GoodIndex(i, LegacyIndex(i), object, now, reported)
  <2> DEFINE legacy == {[uid |-> u, createdAt |-> NilTime, actorRef |-> Labels[u].actor] :
                            u \in {v \in Legacy : Labels[v].ili = i}}
  <2>1. LegacyIndex(i).descendantRegistry = legacy /\ LegacyIndex(i).outcomeRegistry = {}
    BY DEF LegacyIndex, NotFound
  <2>2. UniquePerUid(legacy)
    BY DEF UniquePerUid
  <2>3. \A e \in legacy : object[e.uid] # "none" /\ Labels[e.uid].ili = i /\ e.createdAt <= now
    BY ConstantsAssumption DEF Init, NilTime
  <2> QED
    BY <2>1, <2>2, <2>3, GoodEmpty DEF GoodIndex, GoodDescendants
<1>3. GoodServer /\ GoodCache
    BY <1>2, GoodEmpty DEF Init, GoodServer, GoodCache
<1>4. GoodReports /\ GoodWatch /\ GoodWorkerD /\ GoodWorkerO
  <2>1. GoodReports
    BY DEF Init, GoodReports
  <2>2. GoodWatch
    BY DEF Init, GoodWatch
  <2>3. GoodWorkerD /\ GoodWorkerO
    BY DEF Init, GoodWorkerD, GoodWorkerO, IdleD, IdleO
  <2> QED
    BY <2>1, <2>2, <2>3
<1>5. GoodPruner
  <2>1. \A i \in ILIs : pruner[i].todo \cup pruner[i].kept = {}
    BY DEF Init, IdleP
  <2> QED
    BY <2>1, GoodEmpty DEF GoodPruner
<1> QED
    BY <1>1, <1>3, <1>4, <1>5 DEF IndInv

\* Users, operators and the API machinery keep the inductive invariant.
LEMMA IndEnvironment ==
    ASSUME IndInv, TypeOK', Environment
    PROVE  IndInv'
<1> USE DEF objectVars, indexVars, queueVars
<1>0. TypeOK
    BY DEF IndInv
<1>1. CASE Tick
  <2>1. Grows
    BY <1>0, <1>1 DEF Grows, Tick, TypeOK
  <2> QED
    BY <1>1, <2>1, Carry DEF Tick, IndInv
<1>2. ASSUME NEW u \in Uids, CreateObject(u) PROVE IndInv'
  <2>1. Grows
    BY <1>0, <1>2 DEF Grows, CreateObject, TypeOK
  <2> QED
    BY <1>2, <2>1, Carry DEF CreateObject, IndInv
<1>3. ASSUME NEW u \in Uids, DeleteObject(u) PROVE IndInv'
  <2>1. Grows
    BY <1>0, <1>3 DEF Grows, DeleteObject, TypeOK
  <2> QED
    BY <1>3, <2>1, Carry DEF DeleteObject, IndInv
<1>4. ASSUME NEW u \in Uids, NEW t \in OutcomeTypes \cup {NoOutcome}, ReportConditions(u, t)
      PROVE  IndInv'
  <2>1. Grows
    BY <1>0, <1>4 DEF Grows, ReportConditions, TypeOK
  <2>2. GoodReports'
    BY <1>0, <1>4 DEF ReportConditions, TypeOK, IndInv, GoodReports
  <2> QED
    BY <1>4, <2>1, <2>2, Carry DEF ReportConditions, IndInv
<1>5. ASSUME UNCHANGED <<now, objectVars>> PROVE Grows
    BY <1>0, <1>5 DEF Grows, TypeOK
<1>6. ASSUME NEW i \in ILIs, DeleteIndex(i) PROVE IndInv'
  <2>1. GoodServer' /\ GoodWatch'
    BY <1>6, IndexTypes, GoodEmpty, GoodWrite DEF DeleteIndex
  <2> QED
    BY <1>5, <1>6, <2>1, Carry DEF DeleteIndex, IndInv
<1>7. ASSUME NEW i \in ILIs, DeliverWatch(i) PROVE IndInv'
  <2>1. watch[i] \in Seq(Index) /\ watch[i] # <<>>
    BY <1>0, <1>7 DEF TypeOK, DeliverWatch
  <2>2. GoodCache'
    BY <1>0, <1>7, <2>1 DEF DeliverWatch, IndInv, GoodWatch, GoodCache, TypeOK
  <2>3. \A n \in DOMAIN Tail(watch[i]) : n + 1 \in DOMAIN watch[i] /\ Tail(watch[i])[n] = watch[i][n + 1]
    BY <2>1
  <2>4. GoodWatch'
    BY <1>0, <1>7, <2>3 DEF DeliverWatch, IndInv, GoodWatch, TypeOK
  <2> QED
    BY <1>5, <1>7, <2>2, <2>4, Carry DEF DeliverWatch, IndInv
<1>8. ASSUME NEW i \in ILIs, NEW p \in Principals, CreateIndex(i, p) PROVE IndInv'
  <2> DEFINE index == [NotFound EXCEPT !.exists = TRUE, !.declaringPrincipal = p]
  <2>1. GoodIndex(i, index, object, now, reported)
    BY GoodEmpty DEF GoodIndex, NotFound
  <2>2. GoodServer' /\ GoodWatch'
    BY <1>8, <2>1, IndexTypes, GoodWrite DEF CreateIndex, buildILI
  <2> QED
    BY <1>5, <1>8, <2>2, Carry DEF CreateIndex, buildILI, IndInv
<1>9. ASSUME NEW i \in ILIs, NEW days \in Retentions, SetRetention(i, days) PROVE IndInv'
  <2> DEFINE index == [ili[i] EXCEPT !.retentionDays = days]
  <2>1. ili[i] \in Index /\ index \in Index
    BY <1>0, PatchedTypes, ConstantsAssumption DEF TypeOK
  <2>2. GoodIndex(i, index, object, now, reported)
    BY <2>1 DEF IndInv, GoodServer, GoodIndex, Index
  <2>3. GoodServer' /\ GoodWatch'
    BY <1>9, <2>1, <2>2, GoodWrite DEF SetRetention
  <2> QED
    BY <1>5, <1>9, <2>3, Carry DEF SetRetention, IndInv
<1>10. ASSUME NEW k \in Kinds, Resync(k) PROVE IndInv'
    BY <1>5, <1>10, Carry DEF Resync, IndInv
<1>11. CASE Restart
  <2>1. GoodServer' /\ GoodReports'
    BY <1>5, <1>11, Carry DEF Restart
  <2>2. GoodCache' /\ GoodWatch'
    BY <1>11 DEF Restart, IndInv, GoodServer, GoodCache, GoodWatch
  <2>3. GoodWorkerD' /\ GoodWorkerO'
    BY <1>11 DEF Restart, GoodWorkerD, GoodWorkerO, IdleD, IdleO
  <2>4. GoodPruner'
    <3>1. \A i \in ILIs : pruner'[i].todo \cup pruner'[i].kept = {}
      BY <1>11 DEF Restart, IdleP
    <3>2. object' = object /\ now' = now
      BY <1>11 DEF Restart
    <3> QED
      BY <3>1, <3>2, GoodEmpty DEF GoodPruner
  <2> QED
    BY <2>1, <2>2, <2>3, <2>4 DEF IndInv
<1> QED
    BY <1>1, <1>2, <1>3, <1>4, <1>6, <1>7, <1>8, <1>9, <1>10, <1>11 DEF Environment

\* A step of a DescendantReconciler keeps the inductive invariant.
LEMMA IndDescendant ==
    ASSUME IndInv, TypeOK', NEW k \in Kinds, DescendantReconciler(k)
    PROVE  IndInv'
<1> USE DEF objectVars, indexVars, queueVars
<1> DEFINE u == workerD[k].uid
           i == Labels[u].ili
<1>0. TypeOK
    BY DEF IndInv
<1>1. UNCHANGED <<now, objectVars, cache, workerO, pruner>>
    BY DEF DescendantReconciler, GetObjectD, FetchIndexD, PatchD, PatchRefusedD, CallFailsD
<1>2. Grows
    BY <1>0, <1>1 DEF Grows, TypeOK
<1>3. ASSUME workerD' = [workerD EXCEPT ![k] = IdleD] PROVE GoodWorkerD'
    BY <1>0, <1>1, <1>3 DEF IndInv, GoodWorkerD, IdleD, TypeOK
<1>4. ASSUME NEW n \in Names, GetObjectD(k, n) PROVE IndInv'
  <2>1. GoodWorkerD'
    <3>1. CASE UNCHANGED workerD
      BY <1>2, <3>1, Carry
    <3>2. ASSUME NEW v \in Live(n),
                 workerD' = [workerD EXCEPT ![k] = [IdleD EXCEPT !.pc = "fetch", !.uid = v]]
          PROVE  GoodWorkerD'
      <4>1. object[v] # "none" /\ GoodDescendants(Labels[v].ili, {}, object, now)
        BY GoodEmpty DEF Live
      <4> QED
        BY <1>0, <1>1, <3>2, <4>1 DEF IndInv, GoodWorkerD, IdleD, TypeOK
    <3> QED
      BY <1>4, <3>1, <3>2 DEF GetObjectD
  <2> QED
    BY <1>1, <1>2, <1>4, <2>1, Carry DEF GetObjectD, IndInv
<1>5. CASE FetchIndexD(k)
  <2> DEFINE index == cache[i]
             entry == NewDescendantEntry(index, u)
             body == index.descendantRegistry \cup {entry}
  <2>1. Labelled(u) /\ object[u] # "none"
    BY <1>0, <1>5 DEF FetchIndexD, TypeOK, IndInv, GoodWorkerD
  <2>2. GoodDescendants(i, index.descendantRegistry, object, now)
    BY <2>1, LabelledFacts DEF IndInv, GoodCache, GoodIndex
  <2>3. entry.uid = u /\ entry.createdAt = now /\ now \in Int
    BY <1>0 DEF NewDescendantEntry, TypeOK
  <2>4. ASSUME ~Registers(index.descendantRegistry, u) PROVE GoodDescendants(i, body, object, now)
    <3> HIDE DEF entry, index
    <3>1. UniquePerUid(body)
      BY <2>2, <2>3, <2>4 DEF GoodDescendants, UniquePerUid, Registers
    <3>2. \A e \in body : object[e.uid] # "none" /\ Labels[e.uid].ili = i /\ e.createdAt <= now
      BY <2>1, <2>2, <2>3 DEF GoodDescendants
    <3> QED
      BY <3>1, <3>2 DEF GoodDescendants
  <2>5. \/ workerD' = [workerD EXCEPT ![k] = IdleD]
        \/ /\ ~Registers(index.descendantRegistry, u)
           /\ workerD' = [workerD EXCEPT ![k] = [pc |-> "patch", uid |-> u, body |-> body]]
    BY <1>5 DEF FetchIndexD
  <2> HIDE DEF body, index, u
  <2>6. ASSUME ~Registers(index.descendantRegistry, u),
               workerD' = [workerD EXCEPT ![k] = [pc |-> "patch", uid |-> u, body |-> body]]
        PROVE  GoodWorkerD'
    BY <1>0, <1>1, <2>1, <2>4, <2>6 DEF IndInv, GoodWorkerD, TypeOK
  <2>7. GoodWorkerD'
    BY <1>3, <2>5, <2>6
  <2> QED
    BY <1>1, <1>2, <1>5, <2>7, Carry DEF FetchIndexD, IndInv
<1>6. CASE PatchD(k)
  <2> DEFINE index == [ili[i] EXCEPT !.descendantRegistry = workerD[k].body]
  <2>1. Labelled(u) /\ i \in ILIs
    BY <1>0, <1>6, LabelledFacts DEF PatchD, TypeOK
  <2>2. ili[i] \in Index /\ index \in Index
    BY <1>0, <2>1, PatchedTypes DEF TypeOK, WorkerD
  <2>3. GoodDescendants(i, workerD[k].body, object, now)
    BY <1>6 DEF PatchD, IndInv, GoodWorkerD
  <2>4. GoodIndex(i, index, object, now, reported)
    BY <2>1, <2>2, <2>3 DEF IndInv, GoodServer, GoodIndex, Index
  <2>5. WriteIndex(i, index)
    BY <1>6 DEF PatchD
  <2> HIDE DEF index, i
  <2>6. GoodServer' /\ GoodWatch'
    BY <1>1, <2>1, <2>2, <2>4, <2>5, GoodWrite
  <2>7. GoodWorkerD'
    BY <1>3, <1>6 DEF PatchD
  <2> QED
    BY <1>1, <1>2, <2>6, <2>7, Carry DEF IndInv
<1>7. CASE PatchRefusedD(k) \/ CallFailsD(k)
  <2>1. GoodWorkerD'
    BY <1>3, <1>7 DEF PatchRefusedD, CallFailsD
  <2> QED
    BY <1>1, <1>2, <1>7, <2>1, Carry DEF PatchRefusedD, CallFailsD, IndInv
<1> QED
    BY <1>4, <1>5, <1>6, <1>7 DEF DescendantReconciler

\* A step of an OutcomeReconciler keeps the inductive invariant.
LEMMA IndOutcome ==
    ASSUME IndInv, TypeOK', NEW k \in Kinds, OutcomeReconciler(k)
    PROVE  IndInv'
<1> USE DEF objectVars, indexVars, queueVars
<1> DEFINE u == workerO[k].uid
           i == Labels[u].ili
<1>0. TypeOK
    BY DEF IndInv
<1>1. UNCHANGED <<now, objectVars, cache, workerD, pruner>>
    BY DEF OutcomeReconciler, GetObjectO, FetchIndexO, PatchO, PatchRefusedO, CallFailsO
<1>2. Grows
    BY <1>0, <1>1 DEF Grows, TypeOK
<1>3. ASSUME workerO' = [workerO EXCEPT ![k] = IdleO] PROVE GoodWorkerO'
    BY <1>0, <1>1, <1>3 DEF IndInv, GoodWorkerO, IdleO, TypeOK
<1>4. ASSUME NEW n \in Names, GetObjectO(k, n) PROVE IndInv'
  <2>1. GoodWorkerO'
    <3>1. CASE UNCHANGED workerO
      BY <1>2, <3>1, Carry
    <3>2. ASSUME NEW v \in Live(n),
                 workerO' = [workerO EXCEPT ![k] =
                    [IdleO EXCEPT !.pc = "fetch", !.uid = v, !.outcomeType = outcome[v]]]
          PROVE  GoodWorkerO'
      <4>1. /\ outcome[v] # NoOutcome => <<v, outcome[v]>> \in reported
            /\ GoodOutcomes({}, reported)
        BY GoodEmpty DEF Live, IndInv, GoodReports
      <4> QED
        BY <1>0, <1>1, <3>2, <4>1 DEF IndInv, GoodWorkerO, IdleO, TypeOK
    <3> QED
      BY <1>4, <3>1, <3>2 DEF GetObjectO
  <2> QED
    BY <1>1, <1>2, <1>4, <2>1, Carry DEF GetObjectO, IndInv
<1>5. CASE FetchIndexO(k)
  <2> DEFINE index == cache[i]
             t == workerO[k].outcomeType
             entry == [derivedObjectUID |-> u, outcomeType |-> t]
             body == index.outcomeRegistry \cup {entry}
  <2>1. Labelled(u) /\ (t # NoOutcome => <<u, t>> \in reported)
    BY <1>0, <1>5 DEF FetchIndexO, TypeOK, IndInv, GoodWorkerO
  <2>2. GoodOutcomes(index.outcomeRegistry, reported)
    BY <2>1, LabelledFacts DEF IndInv, GoodCache, GoodIndex
  <2>3. entry.derivedObjectUID = u /\ entry.outcomeType = t
    OBVIOUS
  <2>4. ASSUME ~Records(index.outcomeRegistry, u), t # NoOutcome PROVE GoodOutcomes(body, reported)
    <3> HIDE DEF entry, index, t
    <3>1. UniquePerObject(body)
      BY <2>2, <2>3, <2>4 DEF GoodOutcomes, UniquePerObject, Records
    <3>2. \A o \in body : <<o.derivedObjectUID, o.outcomeType>> \in reported
      BY <2>1, <2>2, <2>3, <2>4 DEF GoodOutcomes
    <3> QED
      BY <3>1, <3>2 DEF GoodOutcomes
  <2> DEFINE next == [pc |-> "patch", uid |-> u, outcomeType |-> t, body |-> body]
  <2>5. \/ workerO' = [workerO EXCEPT ![k] = IdleO]
        \/ /\ ~Records(index.outcomeRegistry, u) /\ t # NoOutcome
           /\ workerO' = [workerO EXCEPT ![k] = next]
    BY <1>5 DEF FetchIndexO
  <2>6. next.uid = u /\ next.outcomeType = t /\ next.body = body
    OBVIOUS
  <2> HIDE DEF next, body, index, u, t
  <2>7. ASSUME ~Records(index.outcomeRegistry, u), t # NoOutcome,
               workerO' = [workerO EXCEPT ![k] = next]
        PROVE  GoodWorkerO'
    BY <1>0, <1>1, <2>1, <2>4, <2>6, <2>7 DEF IndInv, GoodWorkerO, TypeOK
  <2>8. GoodWorkerO'
    BY <1>3, <2>5, <2>7
  <2> QED
    BY <1>1, <1>2, <1>5, <2>8, Carry DEF FetchIndexO, IndInv
<1>6. CASE PatchO(k)
  <2> DEFINE index == [ili[i] EXCEPT !.outcomeRegistry = workerO[k].body]
  <2>1. Labelled(u) /\ i \in ILIs
    BY <1>0, <1>6, LabelledFacts DEF PatchO, TypeOK
  <2>2. ili[i] \in Index /\ index \in Index
    BY <1>0, <2>1, PatchedTypes DEF TypeOK, WorkerO
  <2>3. GoodOutcomes(workerO[k].body, reported)
    BY <1>6 DEF PatchO, IndInv, GoodWorkerO
  <2>4. GoodIndex(i, index, object, now, reported)
    BY <2>1, <2>2, <2>3 DEF IndInv, GoodServer, GoodIndex, Index
  <2>5. WriteIndex(i, index)
    BY <1>6 DEF PatchO
  <2> HIDE DEF index, i
  <2>6. GoodServer' /\ GoodWatch'
    BY <1>1, <2>1, <2>2, <2>4, <2>5, GoodWrite
  <2>7. GoodWorkerO'
    BY <1>3, <1>6 DEF PatchO
  <2> QED
    BY <1>1, <1>2, <2>6, <2>7, Carry DEF IndInv
<1>7. CASE PatchRefusedO(k) \/ CallFailsO(k)
  <2>1. GoodWorkerO'
    BY <1>3, <1>7 DEF PatchRefusedO, CallFailsO
  <2> QED
    BY <1>1, <1>2, <1>7, <2>1, Carry DEF PatchRefusedO, CallFailsO, IndInv
<1> QED
    BY <1>4, <1>5, <1>6, <1>7 DEF OutcomeReconciler

\* A step of pruneStaleDescendants keeps the inductive invariant.
LEMMA IndPrune ==
    ASSUME IndInv, TypeOK', NEW i \in ILIs, PruneStaleDescendants(i)
    PROVE  IndInv'
<1> USE DEF objectVars, indexVars, queueVars
<1>0. TypeOK
    BY DEF IndInv
<1>1. UNCHANGED <<now, objectVars, cache, workerD, workerO>>
    BY DEF PruneStaleDescendants, StartPrune, CheckEntry, CheckEntryFails, EndPrune, PatchPruned
<1>2. Grows
    BY <1>0, <1>1 DEF Grows, TypeOK
<1>3. ASSUME NEW p, pruner' = [pruner EXCEPT ![i] = p],
             GoodDescendants(i, p.todo \cup p.kept, object, now)
      PROVE  GoodPruner'
    BY <1>0, <1>1, <1>3 DEF IndInv, GoodPruner, TypeOK
<1>4. ASSUME pruner' = [pruner EXCEPT ![i] = IdleP] PROVE GoodPruner'
  <2>1. IdleP.todo \cup IdleP.kept = {}
    BY DEF IdleP
  <2> QED
    BY <1>3, <1>4, <2>1, GoodEmpty
<1>5. CASE StartPrune(i)
  <2> DEFINE p == [IdleP EXCEPT !.pc = "check", !.retentionDays = cache[i].retentionDays,
                                !.todo = cache[i].descendantRegistry]
  <2>1. p.todo \cup p.kept = cache[i].descendantRegistry
    BY DEF IdleP
  <2>2. GoodDescendants(i, p.todo \cup p.kept, object, now)
    BY <2>1 DEF IndInv, GoodCache, GoodIndex
  <2>3. pruner' = [pruner EXCEPT ![i] = p]
    BY <1>5 DEF StartPrune
  <2> HIDE DEF p
  <2>4. GoodPruner'
    BY <1>3, <2>2, <2>3
  <2> QED
    BY <1>1, <1>2, <1>5, <2>4, Carry DEF StartPrune, IndInv
<1>6. ASSUME NEW e \in pruner[i].todo, CheckEntry(i, e) \/ CheckEntryFails(i, e) PROVE IndInv'
  <2>1. pruner'[i].todo \cup pruner'[i].kept \subseteq pruner[i].todo \cup pruner[i].kept
    <3>1. pruner[i] \in Pruner
      BY <1>0 DEF TypeOK
    <3>2. /\ pruner'[i].todo = pruner[i].todo \ {e}
          /\ pruner'[i].kept \in {pruner[i].kept, pruner[i].kept \cup {e}}
      BY <1>0, <1>6, <3>1 DEF CheckEntry, CheckEntryFails, TypeOK, Pruner
    <3> QED
      BY <3>2
  <2>2. \A j \in ILIs \ {i} : pruner'[j] = pruner[j]
    BY <1>0, <1>6 DEF CheckEntry, CheckEntryFails, TypeOK
  <2>3. GoodDescendants(i, pruner'[i].todo \cup pruner'[i].kept, object, now)
    BY <2>1 DEF IndInv, GoodPruner, GoodDescendants, UniquePerUid
  <2>4. GoodPruner'
    BY <1>1, <2>2, <2>3 DEF IndInv, GoodPruner
  <2> QED
    BY <1>1, <1>2, <1>6, <2>4, Carry DEF CheckEntry, CheckEntryFails, IndInv
<1>7. CASE EndPrune(i)
    BY <1>1, <1>2, <1>4, <1>7, Carry DEF EndPrune, IndInv
<1>8. CASE PatchPruned(i)
  <2> DEFINE index == [ili[i] EXCEPT !.descendantRegistry = pruner[i].kept]
  <2>1. ili[i] \in Index /\ index \in Index
    BY <1>0, PatchedTypes DEF TypeOK, Pruner
  <2>2. GoodDescendants(i, pruner[i].kept, object, now)
    BY DEF IndInv, GoodPruner, GoodDescendants, UniquePerUid
  <2>3. GoodIndex(i, index, object, now, reported)
    BY <2>1, <2>2 DEF IndInv, GoodServer, GoodIndex, Index
  <2>4. WriteIndex(i, index)
    BY <1>8 DEF PatchPruned
  <2> HIDE DEF index
  <2>5. GoodServer' /\ GoodWatch'
    BY <1>1, <2>1, <2>3, <2>4, GoodWrite
  <2> QED
    BY <1>1, <1>2, <1>4, <1>8, <2>5, Carry DEF PatchPruned, IndInv
<1> QED
    BY <1>5, <1>6, <1>7, <1>8 DEF PruneStaleDescendants

\* A stuttering step keeps the inductive invariant.
LEMMA IndStutter == IndInv /\ TypeOK' /\ UNCHANGED vars => IndInv'
<1> SUFFICES ASSUME IndInv, TypeOK', UNCHANGED vars PROVE IndInv'
    OBVIOUS
<1>1. Grows
    BY DEF Grows, vars, IndInv, TypeOK
<1> QED
    BY <1>1, Carry DEF vars, IndInv

\* The inductive invariant holds in every reachable state.
LEMMA Inductive == Spec => []IndInv
<1>1. IndInv /\ TypeOK' /\ [Next]_vars => IndInv'
    BY IndEnvironment, IndDescendant, IndOutcome, IndPrune, IndStutter DEF Next
<1> QED
    BY <1>1, IndInit, TypeCorrect, PTL DEF Spec

\* No index ever lists a UID twice, for any number of controllers working
\* from caches of any age (the guard of DescendantReconciler.Reconcile).
THEOREM DescendantsAreUnique == Spec => []UniqueDescendants
<1>1. IndInv => UniqueDescendants
    BY DEF IndInv, GoodServer, GoodIndex, GoodDescendants, UniqueDescendants
<1> QED
    BY <1>1, Inductive, PTL

\* No index ever holds two outcomes of one object (OutcomeReconciler step 4).
THEOREM OutcomesAreUnique == Spec => []UniqueOutcomes
<1>1. IndInv => UniqueOutcomes
    BY DEF IndInv, GoodServer, GoodIndex, GoodOutcomes, UniqueOutcomes
<1> QED
    BY <1>1, Inductive, PTL

\* A recorded outcome was observed on the object (OutcomeReconciler step 5).
THEOREM OutcomesAreObserved == Spec => []OutcomesObserved
<1>1. IndInv => OutcomesObserved
    BY DEF IndInv, GoodServer, GoodIndex, GoodOutcomes, OutcomesObserved
<1> QED
    BY <1>1, Inductive, PTL

\* A registered descendant was created, is labelled for that very index and
\* is not dated in the future (DescendantReconciler.Reconcile).
THEOREM EntriesAreJustified == Spec => []EntriesJustified
<1>1. IndInv => EntriesJustified
    BY DEF IndInv, GoodServer, GoodIndex, GoodDescendants, EntriesJustified
<1> QED
    BY <1>1, Inductive, PTL

=============================================================================
