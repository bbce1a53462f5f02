------------------------- MODULE LineageSettled_proof -------------------------
(***************************************************************************)
(* What the merge patches of LineageRegistry cannot undo: an entry that is *)
(* in every copy of a registry (the API server, the watch, the cache, the  *)
(* lists in the hands of a worker or of a prune pass) is taken out by a    *)
(* retention check of that entry or by the deletion of the index only.     *)
(***************************************************************************)
EXTENDS LineageRegistry_proof

-----------------------------------------------------------------------------
(* An index that is not there has no registries. *)

AbsentIsEmpty ==
    \A i \in ILIs : ~ili[i].exists =>
        ili[i].descendantRegistry = {} /\ ili[i].outcomeRegistry = {}

\* A write of an index that exists or is empty keeps the empty ones empty.
LEMMA AbsentWrite ==
    ASSUME TypeOK, AbsentIsEmpty, NEW i \in ILIs, NEW index, WriteIndex(i, index),
           index.exists \/ index = NotFound
    PROVE  AbsentIsEmpty'
<1>1. NotFound.descendantRegistry = {} /\ NotFound.outcomeRegistry = {}
    BY DEF NotFound
<1> QED
    BY <1>1 DEF TypeOK, AbsentIsEmpty, WriteIndex

\* A merge patch of an index that is there leaves it there (client.Patch).
LEMMA PatchedExists ==
    ASSUME NEW index \in Index, index.exists
    PROVE  /\ \A days : [index EXCEPT !.retentionDays = days].exists
           /\ \A r : [index EXCEPT !.descendantRegistry = r].exists
           /\ \A r : [index EXCEPT !.outcomeRegistry = r].exists
    BY DEF Index

\* No step leaves a registry behind in an index that is not there.
LEMMA AbsentStep ==
    ASSUME TypeOK, AbsentIsEmpty, [Next]_vars
    PROVE  AbsentIsEmpty'
<1> USE DEF objectVars, indexVars, queueVars
<1>0. \A i \in ILIs : ili[i] \in Index
    BY DEF TypeOK
<1>1. ASSUME ili' = ili PROVE AbsentIsEmpty'
    BY <1>1 DEF AbsentIsEmpty
<1>2. ASSUME NEW i \in ILIs, DeleteIndex(i) PROVE AbsentIsEmpty'
    BY <1>2, AbsentWrite DEF DeleteIndex
<1>3. ASSUME NEW i \in ILIs, NEW p \in Principals, CreateIndex(i, p) PROVE AbsentIsEmpty'
  <2>1. buildILI(p).exists
    BY DEF buildILI, NotFound
  <2> QED
    BY <1>3, <2>1, AbsentWrite DEF CreateIndex
<1>4. ASSUME NEW i \in ILIs, NEW days \in Retentions, SetRetention(i, days) PROVE AbsentIsEmpty'
    BY <1>0, <1>4, AbsentWrite, PatchedExists DEF SetRetention
<1>5. ASSUME NEW k \in Kinds, PatchD(k) PROVE AbsentIsEmpty'
  <2> DEFINE i == Labels[workerD[k].uid].ili
             index == [ili[i] EXCEPT !.descendantRegistry = workerD[k].body]
  <2>1. i \in ILIs
    BY <1>5, LabelledFacts DEF PatchD, TypeOK
  <2>2. ili[i].exists /\ WriteIndex(i, index)
    BY <1>5 DEF PatchD
  <2>3. index.exists
    BY <1>0, <2>1, <2>2, PatchedExists
  <2> HIDE DEF i, index
  <2> QED
    BY <2>1, <2>2, <2>3, AbsentWrite
<1>6. ASSUME NEW k \in Kinds, PatchO(k) PROVE AbsentIsEmpty'
  <2> DEFINE i == Labels[workerO[k].uid].ili
             index == [ili[i] EXCEPT !.outcomeRegistry = workerO[k].body]
  <2>1. i \in ILIs
    BY <1>6, LabelledFacts DEF PatchO, TypeOK
  <2>2. ili[i].exists /\ WriteIndex(i, index)
    BY <1>6 DEF PatchO
  <2>3. index.exists
    BY <1>0, <2>1, <2>2, PatchedExists
  <2> HIDE DEF i, index
  <2> QED
    BY <2>1, <2>2, <2>3, AbsentWrite
<1>7. ASSUME NEW i \in ILIs, PatchPruned(i) PROVE AbsentIsEmpty'
    BY <1>0, <1>7, AbsentWrite, PatchedExists DEF PatchPruned
<1>8. CASE Environment
    BY <1>1, <1>2, <1>3, <1>4, <1>8
    DEF Environment, Tick, CreateObject, DeleteObject, ReportConditions, DeliverWatch, Resync, Restart
<1>9. ASSUME NEW k \in Kinds, DescendantReconciler(k) \/ OutcomeReconciler(k) PROVE AbsentIsEmpty'
    BY <1>1, <1>5, <1>6, <1>9
    DEF DescendantReconciler, GetObjectD, FetchIndexD, PatchRefusedD, CallFailsD,
        OutcomeReconciler, GetObjectO, FetchIndexO, PatchRefusedO, CallFailsO
<1>10. ASSUME NEW i \in ILIs, PruneStaleDescendants(i) PROVE AbsentIsEmpty'
    BY <1>1, <1>7, <1>10 DEF PruneStaleDescendants, StartPrune, EndPrune, CheckEntry, CheckEntryFails
<1>11. CASE UNCHANGED vars
    BY <1>1, <1>11 DEF vars
<1> QED
    BY <1>8, <1>9, <1>10, <1>11 DEF Next

\* In every reachable state an index that is not there has no registries.
LEMMA AbsentAlwaysEmpty == Spec => []AbsentIsEmpty
<1>1. Init => AbsentIsEmpty
  <2>1. ~NotFound.exists => NotFound.descendantRegistry = {} /\ NotFound.outcomeRegistry = {}
    BY DEF NotFound
  <2>2. \A i : LegacyIndex(i).exists
    BY DEF LegacyIndex, NotFound
  <2> QED
    BY <2>1, <2>2 DEF Init, AbsentIsEmpty
<1>2. TypeOK /\ AbsentIsEmpty /\ [Next]_vars => AbsentIsEmpty'
    BY AbsentStep
<1> QED
    BY <1>1, <1>2, TypeCorrect, PTL DEF Spec

-----------------------------------------------------------------------------
(* The copies of the registries, place by place. *)

OutcomeOnServer(i, o) ==
    /\ o \in ili[i].outcomeRegistry
    /\ \A n \in DOMAIN watch[i] : o \in watch[i][n].outcomeRegistry
OutcomeInCache(i, o) == o \in cache[i].outcomeRegistry
OutcomeInBodies(i, o) ==
    \A k \in Kinds :
        workerO[k].pc = "patch" /\ Labels[workerO[k].uid].ili = i => o \in workerO[k].body

DescendantOnServer(i, e) ==
    /\ e \in ili[i].descendantRegistry
    /\ \A n \in DOMAIN watch[i] : e \in watch[i][n].descendantRegistry
DescendantInCache(i, e) == e \in cache[i].descendantRegistry
DescendantInBodies(i, e) ==
    \A k \in Kinds :
        workerD[k].pc = "patch" /\ Labels[workerD[k].uid].ili = i => e \in workerD[k].body
DescendantInPruner(i, e) ==
    pruner[i].pc = "check" => e \in pruner[i].todo \cup pruner[i].kept

\* An outcome is settled when it is on the server, in the cache and in the
\* lists of the workers; the same after a step.
LEMMA SettledOutcomeForm ==
    ASSUME NEW i, NEW o
    PROVE  /\ SettledOutcome(i, o)
              <=> OutcomeOnServer(i, o) /\ OutcomeInCache(i, o) /\ OutcomeInBodies(i, o)
           /\ SettledOutcome(i, o)'
              <=> OutcomeOnServer(i, o)' /\ OutcomeInCache(i, o)' /\ OutcomeInBodies(i, o)'
    BY DEF SettledOutcome, OutcomeCopies, OutcomeOnServer, OutcomeInCache, OutcomeInBodies

\* A descendant is settled when it is on the server, in the cache, in the
\* lists of the workers and in that of a prune pass; the same after a step.
LEMMA SettledDescendantForm ==
    ASSUME NEW i, NEW e
    PROVE  /\ SettledDescendant(i, e)
              <=> /\ DescendantOnServer(i, e) /\ DescendantInCache(i, e)
                  /\ DescendantInBodies(i, e) /\ DescendantInPruner(i, e)
           /\ SettledDescendant(i, e)'
              <=> /\ DescendantOnServer(i, e)' /\ DescendantInCache(i, e)'
                  /\ DescendantInBodies(i, e)' /\ DescendantInPruner(i, e)'
    BY DEF SettledDescendant, DescendantCopies, DescendantOnServer, DescendantInCache,
           DescendantInBodies, DescendantInPruner

-----------------------------------------------------------------------------
(* What single changes of the state do to the copies. *)

\* After a write the server and the watch hold the versions they held and,
\* under the key written, the new one.
LEMMA WrittenVersions ==
    ASSUME TypeOK, NEW i \in ILIs, NEW j \in ILIs, NEW index \in Index, WriteIndex(j, index)
    PROVE  /\ ili'[i] = ili[i] \/ (i = j /\ ili'[i] = index)
           /\ \A n \in DOMAIN watch'[i] :
                 \/ n \in DOMAIN watch[i] /\ watch'[i][n] = watch[i][n]
                 \/ i = j /\ watch'[i][n] = index
<1>1. watch[j] \in Seq(Index) /\ ili'[j] = index /\ watch'[j] = Append(watch[j], index)
    BY DEF TypeOK, WriteIndex
<1>2. \A n \in DOMAIN Append(watch[j], index) :
         \/ n \in DOMAIN watch[j] /\ Append(watch[j], index)[n] = watch[j][n]
         \/ Append(watch[j], index)[n] = index
    BY <1>1
<1>3. i # j => ili'[i] = ili[i] /\ watch'[i] = watch[i]
    BY DEF TypeOK, WriteIndex
<1> QED
    BY <1>1, <1>2, <1>3

\* A write keeps an outcome on the server when the list written has it.
LEMMA OutcomeWrite ==
    ASSUME TypeOK, NEW i \in ILIs, NEW j \in ILIs, NEW index \in Index, WriteIndex(j, index),
           NEW o, OutcomeOnServer(i, o), i = j => o \in index.outcomeRegistry
    PROVE  OutcomeOnServer(i, o)'
    BY WrittenVersions DEF OutcomeOnServer

\* A write keeps a descendant on the server when the list written has it.
LEMMA DescendantWrite ==
    ASSUME TypeOK, NEW i \in ILIs, NEW j \in ILIs, NEW index \in Index, WriteIndex(j, index),
           NEW e, DescendantOnServer(i, e), i = j => e \in index.descendantRegistry
    PROVE  DescendantOnServer(i, e)'
    BY WrittenVersions DEF DescendantOnServer

\* A delivery moves the oldest version on the watch to the cache.
LEMMA DeliveredVersions ==
    ASSUME TypeOK, NEW i \in ILIs, NEW j \in ILIs, DeliverWatch(j)
    PROVE  /\ cache'[i] = cache[i] \/ \E n \in DOMAIN watch[i] : cache'[i] = watch[i][n]
           /\ \A n \in DOMAIN watch'[i] : \E m \in DOMAIN watch[i] : watch'[i][n] = watch[i][m]
<1>1. watch[j] \in Seq(Index) /\ watch[j] # <<>>
    BY DEF TypeOK, DeliverWatch
<1>2. 1 \in DOMAIN watch[j] /\ Head(watch[j]) = watch[j][1]
    BY <1>1
<1>3. \A n \in DOMAIN Tail(watch[j]) : n + 1 \in DOMAIN watch[j] /\ Tail(watch[j])[n] = watch[j][n + 1]
    BY <1>1
<1>4. cache'[j] = Head(watch[j]) /\ watch'[j] = Tail(watch[j])
    BY DEF TypeOK, DeliverWatch
<1>5. i # j => cache'[i] = cache[i] /\ watch'[i] = watch[i]
    BY DEF TypeOK, DeliverWatch
<1>6. CASE i = j
    BY <1>2, <1>3, <1>4, <1>6
<1>7. CASE i # j
    BY <1>5, <1>7
<1> QED
    BY <1>6, <1>7

\* Patching another field leaves a registry as it was, patching it replaces it.
LEMMA PatchedRegistries ==
    ASSUME NEW index \in Index
    PROVE  /\ \A days : /\ [index EXCEPT !.retentionDays = days].descendantRegistry
                              = index.descendantRegistry
                        /\ [index EXCEPT !.retentionDays = days].outcomeRegistry
                              = index.outcomeRegistry
           /\ \A r : /\ [index EXCEPT !.descendantRegistry = r].descendantRegistry = r
                     /\ [index EXCEPT !.descendantRegistry = r].outcomeRegistry
                           = index.outcomeRegistry
           /\ \A r : /\ [index EXCEPT !.outcomeRegistry = r].descendantRegistry
                           = index.descendantRegistry
                     /\ [index EXCEPT !.outcomeRegistry = r].outcomeRegistry = r
    BY DEF Index

-----------------------------------------------------------------------------
(* Outcomes. *)

\* Users, deliveries, resyncs and restarts leave a settled outcome settled.
LEMMA OutcomeEnvironment ==
    ASSUME TypeOK, AbsentIsEmpty, Environment, NEW i \in ILIs, NEW o,
           SettledOutcome(i, o), ili'[i].exists
    PROVE  SettledOutcome(i, o)'
<1> USE DEF objectVars, indexVars, queueVars
<1>0. OutcomeOnServer(i, o) /\ OutcomeInCache(i, o) /\ OutcomeInBodies(i, o)
    BY SettledOutcomeForm
<1>1. ASSUME UNCHANGED <<ili, watch, cache, workerO>> PROVE SettledOutcome(i, o)'
    BY <1>0, <1>1, SettledOutcomeForm DEF OutcomeOnServer, OutcomeInCache, OutcomeInBodies
<1>2. ASSUME NEW j \in ILIs, NEW index \in Index, WriteIndex(j, index), UNCHANGED <<cache, workerO>>,
             i = j => o \in index.outcomeRegistry
      PROVE  SettledOutcome(i, o)'
  <2>1. OutcomeOnServer(i, o)'
    BY <1>0, <1>2, OutcomeWrite
  <2>2. OutcomeInCache(i, o)' /\ OutcomeInBodies(i, o)'
    BY <1>0, <1>2 DEF OutcomeInCache, OutcomeInBodies
  <2> QED
    BY <2>1, <2>2, SettledOutcomeForm
<1>3. ASSUME NEW j \in ILIs, DeleteIndex(j) PROVE SettledOutcome(i, o)'
  <2>1. i # j
    BY <1>3 DEF DeleteIndex, WriteIndex, NotFound, TypeOK
  <2> QED
    BY <1>2, <1>3, <2>1, IndexTypes DEF DeleteIndex
<1>4. ASSUME NEW j \in ILIs, NEW p \in Principals, CreateIndex(j, p) PROVE SettledOutcome(i, o)'
  <2>1. i # j
    BY <1>0, <1>4 DEF CreateIndex, AbsentIsEmpty, OutcomeOnServer
  <2> QED
    BY <1>2, <1>4, <2>1, IndexTypes DEF CreateIndex, buildILI
<1>5. ASSUME NEW j \in ILIs, NEW days \in Retentions, SetRetention(j, days) PROVE SettledOutcome(i, o)'
  <2>1. ili[j] \in Index /\ [ili[j] EXCEPT !.retentionDays = days] \in Index
    BY PatchedTypes, ConstantsAssumption DEF TypeOK
  <2>2. i = j => o \in [ili[j] EXCEPT !.retentionDays = days].outcomeRegistry
    BY <1>0, <2>1, PatchedRegistries DEF OutcomeOnServer
  <2> QED
    BY <1>2, <1>5, <2>1, <2>2 DEF SetRetention
<1>6. ASSUME NEW j \in ILIs, DeliverWatch(j) PROVE SettledOutcome(i, o)'
  <2>1. OutcomeOnServer(i, o)' /\ OutcomeInCache(i, o)'
    <3>1. ili' = ili
      BY <1>6 DEF DeliverWatch
    <3> QED
      BY <1>0, <1>6, <3>1, DeliveredVersions DEF OutcomeOnServer, OutcomeInCache
  <2>2. OutcomeInBodies(i, o)'
    BY <1>0, <1>6 DEF DeliverWatch, OutcomeInBodies
  <2> QED
    BY <2>1, <2>2, SettledOutcomeForm
<1>7. CASE Restart
  <2>1. OutcomeOnServer(i, o)' /\ OutcomeInCache(i, o)'
    BY <1>0, <1>7 DEF Restart, OutcomeOnServer, OutcomeInCache
  <2>2. OutcomeInBodies(i, o)'
    BY <1>7 DEF Restart, IdleO, OutcomeInBodies
  <2> QED
    BY <2>1, <2>2, SettledOutcomeForm
<1> QED
    BY <1>1, <1>3, <1>4, <1>5, <1>6, <1>7
    DEF Environment, Tick, CreateObject, DeleteObject, ReportConditions, Resync

\* The writers of the other registry patch indexes and leave a settled
\* outcome settled (DescendantReconciler, pruneStaleDescendants).
LEMMA OutcomeOtherWriters ==
    ASSUME TypeOK, NEW i \in ILIs, NEW o, SettledOutcome(i, o),
           \/ \E k \in Kinds : DescendantReconciler(k)
           \/ \E j \in ILIs : PruneStaleDescendants(j)
    PROVE  SettledOutcome(i, o)'
<1> USE DEF objectVars, indexVars, queueVars
<1>0. OutcomeOnServer(i, o) /\ OutcomeInCache(i, o) /\ OutcomeInBodies(i, o)
    BY SettledOutcomeForm
<1>1. UNCHANGED <<cache, workerO>>
    BY DEF DescendantReconciler, GetObjectD, FetchIndexD, PatchD, PatchRefusedD, CallFailsD,
           PruneStaleDescendants, StartPrune, EndPrune, PatchPruned, CheckEntry, CheckEntryFails
<1>2. OutcomeInCache(i, o)' /\ OutcomeInBodies(i, o)'
    BY <1>0, <1>1 DEF OutcomeInCache, OutcomeInBodies
<1>3. ASSUME NEW j \in ILIs, NEW r \in SUBSET DescendantEntry,
             WriteIndex(j, [ili[j] EXCEPT !.descendantRegistry = r])
      PROVE  OutcomeOnServer(i, o)'
  <2> DEFINE index == [ili[j] EXCEPT !.descendantRegistry = r]
  <2>1. ili[j] \in Index /\ index \in Index
    BY PatchedTypes DEF TypeOK
  <2>2. i = j => o \in index.outcomeRegistry
    BY <1>0, <2>1, PatchedRegistries DEF OutcomeOnServer
  <2> QED
    BY <1>0, <1>3, <2>1, <2>2, OutcomeWrite
<1>4. ASSUME NEW k \in Kinds, PatchD(k) PROVE OutcomeOnServer(i, o)'
  <2> DEFINE j == Labels[workerD[k].uid].ili
  <2>1. j \in ILIs /\ workerD[k].body \in SUBSET DescendantEntry
    BY <1>4, LabelledFacts DEF PatchD, TypeOK, WorkerD
  <2>2. WriteIndex(j, [ili[j] EXCEPT !.descendantRegistry = workerD[k].body])
    BY <1>4 DEF PatchD
  <2> HIDE DEF j
  <2> QED
    BY <1>3, <2>1, <2>2
<1>5. ASSUME NEW j \in ILIs, PatchPruned(j) PROVE OutcomeOnServer(i, o)'
  <2>1. pruner[j].kept \in SUBSET DescendantEntry
    BY DEF TypeOK, Pruner
  <2> QED
    BY <1>3, <1>5, <2>1 DEF PatchPruned
<1>6. ASSUME UNCHANGED <<ili, watch>> PROVE OutcomeOnServer(i, o)'
    BY <1>0, <1>6 DEF OutcomeOnServer
<1>7. OutcomeOnServer(i, o)'
    BY <1>4, <1>5, <1>6
    DEF DescendantReconciler, GetObjectD, FetchIndexD, PatchRefusedD, CallFailsD,
        PruneStaleDescendants, StartPrune, EndPrune, CheckEntry, CheckEntryFails
<1> QED
    BY <1>2, <1>7, SettledOutcomeForm

\* An OutcomeReconciler that works from a stale list leaves a settled outcome
\* settled: the cache it reads has it, and so has the list it patches.
LEMMA OutcomeWriter ==
    ASSUME TypeOK, NEW i \in ILIs, NEW o, SettledOutcome(i, o),
           NEW k \in Kinds, OutcomeReconciler(k)
    PROVE  SettledOutcome(i, o)'
<1> USE DEF objectVars, indexVars, queueVars
<1> DEFINE u == workerO[k].uid
           j == Labels[u].ili
<1>0. OutcomeOnServer(i, o) /\ OutcomeInCache(i, o) /\ OutcomeInBodies(i, o)
    BY SettledOutcomeForm
<1>1. OutcomeInCache(i, o)'
    BY <1>0 DEF OutcomeInCache, OutcomeReconciler, GetObjectO, FetchIndexO, PatchO, PatchRefusedO, CallFailsO
<1>2. ASSUME NEW w, workerO' = [workerO EXCEPT ![k] = w],
             w.pc = "patch" /\ Labels[w.uid].ili = i => o \in w.body
      PROVE  OutcomeInBodies(i, o)'
    BY <1>0, <1>2 DEF TypeOK, OutcomeInBodies
<1>3. ASSUME workerO' = [workerO EXCEPT ![k] = IdleO] PROVE OutcomeInBodies(i, o)'
  <2>1. IdleO.pc # "patch"
    BY DEF IdleO
  <2> QED
    BY <1>2, <1>3, <2>1
<1>4. ASSUME UNCHANGED <<ili, watch>> PROVE OutcomeOnServer(i, o)'
    BY <1>0, <1>4 DEF OutcomeOnServer
<1>5. ASSUME NEW n \in Names, GetObjectO(k, n) PROVE SettledOutcome(i, o)'
  <2>1. ASSUME NEW v, workerO' = [workerO EXCEPT ![k] =
                    [IdleO EXCEPT !.pc = "fetch", !.uid = v, !.outcomeType = outcome[v]]]
        PROVE  OutcomeInBodies(i, o)'
    <3>1. [IdleO EXCEPT !.pc = "fetch", !.uid = v, !.outcomeType = outcome[v]].pc # "patch"
      BY DEF IdleO
    <3> QED
      BY <1>2, <2>1, <3>1
  <2>2. ASSUME UNCHANGED workerO PROVE OutcomeInBodies(i, o)'
    BY <1>0, <2>2 DEF OutcomeInBodies
  <2>3. OutcomeInBodies(i, o)'
    BY <1>5, <2>1, <2>2 DEF GetObjectO
  <2> QED
    BY <1>1, <1>4, <1>5, <2>3, SettledOutcomeForm DEF GetObjectO
<1>6. CASE FetchIndexO(k)
  <2> DEFINE body == cache[j].outcomeRegistry
                        \cup {[derivedObjectUID |-> u, outcomeType |-> workerO[k].outcomeType]}
             next == [pc |-> "patch", uid |-> u, outcomeType |-> workerO[k].outcomeType, body |-> body]
  <2>1. workerO' = [workerO EXCEPT ![k] = IdleO] \/ workerO' = [workerO EXCEPT ![k] = next]
    BY <1>6 DEF FetchIndexO
  <2>2. Labels[next.uid].ili = i => o \in next.body
    BY <1>0 DEF OutcomeInCache
  <2> HIDE DEF next
  <2>3. OutcomeInBodies(i, o)'
    BY <1>2, <1>3, <2>1, <2>2
  <2> QED
    BY <1>1, <1>4, <1>6, <2>3, SettledOutcomeForm DEF FetchIndexO
<1>7. CASE PatchO(k)
  <2> DEFINE index == [ili[j] EXCEPT !.outcomeRegistry = workerO[k].body]
  <2>1. j \in ILIs /\ workerO[k].body \in SUBSET OutcomeEntry
    BY <1>7, LabelledFacts DEF PatchO, TypeOK, WorkerO
  <2>2. ili[j] \in Index /\ index \in Index
    BY <2>1, PatchedTypes DEF TypeOK
  <2>3. i = j => o \in index.outcomeRegistry
    BY <1>0, <1>7, <2>2, PatchedRegistries DEF OutcomeInBodies, PatchO
  <2>4. WriteIndex(j, index)
    BY <1>7 DEF PatchO
  <2> HIDE DEF index, j
  <2>5. OutcomeOnServer(i, o)'
    BY <1>0, <2>1, <2>2, <2>3, <2>4, OutcomeWrite
  <2> QED
    BY <1>1, <1>3, <1>7, <2>5, SettledOutcomeForm DEF PatchO
<1>8. CASE PatchRefusedO(k) \/ CallFailsO(k)
    BY <1>1, <1>3, <1>4, <1>8, SettledOutcomeForm DEF PatchRefusedO, CallFailsO
<1> QED
    BY <1>5, <1>6, <1>7, <1>8 DEF OutcomeReconciler

\* Once in every copy, a recorded outcome stays in every copy as long as its
\* index is there: no lag, retry, restart or concurrent writer takes it out
\* (OutcomeReconciler appends to the list that it read from the cache).
THEOREM SettledOutcomesAreKept == Spec => SettledOutcomesStay
<1> DEFINE Stays == \A i \in ILIs : \A o \in ili[i].outcomeRegistry :
                       SettledOutcome(i, o) /\ ili'[i].exists => SettledOutcome(i, o)'
<1>1. TypeOK /\ AbsentIsEmpty /\ Next => Stays
    BY OutcomeEnvironment, OutcomeOtherWriters, OutcomeWriter DEF Next
<1>2. TypeOK /\ AbsentIsEmpty /\ [Next]_vars => [Stays]_vars
    BY <1>1
<1> QED
    BY <1>2, TypeCorrect, AbsentAlwaysEmpty, PTL DEF Spec, SettledOutcomesStay

-----------------------------------------------------------------------------
(* Descendants. *)

\* Users, deliveries, resyncs and restarts leave a settled entry settled.
LEMMA DescendantEnvironment ==
    ASSUME TypeOK, AbsentIsEmpty, Environment, NEW i \in ILIs, NEW e,
           SettledDescendant(i, e), ili'[i].exists
    PROVE  SettledDescendant(i, e)'
<1> USE DEF objectVars, indexVars, queueVars
<1>0. /\ DescendantOnServer(i, e) /\ DescendantInCache(i, e)
      /\ DescendantInBodies(i, e) /\ DescendantInPruner(i, e)
    BY SettledDescendantForm
<1>1. ASSUME UNCHANGED <<workerD, pruner>>
      PROVE  DescendantInBodies(i, e)' /\ DescendantInPruner(i, e)'
    BY <1>0, <1>1 DEF DescendantInBodies, DescendantInPruner
<1>2. ASSUME UNCHANGED <<ili, watch, cache, workerD, pruner>> PROVE SettledDescendant(i, e)'
  <2>1. DescendantOnServer(i, e)' /\ DescendantInCache(i, e)'
    BY <1>0, <1>2 DEF DescendantOnServer, DescendantInCache
  <2> QED
    BY <1>1, <1>2, <2>1, SettledDescendantForm
<1>3. ASSUME NEW j \in ILIs, NEW index \in Index, WriteIndex(j, index),
             UNCHANGED <<cache, workerD, pruner>>, i = j => e \in index.descendantRegistry
      PROVE  SettledDescendant(i, e)'
  <2>1. DescendantOnServer(i, e)'
    BY <1>0, <1>3, DescendantWrite
  <2>2. DescendantInCache(i, e)'
    BY <1>0, <1>3 DEF DescendantInCache
  <2> QED
    BY <1>1, <1>3, <2>1, <2>2, SettledDescendantForm
<1>4. ASSUME NEW j \in ILIs, DeleteIndex(j) PROVE SettledDescendant(i, e)'
  <2>1. i # j
    BY <1>4 DEF DeleteIndex, WriteIndex, NotFound, TypeOK
  <2> QED
    BY <1>3, <1>4, <2>1, IndexTypes DEF DeleteIndex
<1>5. ASSUME NEW j \in ILIs, NEW p \in Principals, CreateIndex(j, p) PROVE SettledDescendant(i, e)'
  <2>1. i # j
    BY <1>0, <1>5 DEF CreateIndex, AbsentIsEmpty, DescendantOnServer
  <2> QED
    BY <1>3, <1>5, <2>1, IndexTypes DEF CreateIndex, buildILI
<1>6. ASSUME NEW j \in ILIs, NEW days \in Retentions, SetRetention(j, days)
      PROVE  SettledDescendant(i, e)'
  <2>1. ili[j] \in Index /\ [ili[j] EXCEPT !.retentionDays = days] \in Index
    BY PatchedTypes, ConstantsAssumption DEF TypeOK
  <2>2. i = j => e \in [ili[j] EXCEPT !.retentionDays = days].descendantRegistry
    BY <1>0, <2>1, PatchedRegistries DEF DescendantOnServer
  <2> QED
    BY <1>3, <1>6, <2>1, <2>2 DEF SetRetention
<1>7. ASSUME NEW j \in ILIs, DeliverWatch(j) PROVE SettledDescendant(i, e)'
  <2>1. ili' = ili /\ UNCHANGED <<workerD, pruner>>
    BY <1>7 DEF DeliverWatch
  <2>2. DescendantOnServer(i, e)' /\ DescendantInCache(i, e)'
    BY <1>0, <1>7, <2>1, DeliveredVersions DEF DescendantOnServer, DescendantInCache
  <2> QED
    BY <1>1, <2>1, <2>2, SettledDescendantForm
<1>8. CASE Restart
  <2>1. DescendantOnServer(i, e)' /\ DescendantInCache(i, e)'
    BY <1>0, <1>8 DEF Restart, DescendantOnServer, DescendantInCache
  <2>2. DescendantInBodies(i, e)' /\ DescendantInPruner(i, e)'
    BY <1>8 DEF Restart, IdleD, IdleP, DescendantInBodies, DescendantInPruner
  <2> QED
    BY <2>1, <2>2, SettledDescendantForm
<1> QED
    BY <1>2, <1>4, <1>5, <1>6, <1>7, <1>8
    DEF Environment, Tick, CreateObject, DeleteObject, ReportConditions, Resync

\* The writers of the outcomes leave a settled entry settled.
LEMMA DescendantOtherWriter ==
    ASSUME TypeOK, NEW i \in ILIs, NEW e, SettledDescendant(i, e),
           NEW k \in Kinds, OutcomeReconciler(k)
    PROVE  SettledDescendant(i, e)'
<1> USE DEF objectVars, indexVars, queueVars
<1> DEFINE j == Labels[workerO[k].uid].ili
           index == [ili[j] EXCEPT !.outcomeRegistry = workerO[k].body]
<1>0. /\ DescendantOnServer(i, e) /\ DescendantInCache(i, e)
      /\ DescendantInBodies(i, e) /\ DescendantInPruner(i, e)
    BY SettledDescendantForm
<1>1. UNCHANGED <<cache, workerD, pruner>>
    BY DEF OutcomeReconciler, GetObjectO, FetchIndexO, PatchO, PatchRefusedO, CallFailsO
<1>2. DescendantInCache(i, e)' /\ DescendantInBodies(i, e)' /\ DescendantInPruner(i, e)'
    BY <1>0, <1>1 DEF DescendantInCache, DescendantInBodies, DescendantInPruner
<1>3. CASE PatchO(k)
  <2>1. j \in ILIs /\ workerO[k].body \in SUBSET OutcomeEntry
    BY <1>3, LabelledFacts DEF PatchO, TypeOK, WorkerO
  <2>2. ili[j] \in Index /\ index \in Index
    BY <2>1, PatchedTypes DEF TypeOK
  <2>3. i = j => e \in index.descendantRegistry
    BY <1>0, <2>2, PatchedRegistries DEF DescendantOnServer
  <2>4. WriteIndex(j, index)
    BY <1>3 DEF PatchO
  <2> HIDE DEF index, j
  <2>5. DescendantOnServer(i, e)'
    BY <1>0, <2>1, <2>2, <2>3, <2>4, DescendantWrite
  <2> QED
    BY <1>2, <2>5, SettledDescendantForm
<1>4. CASE UNCHANGED <<ili, watch>>
  <2>1. DescendantOnServer(i, e)'
    BY <1>0, <1>4 DEF DescendantOnServer
  <2> QED
    BY <1>2, <2>1, SettledDescendantForm
<1> QED
    BY <1>3, <1>4 DEF OutcomeReconciler, GetObjectO, FetchIndexO, PatchRefusedO, CallFailsO

\* A DescendantReconciler that works from a stale list leaves a settled entry
\* settled: the cache it reads has it, and so has the list it patches.
LEMMA DescendantWriter ==
    ASSUME TypeOK, NEW i \in ILIs, NEW e, SettledDescendant(i, e),
           NEW k \in Kinds, DescendantReconciler(k)
    PROVE  SettledDescendant(i, e)'
<1> USE DEF objectVars, indexVars, queueVars
<1> DEFINE u == workerD[k].uid
           j == Labels[u].ili
<1>0. /\ DescendantOnServer(i, e) /\ DescendantInCache(i, e)
      /\ DescendantInBodies(i, e) /\ DescendantInPruner(i, e)
    BY SettledDescendantForm
<1>1. DescendantInCache(i, e)' /\ DescendantInPruner(i, e)'
  <2>1. UNCHANGED <<cache, pruner>>
    BY DEF DescendantReconciler, GetObjectD, FetchIndexD, PatchD, PatchRefusedD, CallFailsD
  <2> QED
    BY <1>0, <2>1 DEF DescendantInCache, DescendantInPruner
<1>2. ASSUME NEW w, workerD' = [workerD EXCEPT ![k] = w],
             w.pc = "patch" /\ Labels[w.uid].ili = i => e \in w.body
      PROVE  DescendantInBodies(i, e)'
    BY <1>0, <1>2 DEF TypeOK, DescendantInBodies
<1>3. ASSUME workerD' = [workerD EXCEPT ![k] = IdleD] PROVE DescendantInBodies(i, e)'
  <2>1. IdleD.pc # "patch"
    BY DEF IdleD
  <2> QED
    BY <1>2, <1>3, <2>1
<1>4. ASSUME UNCHANGED <<ili, watch>> PROVE DescendantOnServer(i, e)'
    BY <1>0, <1>4 DEF DescendantOnServer
<1>5. ASSUME NEW n \in Names, GetObjectD(k, n) PROVE SettledDescendant(i, e)'
  <2>1. ASSUME NEW v, workerD' = [workerD EXCEPT ![k] = [IdleD EXCEPT !.pc = "fetch", !.uid = v]]
        PROVE  DescendantInBodies(i, e)'
    <3>1. [IdleD EXCEPT !.pc = "fetch", !.uid = v].pc # "patch"
      BY DEF IdleD
    <3> QED
      BY <1>2, <2>1, <3>1
  <2>2. ASSUME UNCHANGED workerD PROVE DescendantInBodies(i, e)'
    BY <1>0, <2>2 DEF DescendantInBodies
  <2>3. DescendantInBodies(i, e)'
    BY <1>5, <2>1, <2>2 DEF GetObjectD
  <2> QED
    BY <1>1, <1>4, <1>5, <2>3, SettledDescendantForm DEF GetObjectD
<1>6. CASE FetchIndexD(k)
  <2> DEFINE index == cache[j]
             next == [pc |-> "patch", uid |-> u,
                      body |-> index.descendantRegistry \cup {NewDescendantEntry(index, u)}]
  <2>1. workerD' = [workerD EXCEPT ![k] = IdleD] \/ workerD' = [workerD EXCEPT ![k] = next]
    BY <1>6 DEF FetchIndexD
  <2>2. Labels[next.uid].ili = i => e \in next.body
    BY <1>0 DEF DescendantInCache
  <2> HIDE DEF next
  <2>3. DescendantInBodies(i, e)'
    BY <1>2, <1>3, <2>1, <2>2
  <2> QED
    BY <1>1, <1>4, <1>6, <2>3, SettledDescendantForm DEF FetchIndexD
<1>7. CASE PatchD(k)
  <2> DEFINE index == [ili[j] EXCEPT !.descendantRegistry = workerD[k].body]
  <2>1. j \in ILIs /\ workerD[k].body \in SUBSET DescendantEntry
    BY <1>7, LabelledFacts DEF PatchD, TypeOK, WorkerD
  <2>2. ili[j] \in Index /\ index \in Index
    BY <2>1, PatchedTypes DEF TypeOK
  <2>3. i = j => e \in index.descendantRegistry
    BY <1>0, <1>7, <2>2, PatchedRegistries DEF DescendantInBodies, PatchD
  <2>4. WriteIndex(j, index)
    BY <1>7 DEF PatchD
  <2> HIDE DEF index, j
  <2>5. DescendantOnServer(i, e)'
    BY <1>0, <2>1, <2>2, <2>3, <2>4, DescendantWrite
  <2> QED
    BY <1>1, <1>3, <1>7, <2>5, SettledDescendantForm DEF PatchD
<1>8. CASE PatchRefusedD(k) \/ CallFailsD(k)
    BY <1>1, <1>3, <1>4, <1>8, SettledDescendantForm DEF PatchRefusedD, CallFailsD
<1> QED
    BY <1>5, <1>6, <1>7, <1>8 DEF DescendantReconciler

\* A prune pass takes a settled entry out of its list only when it checks
\* that entry and finds it expired (pruneStaleDescendants).
LEMMA DescendantPrune ==
    ASSUME TypeOK, NEW i \in ILIs, NEW e \in ili[i].descendantRegistry, SettledDescendant(i, e),
           NEW j \in ILIs, PruneStaleDescendants(j)
    PROVE  SettledDescendant(i, e)' \/ (e \in pruner[i].todo /\ Expired(i, e))
<1> USE DEF objectVars, indexVars, queueVars
<1>0. /\ DescendantOnServer(i, e) /\ DescendantInCache(i, e)
      /\ DescendantInBodies(i, e) /\ DescendantInPruner(i, e)
    BY SettledDescendantForm
<1>1. DescendantInCache(i, e)' /\ DescendantInBodies(i, e)'
  <2>1. UNCHANGED <<cache, workerD>>
    BY DEF PruneStaleDescendants, StartPrune, EndPrune, PatchPruned, CheckEntry, CheckEntryFails
  <2> QED
    BY <1>0, <2>1 DEF DescendantInCache, DescendantInBodies
<1>2. ASSUME UNCHANGED <<ili, watch>> PROVE DescendantOnServer(i, e)'
    BY <1>0, <1>2 DEF DescendantOnServer
<1>3. ASSUME NEW p, pruner' = [pruner EXCEPT ![j] = p],
             i = j /\ p.pc = "check" => e \in p.todo \cup p.kept
      PROVE  DescendantInPruner(i, e)'
    BY <1>0, <1>3 DEF TypeOK, DescendantInPruner
<1>4. ASSUME pruner' = [pruner EXCEPT ![j] = IdleP] PROVE DescendantInPruner(i, e)'
  <2>1. IdleP.pc # "check"
    BY DEF IdleP
  <2> QED
    BY <1>3, <1>4, <2>1
<1>5. CASE StartPrune(j)
  <2> DEFINE p == [IdleP EXCEPT !.pc = "check", !.retentionDays = cache[j].retentionDays,
                                !.todo = cache[j].descendantRegistry]
  <2>1. pruner' = [pruner EXCEPT ![j] = p]
    BY <1>5 DEF StartPrune
  <2>2. i = j => e \in p.todo
    BY <1>0 DEF DescendantInCache, IdleP
  <2> HIDE DEF p
  <2>3. DescendantInPruner(i, e)'
    BY <1>3, <2>1, <2>2
  <2> QED
    BY <1>1, <1>2, <1>5, <2>3, SettledDescendantForm DEF StartPrune
<1>6. CASE EndPrune(j)
    BY <1>1, <1>2, <1>4, <1>6, SettledDescendantForm DEF EndPrune
<1>7. CASE PatchPruned(j)
  <2> DEFINE index == [ili[j] EXCEPT !.descendantRegistry = pruner[j].kept]
  <2>1. pruner[j].kept \in SUBSET DescendantEntry
    BY DEF TypeOK, Pruner
  <2>2. ili[j] \in Index /\ index \in Index
    BY <2>1, PatchedTypes DEF TypeOK
  <2>3. i = j => e \in index.descendantRegistry
    BY <1>0, <1>7, <2>2, PatchedRegistries DEF DescendantInPruner, PatchPruned
  <2>4. WriteIndex(j, index)
    BY <1>7 DEF PatchPruned
  <2> HIDE DEF index
  <2>5. DescendantOnServer(i, e)'
    BY <1>0, <2>2, <2>3, <2>4, DescendantWrite
  <2> QED
    BY <1>1, <1>4, <1>7, <2>5, SettledDescendantForm DEF PatchPruned
<1>8. ASSUME NEW f \in pruner[j].todo, CheckEntry(j, f) \/ CheckEntryFails(j, f),
             ~(e \in pruner[i].todo /\ Expired(i, e))
      PROVE  SettledDescendant(i, e)'
  <2>1. pruner[j] \in Pruner
    BY DEF TypeOK
  <2>2. i # j => pruner'[i] = pruner[i]
    BY <1>8 DEF CheckEntry, CheckEntryFails, TypeOK
  <2>3. /\ pruner'[j].pc = "check" /\ pruner[j].pc = "check"
        /\ pruner'[j].todo = pruner[j].todo \ {f}
        /\ \/ pruner'[j].kept = pruner[j].kept \cup {f}
           \/ /\ ~WithinRetention(f, pruner[j].retentionDays) /\ Live(NameOf[f.uid]) = {}
              /\ pruner'[j].kept = pruner[j].kept
    BY <1>8, <2>1 DEF CheckEntry, CheckEntryFails, TypeOK, Pruner
  <2>4. ASSUME i = j, f = e, ~WithinRetention(f, pruner[j].retentionDays), Live(NameOf[f.uid]) = {}
        PROVE  FALSE
    <3>1. e.createdAt \in Int /\ now \in Int /\ RetentionWindow(pruner[j].retentionDays) \in Int
      BY <2>1, ConstantsAssumption DEF TypeOK, Index, DescendantEntry, RetentionWindow, Pruner
    <3>2. Expired(i, e)
      BY <2>4, <3>1 DEF WithinRetention, Expired
    <3> QED
      BY <1>8, <2>4, <3>2
  <2>5. DescendantInPruner(i, e)'
    BY <1>0, <2>2, <2>3, <2>4 DEF DescendantInPruner
  <2> QED
    BY <1>1, <1>2, <1>8, <2>5, SettledDescendantForm DEF CheckEntry, CheckEntryFails
<1> QED
    BY <1>5, <1>6, <1>7, <1>8 DEF PruneStaleDescendants

\* Once in every copy, a registered descendant stays in every copy as long as
\* its index is there, until a retention check finds it expired: no lag,
\* retry, restart or concurrent writer takes it out ("never modified or
\* removed except by the retention enforcement loop", DescendantRegistry).
THEOREM SettledEntriesAreKept == Spec => SettledEntriesStay
<1> DEFINE Stays ==
        \A i \in ILIs : \A e \in ili[i].descendantRegistry :
            SettledDescendant(i, e) /\ ili'[i].exists =>
                SettledDescendant(i, e)' \/ (e \in pruner[i].todo /\ Expired(i, e))
<1>1. TypeOK /\ AbsentIsEmpty /\ Next => Stays
    BY DescendantEnvironment, DescendantOtherWriter, DescendantWriter, DescendantPrune DEF Next
<1>2. TypeOK /\ AbsentIsEmpty /\ [Next]_vars => [Stays]_vars
    BY <1>1
<1> QED
    BY <1>2, TypeCorrect, AbsentAlwaysEmpty, PTL DEF Spec, SettledEntriesStay

=============================================================================
