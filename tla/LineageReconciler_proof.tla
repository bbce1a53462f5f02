----------------------- MODULE LineageReconciler_proof -----------------------
(***************************************************************************)
(* Proofs about LineageReconciler, for any conditions of other operators,  *)
(* any number of incarnations of the root, of edits and of faults, and any *)
(* lag of the cache.                                                       *)
(***************************************************************************)
EXTENDS LineageReconciler, TLAPS

-----------------------------------------------------------------------------
(* The inductive invariant. *)

\* Every copy of the index: the API server's, the cache's, the worker's and
\* those of the watch events on their way.
Copies == {ili, cache, myILI} \cup {watch[n] : n \in DOMAIN watch}

\* The steps of Reconcile that an index, seen or created, leads to.
Indexed == {"refetch", "prune", "annotate", "syncedGet", "syncedPatch", "owner",
            "guardGet", "guardPatch"}

\* An index is seen only after it was created, and only someone else removes
\* it; the worker is past Step C, and the root claims an index, only then.
ClaimInv ==
    /\ \A x \in Copies : x.exists => created
    /\ created => ili.exists \/ removed
    /\ pc \in Indexed => created
    /\ root.annotated \/ root.synced = "True" => created

\* Every UID in the system, in whatever copy, is of a root that existed.
UidInv ==
    /\ root.exists => root.uid \in 1..incarnations
    /\ pc # "idle" => myRoot.uid \in 1..incarnations
    /\ \A x \in Copies :
          /\ x.ownerUIDs \subseteq 1..incarnations
          /\ x.exists => x.rootUID \in 1..incarnations

\* What the worker may rely on while no event of the root is in the queue:
\* every write of the root puts its key there, so what was read still holds.
SyncInv ==
    ~pending /\ root.exists =>
        /\ pc \in {"idle", "owner"} => root.annotated /\ root.synced = "True"
        /\ pc \in {"guard", "guardGet", "guardPatch", "syncedGet", "syncedPatch"} => root.annotated
        /\ pc \in {"index", "create", "refetch", "prune", "annotate"} =>
              (myRoot.annotated => root.annotated)

\* Between the read of the conditions and their patch the root has only the
\* conditions that were read and those that came late.
LateInv ==
    pc \in {"syncedPatch", "guardPatch"} /\ root.exists => root.others \subseteq myRoot.others \cup late

-----------------------------------------------------------------------------
(* Type correctness. *)

\* The absent objects are well-formed.
LEMMA AbsentTypes == NoRoot \in Root /\ NoIndex \in Index
    BY DEF NoRoot, NoIndex, Root, Index

\* A patch of one field of the root keeps it well-formed.
LEMMA RootWriteTypes ==
    ASSUME NEW r \in Root
    PROVE  /\ \A u \in Nat : [r EXCEPT !.exists = TRUE, !.uid = u] \in Root
           /\ \A b \in BOOLEAN : [r EXCEPT !.annotated = b] \in Root
           /\ [r EXCEPT !.synced = "False"] \in Root
           /\ \A o \in SUBSET Others : [r EXCEPT !.others = o] \in Root
    BY DEF Root

\* A new root has no annotation and no conditions.
LEMMA NewRoot ==
    ASSUME TypeOK, CreateRoot
    PROVE  /\ root'.exists /\ root'.uid = incarnations + 1
           /\ root'.annotated = FALSE /\ root'.synced = "absent" /\ root'.others = {}
<1>1. ASSUME NEW r \in Root, NEW u
      PROVE  /\ [r EXCEPT !.exists = TRUE, !.uid = u].exists
             /\ [r EXCEPT !.exists = TRUE, !.uid = u].uid = u
             /\ [r EXCEPT !.exists = TRUE, !.uid = u].annotated = r.annotated
             /\ [r EXCEPT !.exists = TRUE, !.uid = u].synced = r.synced
             /\ [r EXCEPT !.exists = TRUE, !.uid = u].others = r.others
    BY DEF Root
<1>2. root' = [NoRoot EXCEPT !.exists = TRUE, !.uid = incarnations + 1]
    BY DEF CreateRoot, WriteRoot
<1>3. /\ root'.exists /\ root'.uid = incarnations + 1
      /\ root'.annotated = NoRoot.annotated /\ root'.synced = NoRoot.synced
      /\ root'.others = NoRoot.others
    BY <1>1, <1>2, AbsentTypes, Zenon
<1> QED
    BY <1>3 DEF NoRoot

\* The writes of the index keep it well-formed (buildILI and the patches).
LEMMA IndexWriteTypes ==
    ASSUME NEW x \in Index
    PROVE  /\ \A r \in Root : buildILI(r) \in Index
           /\ \A b \in BOOLEAN : [x EXCEPT !.deleteWithRoot = b] \in Index
           /\ \A b \in BOOLEAN : [x EXCEPT !.stale = b] \in Index
           /\ \A o \in SUBSET Nat : [x EXCEPT !.ownerUIDs = o] \in Index
    BY DEF buildILI, NoIndex, Root, Index

\* A write of a well-formed index leaves the API server and the watch
\* well-formed.
LEMMA WriteIndexType ==
    ASSUME TypeOK, NEW x \in Index, WriteIndex(x)
    PROVE  ili' \in Index /\ watch' \in Seq(Index)
    BY DEF TypeOK, WriteIndex

\* The initial state is well typed.
LEMMA TypeInit == Init => TypeOK
<1> SUFFICES ASSUME Init PROVE TypeOK
    OBVIOUS
<1>1. watch \in Seq(Index)
    BY DEF Init
<1>2. /\ incarnations \in 0..MaxIncarnations
      /\ edits \in 0..MaxEdits
      /\ faults \in 0..MaxFaults
    BY BoundsAssumption DEF Init
<1> QED
    BY <1>1, <1>2, AbsentTypes DEF Init, TypeOK, Steps

\* The environment keeps every type.
LEMMA TypeEnvironment == TypeOK /\ Environment => TypeOK'
<1> SUFFICES ASSUME TypeOK, Environment PROVE TypeOK'
    OBVIOUS
<1> USE BoundsAssumption, AbsentTypes
<1>1. CASE CreateRoot
  <2>1. incarnations + 1 \in 0..MaxIncarnations
    BY <1>1 DEF TypeOK, CreateRoot
  <2>2. [NoRoot EXCEPT !.exists = TRUE, !.uid = incarnations + 1] \in Root
    <3>1. \A r \in Root : \A u \in Nat : [r EXCEPT !.exists = TRUE, !.uid = u] \in Root
      BY RootWriteTypes
    <3>2. incarnations + 1 \in Nat
      BY <2>1
    <3> QED
      BY <3>1, <3>2, Zenon
  <2> QED
    BY <1>1, <2>1, <2>2 DEF TypeOK, CreateRoot, WriteRoot, local, history
<1>2. CASE DeleteRoot
    BY <1>2 DEF TypeOK, DeleteRoot, WriteRoot, local, counters, history
<1>3. CASE InitLineageSynced
  <2>1. root' \in Root
    BY <1>3, RootWriteTypes DEF TypeOK, InitLineageSynced, WriteRoot
  <2> QED
    BY <1>3, <2>1 DEF TypeOK, InitLineageSynced, WriteRoot, local, counters, history
<1>4. ASSUME NEW c \in Others, AddCondition(c) PROVE TypeOK'
  <2>1. root.others \cup {c} \in SUBSET Others
    BY DEF TypeOK, Root
  <2>2. root' \in Root
    BY <1>4, <2>1, RootWriteTypes DEF TypeOK, AddCondition, WriteRoot
  <2> QED
    BY <1>4, <2>2 DEF TypeOK, AddCondition, WriteRoot, Edit, local
<1>5. CASE DropAnnotation
  <2>1. root' \in Root
    BY <1>5, RootWriteTypes DEF TypeOK, DropAnnotation, WriteRoot
  <2> QED
    BY <1>5, <2>1 DEF TypeOK, DropAnnotation, WriteRoot, Edit, local, history
<1>6. CASE DescendantExpires
  <2>1. ili' \in Index /\ watch' \in Seq(Index)
    BY <1>6, IndexWriteTypes, WriteIndexType DEF TypeOK, DescendantExpires
  <2> QED
    BY <1>6, <2>1 DEF TypeOK, DescendantExpires, Edit, local, history
<1>7. CASE DeleteIndex
  <2>1. ili' \in Index /\ watch' \in Seq(Index)
    BY <1>7, WriteIndexType DEF DeleteIndex
  <2> QED
    BY <1>7, <2>1 DEF TypeOK, DeleteIndex, Edit, local
<1>8. CASE CollectIndex
  <2>1. ili' \in Index /\ watch' \in Seq(Index)
    BY <1>8, WriteIndexType DEF CollectIndex
  <2> QED
    BY <1>8, <2>1 DEF TypeOK, CollectIndex, local, counters
<1>9. ASSUME NEW b \in BOOLEAN, SetDeleteWithRoot(b) PROVE TypeOK'
  <2>1. ili' \in Index /\ watch' \in Seq(Index)
    BY <1>9, IndexWriteTypes, WriteIndexType DEF TypeOK, SetDeleteWithRoot
  <2> QED
    BY <1>9, <2>1 DEF TypeOK, SetDeleteWithRoot, Edit, local, history
<1>10. CASE DeliverWatch
    BY <1>10 DEF TypeOK, DeliverWatch, local, counters, history
<1>11. CASE Resync
    BY <1>11 DEF TypeOK, Resync, local, counters, history, Root
<1>12. CASE CallFails
    BY <1>12 DEF TypeOK, CallFails, Fault, ReturnError, Return, Goto, history, Steps
<1>13. CASE Restart
    BY <1>13 DEF TypeOK, Restart, Fault, Return, Goto, history, Steps, Root
<1> QED
    BY <1>1, <1>2, <1>3, <1>4, <1>5, <1>6, <1>7, <1>8, <1>9, <1>10, <1>11, <1>12, <1>13
    DEF Environment

\* The worker keeps every type.
LEMMA TypeReconcile == TypeOK /\ Reconcile => TypeOK'
<1> SUFFICES ASSUME TypeOK, Reconcile PROVE TypeOK'
    OBVIOUS
<1> USE AbsentTypes
<1>1. CASE GetRoot
    BY <1>1 DEF TypeOK, GetRoot, Goto, Steps, local, counters, history
<1>2. CASE CheckGuard
    BY <1>2 DEF TypeOK, CheckGuard, Goto, Steps, counters, history
<1>3. CASE FetchIndex
    BY <1>3 DEF TypeOK, FetchIndex, Goto, Steps, counters, history
<1>4. CASE CreateIndex
  <2>1. ili' \in Index /\ watch' \in Seq(Index) /\ created' \in BOOLEAN
    BY <1>4, IndexWriteTypes, WriteIndexType DEF TypeOK, CreateIndex
  <2> QED
    BY <1>4, <2>1 DEF TypeOK, CreateIndex, Goto, Steps, counters
<1>5. CASE RefetchIndex
    BY <1>5 DEF TypeOK, RefetchIndex, ReturnError, Return, Goto, Steps, counters, history
<1>6. CASE Prune
  <2>1. ili' \in Index /\ watch' \in Seq(Index)
    BY <1>6, IndexWriteTypes, WriteIndexType DEF TypeOK, Prune
  <2> QED
    BY <1>6, <2>1 DEF TypeOK, Prune, ReturnError, Return, Goto, Steps, counters, history
<1>7. CASE WriteAnnotation
  <2>1. root' \in Root
    BY <1>7, RootWriteTypes DEF TypeOK, WriteAnnotation, WriteRoot
  <2> QED
    BY <1>7, <2>1 DEF TypeOK, WriteAnnotation, WriteRoot, ReturnError, Return, Goto, Steps,
                      counters, history
<1>8. ASSUME NEW get, NEW patch \in Steps \ {"idle"}, NEW done \in Steps,
             get # "idle", GetConditions(get, patch, done)
      PROVE  TypeOK'
  <2>1. root.others \in SUBSET Others
    BY DEF TypeOK, Root
  <2>2. myRoot' \in Root
    BY <1>8, <2>1, RootWriteTypes DEF TypeOK, GetConditions, ReturnError, Return
  <2> QED
    BY <1>8, <2>2 DEF TypeOK, GetConditions, ReturnError, Return, Goto, Steps, counters
<1>9. ASSUME NEW patch \in Steps \ {"idle"}, NEW done \in Steps, PatchConditions(patch, done)
      PROVE  TypeOK'
  <2>1. myRoot.others \in SUBSET Others
    BY DEF TypeOK, Root
  <2>2. root' \in Root
    BY <1>9, <2>1 DEF TypeOK, Root, PatchConditions, WriteRoot
  <2> QED
    BY <1>9, <2>2 DEF TypeOK, PatchConditions, WriteRoot, ReturnError, Return, Goto, Steps,
                      counters, history
<1>10. CASE EnsureLineageSyncedTrue
    BY <1>8, <1>9, <1>10 DEF EnsureLineageSyncedTrue, Steps
<1>11. CASE SetOwner
  <2>1. myILI.ownerUIDs \cup {myRoot.uid} \in SUBSET Nat
    BY DEF TypeOK, Root, Index
  <2>2. ili' \in Index /\ watch' \in Seq(Index)
    BY <1>11, <2>1, IndexWriteTypes, WriteIndexType DEF TypeOK, SetOwner
  <2> QED
    BY <1>11, <2>2 DEF TypeOK, SetOwner, ReturnError, Return, Goto, Steps, counters, history
<1> QED
    BY <1>1, <1>2, <1>3, <1>4, <1>5, <1>6, <1>7, <1>10, <1>11 DEF Reconcile

\* Every step keeps every type.
LEMMA TypeStep == TypeOK /\ [Next]_vars => TypeOK'
<1>1. TypeOK /\ UNCHANGED vars => TypeOK'
    BY DEF TypeOK, vars, local, counters, history
<1> QED
    BY <1>1, TypeEnvironment, TypeReconcile DEF Next

\* Type correctness: whatever the environment, the faults and the lag of the
\* cache, the objects and the variables of Reconcile stay well-formed, and the
\* worker holds nothing between two calls.
THEOREM TypeCorrect == Spec => []TypeOK
    BY TypeInit, TypeStep, PTL DEF Spec

-----------------------------------------------------------------------------
(* Copies of the index. *)

\* A copy of the index that was not there before is the one that the API
\* server now holds, or none: the watch, the cache and the worker invent none.
LEMMA NewCopies ==
    ASSUME TypeOK, [Next]_vars
    PROVE  \A x \in Copies' : x \in Copies \/ x = NoIndex \/ x = ili'
<1> SUFFICES /\ cache' \in Copies \/ cache' = ili'
             /\ myILI' \in Copies \/ myILI' = NoIndex \/ myILI' = ili'
             /\ \A n \in DOMAIN watch' : watch'[n] \in Copies \/ watch'[n] = ili'
    BY DEF Copies
<1>1. ASSUME UNCHANGED cache, UNCHANGED myILI \/ myILI' = NoIndex \/ myILI' = ili',
             UNCHANGED watch \/ \E x : WriteIndex(x)
      PROVE  /\ cache' \in Copies
             /\ myILI' \in Copies \/ myILI' = NoIndex \/ myILI' = ili'
             /\ \A n \in DOMAIN watch' : watch'[n] \in Copies \/ watch'[n] = ili'
  <2>1. ASSUME NEW x, WriteIndex(x), NEW n \in DOMAIN watch'
        PROVE  watch'[n] \in Copies \/ watch'[n] = ili'
    <3>1. /\ watch \in Seq(Index) /\ watch' = Append(watch, x) /\ ili' = x
      BY <2>1 DEF TypeOK, WriteIndex
    <3>2. n \in DOMAIN watch \/ n = Len(watch) + 1
      BY <2>1, <3>1
    <3>3. CASE n \in DOMAIN watch
      BY <3>1, <3>3 DEF Copies
    <3>4. CASE n = Len(watch) + 1
      BY <3>1, <3>4
    <3> QED
      BY <3>2, <3>3, <3>4
  <2> QED
    BY <1>1, <2>1 DEF Copies
<1>2. CASE CreateRoot \/ DeleteRoot \/ InitLineageSynced \/ (\E c \in Others : AddCondition(c))
           \/ DropAnnotation \/ Resync
    BY <1>1, <1>2 DEF CreateRoot, DeleteRoot, InitLineageSynced, AddCondition, DropAnnotation,
                      Resync, local
<1>3. CASE DescendantExpires \/ DeleteIndex \/ CollectIndex
           \/ \E b \in BOOLEAN : SetDeleteWithRoot(b)
    BY <1>1, <1>3 DEF DescendantExpires, DeleteIndex, CollectIndex, SetDeleteWithRoot, local
<1>4. CASE DeliverWatch
  <2>1. watch \in Seq(Index) /\ watch # <<>>
    BY <1>4 DEF TypeOK, DeliverWatch
  <2>2. Head(watch) = watch[1] /\ 1 \in DOMAIN watch
    BY <2>1
  <2>3. \A n \in DOMAIN Tail(watch) : n + 1 \in DOMAIN watch /\ Tail(watch)[n] = watch[n + 1]
    BY <2>1
  <2> QED
    BY <1>4, <2>2, <2>3 DEF DeliverWatch, Copies, local
<1>5. CASE CallFails
    BY <1>1, <1>5 DEF CallFails, ReturnError, Return
<1>6. CASE Restart
    BY <1>6 DEF Restart, Return, Copies
<1>7. CASE GetRoot \/ CheckGuard
    BY <1>1, <1>7 DEF GetRoot, CheckGuard, local
<1>8. CASE FetchIndex \/ RefetchIndex
    BY <1>8 DEF FetchIndex, RefetchIndex, ReturnError, Return, Copies
<1>9. CASE CreateIndex \/ Prune \/ SetOwner
    BY <1>1, <1>9 DEF CreateIndex, Prune, SetOwner, ReturnError, Return
<1>10. CASE WriteAnnotation \/ EnsureLineageSyncedTrue
    BY <1>1, <1>10 DEF WriteAnnotation, EnsureLineageSyncedTrue, GetConditions, PatchConditions,
                       ReturnError, Return
<1>11. CASE UNCHANGED vars
    BY <1>1, <1>11 DEF vars, local
<1> QED
    BY <1>2, <1>3, <1>4, <1>5, <1>6, <1>7, <1>8, <1>9, <1>10, <1>11
    DEF Next, Environment, Reconcile

-----------------------------------------------------------------------------
(* The claim of the root. *)

\* Nothing is claimed initially.
LEMMA ClaimInit == Init => ClaimInv
    BY DEF Init, ClaimInv, Copies, NoRoot, NoIndex, Indexed

\* No step claims an index that was not created.
LEMMA ClaimStep == TypeOK /\ ClaimInv /\ [Next]_vars => ClaimInv'
<1> SUFFICES ASSUME TypeOK, ClaimInv, [Next]_vars PROVE ClaimInv'
    OBVIOUS
<1> USE DEF Goto, Indexed, local, history
<1>1. ASSUME created => created', ili'.exists => created' PROVE \A x \in Copies' : x.exists => created'
    BY <1>1, NewCopies DEF ClaimInv, NoIndex
<1>2. cache.exists \/ ili.exists => created
    BY DEF ClaimInv, Copies
<1>3. CASE CreateRoot \/ DeleteRoot \/ InitLineageSynced \/ (\E c \in Others : AddCondition(c))
           \/ DropAnnotation
  <2>1. root'.annotated \/ root'.synced = "True" => root.annotated \/ root.synced = "True"
    <3>1. CASE CreateRoot
      BY <3>1, NewRoot
    <3>2. CASE DeleteRoot
      BY <3>2 DEF DeleteRoot, WriteRoot, NoRoot
    <3>3. CASE InitLineageSynced \/ (\E c \in Others : AddCondition(c)) \/ DropAnnotation
      BY <3>3 DEF InitLineageSynced, AddCondition, DropAnnotation, WriteRoot, TypeOK, Root
    <3> QED
      BY <1>3, <3>1, <3>2, <3>3
  <2>2. UNCHANGED <<ili, pc, created, removed>>
    BY <1>3 DEF CreateRoot, DeleteRoot, InitLineageSynced, AddCondition, DropAnnotation
  <2> QED
    BY <1>1, <1>2, <2>1, <2>2 DEF ClaimInv
<1>4. CASE DescendantExpires \/ DeleteIndex \/ CollectIndex \/ \E b \in BOOLEAN : SetDeleteWithRoot(b)
  <2>1. UNCHANGED <<root, pc, created>> /\ created
    BY <1>2, <1>4 DEF DescendantExpires, DeleteIndex, CollectIndex, SetDeleteWithRoot
  <2>2. ili'.exists \/ removed'
    BY <1>4 DEF DescendantExpires, DeleteIndex, CollectIndex, SetDeleteWithRoot, WriteIndex,
                NoIndex, TypeOK, Index
  <2> QED
    BY <1>1, <2>1, <2>2 DEF ClaimInv
<1>5. CASE DeliverWatch \/ Resync \/ CallFails \/ Restart
  <2>1. UNCHANGED <<root, ili, created, removed>> /\ (pc' = pc \/ pc' = "idle")
    BY <1>5 DEF DeliverWatch, Resync, CallFails, Restart, ReturnError, Return
  <2> QED
    BY <1>1, <1>2, <2>1 DEF ClaimInv
<1>6. CASE GetRoot \/ CheckGuard \/ FetchIndex \/ RefetchIndex
  <2>1. UNCHANGED <<root, ili, created, removed>> /\ (pc' \in Indexed => pc \in Indexed \/ cache.exists)
    BY <1>6 DEF GetRoot, CheckGuard, FetchIndex, RefetchIndex, ReturnError, Return
  <2> QED
    BY <1>1, <1>2, <2>1 DEF ClaimInv
<1>7. CASE CreateIndex
  <2>1. UNCHANGED <<root, removed>> /\ created' /\ ili'.exists
    BY <1>2, <1>7 DEF CreateIndex, WriteIndex, buildILI, NoIndex
  <2> QED
    BY <1>1, <2>1 DEF ClaimInv
<1>8. CASE Prune \/ SetOwner
  <2>1. UNCHANGED <<root, created, removed>> /\ created /\ (ili'.exists <=> ili.exists)
    BY <1>8 DEF ClaimInv, Prune, SetOwner, WriteIndex, TypeOK, Index
  <2> QED
    BY <1>1, <2>1 DEF ClaimInv
<1>9. CASE WriteAnnotation \/ EnsureLineageSyncedTrue
  <2>1. UNCHANGED <<ili, created, removed>> /\ created
    BY <1>9 DEF ClaimInv, WriteAnnotation, EnsureLineageSyncedTrue, GetConditions, PatchConditions
  <2> QED
    BY <1>1, <2>1 DEF ClaimInv
<1>10. CASE UNCHANGED vars
  <2>1. UNCHANGED <<root, ili, pc, created, removed>>
    BY <1>10 DEF vars
  <2> QED
    BY <1>1, <1>2, <2>1 DEF ClaimInv
<1> QED
    BY <1>3, <1>4, <1>5, <1>6, <1>7, <1>8, <1>9, <1>10 DEF Next, Environment, Reconcile

\* A root that is annotated or LineageSynced was given an index before, and
\* still has it unless someone removed it, whatever fails between the steps of
\* Reconcile and however old the cache is (lineage_controller.go, Steps C to E).
THEOREM IndexComesBeforeClaim == Spec => []IndexBeforeClaim
<1>1. ClaimInv => IndexBeforeClaim
    BY DEF ClaimInv, IndexBeforeClaim
<1> QED
    BY <1>1, ClaimInit, ClaimStep, TypeCorrect, PTL DEF Spec

-----------------------------------------------------------------------------
(* Whose index it is. *)

\* No root has existed initially.
LEMMA UidInit == Init => UidInv
    BY DEF Init, UidInv, Copies, NoRoot, NoIndex

\* No step names a UID that no root has had.
LEMMA UidStep == TypeOK /\ UidInv /\ [Next]_vars => UidInv'
<1> SUFFICES ASSUME TypeOK, UidInv, [Next]_vars PROVE UidInv'
    OBVIOUS
<1> DEFINE OfARoot(x) == /\ x.ownerUIDs \subseteq 1..incarnations
                         /\ x.exists => x.rootUID \in 1..incarnations
<1> USE DEF Goto, local, counters
<1>0. OfARoot(ili) /\ OfARoot(myILI)
    BY DEF UidInv, Copies
<1>1. ASSUME incarnations' = incarnations, OfARoot(ili') PROVE \A x \in Copies' : OfARoot(x)
    BY <1>1, NewCopies DEF UidInv, NoIndex
<1>2. CASE CreateRoot
  <2>1. incarnations' = incarnations + 1 /\ incarnations \in Nat /\ ili' = ili
    BY <1>2, BoundsAssumption DEF CreateRoot, TypeOK
  <2>2. root'.uid \in 1..incarnations' /\ 1..incarnations \subseteq 1..incarnations'
    BY <1>2, <2>1, NewRoot
  <2>3. \A x \in Copies' : OfARoot(x)
    BY <2>1, NewCopies DEF UidInv, NoIndex, Copies
  <2>4. UNCHANGED <<pc, myRoot>>
    BY <1>2 DEF CreateRoot
  <2> HIDE DEF local, counters, Goto
  <2> QED
    BY <2>2, <2>3, <2>4 DEF UidInv
<1>3. CASE DeleteRoot \/ InitLineageSynced \/ (\E c \in Others : AddCondition(c)) \/ DropAnnotation
  <2>1. root'.exists => root.exists /\ root'.uid = root.uid
    BY <1>3 DEF DeleteRoot, InitLineageSynced, AddCondition, DropAnnotation, WriteRoot,
                NoRoot, TypeOK, Root
  <2>2. UNCHANGED <<ili, pc, myRoot, incarnations>>
    BY <1>3 DEF DeleteRoot, InitLineageSynced, AddCondition, DropAnnotation, Edit
  <2> QED
    BY <1>0, <1>1, <2>1, <2>2 DEF UidInv
<1>4. CASE DescendantExpires \/ DeleteIndex \/ CollectIndex \/ \E b \in BOOLEAN : SetDeleteWithRoot(b)
  <2>1. UNCHANGED <<root, pc, myRoot, incarnations>>
    BY <1>4 DEF DescendantExpires, DeleteIndex, CollectIndex, SetDeleteWithRoot, Edit
  <2>2. OfARoot(ili')
    <3>1. CASE DescendantExpires \/ \E b \in BOOLEAN : SetDeleteWithRoot(b)
      BY <1>0, <3>1 DEF DescendantExpires, SetDeleteWithRoot, WriteIndex, TypeOK, Index
    <3>2. CASE DeleteIndex \/ CollectIndex
      BY <3>2 DEF DeleteIndex, CollectIndex, WriteIndex, NoIndex
    <3> QED
      BY <1>4, <3>1, <3>2
  <2> QED
    BY <1>1, <2>1, <2>2 DEF UidInv
<1>5. CASE DeliverWatch \/ Resync \/ CallFails \/ Restart
  <2>1. UNCHANGED <<root, ili, incarnations>> /\ (UNCHANGED <<pc, myRoot>> \/ pc' = "idle")
    BY <1>5 DEF DeliverWatch, Resync, CallFails, Restart, ReturnError, Return, Fault
  <2> QED
    BY <1>0, <1>1, <2>1 DEF UidInv
<1>6. CASE GetRoot
  <2>1. UNCHANGED <<root, ili, incarnations>>
    BY <1>6 DEF GetRoot
  <2>2. CASE root.exists
    BY <1>0, <1>1, <1>6, <2>1, <2>2 DEF GetRoot, UidInv
  <2>3. CASE ~root.exists
    BY <1>0, <1>1, <1>6, <2>1, <2>3 DEF GetRoot, UidInv
  <2> QED
    BY <2>2, <2>3
<1>7. CASE CheckGuard \/ FetchIndex \/ RefetchIndex
  <2>1. /\ UNCHANGED <<root, ili, incarnations>>
        /\ pc # "idle" /\ (UNCHANGED myRoot \/ pc' = "idle")
    BY <1>7 DEF CheckGuard, FetchIndex, RefetchIndex, ReturnError, Return
  <2> QED
    BY <1>0, <1>1, <2>1 DEF UidInv
<1>8. CASE CreateIndex
  <2>1. UNCHANGED <<root, myRoot, incarnations>> /\ pc # "idle"
    BY <1>8 DEF CreateIndex
  <2>2. OfARoot(ili')
    BY <1>0, <1>8, <2>1 DEF CreateIndex, WriteIndex, buildILI, NoIndex, UidInv
  <2> QED
    BY <1>1, <2>1, <2>2 DEF UidInv
<1>9. CASE Prune
  <2>1. UNCHANGED <<root, incarnations>> /\ pc # "idle" /\ (UNCHANGED myRoot \/ pc' = "idle")
    BY <1>9 DEF Prune, ReturnError, Return
  <2>2. OfARoot(ili')
    BY <1>0, <1>9 DEF Prune, WriteIndex, TypeOK, Index
  <2> QED
    BY <1>1, <2>1, <2>2 DEF UidInv
<1>10. CASE WriteAnnotation
  <2>1. UNCHANGED <<ili, incarnations>> /\ pc # "idle"
    BY <1>10 DEF WriteAnnotation
  <2>2. root'.exists => root.exists /\ root'.uid = root.uid
    BY <1>10 DEF WriteAnnotation, WriteRoot, TypeOK, Root
  <2>3. pc' # "idle" => myRoot'.uid \in 1..incarnations
    <3>1. CASE myRoot.annotated
      BY <1>10, <2>1, <3>1 DEF WriteAnnotation, UidInv
    <3>2. CASE ~myRoot.annotated /\ root.exists
      BY <1>10, <3>2 DEF WriteAnnotation, WriteRoot, UidInv, TypeOK, Root
    <3>3. CASE ~myRoot.annotated /\ ~root.exists
      BY <1>10, <3>3 DEF WriteAnnotation, ReturnError, Return
    <3> QED
      BY <3>1, <3>2, <3>3
  <2> QED
    BY <1>0, <1>1, <2>1, <2>2, <2>3 DEF UidInv
<1>11. CASE EnsureLineageSyncedTrue
  <2>1. UNCHANGED <<ili, incarnations>> /\ pc # "idle"
    BY <1>11 DEF EnsureLineageSyncedTrue, GetConditions, PatchConditions
  <2>2. root'.exists => root.exists /\ root'.uid = root.uid
    BY <1>11 DEF EnsureLineageSyncedTrue, GetConditions, PatchConditions, WriteRoot, TypeOK, Root
  <2>3. pc' # "idle" => myRoot'.uid = myRoot.uid
    BY <1>11 DEF EnsureLineageSyncedTrue, GetConditions, PatchConditions, ReturnError, Return,
                 TypeOK, Root
  <2> QED
    BY <1>0, <1>1, <2>1, <2>2, <2>3 DEF UidInv
<1>12. CASE SetOwner
  <2>1. UNCHANGED <<root, incarnations>> /\ pc = "owner" /\ pc' = "idle"
    BY <1>12 DEF SetOwner, ReturnError, Return
  <2>2. myILI.ownerUIDs \cup {myRoot.uid} \subseteq 1..incarnations
    BY <1>0, <2>1 DEF UidInv
  <2>3. OfARoot(ili')
    BY <1>0, <1>12, <2>2 DEF SetOwner, WriteIndex, TypeOK, Index
  <2> QED
    BY <1>1, <2>1, <2>3 DEF UidInv
<1>13. CASE UNCHANGED vars
  <2>1. UNCHANGED <<root, ili, pc, myRoot, incarnations>>
    BY <1>13 DEF vars
  <2> QED
    BY <1>0, <1>1, <2>1 DEF UidInv
<1> QED
    BY <1>2, <1>3, <1>4, <1>5, <1>6, <1>7, <1>8, <1>9, <1>10, <1>11, <1>12, <1>13
    DEF Next, Environment, Reconcile

\* The index is bound to, and owned by, incarnations of the root that existed,
\* even when Reconcile works from a cached index and an old root and its
\* patches land on a later incarnation of either (buildILI, Step Eg).
THEOREM IndexIsOfARoot == Spec => []IndexOfARoot
<1>1. UidInv => IndexOfARoot
    BY DEF UidInv, Copies, IndexOfARoot
<1> QED
    BY <1>1, UidInit, UidStep, TypeCorrect, PTL DEF Spec

-----------------------------------------------------------------------------
(* A quiet controller has done its work. *)

\* There is no root initially.
LEMMA SyncInit == Init => SyncInv
    BY DEF Init, SyncInv, NoRoot

\* A step that puts the key in the queue leaves nothing to show.
LEMMA PendingIsSync == pending' = TRUE => SyncInv'
    BY DEF SyncInv

\* The worker gives up nothing that it will not be called for again.
LEMMA SyncStep == TypeOK /\ SyncInv /\ [Next]_vars => SyncInv'
<1> SUFFICES ASSUME TypeOK, SyncInv, [Next]_vars PROVE SyncInv'
    OBVIOUS
<1> USE DEF Goto, local
<1>1. CASE CreateRoot \/ DeleteRoot \/ InitLineageSynced \/ (\E c \in Others : AddCondition(c))
           \/ DropAnnotation \/ CallFails
    BY <1>1, PendingIsSync DEF CreateRoot, DeleteRoot, InitLineageSynced, AddCondition,
                               DropAnnotation, CallFails, WriteRoot, ReturnError
<1>2. CASE DescendantExpires \/ DeleteIndex \/ CollectIndex
           \/ (\E b \in BOOLEAN : SetDeleteWithRoot(b)) \/ DeliverWatch \/ UNCHANGED vars
  <2>1. UNCHANGED <<root, pending, pc, myRoot>>
    BY <1>2 DEF DescendantExpires, DeleteIndex, CollectIndex, SetDeleteWithRoot, DeliverWatch, vars
  <2> QED
    BY <2>1 DEF SyncInv
<1>3. CASE Resync \/ Restart
  <2>1. root' = root /\ (root.exists => pending')
    BY <1>3 DEF Resync, Restart
  <2> QED
    BY <2>1 DEF SyncInv
<1>4. CASE GetRoot
    BY <1>4 DEF GetRoot, SyncInv, TypeOK, Root
<1>5. CASE CheckGuard
    BY <1>5 DEF CheckGuard, SyncInv
<1>6. CASE FetchIndex
    BY <1>6 DEF FetchIndex, SyncInv
<1>7. CASE CreateIndex
    BY <1>7 DEF CreateIndex, SyncInv
<1>8. CASE RefetchIndex
    BY <1>8, PendingIsSync DEF RefetchIndex, SyncInv, ReturnError
<1>9. CASE Prune
    BY <1>9, PendingIsSync DEF Prune, SyncInv, ReturnError
<1>10. CASE WriteAnnotation
    BY <1>10, PendingIsSync DEF WriteAnnotation, WriteRoot, SyncInv, ReturnError
<1>11. CASE EnsureLineageSyncedTrue
  <2>1. ASSUME NEW patch, NEW done, PatchConditions(patch, done) PROVE SyncInv'
    BY <2>1, PendingIsSync DEF PatchConditions, WriteRoot, ReturnError
  <2>2. CASE GetConditions("syncedGet", "syncedPatch", "owner")
    BY <2>2, PendingIsSync DEF GetConditions, SyncInv, ReturnError
  <2>3. CASE GetConditions("guardGet", "guardPatch", "idle")
    BY <2>3, PendingIsSync DEF GetConditions, SyncInv, ReturnError, Return
  <2> QED
    BY <1>11, <2>1, <2>2, <2>3 DEF EnsureLineageSyncedTrue
<1>12. CASE SetOwner
    BY <1>12, PendingIsSync DEF SetOwner, SyncInv, ReturnError, Return
<1> QED
    BY <1>1, <1>2, <1>3, <1>4, <1>5, <1>6, <1>7, <1>8, <1>9, <1>10, <1>11, <1>12
    DEF Next, Environment, Reconcile

\* When the worker is idle and the root's key not in the queue, a root that
\* exists is annotated and LineageSynced: no fault, no early return and no
\* write that races Reconcile leaves it half-way (Steps B to Eg).
THEOREM QuietIsSynced == Spec => []QuietMeansSynced
<1>1. SyncInv => QuietMeansSynced
    BY DEF SyncInv, QuietMeansSynced
<1> QED
    BY <1>1, SyncInit, SyncStep, TypeCorrect, PTL DEF Spec

-----------------------------------------------------------------------------
(* What the status patch may lose. *)

\* The worker is idle initially.
LEMMA LateInit == Init => LateInv
    BY DEF Init, LateInv

\* A condition that arrives after the read of ensureLineageSyncedTrue is late.
LEMMA LateStep == TypeOK /\ LateInv /\ [Next]_vars => LateInv'
<1> SUFFICES ASSUME TypeOK, LateInv, [Next]_vars PROVE LateInv'
    OBVIOUS
<1> USE DEF Goto, local, history
<1>1. CASE CreateRoot
    BY <1>1, NewRoot DEF CreateRoot, LateInv
<1>2. CASE DeleteRoot
    BY <1>2 DEF DeleteRoot, WriteRoot, NoRoot, LateInv
<1>3. CASE InitLineageSynced \/ DropAnnotation
    BY <1>3 DEF InitLineageSynced, DropAnnotation, WriteRoot, LateInv, TypeOK, Root
<1>4. ASSUME NEW c \in Others, AddCondition(c) PROVE LateInv'
    BY <1>4 DEF AddCondition, WriteRoot, LateInv, TypeOK, Root
<1>5. CASE DescendantExpires \/ DeleteIndex \/ CollectIndex
           \/ (\E b \in BOOLEAN : SetDeleteWithRoot(b)) \/ DeliverWatch \/ Resync \/ UNCHANGED vars
  <2>1. UNCHANGED <<root, pc, myRoot, late>>
    BY <1>5 DEF DescendantExpires, DeleteIndex, CollectIndex, SetDeleteWithRoot, DeliverWatch,
                Resync, vars
  <2> QED
    BY <2>1 DEF LateInv
<1>6. CASE CallFails \/ Restart \/ GetRoot \/ CheckGuard \/ FetchIndex \/ CreateIndex
           \/ RefetchIndex \/ Prune \/ WriteAnnotation \/ SetOwner
  <2>1. pc' \notin {"syncedPatch", "guardPatch"}
    BY <1>6 DEF CallFails, Restart, GetRoot, CheckGuard, FetchIndex, CreateIndex, RefetchIndex,
                Prune, WriteAnnotation, SetOwner, ReturnError, Return
  <2> QED
    BY <2>1 DEF LateInv
<1>7. ASSUME NEW get, NEW patch, NEW done \in {"owner", "idle"}, GetConditions(get, patch, done)
      PROVE  LateInv'
  <2>1. CASE root.exists /\ root.synced # "True"
    <3>1. UNCHANGED root /\ myRoot' = [myRoot EXCEPT !.others = root.others]
      BY <1>7, <2>1 DEF GetConditions
    <3>2. myRoot'.others = root.others
      BY <3>1 DEF TypeOK, Root
    <3> QED
      BY <3>1, <3>2 DEF LateInv
  <2>2. CASE ~(root.exists /\ root.synced # "True")
    <3>1. pc' \in {"owner", "idle"}
      BY <1>7, <2>2 DEF GetConditions, ReturnError, Return
    <3> QED
      BY <3>1 DEF LateInv
  <2> QED
    BY <2>1, <2>2
<1>8. ASSUME NEW patch, NEW done \in {"owner", "idle"}, PatchConditions(patch, done) PROVE LateInv'
  <2>1. pc' \in {"owner", "idle"}
    BY <1>8 DEF PatchConditions, ReturnError, Return
  <2> QED
    BY <2>1 DEF LateInv
<1> QED
    BY <1>1, <1>2, <1>3, <1>4, <1>5, <1>6, <1>7, <1>8
    DEF Next, Environment, Reconcile, EnsureLineageSyncedTrue

\* A condition that another operator wrote before ensureLineageSyncedTrue read
\* the root survives the status patch, though the patch replaces the whole
\* list; no other step of the system takes a condition away.
THEOREM PatchLosesOnlyLate == Spec => StatusPatchLosesOnlyLate
<1> DEFINE Kept == root.exists /\ root'.exists => root.others \ root'.others \subseteq late
<1>1. TypeOK /\ LateInv /\ [Next]_vars => [Kept]_vars
  <2> SUFFICES ASSUME TypeOK, LateInv, Next PROVE Kept
      OBVIOUS
  <2>1. ASSUME root' = root PROVE Kept
      BY <2>1
  <2>2. CASE CreateRoot \/ DeleteRoot
      BY <2>2 DEF CreateRoot, DeleteRoot, WriteRoot, NoRoot
  <2>3. CASE InitLineageSynced \/ (\E c \in Others : AddCondition(c)) \/ DropAnnotation
      BY <2>3 DEF InitLineageSynced, AddCondition, DropAnnotation, WriteRoot, TypeOK, Root
  <2>4. CASE DescendantExpires \/ DeleteIndex \/ CollectIndex
             \/ (\E b \in BOOLEAN : SetDeleteWithRoot(b)) \/ DeliverWatch \/ Resync \/ CallFails
             \/ Restart
      BY <2>1, <2>4 DEF DescendantExpires, DeleteIndex, CollectIndex, SetDeleteWithRoot,
                        DeliverWatch, Resync, CallFails, Restart
  <2>5. CASE GetRoot \/ CheckGuard \/ FetchIndex \/ CreateIndex \/ RefetchIndex \/ Prune \/ SetOwner
      BY <2>1, <2>5 DEF GetRoot, CheckGuard, FetchIndex, CreateIndex, RefetchIndex, Prune, SetOwner
  <2>6. CASE WriteAnnotation
      BY <2>6 DEF WriteAnnotation, WriteRoot, TypeOK, Root
  <2>7. ASSUME NEW get, NEW patch, NEW done, GetConditions(get, patch, done) PROVE Kept
      BY <2>1, <2>7 DEF GetConditions
  <2>8. ASSUME NEW patch \in {"syncedPatch", "guardPatch"}, NEW done, PatchConditions(patch, done)
        PROVE  Kept
    <3>1. root.exists => root.others \subseteq myRoot.others \cup late
      BY <2>8 DEF PatchConditions, LateInv
    <3>2. root.exists => root'.others = myRoot.others
      BY <2>8 DEF PatchConditions, WriteRoot, TypeOK, Root
    <3> QED
      BY <3>1, <3>2
  <2> QED
      BY <2>2, <2>3, <2>4, <2>5, <2>6, <2>7, <2>8
      DEF Next, Environment, Reconcile, EnsureLineageSyncedTrue
<1> QED
    BY <1>1, LateInit, LateStep, TypeCorrect, PTL DEF Spec, StatusPatchLosesOnlyLate

=============================================================================
