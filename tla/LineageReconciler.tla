-------------------------- MODULE LineageReconciler --------------------------
(***************************************************************************)
(* LineageReconciler.Reconcile for one root declaration: the root object,  *)
(* its InfrastructureLineageIndex (ILI), the informer cache that serves    *)
(* every read of the ILI, and the one worker of the root's GVK.            *)
(*                                                                         *)
(* One API call is one step.  The root is unstructured: its reads go to    *)
(* the API server.  The ILI is typed: its reads come from the cache.  No   *)
(* patch carries a UID or a resourceVersion, so it lands on whatever       *)
(* object holds the name, possibly a later incarnation; and a patch leaves *)
(* in the caller's hands the object the API server answered with.          *)
(*                                                                         *)
(* The model abstracts the root to its incarnation number (its UID), the   *)
(* lineage-index-ref annotation and its conditions, and the descendant     *)
(* registry to whether it holds an entry that retention should remove (the *)
(* registry itself is in LineageRegistry).                                 *)
(***************************************************************************)
EXTENDS Integers, Sequences

CONSTANTS
    Others,          \* conditions that other operators write on the root
    MaxIncarnations, \* bound: times the root is created
    MaxEdits,        \* bound: edits by cluster users and other operators
    MaxFaults,       \* bound: crashes and failed API calls
    MaxLag           \* bound: undelivered watch events

ASSUME BoundsAssumption ==
    /\ MaxIncarnations \in Nat
    /\ MaxEdits \in Nat
    /\ MaxFaults \in Nat
    /\ MaxLag \in Nat

Root ==
    [exists : BOOLEAN, uid : Nat, annotated : BOOLEAN,
     synced : {"absent", "False", "True"}, others : SUBSET Others]

\* ownerUIDs: the owner references; stale: an entry of descendantRegistry is
\* past retention and its object not found; deleteWithRoot: the effective
\* value, TRUE while the index has no retentionPolicy.
Index ==
    [exists : BOOLEAN, rootUID : Nat, ownerUIDs : SUBSET Nat,
     deleteWithRoot : BOOLEAN, stale : BOOLEAN]

NoRoot == [exists |-> FALSE, uid |-> 0, annotated |-> FALSE, synced |-> "absent", others |-> {}]
NoIndex ==
    [exists |-> FALSE, rootUID |-> 0, ownerUIDs |-> {}, deleteWithRoot |-> TRUE, stale |-> FALSE]

VARIABLES
    root,         \* the root declaration on the API server
    ili,          \* its index on the API server
    watch,        \* watch events of the index not yet delivered
    cache,        \* the index in the informer cache
    pending,      \* the root's key is in the work queue
    pc,           \* the next API call of the worker
    myRoot,       \* the variable root of Reconcile
    myILI,        \* the variable ili of Reconcile
    incarnations, \* number of roots created so far
    edits,        \* number of edits so far
    faults,       \* number of faults so far
    created,      \* history: an index was created
    removed,      \* history: an index was deleted
    late          \* history: conditions added since the worker last read them

local == <<pc, myRoot, myILI>>
counters == <<incarnations, edits, faults>>
history == <<created, removed, late>>
vars == <<root, ili, watch, cache, pending, local, counters, history>>

\* idle; guard: Step B; index: Step C read; create, refetch: Step C create;
\* prune: Step Cf; annotate: Step D; syncedGet, syncedPatch: Step E; owner:
\* Step Eg; guardGet, guardPatch: ensureLineageSyncedTrue called by Step B.
Steps == {"idle", "guard", "index", "create", "refetch", "prune", "annotate",
          "syncedGet", "syncedPatch", "owner", "guardGet", "guardPatch"}

-----------------------------------------------------------------------------
WriteIndex(index) ==
    /\ Len(watch) < MaxLag
    /\ ili' = index
    /\ watch' = Append(watch, index)

\* A write of the root is also an event that puts its key in the queue.
WriteRoot(r) == root' = r /\ pending' = TRUE

Edit == edits < MaxEdits /\ edits' = edits + 1 /\ UNCHANGED <<incarnations, faults>>
Fault == faults < MaxFaults /\ faults' = faults + 1 /\ UNCHANGED <<incarnations, edits>>

Init ==
    /\ root = NoRoot
    /\ ili = NoIndex
    /\ watch = <<>>
    /\ cache = NoIndex
    /\ pending = FALSE
    /\ pc = "idle"
    /\ myRoot = NoRoot
    /\ myILI = NoIndex
    /\ incarnations = 0
    /\ edits = 0
    /\ faults = 0
    /\ created = FALSE
    /\ removed = FALSE
    /\ late = {}

-----------------------------------------------------------------------------
(* Environment. *)

CreateRoot ==
    /\ ~root.exists
    /\ incarnations < MaxIncarnations
    /\ WriteRoot([NoRoot EXCEPT !.exists = TRUE, !.uid = incarnations + 1])
    /\ incarnations' = incarnations + 1
    /\ UNCHANGED <<ili, watch, cache, local, edits, faults, history>>

DeleteRoot ==
    /\ root.exists
    /\ WriteRoot(NoRoot)
    /\ UNCHANGED <<ili, watch, cache, local, counters, history>>

\* The operator that owns the root initialises LineageSynced=False.
InitLineageSynced ==
    /\ root.exists
    /\ root.synced = "absent"
    /\ WriteRoot([root EXCEPT !.synced = "False"])
    /\ UNCHANGED <<ili, watch, cache, local, counters, history>>

\* Another operator adds one of its own conditions.
AddCondition(c) ==
    /\ Edit
    /\ root.exists
    /\ c \notin root.others
    /\ WriteRoot([root EXCEPT !.others = @ \cup {c}])
    /\ late' = late \cup {c}
    /\ UNCHANGED <<ili, watch, cache, local, created, removed>>

\* A cluster user replaces the manifest and with it the annotations.
DropAnnotation ==
    /\ Edit
    /\ root.annotated
    /\ WriteRoot([root EXCEPT !.annotated = FALSE])
    /\ UNCHANGED <<ili, watch, cache, local, history>>

SetDeleteWithRoot(b) ==
    /\ Edit
    /\ ili.exists
    /\ ili.deleteWithRoot # b
    /\ WriteIndex([ili EXCEPT !.deleteWithRoot = b])
    /\ UNCHANGED <<root, cache, pending, local, history>>

\* A tracked object is gone and its entry past retention.
DescendantExpires ==
    /\ Edit
    /\ ili.exists
    /\ ~ili.stale
    /\ WriteIndex([ili EXCEPT !.stale = TRUE])
    /\ UNCHANGED <<root, cache, pending, local, history>>

DeleteIndex ==
    /\ Edit
    /\ ili.exists
    /\ WriteIndex(NoIndex)
    /\ removed' = TRUE
    /\ UNCHANGED <<root, cache, pending, local, created, late>>

\* Kubernetes garbage collection: every owner of the index is gone.
CollectIndex ==
    /\ ili.exists
    /\ ili.ownerUIDs # {}
    /\ ~(root.exists /\ root.uid \in ili.ownerUIDs)
    /\ WriteIndex(NoIndex)
    /\ removed' = TRUE
    /\ UNCHANGED <<root, cache, pending, local, counters, created, late>>

DeliverWatch ==
    /\ watch # <<>>
    /\ cache' = Head(watch)
    /\ watch' = Tail(watch)
    /\ UNCHANGED <<root, ili, pending, local, counters, history>>

Resync ==
    /\ pending' = (pending \/ root.exists)
    /\ UNCHANGED <<root, ili, watch, cache, local, counters, history>>

-----------------------------------------------------------------------------
(* The worker. *)

Goto(step) == pc' = step

\* Mutant: the index of the last call is still there in the next one.
ReturnKeepsIndex == Goto("idle") /\ myRoot' = NoRoot /\ UNCHANGED myILI

\* Reconcile returns; an error or Requeue puts the key back in the queue.
Return == Goto("idle") /\ myRoot' = NoRoot /\ myILI' = NoIndex
ReturnError == Return /\ pending' = TRUE

\* Mutant: a root that is not found does not end the call.
GetRootUnchecked ==
    /\ pc = "idle"
    /\ pending
    /\ pending' = FALSE
    /\ myRoot' = root
    /\ Goto(IF root.annotated THEN "guard" ELSE "index")
    /\ UNCHANGED <<root, ili, watch, cache, myILI, counters, history>>

\* Step A, and the annotation test of Step B.
GetRoot ==
    /\ pc = "idle"
    /\ pending
    /\ pending' = FALSE
    /\ \/ ~root.exists /\ UNCHANGED local
       \/ /\ root.exists
          /\ myRoot' = root
          /\ Goto(IF root.annotated THEN "guard" ELSE "index")
          /\ UNCHANGED myILI
    /\ UNCHANGED <<root, ili, watch, cache, counters, history>>

\* Mutant: an indexed root is left alone, LineageSynced or not.
CheckGuardReturns ==
    /\ pc = "guard"
    /\ IF cache.exists THEN Return ELSE Goto("index") /\ UNCHANGED <<myRoot, myILI>>
    /\ UNCHANGED <<root, ili, watch, cache, pending, counters, history>>

\* Mutant: the annotation is trusted, the index not looked up.
CheckGuardTrusts ==
    /\ pc = "guard"
    /\ Goto("guardGet")
    /\ UNCHANGED <<root, ili, watch, cache, pending, myRoot, myILI, counters, history>>

\* Step B: the index exists: only LineageSynced is looked after.
CheckGuard ==
    /\ pc = "guard"
    /\ Goto(IF cache.exists THEN "guardGet" ELSE "index")
    /\ UNCHANGED <<root, ili, watch, cache, pending, myRoot, myILI, counters, history>>

\* Mutant: an index that is not found is left to a later call.
FetchIndexSkips ==
    /\ pc = "index"
    /\ IF cache.exists THEN myILI' = cache /\ Goto("prune") ELSE Goto("annotate") /\ UNCHANGED myILI
    /\ UNCHANGED <<root, ili, watch, cache, pending, myRoot, counters, history>>

\* Step C.
FetchIndex ==
    /\ pc = "index"
    /\ \/ cache.exists /\ myILI' = cache /\ Goto("prune")
       \/ ~cache.exists /\ Goto("create") /\ UNCHANGED myILI
    /\ UNCHANGED <<root, ili, watch, cache, pending, myRoot, counters, history>>

\* A new index, bound to the root, with no owner and no retentionPolicy.
buildILI(r) == [NoIndex EXCEPT !.exists = TRUE, !.rootUID = r.uid]

\* Step C: create the index that buildILI returns; AlreadyExists is no error.
CreateIndex ==
    /\ pc = "create"
    /\ \/ /\ ~ili.exists
          /\ WriteIndex(buildILI(myRoot))
          /\ created' = TRUE
       \/ ili.exists /\ UNCHANGED <<ili, watch, created>>
    /\ Goto("refetch")
    /\ UNCHANGED <<root, cache, pending, myRoot, myILI, counters, removed, late>>

RefetchIndex ==
    /\ pc = "refetch"
    /\ \/ cache.exists /\ myILI' = cache /\ Goto("prune") /\ UNCHANGED <<myRoot, pending>>
       \/ ~cache.exists /\ ReturnError
    /\ UNCHANGED <<root, ili, watch, cache, counters, history>>

\* Step Cf: the list without its stale entries replaces the one on the server.
Prune ==
    /\ pc = "prune"
    /\ \/ ~myILI.stale /\ Goto("annotate") /\ UNCHANGED <<ili, watch, myRoot, myILI, pending>>
       \/ /\ myILI.stale /\ ili.exists
          /\ WriteIndex([ili EXCEPT !.stale = FALSE])
          /\ myILI' = ili'
          /\ Goto("annotate")
          /\ UNCHANGED <<myRoot, pending>>
       \/ myILI.stale /\ ~ili.exists /\ ReturnError /\ UNCHANGED <<ili, watch>>
    /\ UNCHANGED <<root, cache, counters, history>>

\* Step D.
WriteAnnotation ==
    /\ pc = "annotate"
    /\ \/ myRoot.annotated /\ Goto("syncedGet") /\ UNCHANGED <<root, pending, myRoot, myILI>>
       \/ /\ ~myRoot.annotated /\ root.exists
          /\ WriteRoot([root EXCEPT !.annotated = TRUE])
          /\ myRoot' = root'
          /\ Goto("syncedGet")
          /\ UNCHANGED myILI
       \/ ~myRoot.annotated /\ ~root.exists /\ ReturnError /\ UNCHANGED root
    /\ UNCHANGED <<ili, watch, cache, counters, history>>

\* Mutant: the patch is computed from the conditions read by Step A.
GetConditionsStale(get, patch, done) ==
    /\ pc = get
    /\ \/ ~root.exists /\ ReturnError
       \/ /\ root.exists /\ root.synced = "True"
          /\ IF done = "idle" THEN Return ELSE Goto(done) /\ UNCHANGED <<myRoot, myILI>>
          /\ UNCHANGED pending
       \/ /\ root.exists /\ root.synced # "True"
          /\ Goto(patch)
          /\ UNCHANGED <<myRoot, myILI, pending>>
    /\ late' = {}
    /\ UNCHANGED <<root, ili, watch, cache, counters, created, removed>>

\* Step E, ensureLineageSyncedTrue: read the root again.  The copy that the
\* patch is computed from replaces myRoot's conditions only.
GetConditions(get, patch, done) ==
    /\ pc = get
    /\ \/ ~root.exists /\ ReturnError
       \/ /\ root.exists /\ root.synced = "True"
          /\ IF done = "idle" THEN Return ELSE Goto(done) /\ UNCHANGED <<myRoot, myILI>>
          /\ UNCHANGED pending
       \/ /\ root.exists /\ root.synced # "True"
          /\ myRoot' = [myRoot EXCEPT !.others = root.others]
          /\ Goto(patch)
          /\ UNCHANGED <<myILI, pending>>
    /\ late' = {}
    /\ UNCHANGED <<root, ili, watch, cache, counters, created, removed>>

\* The status patch replaces the whole list of conditions.
PatchConditions(patch, done) ==
    /\ pc = patch
    /\ \/ ~root.exists /\ ReturnError /\ UNCHANGED root
       \/ /\ root.exists
          /\ WriteRoot([root EXCEPT !.synced = "True", !.others = myRoot.others])
          /\ IF done = "idle" THEN Return ELSE Goto(done) /\ UNCHANGED <<myRoot, myILI>>
    /\ UNCHANGED <<ili, watch, cache, counters, history>>

\* Step Eg: the list of owners read earlier, with the root's UID appended.
SetOwner ==
    /\ pc = "owner"
    /\ \/ /\ ~myILI.deleteWithRoot \/ myRoot.uid \in myILI.ownerUIDs
          /\ Return
          /\ UNCHANGED <<ili, watch, pending>>
       \/ /\ myILI.deleteWithRoot /\ myRoot.uid \notin myILI.ownerUIDs
          /\ ili.exists
          /\ WriteIndex([ili EXCEPT !.ownerUIDs = myILI.ownerUIDs \cup {myRoot.uid}])
          /\ Return
          /\ UNCHANGED pending
       \/ /\ myILI.deleteWithRoot /\ myRoot.uid \notin myILI.ownerUIDs
          /\ ~ili.exists
          /\ ReturnError
          /\ UNCHANGED <<ili, watch>>
    /\ UNCHANGED <<root, cache, counters, history>>

EnsureLineageSyncedTrue ==
    \/ GetConditions("syncedGet", "syncedPatch", "owner")
    \/ PatchConditions("syncedPatch", "owner")
    \/ GetConditions("guardGet", "guardPatch", "idle")
    \/ PatchConditions("guardPatch", "idle")

\* The next API call of the worker fails.
CallFails ==
    /\ Fault
    /\ pc # "idle"
    /\ ReturnError
    /\ UNCHANGED <<root, ili, watch, cache, history>>

\* The process dies; the new one lists the roots and the indexes.
Restart ==
    /\ Fault
    /\ Return
    /\ pending' = root.exists
    /\ cache' = ili
    /\ watch' = <<>>
    /\ UNCHANGED <<root, ili, history>>

-----------------------------------------------------------------------------
Environment ==
    \/ CreateRoot \/ DeleteRoot \/ InitLineageSynced
    \/ \E c \in Others : AddCondition(c)
    \/ DropAnnotation \/ DescendantExpires \/ DeleteIndex \/ CollectIndex
    \/ \E b \in BOOLEAN : SetDeleteWithRoot(b)
    \/ DeliverWatch \/ Resync
    \/ CallFails \/ Restart

Reconcile ==
    \/ GetRoot \/ CheckGuard \/ FetchIndex \/ CreateIndex \/ RefetchIndex
    \/ Prune \/ WriteAnnotation \/ EnsureLineageSyncedTrue \/ SetOwner

Next == Environment \/ Reconcile

Spec == Init /\ [][Next]_vars

\* The worker runs, the watch is delivered, the informer resyncs, Kubernetes
\* collects garbage.  Users, operators and faults owe nothing.
Fairness ==
    WF_vars(Reconcile) /\ WF_vars(DeliverWatch) /\ WF_vars(Resync) /\ WF_vars(CollectIndex)

FairSpec == Spec /\ Fairness

-----------------------------------------------------------------------------
(* Properties. *)

\* The objects and the variables of Reconcile have their types; between two
\* calls the worker holds nothing.
TypeOK ==
    /\ root \in Root
    /\ ili \in Index
    /\ watch \in Seq(Index)
    /\ cache \in Index
    /\ pending \in BOOLEAN
    /\ pc \in Steps
    /\ myRoot \in Root
    /\ myILI \in Index
    /\ pc = "idle" => myRoot = NoRoot /\ myILI = NoIndex
    /\ incarnations \in 0..MaxIncarnations
    /\ edits \in 0..MaxEdits
    /\ faults \in 0..MaxFaults
    /\ created \in BOOLEAN
    /\ removed \in BOOLEAN
    /\ late \subseteq Others

\* The annotation and LineageSynced=True are never ahead of the index: it was
\* created before, and unless someone deleted it, it is there, whatever fails
\* between the steps of Reconcile and however old the cache is.
IndexBeforeClaim ==
    root.annotated \/ root.synced = "True" => created /\ (ili.exists \/ removed)

\* When the controller has nothing left to do, the root is annotated and
\* LineageSynced is True: no fault, lag or early return leaves it half-way.
QuietMeansSynced ==
    pc = "idle" /\ ~pending /\ root.exists => root.annotated /\ root.synced = "True"

\* The index is bound to, and owned by, incarnations of the root that existed,
\* never one that is yet to come.
IndexOfARoot ==
    ili.exists =>
        /\ ili.rootUID \in 1..incarnations
        /\ ili.ownerUIDs \subseteq 1..incarnations

\* The status patch replaces the list of conditions.  What another operator
\* wrote before ensureLineageSyncedTrue read the root survives it, whatever
\* steps lie between; only a condition added after that read may be lost.
StatusPatchLosesOnlyLate ==
    [][root.exists /\ root'.exists => root.others \ root'.others \subseteq late]_vars

\* A root that stays is in the end annotated, synced and indexed for good,
\* even when garbage collection takes the index of an earlier incarnation
\* away while the cache still shows it.
EventuallyIndexed ==
    <>[]root.exists => <>[](root.annotated /\ root.synced = "True" /\ ili.exists)

-----------------------------------------------------------------------------
(* What the documentation promises and the code does not keep. *)

\* "After this window elapses the LineageController prunes the entry from the
\* DescendantRegistry."
EventuallyPruned == <>[](root.exists /\ ili.exists) => []<>(~ili.stale)

=============================================================================
