--------------------------- MODULE LineageRegistry ---------------------------
(***************************************************************************)
(* The two registries of an InfrastructureLineageIndex (ILI) and the three *)
(* reconcilers that write them:                                            *)
(*                                                                         *)
(*   DescendantReconciler  appends to spec.descendantRegistry,             *)
(*   OutcomeReconciler     appends to spec.outcomeRegistry,                *)
(*   LineageReconciler     prunes spec.descendantRegistry.                 *)
(*                                                                         *)
(* Every writer has the same shape: read the ILI from the informer cache   *)
(* (typed reads are served from the cache, which lags the API server),     *)
(* compute the whole new list, send it as a JSON merge patch that carries  *)
(* no resourceVersion, so that the API server replaces the list it holds.  *)
(* Derived objects are unstructured: their reads go to the API server.     *)
(*                                                                         *)
(* One API call is one step.  The model abstracts:                         *)
(*   - the order of a registry list: a registry is a set of entries;       *)
(*   - GVK, namespace and name of an object: one request key in Names;     *)
(*   - lineage labels: the function Labels (set by operators at creation); *)
(*   - terminal conditions: the OutcomeType classifyTerminalOutcome gives; *)
(*   - days: ticks of the clock now.                                       *)
(***************************************************************************)
EXTENDS Integers, Sequences

CONSTANTS
    Uids,             \* UIDs of derived objects
    Names,            \* request keys (kind, namespace, name) of derived objects
    Kinds,            \* DerivedObjectGVKs
    DescendantKinds,  \* kinds a DescendantReconciler is registered for
    OutcomeKinds,     \* kinds an OutcomeReconciler is registered for
    ILIs,             \* namespaced names of lineage indexes
    Principals,       \* declaring principals
    OutcomeTypes,     \* Succeeded, Failed, Drifted, Superseded
    NameOf,           \* [Uids -> Names]
    KindOf,           \* [Names -> Kinds]
    Labels,           \* [Uids -> Label]
    Legacy,           \* UIDs registered before retention tracking existed
    Retentions,       \* values of descendantRetentionDays an operator may set
    DefaultRetention, \* defaultDescendantRetentionDays
    MaxTime,          \* bound: last value of the clock
    MaxLag,           \* bound: undelivered watch events per ILI
    MaxFaults,        \* bound: crashes, lost requests and lost replies
    MaxPrunes         \* bound: prune passes

NoILI == "NoILI"
NoUid == "NoUid"
NoPrincipal == ""
NoOutcome == "none"
NilTime == -1

(***************************************************************************)
(* The lineage labels of a derived object.  ili is the key that the labels *)
(* root-ili and root-ili-namespace resolve to, NoILI when root-ili is      *)
(* absent or empty; inEnum says that creation-rationale is in the          *)
(* vocabulary the CRD schema admits; actor is the actor-ref label.         *)
(***************************************************************************)
Label == [ili : ILIs \cup {NoILI}, inEnum : BOOLEAN, actor : Principals \cup {NoPrincipal}]

ASSUME ConstantsAssumption ==
    /\ NameOf \in [Uids -> Names]
    /\ KindOf \in [Names -> Kinds]
    /\ DescendantKinds \subseteq Kinds
    /\ OutcomeKinds \subseteq Kinds
    /\ Labels \in [Uids -> Label]
    /\ Legacy \subseteq Uids
    /\ NoILI \notin ILIs
    /\ NoUid \notin Uids
    /\ NoPrincipal \notin Principals
    /\ NoOutcome \notin OutcomeTypes
    /\ Retentions \subseteq Nat
    /\ DefaultRetention \in Nat
    /\ MaxTime \in Nat
    /\ MaxLag \in Nat
    /\ MaxFaults \in Nat
    /\ MaxPrunes \in Nat

DescendantEntry ==
    [uid : Uids, createdAt : Int, actorRef : Principals \cup {NoPrincipal}]

OutcomeEntry == [derivedObjectUID : Uids, outcomeType : OutcomeTypes]

\* An ILI as the API server or the cache holds it.
Index ==
    [exists             : BOOLEAN,
     declaringPrincipal : Principals \cup {NoPrincipal},
     retentionDays      : Nat,
     descendantRegistry : SUBSET DescendantEntry,
     outcomeRegistry    : SUBSET OutcomeEntry]

NotFound ==
    [exists |-> FALSE, declaringPrincipal |-> NoPrincipal, retentionDays |-> 0,
     descendantRegistry |-> {}, outcomeRegistry |-> {}]

VARIABLES
    now,      \* the clock
    object,   \* [Uids -> "none", "live" or "gone"]
    outcome,  \* [Uids -> OutcomeType its current conditions classify to]
    reported, \* history: every <<uid, type>> the conditions ever classified to
    ili,      \* [ILIs -> Index], the API server
    watch,    \* [ILIs -> Seq(Index)], watch events not yet delivered
    cache,    \* [ILIs -> Index], the informer cache
    queueD,   \* [Kinds -> SUBSET Names], work queue of descendant-<kind>
    queueO,   \* [Kinds -> SUBSET Names], work queue of outcome-<kind>
    workerD,  \* [Kinds -> the one DescendantReconciler worker of the kind]
    workerO,  \* [Kinds -> the one OutcomeReconciler worker of the kind]
    pruner,   \* [ILIs -> the pruneStaleDescendants call in progress]
    faults,   \* number of crashes, lost requests and lost replies so far
    prunes    \* number of prune passes so far

objectVars == <<object, outcome, reported>>
indexVars == <<ili, watch>>
queueVars == <<queueD, queueO>>
vars == <<now, object, outcome, reported, ili, watch, cache,
          queueD, queueO, workerD, workerO, pruner, faults, prunes>>

-----------------------------------------------------------------------------
(* Worker states: what a reconcile call holds between two API calls. *)

IdleD == [pc |-> "idle", uid |-> NoUid, body |-> {}]
IdleO == [pc |-> "idle", uid |-> NoUid, outcomeType |-> NoOutcome, body |-> {}]
IdleP == [pc |-> "idle", retentionDays |-> 0, todo |-> {}, kept |-> {}, pruned |-> FALSE]

\* uid: the derived object read; body: the list the merge patch will carry.
WorkerD ==
    [pc : {"idle", "fetch", "patch"}, uid : Uids \cup {NoUid}, body : SUBSET DescendantEntry]
WorkerO ==
    [pc : {"idle", "fetch", "patch"}, uid : Uids \cup {NoUid},
     outcomeType : OutcomeTypes \cup {NoOutcome}, body : SUBSET OutcomeEntry]
Pruner ==
    [pc : {"idle", "check"}, retentionDays : Nat, todo : SUBSET DescendantEntry,
     kept : SUBSET DescendantEntry, pruned : BOOLEAN]

-----------------------------------------------------------------------------
(* Helpers. *)

Live(name) == {u \in Uids : NameOf[u] = name /\ object[u] = "live"}
LiveNames(k) == {NameOf[u] : u \in {v \in Uids : object[v] = "live" /\ KindOf[NameOf[v]] = k}}

\* Work queues holding every live object of the kinds that are registered.
Listed(kinds) == [k \in Kinds |-> IF k \in kinds THEN LiveNames(k) ELSE {}]

\* An event on the object of UID u reaches the controllers of its kind.
Enqueue(u) ==
    LET n == NameOf[u]
        k == KindOf[n]
    IN  /\ queueD' = [queueD EXCEPT ![k] = IF k \in DescendantKinds THEN @ \cup {n} ELSE @]
        /\ queueO' = [queueO EXCEPT ![k] = IF k \in OutcomeKinds THEN @ \cup {n} ELSE @]

Fault == faults < MaxFaults /\ faults' = faults + 1

\* A write accepted by the API server: the new version goes out on the watch.
WriteIndex(i, index) ==
    /\ Len(watch[i]) < MaxLag
    /\ ili' = [ili EXCEPT ![i] = index]
    /\ watch' = [watch EXCEPT ![i] = Append(@, index)]

Registers(registry, u) == \E e \in registry : e.uid = u
Records(registry, u) == \E e \in registry : e.derivedObjectUID = u

\* rootBinding.declaringPrincipal first, the actor-ref label as a fallback.
ActorRef(index, label) ==
    IF index.declaringPrincipal # NoPrincipal THEN index.declaringPrincipal ELSE label.actor

NewDescendantEntry(index, u) ==
    [uid |-> u, createdAt |-> now, actorRef |-> ActorRef(index, Labels[u])]

\* A new index: bound to its principal, with empty registries and no retentionPolicy.
buildILI(p) == [NotFound EXCEPT !.exists = TRUE, !.declaringPrincipal = p]

RetentionWindow(days) == IF days > 0 THEN days ELSE DefaultRetention

-----------------------------------------------------------------------------
(* Initial states: an index that predates retention tracking, or none. *)

LegacyIndex(i) ==
    [NotFound EXCEPT
        !.exists = TRUE,
        !.descendantRegistry =
            {[uid |-> u, createdAt |-> NilTime, actorRef |-> Labels[u].actor] :
                u \in {v \in Legacy : Labels[v].ili = i}}]

Init ==
    /\ now = 0
    /\ object = [u \in Uids |-> IF u \in Legacy THEN "live" ELSE "none"]
    /\ outcome = [u \in Uids |-> NoOutcome]
    /\ reported = {}
    /\ \E indexed \in SUBSET ILIs :
          ili = [i \in ILIs |-> IF i \in indexed THEN LegacyIndex(i) ELSE NotFound]
    /\ watch = [i \in ILIs |-> <<>>]
    /\ cache = ili
    /\ queueD = Listed(DescendantKinds)
    /\ queueO = Listed(OutcomeKinds)
    /\ workerD = [k \in Kinds |-> IdleD]
    /\ workerO = [k \in Kinds |-> IdleO]
    /\ pruner = [i \in ILIs |-> IdleP]
    /\ faults = 0
    /\ prunes = 0

-----------------------------------------------------------------------------
(* Environment: operators, cluster users, the API machinery. *)

Tick ==
    /\ now < MaxTime
    /\ now' = now + 1
    /\ UNCHANGED <<objectVars, indexVars, cache, queueVars, workerD, workerO, pruner, faults, prunes>>

CreateObject(u) ==
    /\ object[u] = "none"
    /\ Live(NameOf[u]) = {}
    /\ object' = [object EXCEPT ![u] = "live"]
    /\ Enqueue(u)
    /\ UNCHANGED <<now, outcome, reported, indexVars, cache, workerD, workerO, pruner, faults, prunes>>

\* The operator that owns the object rewrites its status conditions.
ReportConditions(u, t) ==
    /\ object[u] = "live"
    /\ outcome[u] # t
    /\ outcome' = [outcome EXCEPT ![u] = t]
    /\ reported' = reported \cup {<<u, t>>}
    /\ Enqueue(u)
    /\ UNCHANGED <<now, object, indexVars, cache, workerD, workerO, pruner, faults, prunes>>

DeleteObject(u) ==
    /\ object[u] = "live"
    /\ object' = [object EXCEPT ![u] = "gone"]
    /\ Enqueue(u)
    /\ UNCHANGED <<now, outcome, reported, indexVars, cache, workerD, workerO, pruner, faults, prunes>>

\* LineageReconciler Step C creates the index that buildILI returns.
CreateIndex(i, p) ==
    /\ ~ili[i].exists
    /\ WriteIndex(i, buildILI(p))
    /\ UNCHANGED <<now, objectVars, cache, queueVars, workerD, workerO, pruner, faults, prunes>>

\* Garbage collection with the root, or a cluster user.
DeleteIndex(i) ==
    /\ ili[i].exists
    /\ WriteIndex(i, NotFound)
    /\ UNCHANGED <<now, objectVars, cache, queueVars, workerD, workerO, pruner, faults, prunes>>

SetRetention(i, days) ==
    /\ ili[i].exists
    /\ ili[i].retentionDays # days
    /\ WriteIndex(i, [ili[i] EXCEPT !.retentionDays = days])
    /\ UNCHANGED <<now, objectVars, cache, queueVars, workerD, workerO, pruner, faults, prunes>>

DeliverWatch(i) ==
    /\ watch[i] # <<>>
    /\ cache' = [cache EXCEPT ![i] = Head(watch[i])]
    /\ watch' = [watch EXCEPT ![i] = Tail(@)]
    /\ UNCHANGED <<now, objectVars, ili, queueVars, workerD, workerO, pruner, faults, prunes>>

\* The informers of kind k replay every object they hold (SyncPeriod).
Resync(k) ==
    /\ queueD' = [queueD EXCEPT ![k] = @ \cup Listed(DescendantKinds)[k]]
    /\ queueO' = [queueO EXCEPT ![k] = @ \cup Listed(OutcomeKinds)[k]]
    /\ UNCHANGED <<now, objectVars, indexVars, cache, workerD, workerO, pruner, faults, prunes>>

\* The process dies between any two API calls; a new one lists everything.
Restart ==
    /\ Fault
    /\ cache' = ili
    /\ watch' = [i \in ILIs |-> <<>>]
    /\ queueD' = Listed(DescendantKinds)
    /\ queueO' = Listed(OutcomeKinds)
    /\ workerD' = [k \in Kinds |-> IdleD]
    /\ workerO' = [k \in Kinds |-> IdleO]
    /\ pruner' = [i \in ILIs |-> IdleP]
    /\ UNCHANGED <<now, objectVars, ili, prunes>>

-----------------------------------------------------------------------------
(* DescendantReconciler.Reconcile, the worker of kind k. *)

\* Read the derived object; not found or without a root-ili label: no-op.
GetObjectD(k, n) ==
    /\ workerD[k].pc = "idle"
    /\ n \in queueD[k]
    /\ queueD' = [queueD EXCEPT ![k] = @ \ {n}]
    /\ \/ \E u \in Live(n) :
            /\ Labels[u].ili # NoILI
            /\ workerD' = [workerD EXCEPT ![k] = [IdleD EXCEPT !.pc = "fetch", !.uid = u]]
       \/ /\ \A u \in Live(n) : Labels[u].ili = NoILI
          /\ UNCHANGED workerD
    /\ UNCHANGED <<now, objectVars, indexVars, cache, queueO, workerO, pruner, faults, prunes>>

\* Mutant: the idempotency guard is missing.
FetchIndexDUnguarded(k) ==
    LET u == workerD[k].uid
        index == cache[Labels[u].ili]
    IN  /\ workerD[k].pc = "fetch"
        /\ index.exists
        /\ workerD' = [workerD EXCEPT ![k] =
              [pc   |-> "patch", uid |-> u,
               body |-> index.descendantRegistry \cup {NewDescendantEntry(index, u)}]]
        /\ UNCHANGED <<now, objectVars, indexVars, cache, queueVars, workerO, pruner, faults, prunes>>

\* Mutant: the test for NotFound is inverted, an index that is there is skipped.
FetchIndexDInverted(k) ==
    /\ workerD[k].pc = "fetch"
    /\ cache[Labels[workerD[k].uid].ili].exists
    /\ workerD' = [workerD EXCEPT ![k] = IdleD]
    /\ UNCHANGED <<now, objectVars, indexVars, cache, queueVars, workerO, pruner, faults, prunes>>

\* Read the index from the cache; absent: requeue; UID registered: no-op;
\* otherwise build the entry and the list to patch.
FetchIndexD(k) ==
    LET u == workerD[k].uid
        index == cache[Labels[u].ili]
    IN  /\ workerD[k].pc = "fetch"
        /\ \/ /\ ~index.exists
              /\ workerD' = [workerD EXCEPT ![k] = IdleD]
              /\ queueD' = [queueD EXCEPT ![k] = @ \cup {NameOf[u]}]
           \/ /\ index.exists
              /\ Registers(index.descendantRegistry, u)
              /\ workerD' = [workerD EXCEPT ![k] = IdleD]
              /\ UNCHANGED queueD
           \/ /\ index.exists
              /\ ~Registers(index.descendantRegistry, u)
              /\ workerD' = [workerD EXCEPT ![k] =
                    [pc   |-> "patch", uid |-> u,
                     body |-> index.descendantRegistry \cup {NewDescendantEntry(index, u)}]]
              /\ UNCHANGED queueD
        /\ UNCHANGED <<now, objectVars, indexVars, cache, queueO, workerO, pruner, faults, prunes>>

\* Mutant: the root-ili-namespace label is ignored, another index is patched.
PatchDOtherNamespace(k) ==
    /\ workerD[k].pc = "patch"
    /\ Labels[workerD[k].uid].inEnum
    /\ \E i \in ILIs \ {Labels[workerD[k].uid].ili} :
          /\ ili[i].exists
          /\ WriteIndex(i, [ili[i] EXCEPT !.descendantRegistry = workerD[k].body])
    /\ workerD' = [workerD EXCEPT ![k] = IdleD]
    /\ UNCHANGED <<now, objectVars, cache, queueVars, workerO, pruner, faults, prunes>>

\* The merge patch replaces the list the API server holds by the one in the
\* body.  The reply reaches the worker, or is lost and the call is retried.
PatchD(k) ==
    LET u == workerD[k].uid
        i == Labels[u].ili
    IN  /\ workerD[k].pc = "patch"
        /\ ili[i].exists
        /\ Labels[u].inEnum
        /\ WriteIndex(i, [ili[i] EXCEPT !.descendantRegistry = workerD[k].body])
        /\ workerD' = [workerD EXCEPT ![k] = IdleD]
        /\ \/ UNCHANGED <<queueD, faults>>
           \/ Fault /\ queueD' = [queueD EXCEPT ![k] = @ \cup {NameOf[u]}]
        /\ UNCHANGED <<now, objectVars, cache, queueO, workerO, pruner, prunes>>

\* The patch is refused (no such index, creation-rationale outside the CRD's
\* enum) and the call retried.
PatchRefusedD(k) ==
    LET u == workerD[k].uid
    IN  /\ workerD[k].pc = "patch"
        /\ ~ili[Labels[u].ili].exists \/ ~Labels[u].inEnum
        /\ workerD' = [workerD EXCEPT ![k] = IdleD]
        /\ queueD' = [queueD EXCEPT ![k] = @ \cup {NameOf[u]}]
        /\ UNCHANGED <<now, objectVars, indexVars, cache, queueO, workerO, pruner, faults, prunes>>

\* The read of the index or the patch fails: the error requeues the name.
CallFailsD(k) ==
    /\ Fault
    /\ workerD[k].pc # "idle"
    /\ workerD' = [workerD EXCEPT ![k] = IdleD]
    /\ queueD' = [queueD EXCEPT ![k] = @ \cup {NameOf[workerD[k].uid]}]
    /\ UNCHANGED <<now, objectVars, indexVars, cache, queueO, workerO, pruner, prunes>>

-----------------------------------------------------------------------------
(* OutcomeReconciler.Reconcile, the worker of kind k. *)

\* Steps 1 and 2: read the derived object and its conditions.
GetObjectO(k, n) ==
    /\ workerO[k].pc = "idle"
    /\ n \in queueO[k]
    /\ queueO' = [queueO EXCEPT ![k] = @ \ {n}]
    /\ \/ \E u \in Live(n) :
            /\ Labels[u].ili # NoILI
            /\ workerO' = [workerO EXCEPT ![k] =
                  [IdleO EXCEPT !.pc = "fetch", !.uid = u, !.outcomeType = outcome[u]]]
       \/ /\ \A u \in Live(n) : Labels[u].ili = NoILI
          /\ UNCHANGED workerO
    /\ UNCHANGED <<now, objectVars, indexVars, cache, queueD, workerD, pruner, faults, prunes>>

\* FetchIndexO with another condition to return on, outcome type or list to
\* extend, for its mutants.
FetchIndexOWith(k, return, t, base) ==
    LET u == workerO[k].uid
    IN  /\ workerO[k].pc = "fetch"
        /\ \/ return /\ workerO' = [workerO EXCEPT ![k] = IdleO]
           \/ /\ ~return
              /\ workerO' = [workerO EXCEPT ![k] =
                    [pc   |-> "patch", uid |-> u, outcomeType |-> t,
                     body |-> base \cup {[derivedObjectUID |-> u, outcomeType |-> t]}]]
        /\ UNCHANGED <<now, objectVars, indexVars, cache, queueVars, workerD, pruner, faults, prunes>>

\* Mutant: the append-once guard (step 4) is missing.
FetchIndexOUnguarded(k) ==
    LET index == cache[Labels[workerO[k].uid].ili]
    IN  FetchIndexOWith(k, ~index.exists \/ workerO[k].outcomeType = NoOutcome,
                        workerO[k].outcomeType, index.outcomeRegistry)

\* Mutant: a non-terminal object is not skipped (step 5).
FetchIndexONotTerminal(k) ==
    LET index == cache[Labels[workerO[k].uid].ili]
    IN  FetchIndexOWith(k, ~index.exists \/ Records(index.outcomeRegistry, workerO[k].uid),
                        workerO[k].outcomeType, index.outcomeRegistry)

\* Mutant: an object without a terminal condition falls through to some type.
FetchIndexODefault(k) ==
    LET index == cache[Labels[workerO[k].uid].ili]
    IN  \E t \in OutcomeTypes :
            FetchIndexOWith(k, ~index.exists \/ Records(index.outcomeRegistry, workerO[k].uid),
                            t, index.outcomeRegistry)

\* Mutant: the patch carries the new entry alone.
FetchIndexOReplaces(k) ==
    LET index == cache[Labels[workerO[k].uid].ili]
        return == \/ ~index.exists
                  \/ Records(index.outcomeRegistry, workerO[k].uid)
                  \/ workerO[k].outcomeType = NoOutcome
    IN  FetchIndexOWith(k, return, workerO[k].outcomeType, {})

\* Mutant: the test for NotFound is inverted, an index that is there is skipped.
FetchIndexOInverted(k) ==
    LET index == cache[Labels[workerO[k].uid].ili]
    IN  FetchIndexOWith(k, index.exists, workerO[k].outcomeType, {})

\* Steps 3 to 6: read the index from the cache; absent, already recorded or
\* not terminal: return without a requeue; otherwise build the list to patch.
FetchIndexO(k) ==
    LET u == workerO[k].uid
        t == workerO[k].outcomeType
        index == cache[Labels[u].ili]
        return == ~index.exists \/ Records(index.outcomeRegistry, u) \/ t = NoOutcome
    IN  /\ workerO[k].pc = "fetch"
        /\ \/ /\ return
              /\ workerO' = [workerO EXCEPT ![k] = IdleO]
           \/ /\ ~return
              /\ workerO' = [workerO EXCEPT ![k] =
                    [pc   |-> "patch", uid |-> u, outcomeType |-> t,
                     body |-> index.outcomeRegistry
                                \cup {[derivedObjectUID |-> u, outcomeType |-> t]}]]
        /\ UNCHANGED <<now, objectVars, indexVars, cache, queueVars, workerD, pruner, faults, prunes>>

\* Step 6: the merge patch replaces outcomeRegistry; the reply may be lost.
PatchO(k) ==
    LET u == workerO[k].uid
        i == Labels[u].ili
    IN  /\ workerO[k].pc = "patch"
        /\ ili[i].exists
        /\ WriteIndex(i, [ili[i] EXCEPT !.outcomeRegistry = workerO[k].body])
        /\ workerO' = [workerO EXCEPT ![k] = IdleO]
        /\ \/ UNCHANGED <<queueO, faults>>
           \/ Fault /\ queueO' = [queueO EXCEPT ![k] = @ \cup {NameOf[u]}]
        /\ UNCHANGED <<now, objectVars, cache, queueD, workerD, pruner, prunes>>

\* The index is gone: the error requeues the name.
PatchRefusedO(k) ==
    LET u == workerO[k].uid
    IN  /\ workerO[k].pc = "patch"
        /\ ~ili[Labels[u].ili].exists
        /\ workerO' = [workerO EXCEPT ![k] = IdleO]
        /\ queueO' = [queueO EXCEPT ![k] = @ \cup {NameOf[u]}]
        /\ UNCHANGED <<now, objectVars, indexVars, cache, queueD, workerD, pruner, faults, prunes>>

CallFailsO(k) ==
    /\ Fault
    /\ workerO[k].pc # "idle"
    /\ workerO' = [workerO EXCEPT ![k] = IdleO]
    /\ queueO' = [queueO EXCEPT ![k] = @ \cup {NameOf[workerO[k].uid]}]
    /\ UNCHANGED <<now, objectVars, indexVars, cache, queueD, workerD, pruner, prunes>>

-----------------------------------------------------------------------------
(* LineageReconciler.pruneStaleDescendants on the index i, called with the *)
(* cached index.                                                           *)

StartPrune(i) ==
    /\ pruner[i].pc = "idle"
    /\ cache[i].exists
    /\ cache[i].descendantRegistry # {}
    /\ pruner' = [pruner EXCEPT ![i] =
          [IdleP EXCEPT !.pc = "check", !.retentionDays = cache[i].retentionDays,
                        !.todo = cache[i].descendantRegistry]]
    /\ prunes < MaxPrunes /\ prunes' = prunes + 1
    /\ UNCHANGED <<now, objectVars, indexVars, cache, queueVars, workerD, workerO, faults>>

\* Mutant: the window ends a day early.
WithinRetentionShort(e, days) ==
    e.createdAt = NilTime \/ now - e.createdAt < RetentionWindow(days) - 1

\* An entry without createdAt, or within the retention window, is kept
\* without looking at its object.
WithinRetention(e, days) ==
    e.createdAt = NilTime \/ now - e.createdAt < RetentionWindow(days)

\* One iteration of the loop: an existence check by kind, namespace and name.
CheckEntry(i, e) ==
    /\ pruner[i].pc = "check"
    /\ e \in pruner[i].todo
    /\ \/ /\ WithinRetention(e, pruner[i].retentionDays) \/ Live(NameOf[e.uid]) # {}
          /\ pruner' = [pruner EXCEPT ![i].todo = @ \ {e}, ![i].kept = @ \cup {e}]
       \/ /\ ~WithinRetention(e, pruner[i].retentionDays) /\ Live(NameOf[e.uid]) = {}
          /\ pruner' = [pruner EXCEPT ![i].todo = @ \ {e}, ![i].pruned = TRUE]
    /\ UNCHANGED <<now, objectVars, indexVars, cache, queueVars, workerD, workerO, faults, prunes>>

\* The existence check fails: the entry is kept.
CheckEntryFails(i, e) ==
    /\ pruner[i].pc = "check"
    /\ e \in pruner[i].todo
    /\ ~WithinRetention(e, pruner[i].retentionDays)
    /\ pruner' = [pruner EXCEPT ![i].todo = @ \ {e}, ![i].kept = @ \cup {e}]
    /\ UNCHANGED <<now, objectVars, indexVars, cache, queueVars, workerD, workerO, faults, prunes>>

\* Nothing to prune, or the patch is refused or lost.
EndPrune(i) ==
    /\ pruner[i].pc = "check"
    /\ pruner[i].todo = {}
    /\ pruner' = [pruner EXCEPT ![i] = IdleP]
    /\ UNCHANGED <<now, objectVars, indexVars, cache, queueVars, workerD, workerO, faults, prunes>>

PatchPruned(i) ==
    /\ pruner[i].pc = "check"
    /\ pruner[i].todo = {}
    /\ pruner[i].pruned
    /\ ili[i].exists
    /\ WriteIndex(i, [ili[i] EXCEPT !.descendantRegistry = pruner[i].kept])
    /\ pruner' = [pruner EXCEPT ![i] = IdleP]
    /\ UNCHANGED <<now, objectVars, cache, queueVars, workerD, workerO, faults, prunes>>

-----------------------------------------------------------------------------
(* Specification. *)

Environment ==
    \/ Tick
    \/ \E u \in Uids : CreateObject(u) \/ DeleteObject(u)
    \/ \E u \in Uids, t \in OutcomeTypes \cup {NoOutcome} : ReportConditions(u, t)
    \/ \E i \in ILIs : DeleteIndex(i) \/ DeliverWatch(i)
    \/ \E i \in ILIs, p \in Principals : CreateIndex(i, p)
    \/ \E i \in ILIs, days \in Retentions : SetRetention(i, days)
    \/ \E k \in Kinds : Resync(k)
    \/ Restart

DescendantReconciler(k) ==
    \/ \E n \in Names : GetObjectD(k, n)
    \/ FetchIndexD(k) \/ PatchD(k) \/ PatchRefusedD(k) \/ CallFailsD(k)

OutcomeReconciler(k) ==
    \/ \E n \in Names : GetObjectO(k, n)
    \/ FetchIndexO(k) \/ PatchO(k) \/ PatchRefusedO(k) \/ CallFailsO(k)

PruneStaleDescendants(i) ==
    \/ StartPrune(i) \/ EndPrune(i) \/ PatchPruned(i)
    \/ \E e \in pruner[i].todo : CheckEntry(i, e) \/ CheckEntryFails(i, e)

Next ==
    \/ Environment
    \/ \E k \in Kinds : DescendantReconciler(k) \/ OutcomeReconciler(k)
    \/ \E i \in ILIs : PruneStaleDescendants(i)

Spec == Init /\ [][Next]_vars

(***************************************************************************)
(* Every controller keeps its worker running, the watch is delivered and   *)
(* the informers resync.  Users, faults and prune passes owe nothing.      *)
(***************************************************************************)
Fairness ==
    /\ \A i \in ILIs : WF_vars(DeliverWatch(i))
    /\ \A k \in Kinds :
        /\ WF_vars(Resync(k))
        /\ \A n \in Names : WF_vars(GetObjectD(k, n)) /\ WF_vars(GetObjectO(k, n))
        /\ WF_vars(FetchIndexD(k)) /\ WF_vars(PatchD(k) \/ PatchRefusedD(k))
        /\ WF_vars(FetchIndexO(k)) /\ WF_vars(PatchO(k) \/ PatchRefusedO(k))

FairSpec == Spec /\ Fairness

-----------------------------------------------------------------------------
(* Properties. *)

Labelled(u) == u \in Uids /\ Labels[u].ili # NoILI

\* Every variable holds a value of its type: a registry only ever carries
\* well-formed entries, a busy worker holds an object whose labels resolve to
\* an index (the early return of both Reconcile functions).
TypeOK ==
    /\ now \in 0..MaxTime
    /\ object \in [Uids -> {"none", "live", "gone"}]
    /\ outcome \in [Uids -> OutcomeTypes \cup {NoOutcome}]
    /\ reported \subseteq Uids \X (OutcomeTypes \cup {NoOutcome})
    /\ ili \in [ILIs -> Index]
    /\ watch \in [ILIs -> Seq(Index)]
    /\ cache \in [ILIs -> Index]
    /\ queueD \in [Kinds -> SUBSET Names]
    /\ queueO \in [Kinds -> SUBSET Names]
    /\ workerD \in [Kinds -> WorkerD]
    /\ workerO \in [Kinds -> WorkerO]
    /\ \A k \in Kinds : workerD[k].pc # "idle" => Labelled(workerD[k].uid)
    /\ \A k \in Kinds : workerO[k].pc # "idle" => Labelled(workerO[k].uid)
    /\ pruner \in [ILIs -> Pruner]
    /\ faults \in 0..MaxFaults
    /\ prunes \in 0..MaxPrunes

UniquePerUid(registry) == \A e1, e2 \in registry : e1.uid = e2.uid => e1 = e2
UniquePerObject(registry) ==
    \A o1, o2 \in registry : o1.derivedObjectUID = o2.derivedObjectUID => o1 = o2

\* The idempotency guard of DescendantReconciler.Reconcile is on a cached
\* read: nevertheless no index ever lists the same UID twice, whatever the lag
\* of the cache, the retries, the restarts and the concurrent prune passes.
UniqueDescendants == \A i \in ILIs : UniquePerUid(ili[i].descendantRegistry)

\* The same for the guard of OutcomeReconciler.Reconcile step 4: an index
\* never holds two outcomes, let alone two different ones, for one UID.
UniqueOutcomes == \A i \in ILIs : UniquePerObject(ili[i].outcomeRegistry)

\* A recorded outcome is one that the conditions of the object did classify
\* to at some time, even when they changed between the read of the object,
\* the read of the index and the patch, or were written by a dead process.
OutcomesObserved ==
    \A i \in ILIs : \A o \in ili[i].outcomeRegistry :
        <<o.derivedObjectUID, o.outcomeType>> \in reported

\* A registered descendant is an object that was created, whose labels name
\* that very index (not another one that a stale worker had in hand), and the
\* entry is not dated after it was written.
EntriesJustified ==
    \A i \in ILIs : \A e \in ili[i].descendantRegistry :
        /\ object[e.uid] # "none"
        /\ Labels[e.uid].ili = i
        /\ e.createdAt <= now

\* Copies of the registry of index i: versions on the watch and in the cache,
\* lists in the hands of a worker or of a prune pass.
DescendantCopies(i) ==
    {ili[i].descendantRegistry, cache[i].descendantRegistry}
        \cup {watch[i][n].descendantRegistry : n \in DOMAIN watch[i]}
        \cup {workerD[k].body :
                k \in {j \in Kinds : workerD[j].pc = "patch" /\ Labels[workerD[j].uid].ili = i}}
        \cup (IF pruner[i].pc = "check" THEN {pruner[i].todo \cup pruner[i].kept} ELSE {})

OutcomeCopies(i) ==
    {ili[i].outcomeRegistry, cache[i].outcomeRegistry}
        \cup {watch[i][n].outcomeRegistry : n \in DOMAIN watch[i]}
        \cup {workerO[k].body :
                k \in {j \in Kinds : workerO[j].pc = "patch" /\ Labels[workerO[j].uid].ili = i}}

SettledDescendant(i, e) == \A r \in DescendantCopies(i) : e \in r
SettledOutcome(i, o) == \A r \in OutcomeCopies(i) : o \in r

\* The retention loop may drop e now: its window is over, its object not found.
Expired(i, e) ==
    /\ e.createdAt # NilTime
    /\ now - e.createdAt >= RetentionWindow(pruner[i].retentionDays)
    /\ Live(NameOf[e.uid]) = {}

\* "Never modified or removed except by the retention enforcement loop" holds
\* of an entry from the moment it has reached every copy of the list: then
\* only a retention check of that very entry, or the deletion of the index,
\* takes it out again.  (LostUpdate below: not before.)
SettledEntriesStay ==
    [][\A i \in ILIs : \A e \in ili[i].descendantRegistry :
          SettledDescendant(i, e) /\ ili'[i].exists =>
              SettledDescendant(i, e)' \/ (e \in pruner[i].todo /\ Expired(i, e))]_vars

\* The same for outcomes, which nothing ever prunes.
SettledOutcomesStay ==
    [][\A i \in ILIs : \A o \in ili[i].outcomeRegistry :
          SettledOutcome(i, o) /\ ili'[i].exists => SettledOutcome(i, o)']_vars

Tracked(u) ==
    /\ object[u] = "live"
    /\ Labels[u].ili # NoILI
    /\ Labels[u].inEnum
    /\ ili[Labels[u].ili].exists

\* A labelled object whose index comes to stay is in the end registered for
\* good: the reconciler requeues until the index shows up in the cache.
EventuallyRegistered ==
    \A u \in {v \in Uids : Labels[v].ili # NoILI} :
        <>[]Tracked(u) => <>[]Registers(ili[Labels[u].ili].descendantRegistry, u)

\* A terminal outcome that stays is in the end recorded for good, although
\* the reconciler drops the request when the index is not there yet: the
\* resync of the informer brings it back.
EventuallyRecorded ==
    \A u \in {v \in Uids : Labels[v].ili # NoILI} :
        <>[](Tracked(u) /\ outcome[u] # NoOutcome)
            => <>[]Records(ili[Labels[u].ili].outcomeRegistry, u)

-----------------------------------------------------------------------------
(* What the documentation promises and the code does not keep. *)

\* "An entry is never modified or removed except by the retention enforcement
\* loop (which removes stale entries after the retention window elapses)."
LostUpdate ==
    [][\A i \in ILIs : \A e \in ili[i].descendantRegistry :
          ili'[i].exists =>
              \/ e \in ili'[i].descendantRegistry
              \/ pruner[i].pc = "check" /\ e \notin pruner[i].kept /\ Expired(i, e)]_vars

=============================================================================
