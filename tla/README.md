# A TLA+ verification of seam-core

seam-core is one Kubernetes controller process. It keeps an
`InfrastructureLineageIndex` (ILI) for every root declaration of the Seam
operators, records in it the objects derived from the root and their outcomes,
and projects the state of five kinds of objects to a DNS zone in a ConfigMap.
This directory holds the TLA+ modules that model it, the TLC configurations
that check them on small instances, and the TLAPS proofs.

- `PROJECT.json` lists the components, the runs, the mutants, the source lines
  behind every definition, the findings, the hazards and the theorems.
- `tlc -config <run>.cfg <module>` repeats a run; `tlapm <module>_proof.tla`
  checks the proofs.

## 1. Inventory

### Components

| component | state | operations | modelled in |
|---|---|---|---|
| `LineageReconciler` (one per root GVK, `internal/controller/lineage_controller.go`) | none of its own: root object, ILI, informer cache | Steps A to Eg of `Reconcile`, `pruneStaleDescendants`, `ensureLineageSyncedTrue`, `ensureOwnerReferenceIfDeleteWithRoot` | `LineageReconciler`, `LineageRegistry` (pruning) |
| `DescendantReconciler` (one per derived GVK) | `spec.descendantRegistry` of the ILI | append an entry | `LineageRegistry` |
| `OutcomeReconciler` (one per derived GVK; `main` does not register it) | `spec.outcomeRegistry` of the ILI | append an outcome, `classifyTerminalOutcome` | `LineageRegistry`, `OutcomeClassifier` |
| `DSNSReconciler` (one per DSNS GVK) | finalizer on the watched object | glue refresh, finalizer, derive, update or remove, apply | `DSNS`, `DSNSRecords`; what it promises: `ZoneDirectory` |
| `DSNSState`, `ZoneFile`, `ConfigMapZoneWriter` (`internal/dns`) | zone and owned keys (memory), ConfigMap and its mirror | `SetStaticRecord`, `UpdateRecords`, `RemoveRecords`, `Apply`, `ApplyContent`, `applyMirror` | `DSNS` |
| admission webhook (`internal/webhook`) | none | three pure gates and their handlers | `AdmissionGates` |
| notification sinks (`internal/dns/sink_registry.go`, `event.go`) | one goroutine per event and sink | `SinkRegistry.Notify`, the events of updates and deletions | `DSNSNotify`, `DSNSEvents` |
| `pkg/conditions` | list of conditions; a constant vocabulary | `SetCondition`, `FindCondition`; `ValidateCondition`, `KnownConditionTypes`, `ValidReasonsFor` | `OutcomeClassifier`; `ConditionVocabulary` |
| `pkg/lineage` | labels on derived objects | `SetDescendantLabels`, `IndexName` | the constant `Labels` of `LineageRegistry` |
| `cmd/seam-core/main.go` | | registers reconcilers and two gates, seeds static records | constants and initial states |
| CRD types, generated code, e2e helpers | | | not modelled (section 8) |

### Interaction

The reconcilers do not call each other. They meet in four shared places:

1. **the ILI** on the API server. Three reconcilers write it, each with a JSON
   merge patch that carries a whole list and no `resourceVersion`;
2. **the informer cache**. Reads of typed objects (ILI, ConfigMap) come from
   the cache, which lags; reads of unstructured objects (roots, derived
   objects, the Service) go to the API server. This is controller-runtime's
   default, and `main` does not change it;
3. **`DSNSState`**, shared by five workers and guarded by a mutex, except for
   the ConfigMap write, which happens outside it;
4. **the root object**: its annotation and its conditions, which other
   operators write as well, from a vocabulary that the OutcomeReconciler
   searches for words.

`DSNSState` besides calls out: after each ConfigMap write it hands an event to
every sink in a goroutine of its own, and waits for none of them.

Every controller has one worker and a work queue without duplicates. Any API
call may fail, any reply may be lost, and the process may be restarted between
any two calls.

### What is hard

Interleaved whole-list patches; guards evaluated on stale caches; calls that
stop half-way and the early return of Step B that takes them for finished;
objects deleted and created again under the same name; a zone that is lost on
every restart while the ConfigMap is not; renderings written out of order;
finalizers under conflict; a status patch that replaces other operators'
conditions; events that are lost with a process or a sink, and sinks that hang.
`PROJECT.json` lists these hazards by line.

### Properties that make the components correct

- registries: one entry per UID, one outcome per UID, entries and outcomes
  justified by objects and conditions that existed, nothing lost once it has
  settled, everything registered in the end;
- root synchronisation: a root never claims an index that was not made, an idle
  controller leaves no root half done, no condition of another operator is lost
  outside the one gap the code leaves, the index is in the end there for good;
- DNS: the zone holds exactly the owned keys, no record outlives its object in
  the zone or in the ConfigMap, what is published is in the end what the objects
  say, the finalizer never blocks a deletion;
- events: they say what was written, a deletion is announced before the object
  may go, sinks change nothing for the projection, and a sink that works gets to
  know the records of an object that stays;
- admission: the root binding is sealed, the controller is the only author, and
  the gates never stop it;
- conditions: one rightly dated condition per type, Ready decides, and drift is
  recorded as drift.

## 2. Modules

| module | models |
|---|---|
| `LineageRegistry` | both registries of the ILIs, the descendant and outcome workers of every kind, the prune pass |
| `LineageRegistry_proof`, `LineageSettled_proof` | its theorems: what the registries hold; what stays in them |
| `LineageReconciler`, `LineageReconciler_proof` | `Reconcile` for one root, call by call, and its theorems |
| `DSNSRecords` | `deriveRecords` and the five derivations, as operators |
| `DSNS` | the DNS projection, parameterised by what objects derive |
| `DSNS_proof`, `DSNSPublish_proof` | its theorems: about the zone, for any number of workers; about the ConfigMap, for one |
| `ZoneDirectory` | the abstract specification that `DSNS` implements |
| `DSNSEvents` | category, context and severity of an event, as operators |
| `DSNSNotify` | `DSNS` composed with the sinks: every step of `DSNS`, `Notify` at the end of `Apply`, goroutines that succeed, fail or die |
| `DSNSNotify_proof` | its theorems |
| `ConditionVocabulary` | the declared condition types and reasons, the map of valid pairs, `ValidateCondition` |
| `OutcomeClassifier`, `OutcomeClassifier_proof` | `SetCondition`, `classifyTerminalOutcome`, the outcome recorded once, and its theorems |
| `AdmissionGates`, `AdmissionGates_proof` | the gates and their theorems |
| `MCLineageRegistry`, `MCLineageReconciler`, `MCDSNS`, `MCDSNSNotify`, `MCOutcomeClassifier` | instances for TLC; `MCDSNS` and `MCDSNSNotify` feed the models with what `DSNSRecords` and `DSNSEvents` compute |

Common conventions. **One API call, or one critical section, is one step.** A
worker is a record: `pc` names its next call, the other fields are what
`Reconcile` holds in its variables. `watch` is the queue of index versions that
the cache has not seen. Errors and `Requeue` put the key back in the queue.
Operators named after a definition with a suffix and commented `Mutant:` are
plausible bugs; a mutant run puts one in the place of the definition.

### LineageRegistry

`ili`, `watch` and `cache` hold the indexes; `queueD`, `workerD` and `queueO`,
`workerO` belong to the two reconcilers of each kind; `pruner` is the
`pruneStaleDescendants` call on an index. `GetObjectD`, `FetchIndexD`, `PatchD`
are the three API calls of `DescendantReconciler.Reconcile`, `GetObjectO`,
`FetchIndexO`, `PatchO` those of `OutcomeReconciler.Reconcile`; `PatchRefused*`
is the answer NotFound or Invalid, `CallFails*` an error, and the second
disjunct of `Patch*` a lost reply. `StartPrune`, `CheckEntry`,
`CheckEntryFails`, `EndPrune`, `PatchPruned` are the prune pass, one existence
check per step. A prune pass may start whenever the cache has the index, which
includes every moment at which `LineageReconciler` starts one.

Abstractions: a registry is a set of entries (no code reads the order); GVK,
namespace and name are one request key; labels are a constant function, as no
code changes them after creation; conditions are the outcome they classify to;
days are ticks. `outcome` and `reported` describe the derived objects;
the second is history. `SetRetention` stands for principals that
may edit an index: the repository ships the gates but no
`ValidatingWebhookConfiguration` that would bind them.

### LineageReconciler

One root and its index. `GetRoot` is Step A and the annotation test of Step B,
`CheckGuard` the read of Step B, `FetchIndex`, `CreateIndex`, `RefetchIndex`
Step C, `Prune` Step Cf, `WriteAnnotation` Step D, `GetConditions` and
`PatchConditions` Step E (and its call from Step B), `SetOwner` Step Eg.
`myRoot` and `myILI` are the variables of `Reconcile`; a patch overwrites them
with the object the server answers with, as the client does. The descendant
registry is reduced to the flag `stale`: an entry that retention should remove.
`late` is history: the conditions other operators added since the worker last
read the list it is going to write.

### DSNS and DSNSRecords

`zone` and `owned` are `DSNSState`; `primary`, `mirror`, `cmCache` the ConfigMap,
its mirror and the cached copy. The steps of a worker are the glue read
(`RefreshNSGlue`), `GetObject` with the dispatch, `AddFinalizer`,
`RefetchObject`, `MutateZone` (under the mutex), `RenderZone` (under the mutex),
`WritePrimary`, `WriteMirror`, `ReleaseFinalizer`. Updates of objects carry the
`resourceVersion` and can conflict. `SameSecond` says whether two renderings may
have the same SOA serial: then a merge patch against an equal cached copy is
empty. A DNS name is the sequence of its labels; `DSNSRecords` says what each
kind derives from the fields it reads, and `MCDSNS` feeds clusters and pack
instances in several states through it. The choice between create and patch and
the write itself are one step: the cache it reads may be as old as it likes.

### ZoneDirectory: what the projection promises

The abstract specification knows objects, whether each is registered, and one
entry per object. An entry is empty or the whole set of records that one state
of the object gives; entries change for registered objects only, and an object
leaves the register once its entry is empty. There are no caches, workers,
queues or failures in it. The refinement mapping in `DSNS` (`Directory`) takes
the DSNS finalizer for the registration and, for the entry, the records of the
published ConfigMap under the keys the object can own. It is checked for one
kind: with two, `v_zone_stale` shows an old rendering coming back after a newer
one, which may list an object that is no longer registered. The mapping needs
`DisjointKeys`, which TLC evaluates as an assumption of every instance.

### DSNSNotify and DSNSEvents

`NotifyingWork` is a step of `DSNS` with, at the end of `Apply`, `Notify`: it
adds one goroutine per sink to `inflight`. `SinkAccepts` and `SinkFails` end a
goroutine (an error and the five-second timeout are one case: both are logged
and forgotten); a goroutine of a sink that hangs simply takes no step; a restart
kills them all. `inflight` is a set, so equal events of one sink are one
element, which may outlive the end of one goroutine. `latest` is what a
responsive sink believes, `announced` is history. Events reach a sink in any
order, as the goroutines do. `main` registers no sink; the model is what the
extension point gives to the first one that is.

`SinksNeverBlock` is a refinement too: the variables of `DSNS`, in a behaviour
with sinks, satisfy `FairSpec` of `DSNS`, fairness included.

### ConditionVocabulary and OutcomeClassifier

`ConditionVocabulary` has the constants of `conditions.go` by section and the
map of `validate.go` as a relation between types and reasons. Two assumptions
that TLC evaluates tie them together: every pair of the map is declared, and the
declared types without an entry are the seven listed in `VocabularyGap`.

`OutcomeClassifier` explores every sequence of `SetCondition` calls with pairs
that `ValidateCondition` accepts, and lets the OutcomeReconciler look at the
list at any moment, once. `Mentioning` is the case-insensitive search for a
word. That no type lists a reason that mentions "superseded" means that an
operator that keeps to the vocabulary never gets the outcome `Superseded`.

### AdmissionGates

`AdmissionGates` sends any sequence of requests of any user
through the registered gates; a binding is raw JSON: absent, null or a value in
one of several spellings.

## 3. Runs that pass

| run | checks | instance |
|---|---|---|
| `registry_descendants` | `UniqueDescendants`, `EntriesJustified`, `SettledEntriesStay` | one name, two incarnations, a legacy entry, a second index, a prune pass, a retention change, a fault or restart |
| `registry_outcomes` | `TypeOK`, `UniqueOutcomes`, `OutcomesObserved`, `SettledOutcomesStay` | two objects whose outcomes flip, one index, a fault or restart |
| `registry_liveness` | `EventuallyRegistered`, `EventuallyRecorded` | an object and a successor with a refused rationale, index created and deleted at will, a fault |
| `reconcile` | `TypeOK`, `IndexBeforeClaim`, `QuietMeansSynced`, `IndexOfARoot`, `StatusPatchLosesOnlyLate`, `EventuallyIndexed` | two incarnations, two edits, two faults, lag two |
| `dsns_one_kind` | `OwnershipExact`, `FinalizerGuardsConfigMap`, `QuietMeansPublished`, `ImplementsDirectory` | two clusters, one worker, a foreign finalizer, a load balancer that changes, three edits, two faults |
| `dsns_two_kinds` | `TypeOK`, `FinalizerGuardsZone`, `EventuallyProjected` | a cluster and a pack, two workers, a restart |
| `notify` | `EventsAccurate`, `DeletionAnnounced`, `SinksNeverBlock`, `EventuallyAnnounced`, `EventuallyReleased`, `EventuallyGlued` | a RunnerConfig that turns from Ready to Degraded or back, a load balancer that changes, a sink that works and one that may hang, a fault or restart |
| `classifier` | `ListFaithful`, `ReadyDecides`, `DriftRecordedAsDrift` | three types, three statuses, seven reasons of the vocabulary |
| `gates` | `RootBindingSealed`, `ControllerAuthored`, `RewriteAllowed` | the two gates `main` registers |

`SettledEntriesStay` deserves a word. That entries are never removed is false
(`LostUpdate`). What the protocol does give is this: from the moment an entry is
in *every* copy of the list (the server, the cache, the watch events, the bodies
of patches and prune passes under way) it stays in all of them until a retention
check of that very entry, or the deletion of the index.

`StatusPatchLosesOnlyLate` is of the same kind. `ensureLineageSyncedTrue` reads
the root again before it writes the list of conditions, and the property says
what that buys: everything that was there at that read survives the patch. A
condition added between the read and the patch does get lost.

`EventuallyProjected` is about the ConfigMap and its mirror, although a failed
write of the mirror is dropped without a retry.

### Bounds

Two objects, two incarnations, one or two undelivered versions and one or two
faults. A lost or doubled entry needs two writes from copies of different ages
and one version of lag: one worker that reads its own write too late, or a
worker and a prune pass, already give them, so one kind is enough in the passing
registry runs; `v_lost_update` has two. `MaxTime` reaches past the retention
window; `MaxEdits` is enough to create, change and delete an object, or to
create it again; `MaxPrunes = 1` because a second pass starts from the same
states as the first. `notify` has one object in two states: it is created, then
changed or deleted, and the events in flight differ in operation, records and
severity; what a second object or kind adds to the zone is in the other two DSNS
runs. The counters are guards of environment actions only, except that a write
waits while `MaxLag` versions are undelivered. No run turns the deadlock check
off: informers can always resync.

### Fairness

Liveness assumes that a worker goes on with its call, takes every key that waits
(the queue is first in, first out: strong fairness per key in `DSNS`, where one
worker serves several keys; a key stays enabled in the registries, so weak
fairness will do), that watch events are delivered, that informers resync
(controller-runtime's default `SyncPeriod`), and that Kubernetes collects
garbage. A mirror write that is tried again and again succeeds again and again
(strong fairness), and a *responsive* sink that is offered an event again and
again takes it; the other sinks may hang for good. Nothing is assumed of users,
operators, other controllers or faults. `EventuallyRecorded` really needs the
resync: an index that is not found ends the call without a requeue
(`outcome_reconciler.go:72`).

## 4. What the documentation says and the code does not do

Each `v_*` run checks one sentence of the repository and TLC finds a behaviour
of the code that contradicts it; `PROJECT.json` quotes the sentence.

| run | behaviour |
|---|---|
| `v_lost_update` | two whole-list patches from one cached version: the second removes what the first appended (`descendant_reconciler.go:139`) |
| `v_never_pruned` | an annotated root returns at Step B, before Step Cf: its entries are never pruned (`lineage_controller.go:144`) |
| `v_zone_stale` | two workers write their renderings in the wrong order (`state.go:94`) |

`v_zone_stale` heals at the next reconcile (`EventuallyProjected` holds);
`v_lost_update` heals for live objects (`EventuallyRegistered` holds).
`FinalizerGuardsConfigMap` is checked with one kind only: with two, the same
reordering lets an old rendering show a record of a released object for a while.

The models also contain the following behaviours, which contradict a comment and
have no run of their own:

- `outcomeRegistry` loses outcomes the way `v_lost_update` loses entries
  (`infrastructurelineageindex_types.go:143`: "Entries are never modified or
  removed");
- an outcome is recorded for an object that is not in the descendant registry
  (`:145`), and the retention window starts at `createdAt`, not when the object
  is found missing (`:168`);
- an entry computed from an earlier index of the same name carries the principal
  of that index (`:98`);
- after a failure between Step D and Step Eg, or when the index is created again
  and the cache is late, Step B returns early from then on and the owner
  reference is never set (`lineage_controller.go:205`);
- a condition written between the fresh GET and the status patch is lost
  (`lineage_controller.go:284`);
- by default the "permanent audit record" is garbage collected with its root
  (`lineage_controller.go:125`);
- conditions are classified by their place on the list, not by the numbered
  rules (`outcome_reconciler.go:117`);
- `Ready=False` is an outcome at first sight, also with the reason
  `PackReceiptNotFound`, which a PackInstance carries "while waiting for the
  conductor to write the PackReceipt" (`conditions.go:976`) and although Ready
  has the "Terminal state: True" (`conditions.go:931`): such a PackInstance is
  recorded as Failed for good;
- the vocabulary does not cover "all condition types and reason strings"
  (`validate.go:268`): seven declared types have no entry (`VocabularyGap`), and
  `AwaitingDelivery`, declared for Ready, is not valid for it;
- no event ever has the operation "created" or the severity "critical"
  (`event.go:62`, `:80`);
- the third gate, `RegisterDomainRef`, is never registered by `main`
  (`server.go:12`);
- same-named clusters in two namespaces derive the same keys, and removing one
  removes the records of both (`state.go:118`): `OwnershipExact` holds for
  objects with disjoint keys only;
- a change and its reversal within one second make an empty patch against a
  lagging cached copy (`zone.go:88`): `QuietMeansPublished` is checked with
  `SameSecond = FALSE`.

Read on the way and not modelled: `LineageIndexCreated`, the reason of
`LineageSynced=True`, is not in the vocabulary of `pkg/conditions/validate.go`;
`RootGenerationAtCreation` is filled with the generation of the derived object;
`pkg/lineage/chain.go:13` promises a webhook that the repository does not have.

## 5. What is proved

Every safety property of a passing run (22 invariants, three action properties
and the refinement of `ZoneDirectory`) is a theorem, for every value of the
constants. The bounds are constants too: what is proved holds for any lag, any
number of faults, restarts, edits and objects.

| module | theorem | states |
|---|---|---|
| `LineageRegistry_proof` | `TypeCorrect` | `Spec => []TypeOK` |
| | `DescendantsAreUnique` | `Spec => []UniqueDescendants` |
| | `OutcomesAreUnique` | `Spec => []UniqueOutcomes` |
| | `OutcomesAreObserved` | `Spec => []OutcomesObserved` |
| | `EntriesAreJustified` | `Spec => []EntriesJustified` |
| `LineageSettled_proof` | `SettledOutcomesAreKept` | `Spec => SettledOutcomesStay` |
| | `SettledEntriesAreKept` | `Spec => SettledEntriesStay` |
| `LineageReconciler_proof` | `TypeCorrect` | `Spec => []TypeOK` |
| | `IndexComesBeforeClaim` | `Spec => []IndexBeforeClaim` |
| | `IndexIsOfARoot` | `Spec => []IndexOfARoot` |
| | `QuietIsSynced` | `Spec => []QuietMeansSynced` |
| | `PatchLosesOnlyLate` | `Spec => StatusPatchLosesOnlyLate` |
| `DSNS_proof` | `TypeCorrect` | `Spec => []TypeOK` |
| | `OwnershipIsExact` | `Spec => []OwnershipExact` |
| | `FinalizerProtectsZone` | `Spec => []FinalizerGuardsZone` |
| `DSNSPublish_proof` | `FinalizerProtectsConfigMap` | with one worker, `Spec => []FinalizerGuardsConfigMap` |
| | `ConfigMapIsDirectory` | with one worker, `Spec => ImplementsDirectory` |
| | `QuietIsPublished` | with one worker, `Spec => []QuietMeansPublished` |
| `DSNSNotify_proof` | `SinksChangeNothing` | `NotifySpec => Spec` |
| | `EventsAreAccurate` | `NotifySpec => []EventsAccurate` |
| | `DeletionIsAnnounced` | `NotifySpec => []DeletionAnnounced` |
| `OutcomeClassifier_proof` | `ListIsFaithful` | `Spec => []ListFaithful` |
| | `ReadyIsDecisive` | `Spec => []ReadyDecides` |
| | `DriftIsRecordedAsDrift` | `Spec => []DriftRecordedAsDrift` |
| `AdmissionGates_proof` | `RootBindingIsSealed` | with the immutability gate registered, `Spec => []RootBindingSealed` |
| | `IndexIsControllerAuthored` | with the authorship gate registered, `Spec => []ControllerAuthored` |
| | `RewriteIsAllowed` | `Spec => []RewriteAllowed` |

### Assumptions

Each module names what it assumes of its constants, and TLC evaluates the
assumption on every instance: the types of the parameters, with markers such as
`NoObject` outside their sets. Three say more.

- `DisjointKeysAssumption` (`DSNS`): two objects derive no common key. Without it
  `OwnershipExact` fails, in the code as in the model (section 4).
- `GatesAssumption` (`AdmissionGates`): the value that stands for "no binding" is
  not the value of a binding.
- `OneKind` and `~SameSecond` are hypotheses of the theorems in
  `DSNSPublish_proof`, not assumptions of the module. With two workers the
  properties are false: `v_zone_stale` is the counterexample. With two
  renderings in one second a merge patch can be empty and the write does not
  happen (section 4). One worker still serves any number of objects.

### Arguments

**Registries.** The invariants are not inductive: a patch writes a list that was
computed earlier from a version that was read earlier still. The inductive
invariant `IndInv` therefore says of *every copy* of a registry (server, cache,
each watch event, each body in the hands of a worker, what a prune pass keeps
and has still to check) that it is good: unique per UID, justified, observed. An
action then either copies a good list, filters one, or adds one entry under the
guard that its UID is not there. `GoodWrite` is about a write, `Carry` about
what an action leaves alone. `TypeOK` is proved first, because it is what makes
the records and sequences known to the provers.

**What stays.** `SettledEntriesStay` and `SettledOutcomesStay` are about single
steps. `SettledDescendantForm` and `SettledOutcomeForm` split "in every copy"
into places; each action moves a list from one place to another, and the lemmas
say that the list it moves has the entry: a worker extends the list of the
cache, a prune pass keeps what it does not find expired, a patch carries the
whole list. The one fact needed of earlier steps is `AbsentIsEmpty`: an index
that is not there has no entries, so that creating an index takes none out.

**LineageReconciler.** `ClaimInv`: whoever sees an index, in any copy, sees one
that was created, and the worker gets past Step C only by seeing or creating
one. `UidInv`: every UID in any copy is of an incarnation that existed.
`SyncInv` is why an idle worker leaves no root half done: every write of the
root puts its key in the queue, so *while the queue is empty* what the worker
read still holds, and its position in `Reconcile` says what it has done already.
`LateInv`: between the read and the patch of the conditions the root has only
conditions that were read or that came late.

**DSNS.** `OwnInv` ties the bookkeeping of `DSNSState` to the records: an owner is
accountable for exactly the keys of its records. `ProtectInv` rests on the
`resourceVersion`: a copy with the version of the object *is* the object, hence
an update accepted by the API server was computed from the present state; a
worker that is to put records into the zone has seen its finalizer accepted, and
one that is to release it has removed them. `EntryInv`: the zone, and every
rendering, has for each object all the records of one of its states or none.

**Publication.** `PublishInv` adds the ConfigMap: from the rendering to the end
of the call the one worker's rendering is the zone, and once it is written the
ConfigMap agrees with the zone. The refinement follows step by step: what is
published changes in `WritePrimary` and when a user deletes the ConfigMap, what
is registered in the updates of the finalizer; `EntryInv` gives whole entries
and `PublishInv` that a finalizer goes only from unlisted objects. `QuietInv` is
the counterpart of `SyncInv`: of an object that no queued event is about, the
zone and the ConfigMap say what they should, and a worker that has it in hand is
about to.

**Sinks.** Each step of `DSNSNotify` is a step of `DSNS` or leaves its variables
alone (`SinksChangeNothing`), so all theorems about `DSNS` hold with sinks too,
and the two about events use them: `EventsAreAccurate` follows from `EntryInv`,
`DeletionIsAnnounced` from `AnnounceInv` with `ProtectInv`.

**Conditions.** `ListInv` is about lists of any length; the least position that
`FindCondition` and the classifier look for exists by well-foundedness of the
naturals (`MinFacts`). `VocabularyInv` and a case analysis over the whole
vocabulary of `validate.go` give `DriftIsRecordedAsDrift`; the run has seven
reasons only.

**Admission.** `RawEqualValue` and `ValueRawEqual` say that
`rootBindingRawEqual` ignores spelling and nothing else; the invariant adds that
the stored object is well formed.

## 6. What is only model-checked

- Liveness: `EventuallyRegistered`, `EventuallyRecorded`, `EventuallyIndexed`,
  `EventuallyProjected`, `EventuallyAnnounced`, `EventuallyReleased`,
  `EventuallyGlued`. Fairness and `ENABLED` are out of the prover's reach.
- The fairness half of `SinksNeverBlock`, for the same reason: that sinks cannot
  keep `DSNS` from taking its steps. The safety half is `SinksChangeNothing`.
- What `DSNSRecords` and `DSNSEvents` compute enters the proofs through the
  constants `Derive` and the events of `DSNSNotify` only: the theorems hold for
  any derivation with disjoint keys, and TLC evaluates `DisjointKeys` on the
  derivations of the instances.
- The two assumptions that tie the tables of `ConditionVocabulary` together are
  constant facts that TLC evaluates.

## 7. Plan

Done: all modules of section 2, and a proof of every safety property. Next:

1. `DisjointKeys` from `DSNSRecords`: that objects of different names derive
   different keys, so that the assumption of `DSNS` becomes a theorem about the
   derivations;
2. what `DSNS` gives with any number of workers for the ConfigMap: that every
   rendering ever written is the zone of some earlier moment, the bound on how
   stale `v_zone_stale` can get;
3. composed statements: `FinalizerGuardsZone` and the accounts of the zone as
   corollaries about `NotifySpec`.

## 8. Not modelled

- CRD types other than the ILI, generated code, manifests, e2e helpers: data or
  tooling without behaviour of their own;
- what a sink does with an event: the repository has none;
- `PolicyBindingStatus` and the status of the ILI: nothing writes them;
- leader election: one process is modelled; two live leaders are not;
- malformed JSON at the webhooks, the text of zone files, events and messages.
