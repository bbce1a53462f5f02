-------------------------------- MODULE DSNS --------------------------------
(***************************************************************************)
(* The DNS projection: one DSNSReconciler per GVK, each with one worker,   *)
(* all sharing one DSNSState (the in-memory zone and who owns which record *)
(* key), and the dsns-zone ConfigMap with its mirror in kube-system.       *)
(*                                                                         *)
(* A step is one API call or one critical section of the DSNSState mutex.  *)
(* Apply renders the zone under the mutex and writes the ConfigMap outside *)
(* it.  The watched objects and the Service are unstructured: reads go to  *)
(* the API server.  The ConfigMap is typed: reads come from the cache.     *)
(*                                                                         *)
(* A zone is a set of records with at most one per key.  What an object    *)
(* contributes in a state is the constant Derive, which DSNSRecords        *)
(* defines.  DSNSNotify adds the notification sinks.                       *)
(***************************************************************************)
EXTENDS Integers, FiniteSets

CONSTANTS
    Objects,    \* owner IDs (kind, namespace, name)
    Kinds,      \* DSNSGVKs
    KindOf,     \* [Objects -> Kinds]
    States,     \* contents (spec and status) of an object
    Keys,       \* record keys (type, name)
    Values,     \* record data
    Derive,     \* [Objects -> [States -> SUBSET Record]]: deriveRecords
    GlueKey,    \* the key of the ns glue record
    IPs,        \* addresses the load balancer may get
    Held,       \* objects on which another controller keeps a finalizer
    FallbackIP, \* DSNS_SERVICE_IP, NoIP when unset
    Authority,  \* the authority.conductor record, {} when unset
    SameSecond, \* two renders may carry the same SOA serial
    MaxEdits,   \* bound: changes made by users and operators
    MaxFaults   \* bound: crashes and failed API calls

Record == [key : Keys, value : Values]

NoObject == "NoObject"
NoState == "NoState"
NoIP == <<>>

KeysOf(records) == {r.key : r \in records}
StaticKeys == {GlueKey} \cup KeysOf(Authority)

ASSUME ConstantsAssumption ==
    /\ KindOf \in [Objects -> Kinds]
    /\ Derive \in [Objects -> [States -> SUBSET Record]]
    /\ Held \subseteq Objects
    /\ NoObject \notin Objects
    /\ NoState \notin States
    /\ NoIP \notin IPs
    /\ IPs \subseteq Values
    /\ FallbackIP \in IPs \cup {NoIP}
    /\ GlueKey \in Keys
    /\ Authority \subseteq Record
    /\ SameSecond \in BOOLEAN
    /\ MaxEdits \in Nat
    /\ MaxFaults \in Nat

\* held: a finalizer other than DSNSFinalizer; rv: resourceVersion.
Object ==
    [exists : BOOLEAN, deleting : BOOLEAN, finalizer : BOOLEAN, held : BOOLEAN,
     rv : Nat, state : States \cup {NoState}]
Absent ==
    [exists |-> FALSE, deleting |-> FALSE, finalizer |-> FALSE, held |-> FALSE,
     rv |-> 0, state |-> NoState]

ConfigMap == [exists : BOOLEAN, records : SUBSET Record]
NoConfigMap == [exists |-> FALSE, records |-> {}]
Containing(content) == [exists |-> TRUE, records |-> content]

VARIABLES
    object,   \* [Objects -> Object], the API server
    lbIP,     \* ingress IP of the Service dsns-loadbalancer
    primary,  \* ConfigMap dsns-zone in ont-system
    mirror,   \* ConfigMap dsns-zone in kube-system
    cmCache,  \* primary as the informer cache has it
    zone,     \* DSNSState.zone
    owned,    \* DSNSState.owned, [Objects -> SUBSET Keys]
    queue,    \* [Kinds -> SUBSET Objects]
    worker,   \* [Kinds -> Worker]
    edits,
    faults

apiVars == <<object, lbIP, primary, mirror>>
stateVars == <<zone, owned>>
vars == <<object, lbIP, primary, mirror, cmCache, zone, owned, queue, worker, edits, faults>>

\* get: object to be read; finalize: finalizer to be added; refetch: object to
\* be read again; mutate: zone to be changed; render, write, mirror: Apply;
\* release: finalizer to be removed.
Steps == {"idle", "get", "finalize", "refetch", "mutate", "render", "write", "mirror", "release"}

\* key: the request; ip: address read for the ns glue; copy: the object read;
\* op: update (live object), release (deleting) or remove (not found).
Worker ==
    [pc : Steps, key : Objects \cup {NoObject}, ip : IPs \cup {NoIP}, copy : Object,
     op : {"update", "release", "remove"}, rendered : SUBSET Record]
Idle ==
    [pc |-> "idle", key |-> NoObject, ip |-> NoIP, copy |-> Absent, op |-> "update", rendered |-> {}]

-----------------------------------------------------------------------------
(* ZoneFile and DSNSState. *)

RemoveRecord(z, keys) == {r \in z : r.key \notin keys}
AddRecord(z, records) == RemoveRecord(z, KeysOf(records)) \cup records

GlueRecord(ip) == IF ip = NoIP THEN {} ELSE {[key |-> GlueKey, value |-> ip]}

\* Mutant: a static record is set once.
SetStaticRecordOnce(ip) ==
    zone' = IF GlueKey \in KeysOf(zone) THEN zone ELSE AddRecord(zone, GlueRecord(ip))

\* SetStaticRecord: nothing to set when there is no address.
SetStaticRecord(ip) == zone' = AddRecord(zone, GlueRecord(ip))

\* Mutant: what the owner had before is not dropped.
UpdateRecordsAdds(o, records) ==
    /\ zone' = AddRecord(zone, records)
    /\ owned' = [owned EXCEPT ![o] = KeysOf(records)]

\* UpdateRecords: drop what the owner had, add or overwrite; {} is RemoveRecords.
UpdateRecords(o, records) ==
    /\ zone' = AddRecord(RemoveRecord(zone, owned[o]), records)
    /\ owned' = [owned EXCEPT ![o] = KeysOf(records)]

\* The records a new process starts with.
Seeded == AddRecord(Authority, GlueRecord(FallbackIP))

-----------------------------------------------------------------------------
Edit == edits < MaxEdits /\ edits' = edits + 1 /\ UNCHANGED faults
Fault == faults < MaxFaults /\ faults' = faults + 1 /\ UNCHANGED edits

\* An object accepted by the API server in place of object[o]; with no
\* finalizer left, a deleting object is gone.
Stored(o, obj) ==
    LET next == [obj EXCEPT !.rv = object[o].rv + 1]
    IN  IF next.deleting /\ ~next.finalizer /\ ~next.held
        THEN [Absent EXCEPT !.rv = next.rv] ELSE next

WriteObject(o, obj) == object' = [object EXCEPT ![o] = Stored(o, obj)]

\* Mutant: an event reaches the controllers of all kinds.
EnqueueEverywhere(o) == queue' = [k \in Kinds |-> queue[k] \cup {o}]

Enqueue(o) == queue' = [queue EXCEPT ![KindOf[o]] = @ \cup {o}]

Existing(k) == {o \in Objects : KindOf[o] = k /\ object[o].exists}

Init ==
    /\ object = [o \in Objects |-> Absent]
    /\ lbIP = NoIP
    /\ primary \in {NoConfigMap, Containing({})}
    /\ mirror = NoConfigMap
    /\ cmCache = primary
    /\ zone = Seeded
    /\ owned = [o \in Objects |-> {}]
    /\ queue = [k \in Kinds |-> {}]
    /\ worker = [k \in Kinds |-> Idle]
    /\ edits = 0
    /\ faults = 0

-----------------------------------------------------------------------------
(* Environment: users, operators, other controllers, the API machinery. *)

CreateObject(o, s) ==
    /\ Edit
    /\ ~object[o].exists
    /\ WriteObject(o, [Absent EXCEPT !.exists = TRUE, !.held = o \in Held, !.state = s])
    /\ Enqueue(o)
    /\ UNCHANGED <<lbIP, primary, mirror, cmCache, stateVars, worker>>

ChangeObject(o, s) ==
    /\ Edit
    /\ object[o].exists
    /\ object[o].state # s
    /\ WriteObject(o, [object[o] EXCEPT !.state = s])
    /\ Enqueue(o)
    /\ UNCHANGED <<lbIP, primary, mirror, cmCache, stateVars, worker>>

DeleteObject(o) ==
    /\ Edit
    /\ object[o].exists
    /\ ~object[o].deleting
    /\ WriteObject(o, [object[o] EXCEPT !.deleting = TRUE])
    /\ Enqueue(o)
    /\ UNCHANGED <<lbIP, primary, mirror, cmCache, stateVars, worker>>

\* Another controller removes its own finalizer.
ReleaseHold(o) ==
    /\ object[o].held
    /\ WriteObject(o, [object[o] EXCEPT !.held = FALSE])
    /\ Enqueue(o)
    /\ UNCHANGED <<lbIP, primary, mirror, cmCache, stateVars, worker, edits, faults>>

SetLoadBalancer(ip) ==
    /\ Edit
    /\ lbIP # ip
    /\ lbIP' = ip
    /\ UNCHANGED <<object, primary, mirror, cmCache, stateVars, queue, worker>>

DeleteConfigMap ==
    /\ Edit
    /\ primary.exists
    /\ primary' = NoConfigMap
    /\ UNCHANGED <<object, lbIP, mirror, cmCache, stateVars, queue, worker>>

DeliverConfigMap ==
    /\ cmCache # primary
    /\ cmCache' = primary
    /\ UNCHANGED <<apiVars, stateVars, queue, worker, edits, faults>>

Resync(k) ==
    /\ queue' = [queue EXCEPT ![k] = @ \cup Existing(k)]
    /\ UNCHANGED <<apiVars, cmCache, stateVars, worker, edits, faults>>

\* The zone does not survive; the new process lists all objects.
Restart ==
    /\ Fault
    /\ zone' = Seeded
    /\ owned' = [o \in Objects |-> {}]
    /\ queue' = [k \in Kinds |-> Existing(k)]
    /\ worker' = [k \in Kinds |-> Idle]
    /\ cmCache' = primary
    /\ UNCHANGED apiVars

-----------------------------------------------------------------------------
(* DSNSReconciler.Reconcile, the worker of kind k. *)

Goto(k, step) == worker' = [worker EXCEPT ![k].pc = step]
Return(k) == worker' = [worker EXCEPT ![k] = Idle] /\ UNCHANGED queue
ReturnError(k) == worker' = [worker EXCEPT ![k] = Idle] /\ Enqueue(worker[k].key)

\* refreshNSGlue reads the Service; the address it has, or the fallback, or
\* the fallback because the read failed.
RefreshNSGlue(k, o) ==
    /\ worker[k].pc = "idle"
    /\ o \in queue[k]
    /\ queue' = [queue EXCEPT ![k] = @ \ {o}]
    /\ \E ip \in IPs \cup {NoIP} :
          /\ worker' = [worker EXCEPT ![k] = [Idle EXCEPT !.pc = "get", !.key = o, !.ip = ip]]
          /\ \/ /\ ip = IF lbIP = NoIP THEN FallbackIP ELSE lbIP
                /\ UNCHANGED <<edits, faults>>
             \/ Fault /\ ip = FallbackIP
    /\ UNCHANGED <<apiVars, cmCache, stateVars>>

\* GetObject with the dispatch of an existing object given, for its mutants.
GetObjectAnd(k, Dispatched(_)) ==
    LET obj == object[worker[k].key]
    IN  /\ worker[k].pc = "get"
        /\ SetStaticRecord(worker[k].ip)
        /\ \/ obj.exists /\ Dispatched(obj)
           \/ /\ ~obj.exists
              /\ worker' = [worker EXCEPT ![k].pc = "mutate", ![k].op = "remove", ![k].copy = obj]
              /\ UNCHANGED queue
        /\ UNCHANGED <<apiVars, cmCache, owned, edits, faults>>

\* Mutant: the finalizer is not added.
GetObjectUnprotected(k) ==
    LET Dispatched(obj) ==
            /\ worker' = [worker EXCEPT ![k].pc = "mutate", ![k].copy = obj,
                  ![k].op = IF obj.deleting THEN "release" ELSE "update"]
            /\ UNCHANGED queue
    IN  GetObjectAnd(k, Dispatched)

\* Mutant: the finalizer is released before the records are removed.
GetObjectReleasesFirst(k) ==
    LET Dispatched(obj) ==
            /\ worker' = [worker EXCEPT ![k].copy = obj,
                  ![k].pc = IF obj.deleting THEN "release"
                            ELSE IF obj.finalizer THEN "mutate" ELSE "finalize",
                  ![k].op = IF obj.deleting THEN "release" ELSE "update"]
            /\ UNCHANGED queue
    IN  GetObjectAnd(k, Dispatched)

\* Mutant: an object that has the finalizer is taken for done.
GetObjectDone(k) ==
    LET Dispatched(obj) ==
            IF obj.finalizer /\ ~obj.deleting THEN Return(k)
            ELSE /\ worker' = [worker EXCEPT ![k].copy = obj,
                      ![k].pc = IF obj.deleting THEN "mutate" ELSE "finalize",
                      ![k].op = IF obj.deleting THEN "release" ELSE "update"]
                 /\ UNCHANGED queue
    IN  GetObjectAnd(k, Dispatched)

\* Mutant: the test for the finalizer of a deleting object is inverted.
GetObjectInverted(k) ==
    LET Dispatched(obj) ==
            IF obj.finalizer /\ obj.deleting THEN Return(k)
            ELSE /\ worker' = [worker EXCEPT ![k].copy = obj,
                      ![k].pc = IF obj.finalizer \/ obj.deleting THEN "mutate" ELSE "finalize",
                      ![k].op = IF obj.deleting THEN "release" ELSE "update"]
                 /\ UNCHANGED queue
    IN  GetObjectAnd(k, Dispatched)

\* The glue is set, the object read: not found, deleting with our finalizer,
\* deleting without it (nothing to do), or live.
GetObject(k) ==
    LET obj == object[worker[k].key]
        Dispatch(step, op) ==
            /\ worker' = [worker EXCEPT ![k].pc = step, ![k].op = op, ![k].copy = obj]
            /\ UNCHANGED queue
    IN  /\ worker[k].pc = "get"
        /\ SetStaticRecord(worker[k].ip)
        /\ \/ ~obj.exists /\ Dispatch("mutate", "remove")
           \/ obj.exists /\ obj.deleting /\ ~obj.finalizer /\ Return(k)
           \/ obj.exists /\ obj.deleting /\ obj.finalizer /\ Dispatch("mutate", "release")
           \/ obj.exists /\ ~obj.deleting /\ obj.finalizer /\ Dispatch("mutate", "update")
           \/ obj.exists /\ ~obj.deleting /\ ~obj.finalizer /\ Dispatch("finalize", "update")
        /\ UNCHANGED <<apiVars, cmCache, owned, edits, faults>>

\* Update carries the resourceVersion that was read: a changed or deleted
\* object is a conflict, and the key is retried.
AddFinalizer(k) ==
    LET o == worker[k].key
        copy == worker[k].copy
    IN  /\ worker[k].pc = "finalize"
        /\ \/ /\ object[o].rv = copy.rv
              /\ WriteObject(o, [copy EXCEPT !.finalizer = TRUE])
              /\ Enqueue(o)
              /\ Goto(k, "refetch")
           \/ object[o].rv # copy.rv /\ ReturnError(k) /\ UNCHANGED object
        /\ UNCHANGED <<lbIP, primary, mirror, cmCache, stateVars, edits, faults>>

RefetchObject(k) ==
    LET obj == object[worker[k].key]
    IN  /\ worker[k].pc = "refetch"
        /\ \/ /\ obj.exists
              /\ worker' = [worker EXCEPT ![k].pc = "mutate", ![k].copy = obj]
              /\ UNCHANGED queue
           \/ ~obj.exists /\ ReturnError(k)
        /\ UNCHANGED <<apiVars, cmCache, stateVars, edits, faults>>

\* deriveRecords and UpdateRecords, or RemoveRecords.
MutateZone(k) ==
    LET w == worker[k]
    IN  /\ w.pc = "mutate"
        /\ UpdateRecords(w.key, IF w.op = "update" THEN Derive[w.key][w.copy.state] ELSE {})
        /\ Goto(k, "render")
        /\ UNCHANGED <<apiVars, cmCache, queue, edits, faults>>

\* Apply, under the mutex.
RenderZone(k) ==
    /\ worker[k].pc = "render"
    /\ worker' = [worker EXCEPT ![k].pc = "write", ![k].rendered = zone]
    /\ UNCHANGED <<apiVars, cmCache, stateVars, queue, edits, faults>>

\* Mutant: a failed create or patch is logged and ignored, as for the mirror.
WritePrimaryIgnoresErrors(k) ==
    /\ worker[k].pc = "write"
    /\ primary' = IF cmCache.exists = primary.exists
                  THEN Containing(worker[k].rendered) ELSE primary
    /\ Goto(k, "mirror")
    /\ UNCHANGED <<object, lbIP, mirror, cmCache, stateVars, queue, edits, faults>>

\* ApplyContent: create when the cache has no ConfigMap, else a merge patch
\* computed against the cached copy, which is empty when that copy has the
\* same records and the same serial.
WritePrimary(k) ==
    LET content == worker[k].rendered
    IN  /\ worker[k].pc = "write"
        /\ \/ /\ cmCache.exists = primary.exists
              /\ primary' = Containing(content)
              /\ Goto(k, "mirror")
              /\ UNCHANGED queue
           \/ /\ SameSecond /\ primary.exists /\ cmCache = Containing(content)
              /\ Goto(k, "mirror")
              /\ UNCHANGED <<primary, queue>>
           \/ /\ cmCache.exists # primary.exists
              /\ ReturnError(k)
              /\ UNCHANGED primary
        /\ UNCHANGED <<object, lbIP, mirror, cmCache, stateVars, edits, faults>>

\* applyMirror: a failure, an outdated cache among its causes, is logged and
\* ignored.
MirrorWritten(k) == mirror' = Containing(worker[k].rendered)

WriteMirror(k) ==
    /\ worker[k].pc = "mirror"
    /\ MirrorWritten(k) \/ UNCHANGED mirror
    /\ IF worker[k].op = "release" THEN Goto(k, "release") /\ UNCHANGED queue ELSE Return(k)
    /\ UNCHANGED <<object, lbIP, primary, cmCache, stateVars, edits, faults>>

ReleaseFinalizer(k) ==
    LET o == worker[k].key
        copy == worker[k].copy
    IN  /\ worker[k].pc = "release"
        /\ \/ /\ object[o].rv = copy.rv
              /\ WriteObject(o, [copy EXCEPT !.finalizer = FALSE])
              /\ worker' = [worker EXCEPT ![k] = Idle]
              /\ Enqueue(o)
           \/ object[o].rv # copy.rv /\ ReturnError(k) /\ UNCHANGED object
        /\ UNCHANGED <<lbIP, primary, mirror, cmCache, stateVars, edits, faults>>

\* An API call whose error Reconcile returns fails.
CallFails(k) ==
    /\ Fault
    /\ worker[k].pc \in {"get", "finalize", "refetch", "write", "release"}
    /\ ReturnError(k)
    /\ IF worker[k].pc = "get" THEN SetStaticRecord(worker[k].ip) ELSE UNCHANGED zone
    /\ UNCHANGED <<apiVars, cmCache, owned>>

-----------------------------------------------------------------------------
Environment ==
    \/ \E o \in Objects, s \in States : CreateObject(o, s) \/ ChangeObject(o, s)
    \/ \E o \in Objects : DeleteObject(o) \/ ReleaseHold(o)
    \/ \E ip \in IPs \cup {NoIP} : SetLoadBalancer(ip)
    \/ DeleteConfigMap \/ DeliverConfigMap
    \/ \E k \in Kinds : Resync(k)
    \/ Restart

Work(k) ==
    \/ GetObject(k) \/ AddFinalizer(k) \/ RefetchObject(k) \/ MutateZone(k)
    \/ RenderZone(k) \/ WritePrimary(k) \/ WriteMirror(k) \/ ReleaseFinalizer(k)

Reconcile(k) == \/ \E o \in Objects : RefreshNSGlue(k, o)
                \/ Work(k)
                \/ CallFails(k)

Next == Environment \/ \E k \in Kinds : Reconcile(k)

Spec == Init /\ [][Next]_vars

\* A worker goes on with the key it has and its queue is first in, first out,
\* so that every key that waits is taken; the watch on the ConfigMap is
\* delivered; the informers resync; a mirror that is written again and again
\* does not fail each time.
Fairness ==
    /\ WF_vars(DeliverConfigMap)
    /\ \A k \in Kinds :
        /\ WF_vars(Resync(k))
        /\ WF_vars(Work(k))
        /\ SF_vars(WriteMirror(k) /\ MirrorWritten(k))
        /\ \A o \in Objects : SF_vars(RefreshNSGlue(k, o))

FairSpec == Spec /\ Fairness

-----------------------------------------------------------------------------
(* Properties. *)

\* Every variable has its type; a worker between two calls holds nothing, and
\* one that is busy holds a request of its own kind.
TypeOK ==
    /\ \A k \in Kinds :
          IF worker[k].pc = "idle" THEN worker[k] = Idle
          ELSE worker[k].key \in Objects /\ KindOf[worker[k].key] = k
    /\ object \in [Objects -> Object]
    /\ lbIP \in IPs \cup {NoIP}
    /\ primary \in ConfigMap
    /\ mirror \in ConfigMap
    /\ cmCache \in ConfigMap
    /\ zone \subseteq Record
    /\ owned \in [Objects -> SUBSET Keys]
    /\ queue \in [Kinds -> SUBSET Objects]
    /\ worker \in [Kinds -> Worker]
    /\ edits \in 0..MaxEdits
    /\ faults \in 0..MaxFaults

DynamicRecords(z) == {r \in z : r.key \notin StaticKeys}

\* What the zone should say: the records of every object that is there to stay.
Projection ==
    UNION {Derive[o][object[o].state] :
              o \in {p \in Objects : object[p].exists /\ ~object[p].deleting}}

\* The keys, and the sets of records, that may be derived from an object.
KeysOfObject == [o \in Objects |-> UNION {KeysOf(Derive[o][s]) : s \in States}]
ContentsOfObject == [o \in Objects |-> {Derive[o][s] : s \in States}]

\* Two owners never derive the same key, nor one of the static keys.
DisjointKeys ==
    \A o \in Objects, s \in States :
        /\ KeysOf(Derive[o][s]) \cap StaticKeys = {}
        /\ \A p \in Objects \ {o}, t \in States :
              KeysOf(Derive[o][s]) \cap KeysOf(Derive[p][t]) = {}

ASSUME DisjointKeysAssumption == DisjointKeys

\* DSNSState: the zone holds exactly the keys some owner is accountable for.
\* A key without an owner is never removed again; an owned key that is missing
\* is a record lost to a change of another object.
OwnershipExact == KeysOf(DynamicRecords(zone)) = UNION {owned[o] : o \in Objects}

\* A record enters the zone only under the protection of the finalizer, and
\* the finalizer is given up only after the records have left, whatever
\* conflicts, failures and restarts happen in between.
FinalizerGuardsZone == \A o \in Objects : owned[o] # {} => object[o].finalizer

\* The same for what is published: no record in the ConfigMap outlives the
\* object it was derived from, even when the process restarts and forgets
\* which objects it had seen.
FinalizerGuardsConfigMap ==
    LET published == KeysOf(primary.records)
    IN  \A o \in Objects : published \cap KeysOfObject[o] # {} => object[o].finalizer

Directory ==
    INSTANCE ZoneDirectory WITH
        Contents <- ContentsOfObject,
        registered <- [o \in Objects |-> object[o].finalizer],
        entries <- [o \in Objects |-> {r \in primary.records : r.key \in KeysOfObject[o]}]

\* With one worker the ConfigMap is a directory: the finalizer is the
\* registration, an object is listed with all records of one of its states or
\* with none, and it leaves only after its records have left, whatever the
\* cache, a restart or a deleted ConfigMap do in between.
ImplementsDirectory == Directory!Spec

\* "the complete zone is maintained as a single in-memory structure and
\* written to the dsns-zone ConfigMap atomically on each reconcile": when no
\* event is left to handle, the ConfigMap says what the objects say.
QuietMeansPublished ==
    /\ \A k \in Kinds : queue[k] = {} /\ worker[k].pc = "idle"
    /\ primary.exists
    => DynamicRecords(primary.records) = Projection

\* While there is an object to reconcile, the ConfigMap and the mirror that
\* CoreDNS reads in the end say what the objects say, for good: whatever order
\* the workers wrote in, whatever was lost, although the zone starts empty
\* after each restart, and although a failed write of the mirror is dropped.
EventuallyProjected ==
    <>[](\E o \in Objects : object[o].exists /\ ~object[o].deleting)
        => <>[](\A cm \in {primary, mirror} :
                   cm.exists /\ DynamicRecords(cm.records) = Projection)

\* The published ns glue in the end follows the load balancer, although the
\* address is read before the mutex is taken, a failed read puts the fallback
\* back, and nothing watches the Service.
EventuallyGlued ==
    \A ip \in IPs :
        <>[](lbIP = ip /\ \E o \in Objects : object[o].exists /\ ~object[o].deleting)
            => <>[]([key |-> GlueKey, value |-> ip] \in primary.records)

\* Deletion of an object is never blocked for good by the DSNS finalizer.
EventuallyReleased ==
    \A o \in Objects : object[o].deleting ~> ~object[o].finalizer
=============================================================================
