--------------------------- MODULE DSNSPublish_proof ---------------------------
(***************************************************************************)
(* Proofs about what DSNS publishes in the ConfigMap, for one kind, that   *)
(* is one worker, and renders that differ in their SOA serial: with two    *)
(* workers, or with a merge patch that is empty because the serial is the  *)
(* same, a zone that is out of date can be published (v_zone_stale shows   *)
(* the first).                                                             *)
(***************************************************************************)
EXTENDS DSNS_proof

-----------------------------------------------------------------------------
(* The inductive invariant. *)

\* There is one worker.
OneKind == \A k, l \in Kinds : k = l

\* Nothing is published without the finalizer, and it is given up only after
\* the ConfigMap was written without the object's records.
PublishInv ==
    /\ \A o \in Objects : Entry(primary.records, o) # {} => object[o].finalizer
    /\ \A k \in Kinds : worker[k].pc \in {"write", "mirror", "release"} => worker[k].rendered = zone
    /\ \A k \in Kinds : worker[k].pc \in {"mirror", "release"} =>
          \A o \in Objects : primary.exists => Entry(primary.records, o) = Entry(zone, o)
    /\ primary.exists \/ primary.records = {}
    /\ \A r \in primary.records : r.key \in StaticKeys \/ \E o \in Objects : r.key \in KeysOfObject[o]

\* The records of an object that is there to stay.
Wanted(o) == IF object[o].exists /\ ~object[o].deleting THEN Derive[o][object[o].state] ELSE {}

\* An object that no event is about.
Settled(o) == o \notin queue[KindOf[o]]

\* The zone and the ConfigMap say of the object what they should.
Published(o) ==
    /\ Entry(zone, o) = Wanted(o)
    /\ primary.exists => Entry(primary.records, o) = Entry(zone, o)

\* What the worker is about to say of its object is right, or an event that is
\* still to be handled is about that object.
Answers(w) ==
    /\ w.pc = "refetch" => ~Settled(w.key)
    /\ w.pc \notin {"idle", "get", "finalize", "refetch"} /\ Settled(w.key) => Said(w) = Wanted(w.key)

\* What is said of an object that no event is about, and that no worker has in
\* hand, is up to date.
QuietInv ==
    /\ \A o \in Objects : Settled(o) /\ worker[KindOf[o]].key # o => Published(o)
    /\ \A k \in Kinds : Answers(worker[k])

\* All that is known of the zone, the finalizers and the workers.
ZoneInv == TypeInv /\ OwnInv /\ ProtectInv /\ EntryInv

\* It holds always.
LEMMA ZoneAlways == Spec => []ZoneInv
    BY TypeAlways, ProtectAlways, EntryAlways, PTL DEF ZoneInv

-----------------------------------------------------------------------------
(* The finalizer protects what is published. *)

\* An entry of the zone is protected.
LEMMA ZoneProtected ==
    ASSUME OwnInv, ProtectInv, NEW o \in Objects, ~object[o].finalizer
    PROVE  Entry(zone, o) = {}
<1>1. owned[o] = {} /\ owned[o] = KeysOf(Entry(zone, o))
    BY DEF OwnInv, ProtectInv, FinalizerGuardsZone
<1> QED
    BY <1>1 DEF KeysOf

\* A step that leaves the ConfigMap and the protected objects alone and leaves
\* the worker before Apply.
LEMMA PublishKept ==
    ASSUME OneKind, PublishInv, NEW k \in Kinds, UNCHANGED primary,
           worker'[k].pc \notin {"write", "mirror", "release"},
           \A o \in Objects : Entry(primary.records, o) # {} => object'[o].finalizer
    PROVE  PublishInv'
<1>1. \A j \in Kinds : worker'[j].pc \notin {"write", "mirror", "release"}
    BY DEF OneKind
<1> QED
    BY <1>1 DEF PublishInv

\* Nothing is published initially.
LEMMA PublishInit == Init => PublishInv
<1> SUFFICES ASSUME Init PROVE PublishInv
    OBVIOUS
<1>1. \A k \in Kinds : worker[k].pc = "idle"
    BY IdleEntry DEF Init
<1>2. primary.records = {}
    BY DEF Init, NoConfigMap, Containing
<1> QED
    BY <1>1, <1>2 DEF PublishInv, Entry

\* A step of the environment publishes nothing.
LEMMA PublishEnvironment == OneKind /\ ZoneInv /\ PublishInv /\ Environment => PublishInv'
<1> SUFFICES ASSUME OneKind, ZoneInv, PublishInv, Environment PROVE PublishInv'
    OBVIOUS
<1>1. ASSUME NEW o \in Objects, UserWrite(o) PROVE PublishInv'
  <2>1. /\ Rewritten(o) /\ object'[o].finalizer = object[o].finalizer
        /\ UNCHANGED <<primary, zone, worker>>
    BY <1>1, UserWrites DEF ZoneInv, TypeInv
  <2> QED
    BY <2>1 DEF PublishInv, Rewritten
<1>2. CASE UNCHANGED <<object, primary, zone, worker>>
    BY <1>2 DEF PublishInv
<1>3. CASE DeleteConfigMap
  <2>1. UNCHANGED <<object, zone, worker>> /\ primary' = NoConfigMap
    BY <1>3 DEF DeleteConfigMap, stateVars
  <2>2. NoConfigMap.records = {} /\ ~NoConfigMap.exists
    BY DEF NoConfigMap
  <2> QED
    BY <2>1, <2>2 DEF PublishInv, Entry
<1>4. CASE Restart
  <2>1. UNCHANGED <<object, primary>> /\ \A k \in Kinds : worker'[k].pc = "idle"
    BY <1>4, IdleEntry DEF Restart, apiVars
  <2> QED
    BY <2>1 DEF PublishInv
<1>5. CASE \/ \E ip \in IPs \cup {NoIP} : SetLoadBalancer(ip)
           \/ DeliverConfigMap \/ \E k \in Kinds : Resync(k)
    BY <1>2, <1>5 DEF SetLoadBalancer, DeliverConfigMap, Resync, apiVars, stateVars
<1> QED
    BY <1>1, <1>3, <1>4, <1>5 DEF Environment, UserWrite

\* The worker publishes the zone, and releases an object that has left it.
LEMMA PublishReconcile ==
    ASSUME OneKind, ~SameSecond, ZoneInv, PublishInv, NEW k \in Kinds, Reconcile(k)
    PROVE  PublishInv'
<1> DEFINE o == worker[k].key
<1> USE DEF ZoneInv
<1>0. \A p \in Objects : Entry(primary.records, p) # {} => object[p].finalizer
    BY DEF PublishInv
<1>1. CASE GetObject(k)
  <2>1. /\ UNCHANGED <<object, primary>>
        /\ worker'[k] = Idle \/ worker'[k].pc \in {"mutate", "finalize"}
    BY <1>1, GetObjectDoes DEF TypeInv, Read
  <2> QED
    BY <1>0, <2>1, IdleEntry, PublishKept
<1>2. CASE AddFinalizer(k)
  <2>1. UNCHANGED primary /\ worker[k].pc = "finalize"
    BY <1>2, AddFinalizerDoes
  <2>2. CASE Rewritten(o) /\ object'[o].finalizer /\ Goto(k, "refetch")
    <3>1. "refetch" \in Steps
      BY DEF Steps
    <3>2. worker'[k].pc = "refetch"
      BY <2>2, <3>1, GotoFields DEF TypeInv
    <3>3. \A p \in Objects : object[p].finalizer => object'[p].finalizer
      BY <2>2 DEF Rewritten
    <3> QED
      BY <1>0, <2>1, <3>2, <3>3, PublishKept
  <2>3. CASE Retried(k) /\ UNCHANGED object
    BY <1>0, <2>1, <2>3, IdleEntry, PublishKept DEF Retried
  <2> QED
    BY <1>2, <2>2, <2>3, AddFinalizerDoes
<1>3. CASE RefetchObject(k)
  <2>1. UNCHANGED <<object, primary>> /\ (worker'[k].pc = "mutate" \/ worker'[k] = Idle)
    BY <1>3, RefetchObjectDoes DEF TypeInv, Read, Retried
  <2> QED
    BY <1>0, <2>1, IdleEntry, PublishKept
<1>4. CASE MutateZone(k)
  <2>1. UNCHANGED <<object, primary>> /\ worker'[k].pc = "render"
    BY <1>4, MutateZoneDoes DEF TypeInv, Onward
  <2> QED
    BY <1>0, <2>1, PublishKept
<1>5. CASE RenderZone(k)
  <2>1. /\ UNCHANGED <<object, primary, zone>>
        /\ worker'[k].pc = "write" /\ worker'[k].rendered = zone
    BY <1>5, RenderZoneDoes DEF TypeInv, Onward
  <2>2. \A j \in Kinds : j = k
    BY DEF OneKind
  <2> QED
    BY <2>1, <2>2 DEF PublishInv
<1>6. CASE WritePrimary(k)
  <2>1. worker[k].pc = "write" /\ UNCHANGED <<object, zone>>
    BY <1>6, WritePrimaryDoes DEF TypeInv
  <2>2. worker[k].rendered = zone
    BY <2>1 DEF PublishInv
  <2>3. CASE /\ Onward(k, "mirror") /\ worker'[k].rendered = worker[k].rendered
             /\ primary' = Containing(worker[k].rendered)
    <3>1. primary'.exists /\ primary'.records = zone
      BY <2>2, <2>3 DEF Containing
    <3>2. \A p \in Objects : Entry(primary'.records, p) # {} => object'[p].finalizer
      BY <2>1, <3>1, ZoneProtected
    <3>3. \A j \in Kinds : worker'[j].rendered = zone'
      BY <2>1, <2>2, <2>3 DEF OneKind
    <3>4. \A r \in primary'.records : r.key \in StaticKeys \/ \E p \in Objects : r.key \in KeysOfObject[p]
      BY <3>1 DEF OwnInv
    <3> QED
      BY <2>1, <3>1, <3>2, <3>3, <3>4 DEF PublishInv
  <2>4. CASE Retried(k) /\ UNCHANGED primary
    BY <1>0, <2>1, <2>4, IdleEntry, PublishKept DEF Retried
  <2> QED
    BY <1>6, <2>3, <2>4, WritePrimaryDoes DEF TypeInv
<1>7. CASE WriteMirror(k)
  <2>1. worker[k].pc = "mirror" /\ UNCHANGED <<object, zone, primary>>
    BY <1>7, WriteMirrorDoes DEF TypeInv
  <2>2. CASE Onward(k, "release") /\ worker'[k].rendered = worker[k].rendered
    <3>1. \A j \in Kinds : j = k
      BY DEF OneKind
    <3> QED
      BY <2>1, <2>2, <3>1 DEF PublishInv
  <2>3. CASE worker'[k] = Idle
    BY <1>0, <2>1, <2>3, IdleEntry, PublishKept
  <2> QED
    BY <1>7, <2>2, <2>3, WriteMirrorDoes DEF TypeInv
<1>8. CASE ReleaseFinalizer(k)
  <2>1. worker[k].pc = "release" /\ UNCHANGED primary
    BY <1>8, ReleaseFinalizerDoes
  <2>2. CASE Rewritten(o) /\ worker' = [worker EXCEPT ![k] = Idle]
    <3>1. worker'[k] = Idle
      BY <2>2, ReturnFields DEF TypeInv
    <3>2. Entry(primary.records, o) = {}
      <4>1. o \in Objects /\ worker[k].op = "release"
        BY <2>1, BusyFields DEF TypeInv, RequestInv, Agrees
      <4>2. Entry(zone, o) = {}
        <5>1. worker[k].rendered = zone /\ Entry(worker[k].rendered, o) = Said(worker[k])
          BY <2>1 DEF PublishInv, EntryInv
        <5> QED
          BY <4>1, <5>1 DEF Said
      <4>3. primary.exists => Entry(primary.records, o) = Entry(zone, o)
        BY <2>1, <4>1 DEF PublishInv
      <4>4. ~primary.exists => primary.records = {}
        BY DEF PublishInv
      <4> QED
        BY <4>2, <4>3, <4>4 DEF Entry
    <3>3. \A p \in Objects : Entry(primary.records, p) # {} => object'[p].finalizer
      BY <1>0, <2>2, <3>2 DEF Rewritten
    <3> QED
      BY <2>1, <3>1, <3>3, IdleEntry, PublishKept
  <2>3. CASE Retried(k) /\ UNCHANGED object
    BY <1>0, <2>1, <2>3, IdleEntry, PublishKept DEF Retried
  <2> QED
    BY <1>8, <2>2, <2>3, ReleaseFinalizerDoes
<1>9. CASE CallFails(k)
  <2>1. UNCHANGED <<object, primary>> /\ worker'[k] = Idle
    BY <1>9, CallFailsDoes DEF TypeInv, Retried
  <2> QED
    BY <1>0, <2>1, IdleEntry, PublishKept
<1>10. ASSUME NEW p \in Objects, RefreshNSGlue(k, p) PROVE PublishInv'
  <2>1. UNCHANGED <<object, primary>> /\ worker'[k].pc = "get"
    BY <1>10, RefreshNSGlueDoes DEF TypeInv
  <2> QED
    BY <1>0, <2>1, PublishKept
<1> QED
    BY <1>1, <1>2, <1>3, <1>4, <1>5, <1>6, <1>7, <1>8, <1>9, <1>10 DEF Reconcile, Work

\* Every step keeps what is published protected.
LEMMA PublishStep ==
    ASSUME OneKind, ~SameSecond
    PROVE  ZoneInv /\ PublishInv /\ [Next]_vars => PublishInv'
<1>1. PublishInv /\ UNCHANGED vars => PublishInv'
    BY DEF PublishInv, vars
<1> QED
    BY <1>1, PublishEnvironment, PublishReconcile DEF Next

\* It is protected always.
LEMMA PublishAlways ==
    ASSUME OneKind, ~SameSecond
    PROVE  Spec => []PublishInv
    BY PublishInit, PublishStep, ZoneAlways, PTL DEF Spec

\* With one worker, no record in the ConfigMap outlives the finalizer of the
\* object it was derived from, although the zone is forgotten by a restart,
\* the ConfigMap is deleted under the worker, and its cache is old
\* (dsns_reconciler.go, Reconcile; configmap.go, ApplyContent).
THEOREM FinalizerProtectsConfigMap ==
    ASSUME OneKind, ~SameSecond
    PROVE  Spec => []FinalizerGuardsConfigMap
<1>1. PublishInv => FinalizerGuardsConfigMap
  <2> SUFFICES ASSUME PublishInv, NEW o \in Objects,
                      KeysOf(primary.records) \cap KeysOfObject[o] # {}
               PROVE  object[o].finalizer
    BY DEF FinalizerGuardsConfigMap
  <2>1. Entry(primary.records, o) # {}
    BY DEF Entry, KeysOf
  <2> QED
    BY <2>1 DEF PublishInv
<1> QED
    BY <1>1, PublishAlways, PTL

-----------------------------------------------------------------------------
(* The ConfigMap implements the directory. *)

\* The directory is empty initially.
LEMMA DirectoryInit == Init => Directory!Init
<1> SUFFICES ASSUME Init PROVE Directory!Init
    OBVIOUS
<1>1. \A o \in Objects : object[o].finalizer = FALSE
    BY DEF Init, Absent
<1>2. primary.records = {}
    BY DEF Init, NoConfigMap, Containing
<1> QED
    BY <1>1, <1>2 DEF Directory!Init

\* A step that changes neither finalizer nor ConfigMap is none of the directory.
LEMMA DirectoryStutter ==
    ASSUME UNCHANGED primary, \A o \in Objects : object'[o].finalizer = object[o].finalizer
    PROVE  UNCHANGED Directory!vars
    BY DEF Directory!vars

\* A step of DSNS is a step of the directory or none.
LEMMA DirectoryStep ==
    ASSUME OneKind, ~SameSecond
    PROVE  ZoneInv /\ PublishInv /\ [Next]_vars => [Directory!Next]_(Directory!vars)
<1> SUFFICES ASSUME ZoneInv, PublishInv, [Next]_vars
             PROVE  Directory!Next \/ UNCHANGED Directory!vars
    OBVIOUS
<1> USE DEF ZoneInv
<1>0. /\ \A p \in Objects : Entry(primary.records, p) # {} => object[p].finalizer
      /\ \A p \in Objects : object[p].finalizer \in BOOLEAN
    BY DEF PublishInv, TypeInv, TypeOK, Object
<1>1. ASSUME NEW o \in Objects, UserWrite(o) PROVE UNCHANGED Directory!vars
  <2>1. Rewritten(o) /\ object'[o].finalizer = object[o].finalizer /\ UNCHANGED primary
    BY <1>1, UserWrites DEF TypeInv
  <2> QED
    BY <2>1, DirectoryStutter DEF Rewritten
<1>2. CASE DeleteConfigMap
  <2>1. UNCHANGED object /\ primary'.records = {}
    BY <1>2 DEF DeleteConfigMap, NoConfigMap
  <2>2. Directory!Publish
    BY <1>0, <2>1 DEF Directory!Publish, Entry
  <2> QED
    BY <2>2 DEF Directory!Next
<1>3. CASE \/ \E ip \in IPs \cup {NoIP} : SetLoadBalancer(ip)
           \/ DeliverConfigMap \/ (\E k \in Kinds : Resync(k)) \/ Restart \/ UNCHANGED vars
  <2>1. UNCHANGED <<object, primary>>
    BY <1>3 DEF SetLoadBalancer, DeliverConfigMap, Resync, Restart, apiVars, vars
  <2> QED
    BY <2>1, DirectoryStutter
<1>4. ASSUME NEW k \in Kinds, Reconcile(k) PROVE Directory!Next \/ UNCHANGED Directory!vars
  <2> DEFINE o == worker[k].key
  <2>1. CASE \/ GetObject(k) \/ RefetchObject(k) \/ MutateZone(k) \/ RenderZone(k)
             \/ WriteMirror(k) \/ CallFails(k) \/ \E p \in Objects : RefreshNSGlue(k, p)
    <3>1. UNCHANGED <<object, primary>>
      BY <2>1 DEF GetObject, RefetchObject, MutateZone, RenderZone, WriteMirror, CallFails,
                  RefreshNSGlue, apiVars
    <3> QED
      BY <3>1, DirectoryStutter
  <2>2. CASE AddFinalizer(k)
    <3>1. UNCHANGED primary /\ o \in Objects
      BY <2>2, AddFinalizerDoes, BusyFields DEF TypeInv
    <3>2. CASE Rewritten(o) /\ object'[o].finalizer
      <4>1. object'[o].finalizer = TRUE /\ \A p \in Objects \ {o} : object'[p] = object[p]
        BY <3>1, <3>2 DEF Rewritten, Object
      <4>2. CASE object[o].finalizer
        BY <1>0, <3>1, <4>1, <4>2, DirectoryStutter
      <4>3. CASE ~object[o].finalizer
        <5>1. Directory!Register(o)
          <6>1. [p \in Objects |-> object'[p].finalizer]
                    = [[p \in Objects |-> object[p].finalizer] EXCEPT ![o] = TRUE]
            BY <3>1, <4>1
          <6> QED
            BY <3>1, <4>3, <6>1 DEF Directory!Register
        <5> QED
          BY <3>1, <5>1 DEF Directory!Next, Directory!Register
      <4> QED
        BY <4>2, <4>3
    <3>3. CASE UNCHANGED object
      BY <3>1, <3>3, DirectoryStutter
    <3> QED
      BY <2>2, <3>2, <3>3, AddFinalizerDoes
  <2>3. CASE ReleaseFinalizer(k)
    <3>1. UNCHANGED primary /\ o \in Objects
      BY <2>3, ReleaseFinalizerDoes, BusyFields DEF TypeInv
    <3>2. CASE Rewritten(o) /\ ~object'[o].finalizer
      <4>1. object'[o].finalizer = FALSE /\ \A p \in Objects \ {o} : object'[p] = object[p]
        BY <3>1, <3>2 DEF Rewritten, Object
      <4>2. CASE ~object[o].finalizer
        BY <1>0, <3>1, <4>1, <4>2, DirectoryStutter
      <4>3. CASE object[o].finalizer
        <5>1. PublishInv'
          BY <1>4, PublishReconcile
        <5>2. Entry(primary.records, o) = {}
          BY <3>1, <4>1, <5>1 DEF PublishInv
        <5>3. Directory!Deregister(o)
          <6>1. [p \in Objects |-> object'[p].finalizer]
                    = [[p \in Objects |-> object[p].finalizer] EXCEPT ![o] = FALSE]
            BY <3>1, <4>1
          <6> QED
            BY <3>1, <4>3, <5>2, <6>1 DEF Directory!Deregister, Entry
        <5> QED
          BY <3>1, <5>3 DEF Directory!Next, Directory!Deregister
      <4> QED
        BY <4>2, <4>3
    <3>3. CASE UNCHANGED object
      BY <3>1, <3>3, DirectoryStutter
    <3> QED
      BY <2>3, <3>2, <3>3, ReleaseFinalizerDoes
  <2>4. CASE WritePrimary(k)
    <3>1. worker[k].pc = "write" /\ UNCHANGED <<object, zone>>
      BY <2>4, WritePrimaryDoes DEF TypeInv
    <3>2. CASE primary' = Containing(worker[k].rendered)
      <4>1. primary'.records = zone
        BY <3>1, <3>2 DEF PublishInv, Containing
      <4>2. ASSUME NEW p \in Objects, Entry(primary'.records, p) # Entry(primary.records, p)
            PROVE  /\ object[p].finalizer
                   /\ Entry(primary'.records, p) \in ContentsOfObject[p] \cup {{}}
        <5>1. Entry(zone, p) # {} => object[p].finalizer
          BY ZoneProtected
        <5> QED
          BY <1>0, <4>1, <4>2, <5>1 DEF EntryInv
      <4>3. Directory!Publish
        BY <3>1, <4>2 DEF Directory!Publish, Entry
      <4> QED
        BY <4>3 DEF Directory!Next
    <3>3. CASE UNCHANGED primary
      BY <3>1, <3>3, DirectoryStutter
    <3> QED
      BY <2>4, <3>2, <3>3, WritePrimaryDoes DEF TypeInv
  <2> QED
    BY <1>4, <2>1, <2>2, <2>3, <2>4 DEF Reconcile, Work
<1> QED
    BY <1>1, <1>2, <1>3, <1>4 DEF Next, Environment, UserWrite

\* With one worker the published zone is a directory: an object is listed with
\* all the records of one of its states or with none, only while it has the
\* finalizer, and it is unlisted before the finalizer is given up, whatever
\* the cache, a restart or a deleted ConfigMap do in between.
THEOREM ConfigMapIsDirectory ==
    ASSUME OneKind, ~SameSecond
    PROVE  Spec => ImplementsDirectory
    BY DirectoryInit, DirectoryStep, ZoneAlways, PublishAlways, PTL
    DEF Spec, ImplementsDirectory, Directory!Spec

-----------------------------------------------------------------------------
(* When no event is left, the ConfigMap is up to date. *)

\* With one worker there is one queue.
LEMMA OneQueue ==
    ASSUME OneKind, NEW k \in Kinds, NEW o \in Objects
    PROVE  KindOf[o] = k
    BY ConstantsAssumption DEF OneKind

\* What a step of the worker has to show.
LEMMA QuietBy ==
    ASSUME OneKind, NEW k \in Kinds,
           \A o \in Objects : o \notin queue'[k] /\ worker'[k].key # o => Published(o)',
           Answers(worker[k])'
    PROVE  QuietInv'
<1>1. \A o \in Objects : Settled(o)' /\ worker'[KindOf[o]].key # o => Published(o)'
    BY OneQueue DEF Settled
<1>2. \A j \in Kinds : Answers(worker[j])'
    BY DEF OneKind
<1> QED
    BY <1>1, <1>2 DEF QuietInv

\* What it may use.
LEMMA QuietFor ==
    ASSUME OneKind, QuietInv, NEW k \in Kinds
    PROVE  /\ \A o \in Objects : o \notin queue[k] /\ worker[k].key # o => Published(o)
           /\ Answers(worker[k])
    BY OneQueue DEF QuietInv, Settled

\* An object that stays is said the same of while the entries stay.
LEMMA PublishedKept ==
    ASSUME NEW o \in Objects, Published(o), object'[o] = object[o],
           Entry(zone', o) = Entry(zone, o), UNCHANGED primary
    PROVE  Published(o)'
    BY DEF Published, Wanted

\* A failed request is repeated.
LEMMA QuietRetried ==
    ASSUME OneKind, TypeInv, QuietInv, NEW k \in Kinds, worker[k].pc # "idle", Retried(k),
           UNCHANGED <<object, primary>>, \A o \in Objects : Entry(zone', o) = Entry(zone, o)
    PROVE  QuietInv'
<1>1. /\ worker[k].key \in Objects /\ worker'[k] = Idle
      /\ queue[k] \subseteq queue'[k] /\ worker[k].key \in queue'[k]
    BY BusyFields, EnqueueFields DEF TypeInv, Retried
<1>2. ASSUME NEW o \in Objects, o \notin queue'[k] PROVE Published(o)'
    BY <1>1, <1>2, QuietFor, PublishedKept
<1>3. Answers(worker[k])'
    BY <1>1, IdleEntry DEF Answers
<1> QED
    BY <1>2, <1>3, QuietBy

\* A step that leaves the entries and the worker's request alone, and announces
\* every change of an object: only what the worker is about to say needs a look.
LEMMA QuietKept ==
    ASSUME OneKind, TypeInv, QuietInv, NEW k \in Kinds, UNCHANGED primary,
           \A o \in Objects : Entry(zone', o) = Entry(zone, o),
           \A o \in Objects : o \notin queue'[k] => o \notin queue[k] /\ object'[o] = object[o],
           worker'[k].key = worker[k].key, Answers(worker[k])'
    PROVE  QuietInv'
<1>1. ASSUME NEW o \in Objects, o \notin queue'[k], worker'[k].key # o PROVE Published(o)'
    BY <1>1, QuietFor, PublishedKept
<1> QED
    BY <1>1, QuietBy

\* Initially there is nothing to say.
LEMMA QuietInit == Init => QuietInv
<1> SUFFICES ASSUME Init PROVE QuietInv
    OBVIOUS
<1>1. \A o \in Objects : object[o].exists = FALSE
    BY DEF Init, Absent
<1>2. primary.records = {} /\ zone = Seeded
    BY DEF Init, NoConfigMap, Containing
<1>3. \A o \in Objects : Published(o)
    BY <1>1, <1>2, SeededEntries DEF Published, Wanted, Entry
<1>4. \A k \in Kinds : Answers(worker[k])
    BY IdleEntry DEF Init, Answers
<1> QED
    BY <1>3, <1>4 DEF QuietInv

\* The environment announces what it does; a new process lists all objects.
LEMMA QuietEnvironment ==
    OneKind /\ ZoneInv /\ PublishInv /\ QuietInv /\ Environment => QuietInv'
<1> SUFFICES ASSUME OneKind, ZoneInv, PublishInv, QuietInv, Environment PROVE QuietInv'
    OBVIOUS
<1> USE DEF ZoneInv
<1>0. CASE Kinds = {}
    BY <1>0, ConstantsAssumption DEF QuietInv
<1> SUFFICES ASSUME NEW k \in Kinds PROVE QuietInv'
    BY <1>0
<1>1. ASSUME UNCHANGED <<zone, worker>>, UNCHANGED primary \/ ~primary'.exists,
             \A o \in Objects : o \notin queue'[k] => o \notin queue[k] /\ object'[o] = object[o]
      PROVE  QuietInv'
  <2>1. ASSUME NEW o \in Objects, o \notin queue'[k], worker'[k].key # o PROVE Published(o)'
    BY <1>1, <2>1, QuietFor DEF Published, Wanted
  <2>2. Answers(worker[k])'
    <3>1. CASE worker[k].pc \in {"idle", "get", "finalize"}
      BY <1>1, <3>1 DEF Answers
    <3>2. CASE worker[k].pc \notin {"idle", "get", "finalize"}
      <4>1. worker[k].key \in Objects /\ Answers(worker[k]) /\ KindOf[worker[k].key] = k
        BY <3>2, BusyFields, QuietFor DEF TypeInv
      <4> QED
        BY <1>1, <3>2, <4>1 DEF Answers, Settled, Wanted
    <3> QED
      BY <3>1, <3>2
  <2> QED
    BY <2>1, <2>2, QuietBy
<1>2. ASSUME NEW o \in Objects, UserWrite(o) PROVE QuietInv'
  <2>1. Rewritten(o) /\ UNCHANGED <<primary, zone, worker>>
    BY <1>2, UserWrites DEF TypeInv
  <2>2. queue[k] \subseteq queue'[k] /\ o \in queue'[k]
    BY <2>1, EnqueueFields, OneQueue DEF TypeInv, Rewritten
  <2> QED
    BY <1>1, <2>1, <2>2 DEF Rewritten
<1>3. CASE DeleteConfigMap
  <2>1. UNCHANGED <<object, zone, worker, queue>> /\ ~primary'.exists
    BY <1>3 DEF DeleteConfigMap, stateVars, NoConfigMap
  <2> QED
    BY <1>1, <2>1
<1>4. CASE Restart
  <2>1. /\ UNCHANGED <<object, primary>> /\ worker'[k] = Idle /\ queue'[k] = Existing(k)
        /\ zone' = Seeded
    BY <1>4 DEF Restart, apiVars
  <2>2. ASSUME NEW o \in Objects, o \notin queue'[k] PROVE Published(o)'
    <3>1. ~object[o].exists
      BY <2>1, <2>2, OneQueue DEF Existing
    <3>2. Entry(primary.records, o) = {}
      BY <3>1 DEF PublishInv, TypeInv, ObjectInv
    <3> QED
      BY <2>1, <3>1, <3>2, SeededEntries DEF Published, Wanted
  <2>3. Answers(worker[k])'
    BY <2>1, IdleEntry DEF Answers
  <2> QED
    BY <2>2, <2>3, QuietBy
<1>5. ASSUME NEW j \in Kinds, Resync(j) PROVE QuietInv'
  <2>1. UNCHANGED <<object, primary, zone, worker>> /\ queue[k] \subseteq queue'[k]
    BY <1>5 DEF Resync, apiVars, stateVars, TypeInv, TypeOK
  <2> QED
    BY <1>1, <2>1
<1>6. CASE (\E ip \in IPs \cup {NoIP} : SetLoadBalancer(ip)) \/ DeliverConfigMap
  <2>1. UNCHANGED <<object, primary, zone, worker, queue>>
    BY <1>6 DEF SetLoadBalancer, DeliverConfigMap, apiVars, stateVars
  <2> QED
    BY <1>1, <2>1
<1> QED
    BY <1>2, <1>3, <1>4, <1>5, <1>6 DEF Environment, UserWrite

\* The worker says what its object's last event was about, and repeats what
\* fails.
LEMMA QuietReconcile ==
    ASSUME OneKind, ~SameSecond, ZoneInv, PublishInv, QuietInv, NEW k \in Kinds, Reconcile(k)
    PROVE  QuietInv'
<1> DEFINE o == worker[k].key
<1> USE DEF ZoneInv
<1>0. \A p \in Objects : KindOf[p] = k
    BY OneQueue
<1>1. CASE GetObject(k)
  <2>1. /\ worker[k].pc = "get" /\ SetStaticRecord(worker[k].ip)
        /\ UNCHANGED <<object, primary, queue>>
    BY <1>1, GetObjectDoes DEF TypeInv
  <2>2. o \in Objects /\ \A p \in Objects : Entry(zone', p) = Entry(zone, p)
    BY <2>1, BusyFields, StaticEntries DEF TypeInv
  <2>3. CASE worker'[k] = Idle /\ object[o].exists /\ object[o].deleting /\ ~object[o].finalizer
    <3>1. Published(o)
      <4>1. Entry(zone, o) = {} /\ Entry(primary.records, o) = {}
        BY <2>2, <2>3, ZoneProtected DEF PublishInv
      <4> QED
        BY <2>3, <4>1 DEF Published, Wanted
    <3>2. ASSUME NEW p \in Objects, p \notin queue'[k] PROVE Published(p)'
      BY <2>1, <2>2, <3>1, <3>2, QuietFor, PublishedKept
    <3>3. Answers(worker[k])'
      BY <2>3, IdleEntry DEF Answers
    <3> QED
      BY <3>2, <3>3, QuietBy
  <2>4. CASE \/ Read(k, "mutate", "remove") /\ ~object[o].exists
             \/ Read(k, "mutate", "release") /\ object[o].deleting
             \/ Read(k, "mutate", "update") /\ object[o].exists /\ ~object[o].deleting
             \/ Read(k, "finalize", "update")
    <3>1. Answers(worker[k])'
      BY <2>1, <2>4 DEF Read, Answers, Said, Wanted
    <3>2. worker'[k].key = worker[k].key
      BY <2>4 DEF Read
    <3> QED
      BY <2>1, <2>2, <3>1, <3>2, QuietKept
  <2> QED
    BY <1>1, <2>3, <2>4, GetObjectDoes DEF TypeInv
<1>2. CASE AddFinalizer(k)
  <2>1. worker[k].pc = "finalize" /\ UNCHANGED <<primary, zone>>
    BY <1>2, AddFinalizerDoes
  <2>2. o \in Objects
    BY <2>1, BusyFields DEF TypeInv
  <2>3. CASE Rewritten(o) /\ Goto(k, "refetch")
    <3>1. "refetch" \in Steps
      BY DEF Steps
    <3>2. worker'[k].pc = "refetch" /\ worker'[k].key = o
      BY <2>3, <3>1, GotoFields DEF TypeInv
    <3>3. queue[k] \subseteq queue'[k] /\ o \in queue'[k]
      BY <1>0, <2>2, <2>3, EnqueueFields DEF TypeInv, Rewritten
    <3>4. Answers(worker[k])'
      BY <1>0, <2>2, <3>2, <3>3 DEF Answers, Settled
    <3>5. \A p \in Objects : p \notin queue'[k] => p \notin queue[k] /\ object'[p] = object[p]
      BY <2>3, <3>3 DEF Rewritten
    <3> QED
      BY <2>1, <3>2, <3>4, <3>5, QuietKept
  <2>4. CASE Retried(k) /\ UNCHANGED object
    BY <2>1, <2>4, QuietRetried
  <2> QED
    BY <1>2, <2>3, <2>4, AddFinalizerDoes
<1>3. CASE RefetchObject(k)
  <2>1. worker[k].pc = "refetch" /\ UNCHANGED <<object, primary, zone>>
    BY <1>3, RefetchObjectDoes DEF TypeInv
  <2>2. CASE UNCHANGED queue /\ Read(k, "mutate", worker[k].op)
    <3>1. worker'[k].pc = "mutate" /\ worker'[k].key = o
      BY <2>2 DEF Read
    <3>2. ~Settled(o)
      BY <2>1, QuietFor DEF Answers
    <3>3. Answers(worker[k])'
      BY <2>2, <3>1, <3>2 DEF Answers, Settled
    <3> QED
      BY <2>1, <2>2, <3>1, <3>3, QuietKept
  <2>3. CASE Retried(k)
    BY <2>1, <2>3, QuietRetried
  <2> QED
    BY <1>3, <2>2, <2>3, RefetchObjectDoes DEF TypeInv
<1>4. CASE MutateZone(k)
  <2>1. /\ worker[k].pc = "mutate" /\ Onward(k, "render") /\ UNCHANGED <<object, primary, queue>>
        /\ UpdateRecords(o, Said(worker[k]))
    BY <1>4, MutateZoneDoes DEF TypeInv
  <2>2. o \in Objects /\ Said(worker[k]) \in SUBSET Record /\ KeysOf(Said(worker[k])) \subseteq KeysOfObject[o]
    BY <2>1, BusyFields, SaidFacts DEF TypeInv
  <2>3. \A p \in Objects \ {o} : Entry(zone', p) = Entry(zone, p)
    BY <2>1, <2>2, UpdateEntries DEF TypeInv
  <2>4. ASSUME NEW p \in Objects, p \notin queue'[k], worker'[k].key # p PROVE Published(p)'
    BY <2>1, <2>3, <2>4, QuietFor, PublishedKept DEF Onward
  <2>5. Answers(worker[k])'
    BY <2>1, QuietFor DEF Answers, Onward, Said, Settled, Wanted
  <2> QED
    BY <2>4, <2>5, QuietBy
<1>5. CASE RenderZone(k)
  <2>1. /\ worker[k].pc = "render" /\ Onward(k, "write")
        /\ UNCHANGED <<object, primary, zone, queue>>
    BY <1>5, RenderZoneDoes DEF TypeInv
  <2>2. Answers(worker[k])'
    BY <2>1, QuietFor DEF Answers, Onward, Said, Settled, Wanted
  <2> QED
    BY <2>1, <2>2, QuietKept DEF Onward
<1>6. CASE WritePrimary(k)
  <2>1. worker[k].pc = "write" /\ UNCHANGED <<object, zone>>
    BY <1>6, WritePrimaryDoes DEF TypeInv
  <2>2. CASE Onward(k, "mirror") /\ UNCHANGED queue /\ primary' = Containing(worker[k].rendered)
    <3>1. primary'.records = zone
      BY <2>1, <2>2 DEF PublishInv, Containing
    <3>2. ASSUME NEW p \in Objects, p \notin queue'[k], worker'[k].key # p PROVE Published(p)'
      BY <2>1, <2>2, <3>1, <3>2, QuietFor DEF Onward, Published, Wanted
    <3>3. Answers(worker[k])'
      BY <2>1, <2>2, QuietFor DEF Answers, Onward, Said, Settled, Wanted
    <3> QED
      BY <3>2, <3>3, QuietBy
  <2>3. CASE Retried(k) /\ UNCHANGED primary
    BY <2>1, <2>3, QuietRetried
  <2> QED
    BY <1>6, <2>2, <2>3, WritePrimaryDoes DEF TypeInv
<1>7. CASE WriteMirror(k)
  <2>1. worker[k].pc = "mirror" /\ UNCHANGED <<object, primary, zone, queue>>
    BY <1>7, WriteMirrorDoes DEF TypeInv
  <2>2. CASE Onward(k, "release")
    <3>1. Answers(worker[k])'
      BY <2>1, <2>2, QuietFor DEF Answers, Onward, Said, Settled, Wanted
    <3> QED
      BY <2>1, <2>2, <3>1, QuietKept DEF Onward
  <2>3. CASE worker'[k] = Idle
    <3>1. ASSUME o \notin queue[k] PROVE Published(o)
      <4>1. o \in Objects /\ Said(worker[k]) = Wanted(o)
        BY <1>0, <2>1, <3>1, BusyFields, QuietFor DEF TypeInv, Answers, Settled
      <4>2. worker[k].rendered = zone /\ Entry(worker[k].rendered, o) = Said(worker[k])
        BY <2>1 DEF PublishInv, EntryInv
      <4>3. primary.exists => Entry(primary.records, o) = Entry(zone, o)
        BY <2>1, <4>1 DEF PublishInv
      <4> QED
        BY <4>1, <4>2, <4>3 DEF Published
    <3>2. ASSUME NEW p \in Objects, p \notin queue'[k] PROVE Published(p)'
      BY <2>1, <3>1, <3>2, QuietFor, PublishedKept
    <3>3. Answers(worker[k])'
      BY <2>3, IdleEntry DEF Answers
    <3> QED
      BY <3>2, <3>3, QuietBy
  <2> QED
    BY <1>7, <2>2, <2>3, WriteMirrorDoes DEF TypeInv
<1>8. CASE ReleaseFinalizer(k)
  <2>1. worker[k].pc = "release" /\ UNCHANGED <<primary, zone>>
    BY <1>8, ReleaseFinalizerDoes
  <2>2. o \in Objects
    BY <2>1, BusyFields DEF TypeInv
  <2>3. CASE Rewritten(o) /\ worker' = [worker EXCEPT ![k] = Idle]
    <3>1. worker'[k] = Idle
      BY <2>3, ReturnFields DEF TypeInv
    <3>2. queue[k] \subseteq queue'[k] /\ o \in queue'[k]
      BY <1>0, <2>2, <2>3, EnqueueFields DEF TypeInv, Rewritten
    <3>3. ASSUME NEW p \in Objects, p \notin queue'[k] PROVE Published(p)'
      <4>1. object'[p] = object[p] /\ Published(p)
        BY <2>3, <3>2, <3>3, QuietFor DEF Rewritten
      <4> QED
        BY <2>1, <4>1, PublishedKept
    <3>4. Answers(worker[k])'
      BY <3>1, IdleEntry DEF Answers
    <3> QED
      BY <3>3, <3>4, QuietBy
  <2>4. CASE Retried(k) /\ UNCHANGED object
    BY <2>1, <2>4, QuietRetried
  <2> QED
    BY <1>8, <2>3, <2>4, ReleaseFinalizerDoes
<1>9. CASE CallFails(k)
  <2>1. /\ worker[k].pc # "idle" /\ Retried(k) /\ UNCHANGED <<object, primary>>
        /\ SetStaticRecord(worker[k].ip) \/ UNCHANGED zone
    BY <1>9, CallFailsDoes DEF TypeInv
  <2>2. \A p \in Objects : Entry(zone', p) = Entry(zone, p)
    BY <2>1, BusyFields, StaticEntries DEF TypeInv
  <2> QED
    BY <2>1, <2>2, QuietRetried
<1>10. ASSUME NEW p \in Objects, RefreshNSGlue(k, p) PROVE QuietInv'
  <2>1. /\ worker[k].pc = "idle" /\ queue' = [queue EXCEPT ![k] = @ \ {p}]
        /\ worker'[k].pc = "get" /\ worker'[k].key = p /\ UNCHANGED <<object, primary, zone>>
    BY <1>10, RefreshNSGlueDoes DEF TypeInv
  <2>2. worker[k].key \notin Objects
    BY <2>1, ConstantsAssumption DEF TypeInv, TypeOK, Idle
  <2>3. queue'[k] = queue[k] \ {p}
    BY <2>1 DEF TypeInv, TypeOK
  <2>4. ASSUME NEW q \in Objects, q \notin queue'[k], worker'[k].key # q PROVE Published(q)'
    BY <2>1, <2>2, <2>3, <2>4, QuietFor, PublishedKept
  <2>5. Answers(worker[k])'
    BY <2>1 DEF Answers
  <2> QED
    BY <2>4, <2>5, QuietBy
<1> QED
    BY <1>1, <1>2, <1>3, <1>4, <1>5, <1>6, <1>7, <1>8, <1>9, <1>10 DEF Reconcile, Work

\* Every step keeps what is said of the settled objects up to date.
LEMMA QuietStep ==
    ASSUME OneKind, ~SameSecond
    PROVE  ZoneInv /\ PublishInv /\ QuietInv /\ [Next]_vars => QuietInv'
<1>1. QuietInv /\ UNCHANGED vars => QuietInv'
    BY DEF QuietInv, Settled, Published, Wanted, Answers, vars
<1> QED
    BY <1>1, QuietEnvironment, QuietReconcile DEF Next

\* It is up to date always.
LEMMA QuietAlways ==
    ASSUME OneKind, ~SameSecond
    PROVE  Spec => []QuietInv
    BY QuietInit, QuietStep, ZoneAlways, PublishAlways, PTL DEF Spec

\* With one worker, once the queue is empty and the worker idle, the ConfigMap
\* has the records of exactly the objects that are there to stay, in the state
\* they are in: no change that was made while its object was being reconciled,
\* no failed call and no restart is forgotten (dsns_reconciler.go, Reconcile).
THEOREM QuietIsPublished ==
    ASSUME OneKind, ~SameSecond
    PROVE  Spec => []QuietMeansPublished
<1>1. TypeInv /\ PublishInv /\ QuietInv => QuietMeansPublished
  <2> SUFFICES ASSUME TypeInv, PublishInv, QuietInv, primary.exists,
                      \A k \in Kinds : queue[k] = {} /\ worker[k].pc = "idle"
               PROVE  DynamicRecords(primary.records) = Projection
    BY DEF QuietMeansPublished
  <2>1. ASSUME NEW o \in Objects PROVE Entry(primary.records, o) = Wanted(o)
    <3>1. KindOf[o] \in Kinds
      BY ConstantsAssumption
    <3>2. worker[KindOf[o]].key # o
      BY <3>1, ConstantsAssumption DEF TypeInv, TypeOK, Idle
    <3> QED
      BY <3>1, <3>2 DEF QuietInv, Settled, Published
  <2>2. ASSUME NEW r \in DynamicRecords(primary.records) PROVE r \in Projection
    <3>1. r \in primary.records /\ r.key \notin StaticKeys
      BY <2>2 DEF DynamicRecords
    <3>2. PICK o \in Objects : r.key \in KeysOfObject[o]
      BY <3>1 DEF PublishInv
    <3>3. r \in Wanted(o)
      BY <2>1, <3>1, <3>2 DEF Entry
    <3> QED
      BY <3>3 DEF Wanted, Projection
  <2>3. ASSUME NEW r \in Projection PROVE r \in DynamicRecords(primary.records)
    <3>1. PICK o \in Objects : r \in Wanted(o)
      BY <2>3 DEF Wanted, Projection
    <3>2. r \in primary.records /\ r.key \in KeysOfObject[o]
      BY <2>1, <3>1 DEF Entry
    <3> QED
      BY <3>2, KeyFacts DEF DynamicRecords
  <2> QED
    BY <2>2, <2>3
<1> QED
    BY <1>1, ZoneAlways, PublishAlways, QuietAlways, PTL DEF ZoneInv

=============================================================================
