--------------------------- MODULE DSNSNotify_proof ---------------------------
(***************************************************************************)
(* Proofs about the notifications, for any number of sinks, kinds, objects *)
(* and faults.  The sinks never change what DSNS does, so that what        *)
(* DSNS_proof shows of DSNS holds with them.                               *)
(***************************************************************************)
EXTENDS DSNSNotify, DSNS_proof

-----------------------------------------------------------------------------
(* DSNS with sinks is DSNS. *)

\* Every step is a step of DSNS or changes nothing of it.
LEMMA NotifyStep == [NotifyNext]_allVars => [Next]_vars
<1> SUFFICES ASSUME [NotifyNext]_allVars PROVE Next \/ UNCHANGED vars
    OBVIOUS
<1>1. CASE UNCHANGED allVars
    BY <1>1 DEF allVars
<1>2. CASE Silent
    BY <1>2 DEF Silent, Next, Environment, Reconcile
<1>3. CASE NotifyingRestart
    BY <1>3 DEF NotifyingRestart, Next, Environment
<1>4. ASSUME NEW k \in Kinds, NotifyingWork(k) PROVE Next
    BY <1>4 DEF NotifyingWork, Next, Reconcile
<1>5. ASSUME NEW s \in Sinks, NEW event \in Events, SinkAccepts(s, event) \/ SinkFails(s, event)
      PROVE  UNCHANGED vars
    BY <1>5 DEF SinkAccepts, SinkFails
<1> QED
    BY <1>1, <1>2, <1>3, <1>4, <1>5 DEF NotifyNext

\* Whatever the sinks do, DSNS takes only steps that it takes without them: the
\* safety half of SinksNeverBlock (sink_registry.go, Notify).  That they cannot
\* keep it from taking those steps is left to the run.
THEOREM SinksChangeNothing == NotifySpec => Spec
<1>1. NotifyInit => Init
    BY DEF NotifyInit
<1> QED
    BY <1>1, NotifyStep, PTL DEF NotifySpec, Spec

-----------------------------------------------------------------------------
(* Events say what was written. *)

\* When Apply notifies the sinks, the records in the event are exactly the
\* records of the object in the zone that it rendered and wrote, although
\* other workers change the zone at the same time and the object itself may
\* have changed since it was read (dsns_reconciler.go, Reconcile; state.go,
\* Apply).
THEOREM EventsAreAccurate == NotifySpec => []EventsAccurate
<1>1. EntryInv => EventsAccurate
  <2> SUFFICES ASSUME EntryInv, NEW k \in Kinds, worker[k].pc = "mirror"
               PROVE  EventOf(worker[k]).records
                          = recordStrings({r \in worker[k].rendered : r.key \in KeysOfObject[worker[k].key]})
    BY DEF EventsAccurate
  <2>1. {r \in worker[k].rendered : r.key \in KeysOfObject[worker[k].key]} = Said(worker[k])
    BY DEF EntryInv, Entry
  <2>2. CASE worker[k].op = "update"
    BY <2>1, <2>2 DEF EventOf, updateEvent, DSNSEvent, Said
  <2>3. CASE worker[k].op # "update"
    BY <2>1, <2>3 DEF EventOf, deletionEvent, DSNSEvent, Said, recordStrings
  <2> QED
    BY <2>2, <2>3
<1> QED
    BY <1>1, SinksChangeNothing, EntryAlways, PTL

-----------------------------------------------------------------------------
(* A deletion is announced before the object is let go. *)

\* What was announced of an object that exists without finalizer is not an
\* update, and a worker gives up the finalizer only after it has announced the
\* deletion.
AnnounceInv ==
    /\ announced \in [Objects -> {"none", "updated", "deleted"}]
    /\ DeletionAnnounced
    /\ \A k \in Kinds : worker[k].pc = "release" => announced[worker[k].key] = "deleted"

\* What the proof uses of DSNS.
DSNSInv == TypeInv /\ OwnInv /\ ProtectInv

\* Nothing is announced initially.
LEMMA AnnounceInit == NotifyInit => AnnounceInv
    BY IdleEntry DEF NotifyInit, Init, AnnounceInv, DeletionAnnounced

\* A step that announces nothing, takes no finalizer and brings no worker to
\* the release.
LEMMA AnnounceKept ==
    ASSUME AnnounceInv, UNCHANGED announced,
           \A o \in Objects : object[o].finalizer => object'[o].finalizer,
           \A k \in Kinds : worker'[k].pc = "release" => worker'[k] = worker[k]
    PROVE  AnnounceInv'
    BY DEF AnnounceInv, DeletionAnnounced

\* Such are the steps of the environment and the failures.
LEMMA AnnounceSilent ==
    ASSUME DSNSInv, AnnounceInv, Silent \/ Restart, UNCHANGED announced
    PROVE  AnnounceInv'
<1> USE DEF DSNSInv
<1>1. ASSUME NEW o \in Objects, UserWrite(o) PROVE AnnounceInv'
  <2>1. Rewritten(o) /\ object'[o].finalizer = object[o].finalizer /\ UNCHANGED worker
    BY <1>1, UserWrites DEF TypeInv
  <2> QED
    BY <2>1, AnnounceKept DEF Rewritten
<1>2. CASE \/ \E ip \in IPs \cup {NoIP} : SetLoadBalancer(ip)
           \/ DeleteConfigMap \/ DeliverConfigMap \/ \E k \in Kinds : Resync(k)
  <2>1. UNCHANGED <<object, worker>>
    BY <1>2 DEF SetLoadBalancer, DeleteConfigMap, DeliverConfigMap, Resync, apiVars
  <2> QED
    BY <2>1, AnnounceKept
<1>3. ASSUME NEW k \in Kinds, CallFails(k) PROVE AnnounceInv'
  <2>1. UNCHANGED object /\ Alone(k) /\ worker'[k] = Idle
    BY <1>3, CallFailsDoes DEF TypeInv, Retried
  <2> QED
    BY <2>1, IdleEntry, AnnounceKept DEF Alone
<1>4. ASSUME NEW k \in Kinds, NEW o \in Objects, RefreshNSGlue(k, o) PROVE AnnounceInv'
  <2>1. UNCHANGED object /\ Alone(k) /\ worker'[k].pc = "get"
    BY <1>4, RefreshNSGlueDoes DEF TypeInv
  <2> QED
    BY <2>1, AnnounceKept DEF Alone
<1>5. CASE Restart
  <2>1. UNCHANGED object /\ \A k \in Kinds : worker'[k] = Idle
    BY <1>5 DEF Restart, apiVars
  <2> QED
    BY <2>1, IdleEntry, AnnounceKept
<1> QED
    BY <1>1, <1>2, <1>3, <1>4, <1>5 DEF Silent, UserWrite

\* The worker announces what it wrote, then gives up the finalizer.
LEMMA AnnounceWork ==
    ASSUME DSNSInv, AnnounceInv, NEW k \in Kinds, NotifyingWork(k)
    PROVE  AnnounceInv'
<1> DEFINE o == worker[k].key
<1> USE DEF DSNSInv
<1>0. Work(k)
    BY DEF NotifyingWork
<1>1. CASE WriteMirror(k)
  <2>1. worker[k].pc = "mirror" /\ UNCHANGED object /\ Alone(k)
    BY <1>1, WriteMirrorDoes DEF TypeInv, Onward
  <2>2. /\ o \in Objects /\ Protects(worker[k])
        /\ worker[k].op \in {"update", "release", "remove"}
    BY <2>1, BusyFields DEF TypeInv, ProtectInv
  <2> DEFINE operation == IF worker[k].op = "update" THEN "updated" ELSE "deleted"
  <2>3. announced' = [announced EXCEPT ![o] = operation]
    BY <2>1 DEF NotifyingWork, Notify, EventOf, updateEvent, deletionEvent, DSNSEvent
  <2>4. operation \in {"none", "updated", "deleted"}
    OBVIOUS
  <2>5. /\ announced' \in [Objects -> {"none", "updated", "deleted"}] /\ announced'[o] = operation
        /\ \A p \in Objects \ {o} : announced'[p] = announced[p]
    BY <2>2, <2>3, <2>4 DEF AnnounceInv
  <2>6. DeletionAnnounced'
    <3>1. operation = "updated" => object[o].finalizer
      BY <2>1, <2>2 DEF Protects
    <3> QED
      BY <2>1, <2>5, <3>1 DEF AnnounceInv, DeletionAnnounced
  <2>7. ASSUME NEW j \in Kinds, worker'[j].pc = "release"
        PROVE  announced'[worker'[j].key] = "deleted"
    <3>1. CASE j = k
      <4>1. worker[k].op = "release" /\ worker'[k].key = o
        BY <1>1, <2>7, <3>1, WriteMirrorDoes, IdleEntry DEF TypeInv, Onward
      <4> QED
        BY <2>5, <3>1, <4>1
    <3>2. CASE j # k
      <4>1. worker'[j] = worker[j]
        BY <2>1, <3>2 DEF Alone
      <4>2. worker[j].key \in Objects \ {o}
        BY <2>1, <2>7, <3>2, <4>1, BusyFields, DistinctRequests DEF TypeInv
      <4> QED
        BY <2>5, <2>7, <4>1, <4>2 DEF AnnounceInv
    <3> QED
      BY <3>1, <3>2
  <2> QED
    BY <2>5, <2>6, <2>7 DEF AnnounceInv
<1>2. CASE ReleaseFinalizer(k)
  <2>1. worker[k].pc = "release" /\ UNCHANGED announced
    BY <1>2, ReleaseFinalizerDoes DEF NotifyingWork, notifyVars
  <2>2. o \in Objects /\ announced[o] = "deleted"
    BY <2>1, BusyFields DEF TypeInv, AnnounceInv
  <2>3. worker'[k] = Idle /\ Alone(k) /\ \A p \in Objects \ {o} : object'[p] = object[p]
    BY <1>2, <2>2, ReleaseFinalizerDoes, ReturnFields DEF TypeInv, Retried, Rewritten
  <2> QED
    BY <2>1, <2>2, <2>3, IdleEntry DEF AnnounceInv, DeletionAnnounced, Alone
<1>3. CASE AddFinalizer(k)
  <2>1. worker[k].pc = "finalize" /\ UNCHANGED announced
    BY <1>3, AddFinalizerDoes DEF NotifyingWork, notifyVars
  <2>2. "refetch" \in Steps
    BY DEF Steps
  <2>3. worker'[k].pc # "release" /\ Alone(k)
    BY <1>3, <2>2, AddFinalizerDoes, GotoFields, IdleEntry DEF TypeInv, Retried
  <2>4. \A p \in Objects : object[p].finalizer => object'[p].finalizer
    BY <1>3, AddFinalizerDoes DEF Rewritten
  <2> QED
    BY <2>1, <2>3, <2>4, AnnounceKept DEF Alone
<1>4. CASE \/ GetObject(k) \/ RefetchObject(k) \/ MutateZone(k) \/ RenderZone(k) \/ WritePrimary(k)
  <2>1. worker[k].pc # "mirror" /\ UNCHANGED object
    BY <1>4 DEF GetObject, RefetchObject, MutateZone, RenderZone, WritePrimary, apiVars
  <2>2. UNCHANGED announced
    BY <2>1 DEF NotifyingWork, notifyVars
  <2>3. worker'[k].pc # "release" /\ Alone(k)
    <3>1. CASE GetObject(k)
      BY <3>1, GetObjectDoes, IdleEntry DEF TypeInv, Read
    <3>2. CASE RefetchObject(k)
      BY <3>2, RefetchObjectDoes, IdleEntry DEF TypeInv, Read, Retried
    <3>3. CASE MutateZone(k)
      BY <3>3, MutateZoneDoes DEF TypeInv, Onward
    <3>4. CASE RenderZone(k)
      BY <3>4, RenderZoneDoes DEF TypeInv, Onward
    <3>5. CASE WritePrimary(k)
      BY <3>5, WritePrimaryDoes, IdleEntry DEF TypeInv, Onward, Retried
    <3> QED
      BY <1>4, <3>1, <3>2, <3>3, <3>4, <3>5
  <2> QED
    BY <2>1, <2>2, <2>3, AnnounceKept DEF Alone
<1> QED
    BY <1>0, <1>1, <1>2, <1>3, <1>4 DEF Work

\* Every step keeps the invariant.
LEMMA AnnounceStep == DSNSInv /\ AnnounceInv /\ [NotifyNext]_allVars => AnnounceInv'
<1> SUFFICES ASSUME DSNSInv, AnnounceInv, [NotifyNext]_allVars PROVE AnnounceInv'
    OBVIOUS
<1>1. CASE (Silent /\ UNCHANGED notifyVars) \/ NotifyingRestart
    BY <1>1, AnnounceSilent DEF NotifyingRestart, notifyVars
<1>2. CASE UNCHANGED <<vars, announced>>
    BY <1>2 DEF AnnounceInv, DeletionAnnounced, vars
<1>3. CASE \E s \in Sinks, event \in Events : SinkAccepts(s, event) \/ SinkFails(s, event)
    BY <1>2, <1>3 DEF SinkAccepts, SinkFails
<1>4. CASE UNCHANGED allVars
    BY <1>2, <1>4 DEF allVars, notifyVars
<1> QED
    BY <1>1, <1>3, <1>4, AnnounceWork DEF NotifyNext

\* An object of which an update was announced keeps the finalizer until its
\* deletion was announced, whatever fails, conflicts or restarts in between,
\* and whatever the sinks do (dsns_reconciler.go, Reconcile).
THEOREM DeletionIsAnnounced == NotifySpec => []DeletionAnnounced
<1>1. Spec => []DSNSInv
    BY TypeAlways, ProtectAlways, PTL DEF DSNSInv
<1>2. AnnounceInv => DeletionAnnounced
    BY DEF AnnounceInv
<1> QED
    BY <1>1, <1>2, SinksChangeNothing, AnnounceInit, AnnounceStep, PTL DEF NotifySpec

=============================================================================
