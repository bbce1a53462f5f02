----------------------------- MODULE DSNS_proof -----------------------------
(***************************************************************************)
(* Proofs about DSNS, for any number of objects and states, any records    *)
(* they derive, any number of kinds, that is of workers that share the     *)
(* zone, and any number of edits and faults.                               *)
(***************************************************************************)
EXTENDS DSNS, TLAPS

-----------------------------------------------------------------------------
(* The inductive invariant. *)

\* The records of object o among records.
Entry(records, o) == {r \in records : r.key \in KeysOfObject[o]}

\* The records that the worker puts in the zone for its request.
Said(w) == IF w.op = "update" THEN Derive[w.key][w.copy.state] ELSE {}

\* A queue has objects of its kind; an object that exists has content, and
\* only such an object has a finalizer.
ObjectInv ==
    /\ \A k \in Kinds : \A o \in queue[k] : KindOf[o] = k
    /\ \A o \in Objects : object[o].exists => object[o].state \in States
    /\ \A o \in Objects : object[o].finalizer => object[o].exists

\* The worker's copy of the object and what it is about to do agree.
Agrees(w) ==
    /\ w.copy.exists => w.copy.state \in States
    /\ w.op = "update" => w.copy.exists
    /\ w.pc \in {"finalize", "refetch"} => w.op = "update"
    /\ w.pc = "release" => w.op = "release"

RequestInv == \A k \in Kinds : worker[k].pc \notin {"idle", "get"} => Agrees(worker[k])

TypeInv == TypeOK /\ ObjectInv /\ RequestInv

\* An owner is accountable for the keys of its records in the zone, and every
\* record is static or of an object.
OwnInv ==
    /\ \A o \in Objects : owned[o] = KeysOf(Entry(zone, o))
    /\ \A r \in zone : r.key \in StaticKeys \/ \E o \in Objects : r.key \in KeysOfObject[o]

\* The resourceVersion tells: a copy that has the version of the object is the
\* object.
Current(w) ==
    /\ w.copy.rv <= object[w.key].rv
    /\ w.copy.rv = object[w.key].rv => w.copy = object[w.key]

\* Records are put in the zone only for an object with the finalizer, which
\* is given up only after they were removed.
Protects(w) ==
    /\ Current(w)
    /\ w.op = "update" /\ w.pc # "finalize" => object[w.key].finalizer
    /\ w.op # "update" /\ w.pc # "mutate" => owned[w.key] = {}

ProtectInv ==
    /\ FinalizerGuardsZone
    /\ \A k \in Kinds : worker[k].pc \notin {"idle", "get"} => Protects(worker[k])

\* What Apply renders of the request's object is what Reconcile put in the
\* zone, and every object has all the records of one of its states, or none.
EntryInv ==
    /\ \A k \in Kinds : worker[k].pc = "render" => Entry(zone, worker[k].key) = Said(worker[k])
    /\ \A k \in Kinds :
          worker[k].pc \in {"write", "mirror", "release"} =>
              Entry(worker[k].rendered, worker[k].key) = Said(worker[k])
    /\ \A o \in Objects : Entry(zone, o) \in ContentsOfObject[o] \cup {{}}
    /\ \A o \in Objects : \A k \in Kinds :
          Entry(worker[k].rendered, o) \in ContentsOfObject[o] \cup {{}}

-----------------------------------------------------------------------------
(* The worker's record. *)

\* The steps of worker k leave the other workers alone.
Alone(k) == \A j \in Kinds \ {k} : worker'[j] = worker[j]

\* The absent object and the idle worker are well-formed.
LEMMA AbsentTypes == Absent \in Object /\ Idle \in Worker
<1>1. Absent \in Object
    BY DEF Absent, Object
<1> QED
    BY <1>1 DEF Idle, Worker, Steps

\* Goto changes the step of the worker and nothing else.
LEMMA GotoFields ==
    ASSUME TypeOK, NEW k \in Kinds, NEW step \in Steps, Goto(k, step)
    PROVE  /\ worker' \in [Kinds -> Worker] /\ Alone(k)
           /\ worker'[k].pc = step
           /\ worker'[k].key = worker[k].key /\ worker'[k].ip = worker[k].ip
           /\ worker'[k].copy = worker[k].copy /\ worker'[k].op = worker[k].op
           /\ worker'[k].rendered = worker[k].rendered
    BY DEF TypeOK, Goto, Worker, Alone

\* A return leaves the worker idle.
LEMMA ReturnFields ==
    ASSUME TypeOK, NEW k \in Kinds, worker' = [worker EXCEPT ![k] = Idle]
    PROVE  worker' \in [Kinds -> Worker] /\ Alone(k) /\ worker'[k] = Idle
    BY AbsentTypes DEF TypeOK, Alone

\* What the read of the object leaves the worker with.
Dispatched(k, step, op, obj) ==
    worker' = [worker EXCEPT ![k].pc = step, ![k].op = op, ![k].copy = obj]

\* The three fields change, the others do not.
LEMMA DispatchFields ==
    ASSUME TypeOK, NEW k \in Kinds, NEW step \in Steps, NEW op \in {"update", "release", "remove"},
           NEW obj \in Object, Dispatched(k, step, op, obj)
    PROVE  /\ worker' \in [Kinds -> Worker] /\ Alone(k)
           /\ worker'[k].pc = step /\ worker'[k].op = op /\ worker'[k].copy = obj
           /\ worker'[k].key = worker[k].key /\ worker'[k].rendered = worker[k].rendered
<1> DEFINE w1 == [worker EXCEPT ![k].pc = step]
           w2 == [w1 EXCEPT ![k].op = op]
           w3 == [w2 EXCEPT ![k].copy = obj]
<1>1. worker' = w3 /\ worker \in [Kinds -> Worker]
    BY DEF TypeOK, Dispatched
<1>2. /\ w1 \in [Kinds -> Worker] /\ \A j \in Kinds \ {k} : w1[j] = worker[j]
      /\ w1[k].pc = step /\ w1[k].key = worker[k].key /\ w1[k].rendered = worker[k].rendered
    BY <1>1 DEF Worker
<1> HIDE DEF w1
<1>3. /\ w2 \in [Kinds -> Worker] /\ \A j \in Kinds \ {k} : w2[j] = w1[j]
      /\ w2[k].pc = w1[k].pc /\ w2[k].op = op
      /\ w2[k].key = w1[k].key /\ w2[k].rendered = w1[k].rendered
    BY <1>2 DEF Worker
<1> HIDE DEF w2
<1>4. /\ w3 \in [Kinds -> Worker] /\ \A j \in Kinds \ {k} : w3[j] = w2[j]
      /\ w3[k].pc = w2[k].pc /\ w3[k].op = w2[k].op /\ w3[k].copy = obj
      /\ w3[k].key = w2[k].key /\ w3[k].rendered = w2[k].rendered
    BY <1>3 DEF Worker
<1> HIDE DEF w3
<1> QED
    BY <1>1, <1>2, <1>3, <1>4 DEF Alone

\* The same for the second read.
LEMMA RefetchFields ==
    ASSUME TypeOK, NEW k \in Kinds, NEW obj \in Object,
           worker' = [worker EXCEPT ![k].pc = "mutate", ![k].copy = obj]
    PROVE  /\ worker' \in [Kinds -> Worker] /\ Alone(k)
           /\ worker'[k].pc = "mutate" /\ worker'[k].copy = obj /\ worker'[k].op = worker[k].op
           /\ worker'[k].key = worker[k].key /\ worker'[k].rendered = worker[k].rendered
<1> DEFINE w1 == [worker EXCEPT ![k].pc = "mutate"]
           w2 == [w1 EXCEPT ![k].copy = obj]
<1>1. worker' = w2 /\ worker \in [Kinds -> Worker] /\ "mutate" \in Steps
    BY DEF TypeOK, Steps
<1>2. /\ w1 \in [Kinds -> Worker] /\ \A j \in Kinds \ {k} : w1[j] = worker[j]
      /\ w1[k].pc = "mutate" /\ w1[k].op = worker[k].op
      /\ w1[k].key = worker[k].key /\ w1[k].rendered = worker[k].rendered
    BY <1>1 DEF Worker
<1> HIDE DEF w1
<1>3. /\ w2 \in [Kinds -> Worker] /\ \A j \in Kinds \ {k} : w2[j] = w1[j]
      /\ w2[k].pc = w1[k].pc /\ w2[k].op = w1[k].op /\ w2[k].copy = obj
      /\ w2[k].key = w1[k].key /\ w2[k].rendered = w1[k].rendered
    BY <1>2 DEF Worker
<1> HIDE DEF w2
<1> QED
    BY <1>1, <1>2, <1>3 DEF Alone

\* Apply keeps the zone it rendered.
LEMMA RenderFields ==
    ASSUME TypeOK, NEW k \in Kinds,
           worker' = [worker EXCEPT ![k].pc = "write", ![k].rendered = zone]
    PROVE  /\ worker' \in [Kinds -> Worker] /\ Alone(k)
           /\ worker'[k].pc = "write" /\ worker'[k].rendered = zone /\ worker'[k].op = worker[k].op
           /\ worker'[k].key = worker[k].key /\ worker'[k].copy = worker[k].copy
<1> DEFINE w1 == [worker EXCEPT ![k].pc = "write"]
           w2 == [w1 EXCEPT ![k].rendered = zone]
<1>1. worker' = w2 /\ worker \in [Kinds -> Worker] /\ "write" \in Steps /\ zone \in SUBSET Record
    BY DEF TypeOK, Steps
<1>2. /\ w1 \in [Kinds -> Worker] /\ \A j \in Kinds \ {k} : w1[j] = worker[j]
      /\ w1[k].pc = "write" /\ w1[k].op = worker[k].op
      /\ w1[k].key = worker[k].key /\ w1[k].copy = worker[k].copy
    BY <1>1 DEF Worker
<1> HIDE DEF w1
<1>3. /\ w2 \in [Kinds -> Worker] /\ \A j \in Kinds \ {k} : w2[j] = w1[j]
      /\ w2[k].pc = w1[k].pc /\ w2[k].op = w1[k].op /\ w2[k].copy = w1[k].copy
      /\ w2[k].key = w1[k].key /\ w2[k].rendered = zone
    BY <1>1, <1>2 DEF Worker
<1> HIDE DEF w2
<1> QED
    BY <1>1, <1>2, <1>3 DEF Alone

\* A new request.
LEMMA RequestFields ==
    ASSUME TypeOK, NEW k \in Kinds, NEW o \in Objects, NEW ip \in IPs \cup {NoIP},
           worker' = [worker EXCEPT ![k] = [Idle EXCEPT !.pc = "get", !.key = o, !.ip = ip]]
    PROVE  /\ worker' \in [Kinds -> Worker] /\ Alone(k)
           /\ worker'[k].pc = "get" /\ worker'[k].key = o /\ worker'[k].rendered = {}
<1>1. ASSUME NEW w \in Worker
      PROVE  /\ [w EXCEPT !.pc = "get", !.key = o, !.ip = ip] \in Worker
             /\ [w EXCEPT !.pc = "get", !.key = o, !.ip = ip].pc = "get"
             /\ [w EXCEPT !.pc = "get", !.key = o, !.ip = ip].key = o
             /\ [w EXCEPT !.pc = "get", !.key = o, !.ip = ip].rendered = w.rendered
    BY DEF Worker, Steps
<1> DEFINE new == [Idle EXCEPT !.pc = "get", !.key = o, !.ip = ip]
<1>2. new \in Worker /\ new.pc = "get" /\ new.key = o /\ new.rendered = Idle.rendered
    BY <1>1, AbsentTypes, Zenon
<1>3. worker' = [worker EXCEPT ![k] = new]
    OBVIOUS
<1> HIDE DEF new
<1>4. Idle.rendered = {}
    BY DEF Idle
<1> QED
    BY <1>2, <1>3, <1>4 DEF TypeOK, Alone

-----------------------------------------------------------------------------
(* Writes of objects, and the queues. *)

\* The queues stay well-formed when an event of object o arrives.
LEMMA EnqueueFields ==
    ASSUME TypeOK, ObjectInv, NEW o \in Objects, Enqueue(o)
    PROVE  /\ queue' \in [Kinds -> SUBSET Objects]
           /\ \A k \in Kinds : \A p \in queue'[k] : KindOf[p] = k
           /\ \A k \in Kinds : queue[k] \subseteq queue'[k] /\ queue'[k] \subseteq queue[k] \cup {o}
           /\ o \in queue'[KindOf[o]]
<1>1. KindOf[o] \in Kinds
    BY ConstantsAssumption
<1>2. queue[KindOf[o]] \cup {o} \in SUBSET Objects
    BY <1>1 DEF TypeOK
<1>3. /\ queue' \in [Kinds -> SUBSET Objects]
      /\ queue'[KindOf[o]] = queue[KindOf[o]] \cup {o}
      /\ \A k \in Kinds : k # KindOf[o] => queue'[k] = queue[k]
    BY <1>1, <1>2 DEF TypeOK, Enqueue
<1> QED
    BY <1>1, <1>3 DEF ObjectInv

\* What the API server stores: a newer object, or none when it is deleting
\* and has no finalizer left.
LEMMA StoredFields ==
    ASSUME TypeOK, NEW o \in Objects, NEW obj \in Object
    PROVE  /\ Stored(o, obj) \in Object
           /\ Stored(o, obj).rv = object[o].rv + 1
           /\ Stored(o, obj).finalizer = obj.finalizer
           /\ Stored(o, obj).exists => obj.exists /\ Stored(o, obj).state = obj.state
           /\ obj.finalizer => Stored(o, obj).exists = obj.exists
<1> DEFINE next == [obj EXCEPT !.rv = object[o].rv + 1]
           gone == [Absent EXCEPT !.rv = next.rv]
<1>1. object[o].rv + 1 \in Nat
    BY DEF TypeOK, Object
<1>2. /\ next \in Object /\ next.rv = object[o].rv + 1 /\ next.finalizer = obj.finalizer
      /\ next.exists = obj.exists /\ next.state = obj.state
    BY <1>1 DEF Object
<1> HIDE DEF next
<1>3. gone \in Object /\ gone.rv = next.rv /\ gone.finalizer = FALSE /\ gone.exists = FALSE
    BY <1>2 DEF Absent, Object
<1> HIDE DEF gone
<1>4. Stored(o, obj) = IF next.deleting /\ ~next.finalizer /\ ~next.held THEN gone ELSE next
    BY DEF Stored, next, gone
<1>5. next.finalizer \in BOOLEAN /\ obj.finalizer \in BOOLEAN
    BY <1>2 DEF Object
<1>6. CASE next.deleting /\ ~next.finalizer /\ ~next.held
    BY <1>2, <1>3, <1>4, <1>5, <1>6
<1>7. CASE ~(next.deleting /\ ~next.finalizer /\ ~next.held)
    BY <1>2, <1>4, <1>7
<1> QED
    BY <1>6, <1>7

\* Object o is replaced by a newer one, and an event announces it.
Rewritten(o) ==
    /\ object' \in [Objects -> Object]
    /\ \A p \in Objects \ {o} : object'[p] = object[p]
    /\ object'[o].rv = object[o].rv + 1
    /\ object'[o].exists => object'[o].state \in States
    /\ object'[o].finalizer => object'[o].exists
    /\ Enqueue(o)

\* A write of an object with content.
LEMMA WriteFields ==
    ASSUME TypeOK, NEW o \in Objects, NEW obj \in Object, WriteObject(o, obj), Enqueue(o),
           obj.exists => obj.state \in States, obj.finalizer => obj.exists
    PROVE  Rewritten(o) /\ object'[o].finalizer = obj.finalizer
<1>1. /\ object' \in [Objects -> Object] /\ object'[o] = Stored(o, obj)
      /\ \A p \in Objects \ {o} : object'[p] = object[p]
    BY StoredFields DEF TypeOK, WriteObject
<1> QED
    BY <1>1, StoredFields DEF Rewritten

\* A write of object o by a user or another controller.
UserWrite(o) ==
    \/ \E s \in States : CreateObject(o, s) \/ ChangeObject(o, s)
    \/ DeleteObject(o) \/ ReleaseHold(o)

\* It leaves the DSNS finalizer alone.
LEMMA UserWrites ==
    ASSUME TypeOK, ObjectInv, NEW o \in Objects, UserWrite(o)
    PROVE  /\ Rewritten(o) /\ object'[o].finalizer = object[o].finalizer
           /\ UNCHANGED <<lbIP, primary, mirror, cmCache, zone, owned, worker>>
           /\ edits' \in 0..MaxEdits /\ faults' \in 0..MaxFaults
<1>1. /\ UNCHANGED <<lbIP, primary, mirror, cmCache, zone, owned, worker>>
      /\ edits' \in 0..MaxEdits /\ faults' \in 0..MaxFaults
  <2>1. /\ UNCHANGED <<lbIP, primary, mirror, cmCache, zone, owned, worker>>
        /\ Edit \/ UNCHANGED <<edits, faults>>
    BY DEF UserWrite, CreateObject, ChangeObject, DeleteObject, ReleaseHold, stateVars
  <2> QED
    BY <2>1, ConstantsAssumption DEF Edit, TypeOK
<1>2. /\ object[o] \in Object /\ (object[o].exists => object[o].state \in States)
      /\ (object[o].finalizer => object[o].exists)
    BY DEF TypeOK, ObjectInv
<1>3. ASSUME NEW s \in States, CreateObject(o, s)
      PROVE  Rewritten(o) /\ object'[o].finalizer = object[o].finalizer
  <2> DEFINE new == [Absent EXCEPT !.exists = TRUE, !.held = o \in Held, !.state = s]
  <2>1. ASSUME NEW obj \in Object, NEW b \in BOOLEAN
        PROVE  /\ [obj EXCEPT !.exists = TRUE, !.held = b, !.state = s] \in Object
               /\ [obj EXCEPT !.exists = TRUE, !.held = b, !.state = s].exists
               /\ [obj EXCEPT !.exists = TRUE, !.held = b, !.state = s].state = s
               /\ [obj EXCEPT !.exists = TRUE, !.held = b, !.state = s].finalizer = obj.finalizer
    BY DEF Object
  <2>2. new \in Object /\ new.exists /\ new.state = s /\ new.finalizer = Absent.finalizer
    <3>1. (o \in Held) \in BOOLEAN
      OBVIOUS
    <3> QED
      BY <2>1, <3>1, AbsentTypes, Zenon
  <2>3. WriteObject(o, new) /\ Enqueue(o) /\ ~object[o].exists
    BY <1>3 DEF CreateObject
  <2> HIDE DEF new
  <2>4. Absent.finalizer = FALSE
    BY DEF Absent
  <2>5. Rewritten(o) /\ object'[o].finalizer = FALSE
    BY <2>2, <2>3, <2>4, WriteFields
  <2>6. object[o].finalizer = FALSE
    BY <1>2, <2>3 DEF Object
  <2> QED
    BY <1>1, <2>5, <2>6
<1>4. ASSUME NEW s \in States, ChangeObject(o, s)
      PROVE  Rewritten(o) /\ object'[o].finalizer = object[o].finalizer
  <2> DEFINE new == [object[o] EXCEPT !.state = s]
  <2>1. /\ new \in Object /\ new.exists = object[o].exists /\ new.state = s
        /\ new.finalizer = object[o].finalizer
    BY <1>2 DEF Object
  <2>2. WriteObject(o, new) /\ Enqueue(o)
    BY <1>4 DEF ChangeObject
  <2> HIDE DEF new
  <2> QED
    BY <1>1, <1>2, <2>1, <2>2, WriteFields
<1>5. CASE DeleteObject(o)
  <2> DEFINE new == [object[o] EXCEPT !.deleting = TRUE]
  <2>1. /\ new \in Object /\ new.exists = object[o].exists /\ new.state = object[o].state
        /\ new.finalizer = object[o].finalizer
    BY <1>2 DEF Object
  <2>2. WriteObject(o, new) /\ Enqueue(o)
    BY <1>5 DEF DeleteObject
  <2> HIDE DEF new
  <2> QED
    BY <1>1, <1>2, <2>1, <2>2, WriteFields
<1>6. CASE ReleaseHold(o)
  <2> DEFINE new == [object[o] EXCEPT !.held = FALSE]
  <2>1. /\ new \in Object /\ new.exists = object[o].exists /\ new.state = object[o].state
        /\ new.finalizer = object[o].finalizer
    BY <1>2 DEF Object
  <2>2. WriteObject(o, new) /\ Enqueue(o)
    BY <1>6 DEF ReleaseHold
  <2> HIDE DEF new
  <2> QED
    BY <1>1, <1>2, <2>1, <2>2, WriteFields
<1> QED
    BY <1>1, <1>3, <1>4, <1>5, <1>6 DEF UserWrite

-----------------------------------------------------------------------------
(* What each step of a worker does. *)

\* A busy worker has a request of its own kind.
LEMMA BusyFields ==
    ASSUME TypeOK, NEW k \in Kinds, worker[k].pc # "idle"
    PROVE  /\ worker[k] \in Worker /\ worker[k].key \in Objects /\ KindOf[worker[k].key] = k
           /\ worker[k].copy \in Object /\ worker[k].ip \in IPs \cup {NoIP}
           /\ worker[k].rendered \in SUBSET Record
           /\ worker[k].op \in {"update", "release", "remove"}
<1>1. worker[k] \in Worker /\ worker[k].key \in Objects /\ KindOf[worker[k].key] = k
    BY DEF TypeOK
<1> QED
    BY <1>1 DEF Worker

\* The worker of kind k has read the object and goes on.
Read(k, step, op) ==
    /\ worker'[k].pc = step /\ worker'[k].op = op
    /\ worker'[k].key = worker[k].key /\ worker'[k].copy = object[worker[k].key]
    /\ worker'[k].rendered = worker[k].rendered

\* Reconcile reads the object and takes one of five ways.
LEMMA GetObjectDoes ==
    ASSUME TypeOK, NEW k \in Kinds, GetObject(k)
    PROVE  LET obj == object[worker[k].key]
           IN  /\ worker[k].pc = "get" /\ worker' \in [Kinds -> Worker] /\ Alone(k)
               /\ SetStaticRecord(worker[k].ip)
               /\ UNCHANGED <<object, lbIP, primary, mirror, cmCache, owned, queue, edits, faults>>
               /\ \/ worker'[k] = Idle /\ obj.exists /\ obj.deleting /\ ~obj.finalizer
                  \/ Read(k, "mutate", "remove") /\ ~obj.exists
                  \/ Read(k, "mutate", "release") /\ obj.exists /\ obj.deleting /\ obj.finalizer
                  \/ Read(k, "mutate", "update") /\ obj.exists /\ ~obj.deleting /\ obj.finalizer
                  \/ Read(k, "finalize", "update") /\ obj.exists /\ ~obj.deleting /\ ~obj.finalizer
<1> DEFINE obj == object[worker[k].key]
           dispatched(step, op) == Dispatched(k, step, op, obj)
<1>1. worker[k].pc = "get" /\ obj \in Object
    BY BusyFields DEF GetObject, TypeOK
<1>2. /\ SetStaticRecord(worker[k].ip)
      /\ UNCHANGED <<object, lbIP, primary, mirror, cmCache, owned, queue, edits, faults>>
    BY DEF GetObject, Return, apiVars
<1>3. \/ worker' = [worker EXCEPT ![k] = Idle] /\ obj.exists /\ obj.deleting /\ ~obj.finalizer
      \/ dispatched("mutate", "remove") /\ ~obj.exists
      \/ dispatched("mutate", "release") /\ obj.exists /\ obj.deleting /\ obj.finalizer
      \/ dispatched("mutate", "update") /\ obj.exists /\ ~obj.deleting /\ obj.finalizer
      \/ dispatched("finalize", "update") /\ obj.exists /\ ~obj.deleting /\ ~obj.finalizer
    BY DEF GetObject, Return, Dispatched
<1>4. ASSUME NEW step \in Steps, NEW op \in {"update", "release", "remove"}, dispatched(step, op)
      PROVE  worker' \in [Kinds -> Worker] /\ Alone(k) /\ Read(k, step, op)
    BY <1>1, <1>4, DispatchFields DEF Read
<1>5. "mutate" \in Steps /\ "finalize" \in Steps
    BY DEF Steps
<1> HIDE DEF dispatched
<1> QED
    BY <1>1, <1>2, <1>3, <1>4, <1>5, ReturnFields

\* Reconcile returns an error: the worker is idle and its key back in the queue.
Retried(k) ==
    /\ worker' \in [Kinds -> Worker] /\ Alone(k) /\ worker'[k] = Idle
    /\ Enqueue(worker[k].key)

\* That is what ReturnError does.
LEMMA ReturnErrorDoes == ASSUME TypeOK, NEW k \in Kinds, ReturnError(k) PROVE Retried(k)
    BY ReturnFields DEF ReturnError, Retried

\* The finalizer is added, or the key retried.
LEMMA AddFinalizerDoes ==
    ASSUME TypeInv, NEW k \in Kinds, AddFinalizer(k)
    PROVE  LET o == worker[k].key
           IN  /\ worker[k].pc = "finalize"
               /\ UNCHANGED <<lbIP, primary, mirror, cmCache, zone, owned, edits, faults>>
               /\ \/ /\ Rewritten(o) /\ object'[o].finalizer /\ Goto(k, "refetch")
                     /\ object[o].rv = worker[k].copy.rv
                  \/ Retried(k) /\ UNCHANGED object
<1> DEFINE o == worker[k].key
           new == [worker[k].copy EXCEPT !.finalizer = TRUE]
<1>1. /\ worker[k].pc = "finalize"
      /\ UNCHANGED <<lbIP, primary, mirror, cmCache, zone, owned, edits, faults>>
    BY DEF AddFinalizer, stateVars
<1>2. /\ o \in Objects /\ worker[k].copy \in Object /\ worker[k].copy.exists
      /\ worker[k].copy.state \in States
    BY <1>1, BusyFields DEF TypeInv, RequestInv, Agrees
<1>3. CASE object[o].rv # worker[k].copy.rv
    BY <1>1, <1>3, ReturnErrorDoes DEF AddFinalizer, TypeInv
<1>4. CASE object[o].rv = worker[k].copy.rv
  <2>1. new \in Object /\ new.exists /\ new.state \in States /\ new.finalizer
    BY <1>2 DEF Object
  <2>2. WriteObject(o, new) /\ Enqueue(o) /\ Goto(k, "refetch")
    BY <1>4 DEF AddFinalizer
  <2> HIDE DEF new
  <2>3. Rewritten(o) /\ object'[o].finalizer = new.finalizer
    BY <1>2, <2>1, <2>2, WriteFields DEF TypeInv
  <2> QED
    BY <1>1, <1>4, <2>1, <2>2, <2>3
<1> QED
    BY <1>3, <1>4

\* The finalizer is removed, or the key retried.
LEMMA ReleaseFinalizerDoes ==
    ASSUME TypeInv, NEW k \in Kinds, ReleaseFinalizer(k)
    PROVE  LET o == worker[k].key
           IN  /\ worker[k].pc = "release"
               /\ UNCHANGED <<lbIP, primary, mirror, cmCache, zone, owned, edits, faults>>
               /\ \/ /\ Rewritten(o) /\ ~object'[o].finalizer
                     /\ worker' = [worker EXCEPT ![k] = Idle]
                     /\ object[o].rv = worker[k].copy.rv
                  \/ Retried(k) /\ UNCHANGED object
<1> DEFINE o == worker[k].key
           new == [worker[k].copy EXCEPT !.finalizer = FALSE]
<1>1. /\ worker[k].pc = "release"
      /\ UNCHANGED <<lbIP, primary, mirror, cmCache, zone, owned, edits, faults>>
    BY DEF ReleaseFinalizer, stateVars
<1>2. /\ o \in Objects /\ worker[k].copy \in Object
      /\ worker[k].copy.exists => worker[k].copy.state \in States
    BY <1>1, BusyFields DEF TypeInv, RequestInv, Agrees
<1>3. CASE object[o].rv # worker[k].copy.rv
    BY <1>1, <1>3, ReturnErrorDoes DEF ReleaseFinalizer, TypeInv
<1>4. CASE object[o].rv = worker[k].copy.rv
  <2>1. new \in Object /\ (new.exists => new.state \in States) /\ new.finalizer = FALSE
    BY <1>2 DEF Object
  <2>2. WriteObject(o, new) /\ Enqueue(o) /\ worker' = [worker EXCEPT ![k] = Idle]
    BY <1>4 DEF ReleaseFinalizer
  <2> HIDE DEF new
  <2>3. Rewritten(o) /\ object'[o].finalizer = FALSE
    BY <1>2, <2>1, <2>2, WriteFields DEF TypeInv
  <2> QED
    BY <1>1, <1>4, <2>2, <2>3
<1> QED
    BY <1>3, <1>4

\* The second read of the object.
LEMMA RefetchObjectDoes ==
    ASSUME TypeOK, NEW k \in Kinds, RefetchObject(k)
    PROVE  /\ worker[k].pc = "refetch"
           /\ UNCHANGED <<object, lbIP, primary, mirror, cmCache, zone, owned, edits, faults>>
           /\ \/ /\ worker' \in [Kinds -> Worker] /\ Alone(k) /\ UNCHANGED queue
                 /\ Read(k, "mutate", worker[k].op) /\ object[worker[k].key].exists
              \/ Retried(k)
<1>1. /\ worker[k].pc = "refetch"
      /\ UNCHANGED <<object, lbIP, primary, mirror, cmCache, zone, owned, edits, faults>>
    BY DEF RefetchObject, apiVars, stateVars
<1>2. object[worker[k].key] \in Object
    BY <1>1, BusyFields DEF TypeOK
<1> QED
    BY <1>1, <1>2, RefetchFields, ReturnErrorDoes DEF RefetchObject, Read

\* The worker goes on to another step with what it has.
Onward(k, step) ==
    /\ worker' \in [Kinds -> Worker] /\ Alone(k) /\ worker'[k].pc = step
    /\ worker'[k].key = worker[k].key /\ worker'[k].copy = worker[k].copy
    /\ worker'[k].op = worker[k].op

\* The zone is changed.
LEMMA MutateZoneDoes ==
    ASSUME TypeOK, NEW k \in Kinds, MutateZone(k)
    PROVE  /\ worker[k].pc = "mutate" /\ Onward(k, "render")
           /\ worker'[k].rendered = worker[k].rendered
           /\ UpdateRecords(worker[k].key, Said(worker[k]))
           /\ UNCHANGED <<object, lbIP, primary, mirror, cmCache, queue, edits, faults>>
<1>1. /\ worker[k].pc = "mutate" /\ Goto(k, "render")
      /\ UpdateRecords(worker[k].key, Said(worker[k]))
      /\ UNCHANGED <<object, lbIP, primary, mirror, cmCache, queue, edits, faults>>
    BY DEF MutateZone, Said, apiVars
<1>2. "render" \in Steps
    BY DEF Steps
<1> QED
    BY <1>1, <1>2, GotoFields DEF Onward

\* The zone is rendered.
LEMMA RenderZoneDoes ==
    ASSUME TypeOK, NEW k \in Kinds, RenderZone(k)
    PROVE  /\ worker[k].pc = "render" /\ Onward(k, "write") /\ worker'[k].rendered = zone
           /\ UNCHANGED <<object, lbIP, primary, mirror, cmCache, zone, owned, queue, edits, faults>>
    BY RenderFields DEF RenderZone, Onward, apiVars, stateVars

\* The ConfigMap is written, or found up to date, or the key retried.
LEMMA WritePrimaryDoes ==
    ASSUME TypeOK, NEW k \in Kinds, WritePrimary(k)
    PROVE  /\ worker[k].pc = "write"
           /\ UNCHANGED <<object, lbIP, mirror, cmCache, zone, owned, edits, faults>>
           /\ \/ /\ Onward(k, "mirror") /\ worker'[k].rendered = worker[k].rendered /\ UNCHANGED queue
                 /\ primary' = Containing(worker[k].rendered) \/ (SameSecond /\ UNCHANGED primary)
              \/ Retried(k) /\ UNCHANGED primary
<1>1. "mirror" \in Steps
    BY DEF Steps
<1>2. /\ worker[k].pc = "write"
      /\ UNCHANGED <<object, lbIP, mirror, cmCache, zone, owned, edits, faults>>
    BY DEF WritePrimary, stateVars
<1>3. \/ /\ Goto(k, "mirror") /\ UNCHANGED queue
         /\ primary' = Containing(worker[k].rendered) \/ (SameSecond /\ UNCHANGED primary)
      \/ ReturnError(k) /\ UNCHANGED primary
  <2>1. CASE cmCache.exists = primary.exists
    BY <2>1 DEF WritePrimary
  <2>2. CASE cmCache.exists # primary.exists
    BY <2>2 DEF WritePrimary
  <2> QED
    BY <2>1, <2>2
<1> QED
    BY <1>1, <1>2, <1>3, GotoFields, ReturnErrorDoes DEF Onward

\* The mirror is written, or not; then a deleting object is released.
LEMMA WriteMirrorDoes ==
    ASSUME TypeOK, NEW k \in Kinds, WriteMirror(k)
    PROVE  /\ worker[k].pc = "mirror"
           /\ UNCHANGED <<object, lbIP, primary, cmCache, zone, owned, queue, edits, faults>>
           /\ mirror' = Containing(worker[k].rendered) \/ UNCHANGED mirror
           /\ \/ /\ worker[k].op = "release" /\ Onward(k, "release")
                 /\ worker'[k].rendered = worker[k].rendered
              \/ /\ worker[k].op # "release" /\ worker' \in [Kinds -> Worker]
                 /\ Alone(k) /\ worker'[k] = Idle
<1>1. "release" \in Steps
    BY DEF Steps
<1>2. /\ worker[k].pc = "mirror"
      /\ UNCHANGED <<object, lbIP, primary, cmCache, zone, owned, queue, edits, faults>>
      /\ mirror' = Containing(worker[k].rendered) \/ UNCHANGED mirror
    BY DEF WriteMirror, MirrorWritten, stateVars, Return
<1>3. \/ worker[k].op = "release" /\ Goto(k, "release")
      \/ worker[k].op # "release" /\ worker' = [worker EXCEPT ![k] = Idle]
    BY DEF WriteMirror, Return
<1> QED
    BY <1>1, <1>2, <1>3, GotoFields, ReturnFields DEF Onward

\* A call fails.
LEMMA CallFailsDoes ==
    ASSUME TypeOK, NEW k \in Kinds, CallFails(k)
    PROVE  /\ worker[k].pc \in {"get", "finalize", "refetch", "write", "release"} /\ Retried(k)
           /\ UNCHANGED <<object, lbIP, primary, mirror, cmCache, owned, edits>>
           /\ faults' \in 0..MaxFaults
           /\ (worker[k].pc = "get" /\ SetStaticRecord(worker[k].ip)) \/ UNCHANGED zone
    BY ReturnErrorDoes, ConstantsAssumption DEF CallFails, Fault, apiVars, TypeOK

\* A request is taken from the queue.
LEMMA RefreshNSGlueDoes ==
    ASSUME TypeOK, NEW k \in Kinds, NEW o \in Objects, RefreshNSGlue(k, o)
    PROVE  /\ worker[k].pc = "idle" /\ o \in queue[k] /\ queue' = [queue EXCEPT ![k] = @ \ {o}]
           /\ worker' \in [Kinds -> Worker] /\ Alone(k) /\ worker'[k].pc = "get"
           /\ worker'[k].key = o /\ worker'[k].rendered = {}
           /\ UNCHANGED <<object, lbIP, primary, mirror, cmCache, zone, owned, edits>>
           /\ faults' \in 0..MaxFaults
<1>1. /\ worker[k].pc = "idle" /\ o \in queue[k] /\ queue' = [queue EXCEPT ![k] = @ \ {o}]
      /\ UNCHANGED <<object, lbIP, primary, mirror, cmCache, zone, owned>>
    BY DEF RefreshNSGlue, apiVars, stateVars
<1>2. PICK ip \in IPs \cup {NoIP} :
          /\ worker' = [worker EXCEPT ![k] = [Idle EXCEPT !.pc = "get", !.key = o, !.ip = ip]]
          /\ UNCHANGED <<edits, faults>> \/ Fault
    BY DEF RefreshNSGlue
<1>3. /\ worker' \in [Kinds -> Worker] /\ Alone(k)
      /\ worker'[k].pc = "get" /\ worker'[k].key = o /\ worker'[k].rendered = {}
    BY <1>2, RequestFields
<1>4. UNCHANGED edits /\ faults' \in 0..MaxFaults
    BY <1>2, ConstantsAssumption DEF Fault, TypeOK
<1> QED
    BY <1>1, <1>3, <1>4

-----------------------------------------------------------------------------
(* Zones. *)

\* What an object derives is a set of records under the object's keys.
LEMMA DeriveFacts ==
    ASSUME NEW o \in Objects, NEW s \in States
    PROVE  /\ Derive[o][s] \in SUBSET Record
           /\ KeysOf(Derive[o][s]) \subseteq KeysOfObject[o]
           /\ Derive[o][s] \in ContentsOfObject[o]
<1>1. Derive[o][s] \in SUBSET Record
    BY ConstantsAssumption
<1>2. KeysOfObject[o] = UNION {KeysOf(Derive[o][t]) : t \in States}
    BY DEF KeysOfObject
<1>3. ContentsOfObject[o] = {Derive[o][t] : t \in States}
    BY DEF ContentsOfObject
<1> QED
    BY <1>1, <1>2, <1>3

\* The keys of two objects, and of an object and the static records, differ.
LEMMA KeyFacts ==
    ASSUME NEW o \in Objects
    PROVE  /\ KeysOfObject[o] \cap StaticKeys = {}
           /\ \A p \in Objects \ {o} : KeysOfObject[o] \cap KeysOfObject[p] = {}
<1>1. \A p \in Objects : KeysOfObject[p] = UNION {KeysOf(Derive[p][t]) : t \in States}
    BY DEF KeysOfObject
<1>2. \A p \in Objects, s \in States : KeysOf(Derive[p][s]) \cap StaticKeys = {}
    BY DisjointKeysAssumption DEF DisjointKeys
<1>3. \A p \in Objects \ {o}, s, t \in States : KeysOf(Derive[o][s]) \cap KeysOf(Derive[p][t]) = {}
    BY DisjointKeysAssumption DEF DisjointKeys
<1>4. KeysOfObject[o] \cap StaticKeys = {}
    BY <1>1, <1>2
<1>5. ASSUME NEW p \in Objects \ {o} PROVE KeysOfObject[o] \cap KeysOfObject[p] = {}
    BY <1>1, <1>3
<1> QED
    BY <1>4, <1>5

\* The glue record is a record under the glue key.
LEMMA GlueFacts ==
    ASSUME NEW ip \in IPs \cup {NoIP}
    PROVE  GlueRecord(ip) \in SUBSET Record /\ \A r \in GlueRecord(ip) : r.key \in StaticKeys
<1>1. CASE ip = NoIP
    BY <1>1 DEF GlueRecord
<1>2. CASE ip # NoIP
  <2>1. GlueRecord(ip) = {[key |-> GlueKey, value |-> ip]}
    BY <1>2 DEF GlueRecord
  <2>2. [key |-> GlueKey, value |-> ip] \in Record
    BY <1>2, ConstantsAssumption DEF Record
  <2> QED
    BY <2>1, <2>2 DEF StaticKeys
<1> QED
    BY <1>1, <1>2

\* Setting a static record changes no object's entry.
LEMMA StaticEntries ==
    ASSUME TypeOK, NEW ip \in IPs \cup {NoIP}, SetStaticRecord(ip)
    PROVE  /\ zone' \in SUBSET Record
           /\ \A o \in Objects : Entry(zone', o) = Entry(zone, o)
           /\ \A r \in zone' : r \in zone \/ r.key \in StaticKeys
<1> DEFINE glue == GlueRecord(ip)
<1>1. glue \in SUBSET Record /\ \A r \in glue : r.key \in StaticKeys
    BY GlueFacts
<1>2. zone \in SUBSET Record
    BY DEF TypeOK
<1>3. zone' = {r \in zone : r.key \notin KeysOf(glue)} \cup glue
    BY DEF SetStaticRecord, AddRecord, RemoveRecord
<1> HIDE DEF glue
<1>4. ASSUME NEW o \in Objects PROVE Entry(zone', o) = Entry(zone, o)
  <2>1. \A r \in glue : r.key \notin KeysOfObject[o]
    BY <1>1, KeyFacts
  <2>2. \A r \in zone : r.key \in KeysOfObject[o] => r.key \notin KeysOf(glue)
    BY <2>1 DEF KeysOf
  <2> QED
    BY <1>3, <2>1, <2>2 DEF Entry
<1> QED
    BY <1>1, <1>2, <1>3, <1>4

\* A new process starts with static records only.
LEMMA SeededEntries ==
    /\ Seeded \in SUBSET Record
    /\ \A r \in Seeded : r.key \in StaticKeys
    /\ \A o \in Objects : Entry(Seeded, o) = {}
<1>1. Authority \in SUBSET Record /\ \A r \in Authority : r.key \in StaticKeys
    BY ConstantsAssumption DEF StaticKeys, KeysOf
<1>2. /\ GlueRecord(FallbackIP) \in SUBSET Record
      /\ \A r \in GlueRecord(FallbackIP) : r.key \in StaticKeys
    BY GlueFacts, ConstantsAssumption
<1>3. Seeded \subseteq Authority \cup GlueRecord(FallbackIP)
    BY DEF Seeded, AddRecord, RemoveRecord
<1>4. \A r \in Seeded : r.key \in StaticKeys
    BY <1>1, <1>2, <1>3
<1> QED
    BY <1>1, <1>2, <1>3, <1>4, KeyFacts DEF Entry

\* UpdateRecords replaces the entry of its owner and no other.
LEMMA UpdateEntries ==
    ASSUME TypeOK, OwnInv, NEW o \in Objects, NEW records \in SUBSET Record,
           KeysOf(records) \subseteq KeysOfObject[o], UpdateRecords(o, records)
    PROVE  /\ zone' \in SUBSET Record
           /\ Entry(zone', o) = records
           /\ \A p \in Objects \ {o} : Entry(zone', p) = Entry(zone, p)
           /\ owned' = [owned EXCEPT ![o] = KeysOf(records)]
           /\ \A r \in zone' : r \in zone \/ r.key \in KeysOfObject[o]
<1>1. zone \in SUBSET Record /\ owned[o] = KeysOf(Entry(zone, o))
    BY DEF TypeOK, OwnInv
<1>2. zone' = {r \in zone : r.key \notin owned[o] /\ r.key \notin KeysOf(records)} \cup records
    BY DEF UpdateRecords, AddRecord, RemoveRecord
<1>3. \A r \in records : r.key \in KeysOfObject[o]
    BY DEF KeysOf
<1>4. \A r \in zone : r.key \in KeysOfObject[o] => r.key \in owned[o]
    BY <1>1 DEF Entry, KeysOf
<1>5. Entry(zone', o) = records
    BY <1>2, <1>3, <1>4 DEF Entry
<1>6. ASSUME NEW p \in Objects \ {o} PROVE Entry(zone', p) = Entry(zone, p)
  <2>1. KeysOfObject[o] \cap KeysOfObject[p] = {}
    BY KeyFacts
  <2>2. \A r \in zone : r.key \in KeysOfObject[p] => r.key \notin owned[o] /\ r.key \notin KeysOf(records)
    BY <1>1, <1>3, <2>1 DEF Entry, KeysOf
  <2> QED
    BY <1>2, <1>3, <2>1, <2>2 DEF Entry
<1> QED
    BY <1>1, <1>2, <1>3, <1>5, <1>6 DEF UpdateRecords

-----------------------------------------------------------------------------
(* Type correctness and ownership. *)

\* The parts of TypeInv about workers.
WorkersOK ==
    /\ worker \in [Kinds -> Worker]
    /\ \A k \in Kinds :
          IF worker[k].pc = "idle" THEN worker[k] = Idle
          ELSE worker[k].key \in Objects /\ KindOf[worker[k].key] = k
    /\ RequestInv

\* A step of worker k keeps them if it leaves k idle or with a request.
LEMMA WorkersStep ==
    ASSUME TypeInv, NEW k \in Kinds, worker' \in [Kinds -> Worker], Alone(k),
           \/ worker'[k] = Idle
           \/ /\ worker'[k].key \in Objects /\ KindOf[worker'[k].key] = k
              /\ worker'[k].pc # "idle"
              /\ worker'[k].pc # "get" => Agrees(worker'[k])
    PROVE  WorkersOK'
<1>1. Idle.pc = "idle"
    BY DEF Idle
<1>2. ASSUME NEW j \in Kinds \ {k}
      PROVE  /\ IF worker'[j].pc = "idle" THEN worker'[j] = Idle
                ELSE worker'[j].key \in Objects /\ KindOf[worker'[j].key] = j
             /\ worker'[j].pc \notin {"idle", "get"} => Agrees(worker'[j])
    BY DEF Alone, TypeInv, TypeOK, RequestInv
<1>3. /\ IF worker'[k].pc = "idle" THEN worker'[k] = Idle
         ELSE worker'[k].key \in Objects /\ KindOf[worker'[k].key] = k
      /\ worker'[k].pc \notin {"idle", "get"} => Agrees(worker'[k])
    BY <1>1
<1> QED
    BY <1>2, <1>3 DEF WorkersOK, RequestInv

\* A write of an object keeps the parts about objects and queues.
LEMMA RewrittenOK ==
    ASSUME TypeInv, NEW o \in Objects, Rewritten(o)
    PROVE  object' \in [Objects -> Object] /\ queue' \in [Kinds -> SUBSET Objects] /\ ObjectInv'
<1>1. /\ queue' \in [Kinds -> SUBSET Objects]
      /\ \A k \in Kinds : \A p \in queue'[k] : KindOf[p] = k
    BY EnqueueFields DEF TypeInv, Rewritten
<1> QED
    BY <1>1 DEF TypeInv, ObjectInv, Rewritten

\* So does a retry.
LEMMA RetriedOK ==
    ASSUME TypeInv, NEW k \in Kinds, worker[k].pc # "idle", Retried(k), UNCHANGED object
    PROVE  queue' \in [Kinds -> SUBSET Objects] /\ ObjectInv' /\ WorkersOK'
<1>1. worker[k].key \in Objects
    BY BusyFields DEF TypeInv
<1>2. /\ queue' \in [Kinds -> SUBSET Objects]
      /\ \A j \in Kinds : \A p \in queue'[j] : KindOf[p] = j
    BY <1>1, EnqueueFields DEF TypeInv, Retried
<1>3. WorkersOK'
    BY WorkersStep DEF Retried
<1> QED
    BY <1>2, <1>3 DEF TypeInv, ObjectInv

\* Initially everything is well typed and nothing owned.
LEMMA TypeInit == Init => TypeInv /\ OwnInv
<1> SUFFICES ASSUME Init PROVE TypeInv /\ OwnInv
    OBVIOUS
<1>1. /\ \A o \in Objects : object[o] = Absent /\ owned[o] = {}
      /\ \A k \in Kinds : worker[k] = Idle /\ queue[k] = {}
      /\ zone = Seeded
    BY DEF Init
<1>2. primary \in ConfigMap /\ mirror \in ConfigMap /\ cmCache \in ConfigMap
  <2>1. NoConfigMap \in ConfigMap /\ Containing({}) \in ConfigMap
    BY DEF ConfigMap, NoConfigMap, Containing
  <2> QED
    BY <2>1 DEF Init
<1>3. /\ Idle.pc = "idle" /\ Absent.exists = FALSE /\ Absent.finalizer = FALSE
    BY DEF Idle, Absent
<1>4. TypeOK
  <2>1. /\ object \in [Objects -> Object] /\ worker \in [Kinds -> Worker]
        /\ owned \in [Objects -> SUBSET Keys] /\ queue \in [Kinds -> SUBSET Objects]
        /\ lbIP \in IPs \cup {NoIP}
    BY AbsentTypes DEF Init
  <2>2. edits \in 0..MaxEdits /\ faults \in 0..MaxFaults
    BY ConstantsAssumption DEF Init
  <2> QED
    BY <1>1, <1>2, <1>3, <2>1, <2>2, SeededEntries DEF TypeOK
<1>5. ObjectInv /\ RequestInv
    BY <1>1, <1>3 DEF ObjectInv, RequestInv
<1>6. OwnInv
    BY <1>1, SeededEntries DEF OwnInv, KeysOf
<1> QED
    BY <1>4, <1>5, <1>6 DEF TypeInv

\* A step of the environment keeps types and ownership.
LEMMA TypeEnvironment == TypeInv /\ OwnInv /\ Environment => TypeInv' /\ OwnInv'
<1> SUFFICES ASSUME TypeInv, OwnInv, Environment PROVE TypeInv' /\ OwnInv'
    OBVIOUS
<1>1. ASSUME NEW o \in Objects, UserWrite(o) PROVE TypeInv' /\ OwnInv'
  <2>1. /\ Rewritten(o) /\ UNCHANGED <<lbIP, primary, mirror, cmCache, zone, owned, worker>>
        /\ edits' \in 0..MaxEdits /\ faults' \in 0..MaxFaults
    BY <1>1, UserWrites DEF TypeInv
  <2> QED
    BY <2>1, RewrittenOK DEF TypeInv, TypeOK, RequestInv, OwnInv
<1>2. ASSUME NEW ip \in IPs \cup {NoIP}, SetLoadBalancer(ip) PROVE TypeInv' /\ OwnInv'
    BY <1>2, ConstantsAssumption
    DEF SetLoadBalancer, Edit, stateVars, TypeInv, TypeOK, ObjectInv, RequestInv, OwnInv
<1>3. CASE DeleteConfigMap
  <2>1. NoConfigMap \in ConfigMap
    BY DEF NoConfigMap, ConfigMap
  <2> QED
    BY <1>3, <2>1, ConstantsAssumption
    DEF DeleteConfigMap, Edit, stateVars, TypeInv, TypeOK, ObjectInv, RequestInv, OwnInv
<1>4. CASE DeliverConfigMap
    BY <1>4 DEF DeliverConfigMap, apiVars, stateVars, TypeInv, TypeOK, ObjectInv, RequestInv, OwnInv
<1>5. ASSUME NEW k \in Kinds, Resync(k) PROVE TypeInv' /\ OwnInv'
  <2>1. Existing(k) \subseteq Objects /\ \A o \in Existing(k) : KindOf[o] = k
    BY DEF Existing
  <2>2. queue' \in [Kinds -> SUBSET Objects] /\ \A j \in Kinds : \A o \in queue'[j] : KindOf[o] = j
    <3>1. queue[k] \cup Existing(k) \in SUBSET Objects
      BY <2>1 DEF TypeInv, TypeOK
    <3> HIDE DEF Existing
    <3>2. queue' = [queue EXCEPT ![k] = queue[k] \cup Existing(k)]
      BY <1>5 DEF Resync
    <3> QED
      BY <2>1, <3>1, <3>2 DEF TypeInv, TypeOK, ObjectInv
  <2> QED
    BY <1>5, <2>2 DEF Resync, apiVars, stateVars, TypeInv, TypeOK, ObjectInv, RequestInv, OwnInv
<1>6. CASE Restart
  <2>1. /\ zone' = Seeded /\ owned' = [o \in Objects |-> {}] /\ worker' = [k \in Kinds |-> Idle]
        /\ queue' = [k \in Kinds |-> Existing(k)] /\ cmCache' = primary
        /\ UNCHANGED <<object, lbIP, primary, mirror, edits>> /\ faults' \in 0..MaxFaults
    BY <1>6, ConstantsAssumption DEF Restart, Fault, apiVars, TypeInv, TypeOK
  <2>2. \A k \in Kinds : Existing(k) \subseteq Objects /\ \A o \in Existing(k) : KindOf[o] = k
    BY DEF Existing
  <2>3. queue' \in [Kinds -> SUBSET Objects] /\ \A k \in Kinds : \A o \in queue'[k] : KindOf[o] = k
    BY <2>1, <2>2
  <2>4. Idle.pc = "idle"
    BY DEF Idle
  <2>5. /\ worker' \in [Kinds -> Worker] /\ \A k \in Kinds : worker'[k] = Idle
        /\ owned' \in [Objects -> SUBSET Keys] /\ \A o \in Objects : owned'[o] = {}
    BY <2>1, AbsentTypes
  <2>6. TypeOK'
    BY <2>1, <2>3, <2>4, <2>5, SeededEntries DEF TypeInv, TypeOK
  <2>7. ObjectInv' /\ RequestInv'
    BY <2>1, <2>3, <2>4, <2>5 DEF TypeInv, ObjectInv, RequestInv
  <2>8. OwnInv'
    BY <2>1, <2>5, SeededEntries DEF OwnInv, KeysOf
  <2> QED
    BY <2>6, <2>7, <2>8 DEF TypeInv
<1> QED
    BY <1>1, <1>2, <1>3, <1>4, <1>5, <1>6 DEF Environment, UserWrite

\* What a busy worker says of its object are records under the object's keys.
LEMMA SaidFacts ==
    ASSUME TypeInv, NEW k \in Kinds, worker[k].pc \notin {"idle", "get"}
    PROVE  LET o == worker[k].key
               w == worker[k]
           IN  /\ Said(w) \in SUBSET Record
               /\ KeysOf(Said(w)) \subseteq KeysOfObject[o]
               /\ Said(w) \in ContentsOfObject[o] \cup {{}}
               /\ KeysOf(Said(w)) \in SUBSET Keys
<1> DEFINE w == worker[k]
<1>1. w.key \in Objects /\ Agrees(w)
    BY BusyFields DEF TypeInv, RequestInv
<1>2. CASE w.op = "update"
  <2>1. w.copy.state \in States /\ Said(w) = Derive[w.key][w.copy.state]
    BY <1>1, <1>2 DEF Agrees, Said
  <2>2. Said(w) \in SUBSET Record
    BY <1>1, <2>1, DeriveFacts
  <2>3. KeysOf(Said(w)) \in SUBSET Keys
    BY <2>2 DEF KeysOf, Record
  <2> QED
    BY <1>1, <2>1, <2>2, <2>3, DeriveFacts
<1>3. CASE w.op # "update"
    BY <1>3 DEF Said, KeysOf
<1> QED
    BY <1>2, <1>3

\* A step of a worker keeps types and ownership.
LEMMA TypeReconcile ==
    ASSUME TypeInv, OwnInv, NEW k \in Kinds, Reconcile(k)
    PROVE  TypeInv' /\ OwnInv'
<1> DEFINE o == worker[k].key
<1>1. CASE GetObject(k)
  <2>1. /\ worker[k].pc = "get" /\ worker' \in [Kinds -> Worker] /\ Alone(k)
        /\ SetStaticRecord(worker[k].ip)
        /\ UNCHANGED <<object, lbIP, primary, mirror, cmCache, owned, queue, edits, faults>>
    BY <1>1, GetObjectDoes DEF TypeInv
  <2>2. /\ o \in Objects /\ KindOf[o] = k /\ worker[k].ip \in IPs \cup {NoIP}
        /\ object[o].exists => object[o].state \in States
    BY <2>1, BusyFields DEF TypeInv, ObjectInv
  <2>3. \/ worker'[k] = Idle
        \/ Read(k, "mutate", "remove") \/ Read(k, "mutate", "release")
        \/ Read(k, "mutate", "update") /\ object[o].exists
        \/ Read(k, "finalize", "update") /\ object[o].exists
    BY <1>1, GetObjectDoes DEF TypeInv
  <2>4. WorkersOK'
    BY <2>1, <2>2, <2>3, WorkersStep DEF Read, Agrees
  <2>5. /\ zone' \in SUBSET Record /\ \A p \in Objects : Entry(zone', p) = Entry(zone, p)
        /\ \A r \in zone' : r \in zone \/ r.key \in StaticKeys
    BY <2>1, <2>2, StaticEntries DEF TypeInv
  <2>6. TypeInv'
    BY <2>1, <2>4, <2>5 DEF TypeInv, TypeOK, ObjectInv, WorkersOK
  <2>7. OwnInv'
    BY <2>1, <2>5 DEF OwnInv
  <2> QED
    BY <2>6, <2>7
<1>2. CASE AddFinalizer(k)
  <2>1. /\ worker[k].pc = "finalize"
        /\ UNCHANGED <<lbIP, primary, mirror, cmCache, zone, owned, edits, faults>>
    BY <1>2, AddFinalizerDoes
  <2>2. o \in Objects /\ KindOf[o] = k /\ Agrees(worker[k])
    BY <2>1, BusyFields DEF TypeInv, RequestInv
  <2>3. object' \in [Objects -> Object] /\ queue' \in [Kinds -> SUBSET Objects] /\ ObjectInv' /\ WorkersOK'
    <3>1. CASE Rewritten(o) /\ Goto(k, "refetch")
      <4>1. "refetch" \in Steps
        BY DEF Steps
      <4>2. /\ worker' \in [Kinds -> Worker] /\ Alone(k) /\ worker'[k].pc = "refetch"
            /\ worker'[k].key = o /\ worker'[k].copy = worker[k].copy /\ worker'[k].op = worker[k].op
        BY <3>1, <4>1, GotoFields DEF TypeInv
      <4>3. Agrees(worker'[k])
        BY <2>1, <2>2, <4>2 DEF Agrees
      <4> QED
        BY <2>2, <3>1, <4>2, <4>3, RewrittenOK, WorkersStep
    <3>2. CASE Retried(k) /\ UNCHANGED object
      BY <2>1, <3>2, RetriedOK DEF TypeInv, TypeOK
    <3> QED
      BY <1>2, <3>1, <3>2, AddFinalizerDoes
  <2> QED
    BY <2>1, <2>3 DEF TypeInv, TypeOK, WorkersOK, OwnInv
<1>3. CASE RefetchObject(k)
  <2>1. /\ worker[k].pc = "refetch"
        /\ UNCHANGED <<object, lbIP, primary, mirror, cmCache, zone, owned, edits, faults>>
    BY <1>3, RefetchObjectDoes DEF TypeInv
  <2>2. /\ o \in Objects /\ KindOf[o] = k /\ Agrees(worker[k])
        /\ object[o].exists => object[o].state \in States
    BY <2>1, BusyFields DEF TypeInv, RequestInv, ObjectInv
  <2>3. queue' \in [Kinds -> SUBSET Objects] /\ ObjectInv' /\ WorkersOK'
    <3>1. CASE /\ worker' \in [Kinds -> Worker] /\ Alone(k) /\ UNCHANGED queue
               /\ Read(k, "mutate", worker[k].op) /\ object[o].exists
      <4>1. Agrees(worker'[k])
        BY <2>1, <2>2, <3>1 DEF Agrees, Read
      <4>2. WorkersOK'
        BY <2>2, <3>1, <4>1, WorkersStep DEF Read
      <4> QED
        BY <2>1, <3>1, <4>2 DEF TypeInv, TypeOK, ObjectInv
    <3>2. CASE Retried(k)
      BY <2>1, <3>2, RetriedOK
    <3> QED
      BY <1>3, <3>1, <3>2, RefetchObjectDoes DEF TypeInv
  <2> QED
    BY <2>1, <2>3 DEF TypeInv, TypeOK, WorkersOK, OwnInv
<1>4. CASE MutateZone(k)
  <2>1. /\ worker[k].pc = "mutate" /\ Onward(k, "render") /\ UpdateRecords(o, Said(worker[k]))
        /\ UNCHANGED <<object, lbIP, primary, mirror, cmCache, queue, edits, faults>>
    BY <1>4, MutateZoneDoes DEF TypeInv
  <2>2. o \in Objects /\ KindOf[o] = k /\ Agrees(worker[k])
    BY <2>1, BusyFields DEF TypeInv, RequestInv
  <2>3. WorkersOK'
    BY <2>1, <2>2, WorkersStep DEF Onward, Agrees
  <2>4. /\ Said(worker[k]) \in SUBSET Record /\ KeysOf(Said(worker[k])) \subseteq KeysOfObject[o]
        /\ KeysOf(Said(worker[k])) \in SUBSET Keys
    BY <2>1, SaidFacts
  <2>5. /\ zone' \in SUBSET Record /\ Entry(zone', o) = Said(worker[k])
        /\ \A p \in Objects \ {o} : Entry(zone', p) = Entry(zone, p)
        /\ owned' = [owned EXCEPT ![o] = KeysOf(Said(worker[k]))]
        /\ \A r \in zone' : r \in zone \/ r.key \in KeysOfObject[o]
    BY <2>1, <2>2, <2>4, UpdateEntries DEF TypeInv
  <2>6. owned' \in [Objects -> SUBSET Keys]
    BY <2>4, <2>5 DEF TypeInv, TypeOK
  <2>7. TypeInv'
    BY <2>1, <2>3, <2>5, <2>6 DEF TypeInv, TypeOK, ObjectInv, WorkersOK
  <2>8. \A p \in Objects : owned'[p] = KeysOf(Entry(zone', p))
    BY <2>2, <2>5 DEF OwnInv, TypeInv, TypeOK
  <2>9. OwnInv'
    BY <2>2, <2>5, <2>8 DEF OwnInv
  <2> QED
    BY <2>7, <2>9
<1>5. CASE RenderZone(k)
  <2>1. /\ worker[k].pc = "render" /\ Onward(k, "write")
        /\ UNCHANGED <<object, lbIP, primary, mirror, cmCache, zone, owned, queue, edits, faults>>
    BY <1>5, RenderZoneDoes DEF TypeInv
  <2>2. o \in Objects /\ KindOf[o] = k /\ Agrees(worker[k])
    BY <2>1, BusyFields DEF TypeInv, RequestInv
  <2>3. WorkersOK'
    BY <2>1, <2>2, WorkersStep DEF Onward, Agrees
  <2> QED
    BY <2>1, <2>3 DEF TypeInv, TypeOK, ObjectInv, WorkersOK, OwnInv
<1>6. CASE WritePrimary(k)
  <2>1. /\ worker[k].pc = "write"
        /\ UNCHANGED <<object, lbIP, mirror, cmCache, zone, owned, edits, faults>>
    BY <1>6, WritePrimaryDoes DEF TypeInv
  <2>2. /\ o \in Objects /\ KindOf[o] = k /\ Agrees(worker[k])
        /\ Containing(worker[k].rendered) \in ConfigMap
    BY <2>1, BusyFields DEF TypeInv, RequestInv, Containing, ConfigMap
  <2>3. primary' \in ConfigMap /\ queue' \in [Kinds -> SUBSET Objects] /\ ObjectInv' /\ WorkersOK'
    <3>1. CASE /\ Onward(k, "mirror") /\ UNCHANGED queue
               /\ primary' = Containing(worker[k].rendered) \/ UNCHANGED primary
      <4>1. WorkersOK'
        BY <2>1, <2>2, <3>1, WorkersStep DEF Onward, Agrees
      <4> QED
        BY <2>1, <2>2, <3>1, <4>1 DEF TypeInv, TypeOK, ObjectInv
    <3>2. CASE Retried(k) /\ UNCHANGED primary
      BY <2>1, <3>2, RetriedOK DEF TypeInv, TypeOK
    <3> QED
      BY <1>6, <3>1, <3>2, WritePrimaryDoes DEF TypeInv
  <2> QED
    BY <2>1, <2>3 DEF TypeInv, TypeOK, WorkersOK, OwnInv
<1>7. CASE WriteMirror(k)
  <2>1. /\ worker[k].pc = "mirror"
        /\ UNCHANGED <<object, lbIP, primary, cmCache, zone, owned, queue, edits, faults>>
        /\ mirror' = Containing(worker[k].rendered) \/ UNCHANGED mirror
    BY <1>7, WriteMirrorDoes DEF TypeInv
  <2>2. /\ o \in Objects /\ KindOf[o] = k /\ Agrees(worker[k])
        /\ Containing(worker[k].rendered) \in ConfigMap
    BY <2>1, BusyFields DEF TypeInv, RequestInv, Containing, ConfigMap
  <2>3. \/ worker[k].op = "release" /\ Onward(k, "release")
        \/ worker' \in [Kinds -> Worker] /\ Alone(k) /\ worker'[k] = Idle
    BY <1>7, WriteMirrorDoes DEF TypeInv
  <2>4. WorkersOK'
    BY <2>1, <2>2, <2>3, WorkersStep DEF Onward, Agrees
  <2> QED
    BY <2>1, <2>2, <2>4 DEF TypeInv, TypeOK, ObjectInv, WorkersOK, OwnInv
<1>8. CASE ReleaseFinalizer(k)
  <2>1. /\ worker[k].pc = "release"
        /\ UNCHANGED <<lbIP, primary, mirror, cmCache, zone, owned, edits, faults>>
    BY <1>8, ReleaseFinalizerDoes
  <2>2. o \in Objects
    BY <2>1, BusyFields DEF TypeInv
  <2>3. object' \in [Objects -> Object] /\ queue' \in [Kinds -> SUBSET Objects] /\ ObjectInv' /\ WorkersOK'
    <3>1. CASE Rewritten(o) /\ worker' = [worker EXCEPT ![k] = Idle]
      <4>1. worker' \in [Kinds -> Worker] /\ Alone(k) /\ worker'[k] = Idle
        BY <3>1, ReturnFields DEF TypeInv
      <4> QED
        BY <2>2, <3>1, <4>1, RewrittenOK, WorkersStep
    <3>2. CASE Retried(k) /\ UNCHANGED object
      BY <2>1, <3>2, RetriedOK DEF TypeInv, TypeOK
    <3> QED
      BY <1>8, <3>1, <3>2, ReleaseFinalizerDoes
  <2> QED
    BY <2>1, <2>3 DEF TypeInv, TypeOK, WorkersOK, OwnInv
<1>9. CASE CallFails(k)
  <2>1. /\ worker[k].pc # "idle" /\ Retried(k) /\ faults' \in 0..MaxFaults
        /\ UNCHANGED <<object, lbIP, primary, mirror, cmCache, owned, edits>>
        /\ SetStaticRecord(worker[k].ip) \/ UNCHANGED zone
    BY <1>9, CallFailsDoes DEF TypeInv
  <2>2. worker[k].ip \in IPs \cup {NoIP}
    BY <2>1, BusyFields DEF TypeInv
  <2>3. /\ zone' \in SUBSET Record /\ \A p \in Objects : Entry(zone', p) = Entry(zone, p)
        /\ \A r \in zone' : r \in zone \/ r.key \in StaticKeys
    BY <2>1, <2>2, StaticEntries DEF TypeInv, TypeOK
  <2>4. queue' \in [Kinds -> SUBSET Objects] /\ ObjectInv' /\ WorkersOK'
    BY <2>1, RetriedOK
  <2>5. TypeInv'
    BY <2>1, <2>3, <2>4 DEF TypeInv, TypeOK, WorkersOK
  <2>6. OwnInv'
    BY <2>1, <2>3 DEF OwnInv
  <2> QED
    BY <2>5, <2>6
<1>10. ASSUME NEW p \in Objects, RefreshNSGlue(k, p) PROVE TypeInv' /\ OwnInv'
  <2>1. /\ p \in queue[k] /\ queue' = [queue EXCEPT ![k] = queue[k] \ {p}]
        /\ worker' \in [Kinds -> Worker] /\ Alone(k) /\ worker'[k].pc = "get" /\ worker'[k].key = p
        /\ UNCHANGED <<object, lbIP, primary, mirror, cmCache, zone, owned, edits>>
        /\ faults' \in 0..MaxFaults
    BY <1>10, RefreshNSGlueDoes DEF TypeInv
  <2>2. KindOf[p] = k
    BY <2>1 DEF TypeInv, ObjectInv
  <2>3. WorkersOK'
    BY <2>1, <2>2, WorkersStep
  <2>4. queue' \in [Kinds -> SUBSET Objects] /\ \A j \in Kinds : queue'[j] \subseteq queue[j]
    BY <2>1 DEF TypeInv, TypeOK
  <2> QED
    BY <2>1, <2>3, <2>4 DEF TypeInv, TypeOK, ObjectInv, WorkersOK, OwnInv
<1> QED
    BY <1>1, <1>2, <1>3, <1>4, <1>5, <1>6, <1>7, <1>8, <1>9, <1>10 DEF Reconcile, Work

\* Every step keeps types and ownership.
LEMMA TypeStep == TypeInv /\ OwnInv /\ [Next]_vars => TypeInv' /\ OwnInv'
<1>1. TypeInv /\ OwnInv /\ UNCHANGED vars => TypeInv' /\ OwnInv'
    BY DEF TypeInv, TypeOK, ObjectInv, RequestInv, OwnInv, vars
<1> QED
    BY <1>1, TypeEnvironment, TypeReconcile DEF Next

\* Types and ownership hold always.
LEMMA TypeAlways == Spec => [](TypeInv /\ OwnInv)
    BY TypeInit, TypeStep, PTL DEF Spec

\* Type correctness of the projection: whatever the interleaving of the
\* workers, the crashes and the conflicts, every variable has its type, and a
\* busy worker has a request of its own kind (dsns_reconciler.go, Reconcile).
THEOREM TypeCorrect == Spec => []TypeOK
<1>1. TypeInv /\ OwnInv => TypeOK
    BY DEF TypeInv
<1> QED
    BY <1>1, TypeAlways, PTL

\* DSNSState keeps exact accounts: the dynamic keys of the zone are the keys
\* that some owner is accountable for, so that no record is left without an
\* owner and none is lost to a change of another object, for any number of
\* workers that share the zone (state.go, UpdateRecords, RemoveRecords).
THEOREM OwnershipIsExact == Spec => []OwnershipExact
<1>1. OwnInv => OwnershipExact
  <2> SUFFICES ASSUME OwnInv PROVE OwnershipExact
    OBVIOUS
  <2>1. ASSUME NEW r \in zone, r.key \notin StaticKeys PROVE \E o \in Objects : r.key \in owned[o]
    <3>1. PICK o \in Objects : r.key \in KeysOfObject[o]
      BY <2>1 DEF OwnInv
    <3>2. r.key \in KeysOf(Entry(zone, o))
      BY <3>1 DEF Entry, KeysOf
    <3> QED
      BY <3>2 DEF OwnInv
  <2>2. ASSUME NEW o \in Objects, NEW key \in owned[o]
        PROVE  \E r \in zone : r.key \notin StaticKeys /\ r.key = key
    <3>1. key \in KeysOf(Entry(zone, o))
      BY DEF OwnInv
    <3>2. PICK r \in zone : r.key \in KeysOfObject[o] /\ r.key = key
      BY <3>1 DEF Entry, KeysOf
    <3> QED
      BY <3>2, KeyFacts
  <2> QED
    BY <2>1, <2>2 DEF OwnershipExact, DynamicRecords, KeysOf
<1> QED
    BY <1>1, TypeAlways, PTL

-----------------------------------------------------------------------------
(* The finalizer. *)

\* Two workers never have the same request.
LEMMA DistinctRequests ==
    ASSUME TypeInv, NEW j \in Kinds, NEW k \in Kinds \ {j},
           worker[j].pc # "idle", worker[k].pc # "idle"
    PROVE  worker[j].key # worker[k].key
    BY BusyFields DEF TypeInv

\* A worker stays protected while its object and the account of it stay.
LEMMA ProtectsKept ==
    ASSUME ProtectInv, NEW j \in Kinds, worker'[j] = worker[j],
           worker[j].pc \notin {"idle", "get"},
           object'[worker[j].key] = object[worker[j].key],
           owned'[worker[j].key] = owned[worker[j].key]
    PROVE  Protects(worker[j])'
    BY DEF ProtectInv, Protects, Current

\* A step of worker k that leaves objects and accounts alone: only its own
\* state needs a look.
LEMMA ProtectsOthers ==
    ASSUME ProtectInv, NEW k \in Kinds, Alone(k), UNCHANGED <<object, owned>>,
           worker'[k].pc \notin {"idle", "get"} => Protects(worker[k])'
    PROVE  ProtectInv'
<1>1. FinalizerGuardsZone'
    BY DEF ProtectInv, FinalizerGuardsZone
<1>2. ASSUME NEW j \in Kinds \ {k}, worker'[j].pc \notin {"idle", "get"} PROVE Protects(worker[j])'
    BY <1>2, ProtectsKept DEF Alone
<1> QED
    BY <1>1, <1>2 DEF ProtectInv

\* Initially nothing is owned and no worker busy.
LEMMA ProtectInit == Init => ProtectInv
<1> SUFFICES ASSUME Init PROVE ProtectInv
    OBVIOUS
<1>1. Idle.pc = "idle"
    BY DEF Idle
<1>2. (\A k \in Kinds : worker[k] = Idle) /\ (\A o \in Objects : owned[o] = {})
    BY DEF Init
<1> QED
    BY <1>1, <1>2 DEF ProtectInv, FinalizerGuardsZone

\* No step of the environment takes the finalizer from an owner.
LEMMA ProtectEnvironment == TypeInv /\ ProtectInv /\ Environment => ProtectInv'
<1> SUFFICES ASSUME TypeInv, ProtectInv, Environment PROVE ProtectInv'
    OBVIOUS
<1>1. ASSUME NEW o \in Objects, UserWrite(o) PROVE ProtectInv'
  <2>1. /\ Rewritten(o) /\ object'[o].finalizer = object[o].finalizer
        /\ UNCHANGED <<owned, worker>>
    BY <1>1, UserWrites DEF TypeInv
  <2>2. FinalizerGuardsZone'
    BY <2>1 DEF ProtectInv, FinalizerGuardsZone, Rewritten
  <2>3. ASSUME NEW j \in Kinds, worker'[j].pc \notin {"idle", "get"} PROVE Protects(worker[j])'
    <3>1. worker[j].key \in Objects /\ worker[j].copy.rv \in Nat /\ object[o].rv \in Nat
      BY <2>1, <2>3, BusyFields DEF TypeInv, TypeOK, Object
    <3>2. CASE worker[j].key = o
      BY <2>1, <2>3, <3>1, <3>2 DEF ProtectInv, Protects, Current, Rewritten
    <3>3. CASE worker[j].key # o
      BY <2>1, <2>3, <3>1, <3>3, ProtectsKept DEF Rewritten
    <3> QED
      BY <3>2, <3>3
  <2> QED
    BY <2>2, <2>3 DEF ProtectInv
<1>2. CASE UNCHANGED <<object, owned, worker>>
    BY <1>2 DEF ProtectInv, Protects, Current, FinalizerGuardsZone
<1>3. CASE Restart
  <2>1. Idle.pc = "idle"
    BY DEF Idle
  <2>2. (\A k \in Kinds : worker'[k] = Idle) /\ (\A o \in Objects : owned'[o] = {})
    BY <1>3 DEF Restart
  <2> QED
    BY <2>1, <2>2 DEF ProtectInv, FinalizerGuardsZone
<1>4. CASE \/ \E ip \in IPs \cup {NoIP} : SetLoadBalancer(ip)
           \/ DeleteConfigMap \/ DeliverConfigMap \/ \E k \in Kinds : Resync(k)
    BY <1>2, <1>4 DEF SetLoadBalancer, DeleteConfigMap, DeliverConfigMap, Resync, apiVars, stateVars
<1> QED
    BY <1>1, <1>3, <1>4 DEF Environment, UserWrite

\* No step of a worker does, but the release after the records are gone.
LEMMA ProtectReconcile ==
    ASSUME TypeInv, OwnInv, ProtectInv, NEW k \in Kinds, Reconcile(k)
    PROVE  ProtectInv'
<1> DEFINE o == worker[k].key
<1>0. Idle.pc = "idle"
    BY DEF Idle
<1>1. CASE GetObject(k)
  <2>1. worker[k].pc = "get" /\ Alone(k) /\ UNCHANGED <<object, owned>>
    BY <1>1, GetObjectDoes DEF TypeInv
  <2>2. \/ worker'[k] = Idle
        \/ Read(k, "mutate", "remove") \/ Read(k, "mutate", "release")
        \/ Read(k, "mutate", "update") /\ object[o].finalizer
        \/ Read(k, "finalize", "update")
    BY <1>1, GetObjectDoes DEF TypeInv
  <2>3. object[o].rv \in Nat
    BY <2>1, BusyFields DEF TypeInv, TypeOK, Object
  <2>4. worker'[k].pc \notin {"idle", "get"} => Protects(worker[k])'
    BY <1>0, <2>1, <2>2, <2>3 DEF Protects, Current, Read
  <2> QED
    BY <2>1, <2>4, ProtectsOthers
<1>2. CASE AddFinalizer(k)
  <2>1. worker[k].pc = "finalize" /\ UNCHANGED owned
    BY <1>2, AddFinalizerDoes
  <2>2. o \in Objects /\ object[o].rv \in Nat /\ Agrees(worker[k])
    BY <2>1, BusyFields DEF TypeInv, TypeOK, Object, RequestInv
  <2>3. CASE /\ Rewritten(o) /\ object'[o].finalizer /\ Goto(k, "refetch")
             /\ object[o].rv = worker[k].copy.rv
    <3>1. "refetch" \in Steps
      BY DEF Steps
    <3>2. /\ Alone(k) /\ worker'[k].pc = "refetch" /\ worker'[k].key = o
          /\ worker'[k].copy = worker[k].copy /\ worker'[k].op = worker[k].op
      BY <2>3, <3>1, GotoFields DEF TypeInv
    <3>3. Protects(worker[k])'
      BY <2>1, <2>2, <2>3, <3>2 DEF Protects, Current, Rewritten, Agrees
    <3>4. ASSUME NEW j \in Kinds \ {k}, worker'[j].pc \notin {"idle", "get"}
          PROVE  Protects(worker[j])'
      <4>1. worker'[j] = worker[j] /\ worker[j].key \in Objects /\ worker[j].key # o
        BY <2>1, <3>2, <3>4, DistinctRequests, BusyFields DEF Alone, TypeInv
      <4> QED
        BY <2>1, <2>3, <3>4, <4>1, ProtectsKept DEF Rewritten
    <3>5. FinalizerGuardsZone'
      BY <2>1, <2>3 DEF ProtectInv, FinalizerGuardsZone, Rewritten
    <3> QED
      BY <3>3, <3>4, <3>5 DEF ProtectInv
  <2>4. CASE Retried(k) /\ UNCHANGED object
    BY <1>0, <2>1, <2>4, ProtectsOthers DEF Retried
  <2> QED
    BY <1>2, <2>3, <2>4, AddFinalizerDoes
<1>3. CASE RefetchObject(k)
  <2>1. worker[k].pc = "refetch" /\ UNCHANGED <<object, owned>>
    BY <1>3, RefetchObjectDoes DEF TypeInv
  <2>2. object[o].rv \in Nat /\ worker[k].op = "update" /\ object[o].finalizer
    BY <2>1, BusyFields DEF TypeInv, TypeOK, Object, RequestInv, Agrees, ProtectInv, Protects
  <2>3. CASE Alone(k) /\ Read(k, "mutate", worker[k].op)
    <3>1. Protects(worker[k])'
      BY <2>1, <2>2, <2>3 DEF Protects, Current, Read
    <3> QED
      BY <2>1, <2>3, <3>1, ProtectsOthers
  <2>4. CASE Retried(k)
    BY <1>0, <2>1, <2>4, ProtectsOthers DEF Retried
  <2> QED
    BY <1>3, <2>3, <2>4, RefetchObjectDoes DEF TypeInv
<1>4. CASE MutateZone(k)
  <2>1. /\ worker[k].pc = "mutate" /\ Onward(k, "render") /\ UpdateRecords(o, Said(worker[k]))
        /\ UNCHANGED object
    BY <1>4, MutateZoneDoes DEF TypeInv
  <2>2. o \in Objects /\ Protects(worker[k])
    BY <2>1, BusyFields DEF TypeInv, ProtectInv
  <2>3. owned' = [owned EXCEPT ![o] = KeysOf(Said(worker[k]))]
    BY <2>1 DEF UpdateRecords
  <2>4. /\ owned'[o] = KeysOf(Said(worker[k]))
        /\ \A p \in Objects \ {o} : owned'[p] = owned[p]
    BY <2>2, <2>3 DEF TypeInv, TypeOK
  <2>5. worker[k].op # "update" => owned'[o] = {}
    BY <2>4 DEF Said, KeysOf
  <2>6. Protects(worker[k])'
    BY <2>1, <2>2, <2>5 DEF Protects, Current, Onward
  <2>7. ASSUME NEW j \in Kinds \ {k}, worker'[j].pc \notin {"idle", "get"}
        PROVE  Protects(worker[j])'
    <3>1. worker'[j] = worker[j] /\ worker[j].key \in Objects /\ worker[j].key # o
      BY <2>1, <2>7, DistinctRequests, BusyFields DEF Alone, Onward, TypeInv
    <3> QED
      BY <2>1, <2>4, <2>7, <3>1, ProtectsKept
  <2>8. FinalizerGuardsZone'
    BY <2>1, <2>2, <2>4, <2>5 DEF ProtectInv, Protects, FinalizerGuardsZone
  <2> QED
    BY <2>6, <2>7, <2>8 DEF ProtectInv
<1>5. CASE RenderZone(k)
  <2>1. worker[k].pc = "render" /\ Onward(k, "write") /\ UNCHANGED <<object, owned>>
    BY <1>5, RenderZoneDoes DEF TypeInv
  <2>2. Protects(worker[k])'
    BY <2>1 DEF ProtectInv, Protects, Current, Onward
  <2> QED
    BY <2>1, <2>2, ProtectsOthers DEF Onward
<1>6. CASE WritePrimary(k)
  <2>1. worker[k].pc = "write" /\ UNCHANGED <<object, owned>>
    BY <1>6, WritePrimaryDoes DEF TypeInv
  <2>2. CASE Onward(k, "mirror")
    <3>1. Protects(worker[k])'
      BY <2>1, <2>2 DEF ProtectInv, Protects, Current, Onward
    <3> QED
      BY <2>1, <2>2, <3>1, ProtectsOthers DEF Onward
  <2>3. CASE Retried(k)
    BY <1>0, <2>1, <2>3, ProtectsOthers DEF Retried
  <2> QED
    BY <1>6, <2>2, <2>3, WritePrimaryDoes DEF TypeInv
<1>7. CASE WriteMirror(k)
  <2>1. worker[k].pc = "mirror" /\ UNCHANGED <<object, owned>>
    BY <1>7, WriteMirrorDoes DEF TypeInv
  <2>2. CASE Onward(k, "release")
    <3>1. Protects(worker[k])'
      BY <2>1, <2>2 DEF ProtectInv, Protects, Current, Onward
    <3> QED
      BY <2>1, <2>2, <3>1, ProtectsOthers DEF Onward
  <2>3. CASE Alone(k) /\ worker'[k] = Idle
    BY <1>0, <2>1, <2>3, ProtectsOthers
  <2> QED
    BY <1>7, <2>2, <2>3, WriteMirrorDoes DEF TypeInv
<1>8. CASE ReleaseFinalizer(k)
  <2>1. worker[k].pc = "release" /\ UNCHANGED owned
    BY <1>8, ReleaseFinalizerDoes
  <2>2. o \in Objects /\ owned[o] = {}
    BY <2>1, BusyFields DEF TypeInv, RequestInv, Agrees, ProtectInv, Protects
  <2>3. CASE Rewritten(o) /\ worker' = [worker EXCEPT ![k] = Idle]
    <3>1. Alone(k) /\ worker'[k] = Idle
      BY <2>3, ReturnFields DEF TypeInv
    <3>2. ASSUME NEW j \in Kinds, worker'[j].pc \notin {"idle", "get"} PROVE Protects(worker[j])'
      <4>1. /\ worker'[j] = worker[j] /\ worker[j].key \in Objects /\ worker[j].key # o
        BY <1>0, <2>1, <3>1, <3>2, DistinctRequests, BusyFields DEF Alone, TypeInv
      <4> QED
        BY <2>1, <2>3, <3>2, <4>1, ProtectsKept DEF Rewritten
    <3>3. FinalizerGuardsZone'
      BY <2>1, <2>2, <2>3 DEF ProtectInv, FinalizerGuardsZone, Rewritten
    <3> QED
      BY <3>2, <3>3 DEF ProtectInv
  <2>4. CASE Retried(k) /\ UNCHANGED object
    BY <1>0, <2>1, <2>4, ProtectsOthers DEF Retried
  <2> QED
    BY <1>8, <2>3, <2>4, ReleaseFinalizerDoes
<1>9. CASE CallFails(k)
  <2>1. Retried(k) /\ UNCHANGED <<object, owned>>
    BY <1>9, CallFailsDoes DEF TypeInv
  <2> QED
    BY <1>0, <2>1, ProtectsOthers DEF Retried
<1>10. ASSUME NEW p \in Objects, RefreshNSGlue(k, p) PROVE ProtectInv'
  <2>1. Alone(k) /\ worker'[k].pc = "get" /\ UNCHANGED <<object, owned>>
    BY <1>10, RefreshNSGlueDoes DEF TypeInv
  <2> QED
    BY <2>1, ProtectsOthers
<1> QED
    BY <1>1, <1>2, <1>3, <1>4, <1>5, <1>6, <1>7, <1>8, <1>9, <1>10 DEF Reconcile, Work

\* Every step keeps the protection.
LEMMA ProtectStep == TypeInv /\ OwnInv /\ ProtectInv /\ [Next]_vars => ProtectInv'
<1>1. ProtectInv /\ UNCHANGED vars => ProtectInv'
    BY DEF ProtectInv, Protects, Current, FinalizerGuardsZone, vars
<1> QED
    BY <1>1, ProtectEnvironment, ProtectReconcile DEF Next

\* The protection holds always.
LEMMA ProtectAlways == Spec => []ProtectInv
    BY ProtectInit, ProtectStep, TypeAlways, PTL DEF Spec

\* A record of an object is in the zone only while the object has the DSNS
\* finalizer, for any number of workers and whatever conflicts, failures and
\* restarts happen between the finalizer and the records
\* (dsns_reconciler.go, Reconcile).
THEOREM FinalizerProtectsZone == Spec => []FinalizerGuardsZone
<1>1. ProtectInv => FinalizerGuardsZone
    BY DEF ProtectInv
<1> QED
    BY <1>1, ProtectAlways, PTL

-----------------------------------------------------------------------------
(* What is rendered. *)

\* An idle worker has rendered nothing.
LEMMA IdleEntry == Idle.pc = "idle" /\ \A o \in Objects : Entry(Idle.rendered, o) = {}
    BY DEF Idle, Entry

\* A step of worker k that changes no entry of the zone, and leaves k before
\* the rendering: there is nothing to show.
LEMMA EntryKept ==
    ASSUME TypeInv, EntryInv, NEW k \in Kinds, Alone(k),
           \A o \in Objects : Entry(zone', o) = Entry(zone, o),
           \/ worker'[k] = Idle
           \/ /\ worker'[k].pc \notin {"render", "write", "mirror", "release"}
              /\ worker'[k].rendered = worker[k].rendered \/ worker'[k].rendered = {}
    PROVE  EntryInv'
<1>1. ASSUME NEW j \in Kinds \ {k} PROVE worker'[j] = worker[j]
    BY DEF Alone
<1>2. /\ worker'[k].pc \notin {"render", "write", "mirror", "release"}
      /\ \A o \in Objects : Entry(worker'[k].rendered, o) \in ContentsOfObject[o] \cup {{}}
    BY IdleEntry DEF EntryInv, Entry
<1>3. \A o \in Objects : Entry(zone', o) \in ContentsOfObject[o] \cup {{}}
    BY DEF EntryInv
<1>4. ASSUME NEW j \in Kinds, worker'[j].pc = "render"
      PROVE  Entry(zone', worker'[j].key) = Said(worker'[j])
  <2>1. worker'[j] = worker[j] /\ worker[j].key \in Objects
    BY <1>1, <1>2, <1>4, BusyFields DEF TypeInv
  <2> QED
    BY <1>4, <2>1 DEF EntryInv
<1>5. ASSUME NEW j \in Kinds, worker'[j].pc \in {"write", "mirror", "release"}
      PROVE  Entry(worker'[j].rendered, worker'[j].key) = Said(worker'[j])
    BY <1>1, <1>2, <1>5 DEF EntryInv
<1>6. \A o \in Objects : \A j \in Kinds :
          Entry(worker'[j].rendered, o) \in ContentsOfObject[o] \cup {{}}
    BY <1>1, <1>2 DEF EntryInv
<1> QED
    BY <1>3, <1>4, <1>5, <1>6 DEF EntryInv

\* Nothing is listed initially.
LEMMA EntryInit == Init => EntryInv
<1> SUFFICES ASSUME Init PROVE EntryInv
    OBVIOUS
<1>1. zone = Seeded /\ \A k \in Kinds : worker[k] = Idle
    BY DEF Init
<1> QED
    BY <1>1, IdleEntry, SeededEntries DEF EntryInv

\* A step of the environment changes no zone, rendered or not.
LEMMA EntryEnvironment == TypeInv /\ EntryInv /\ Environment => EntryInv'
<1> SUFFICES ASSUME TypeInv, EntryInv, Environment PROVE EntryInv'
    OBVIOUS
<1>1. CASE UNCHANGED <<zone, worker>>
    BY <1>1 DEF EntryInv
<1>2. CASE Restart
  <2>1. zone' = Seeded /\ \A k \in Kinds : worker'[k] = Idle
    BY <1>2 DEF Restart
  <2> QED
    BY <2>1, IdleEntry, SeededEntries DEF EntryInv
<1>3. CASE \/ \E o \in Objects, s \in States : CreateObject(o, s) \/ ChangeObject(o, s)
           \/ \E o \in Objects : DeleteObject(o) \/ ReleaseHold(o)
    BY <1>1, <1>3 DEF CreateObject, ChangeObject, DeleteObject, ReleaseHold, stateVars
<1>4. CASE \/ \E ip \in IPs \cup {NoIP} : SetLoadBalancer(ip)
           \/ DeleteConfigMap \/ DeliverConfigMap \/ \E k \in Kinds : Resync(k)
    BY <1>1, <1>4 DEF SetLoadBalancer, DeleteConfigMap, DeliverConfigMap, Resync, stateVars
<1> QED
    BY <1>2, <1>3, <1>4 DEF Environment

\* A worker changes the entry of its own object only, and as a whole.
LEMMA EntryReconcile ==
    ASSUME TypeInv, OwnInv, EntryInv, NEW k \in Kinds, Reconcile(k)
    PROVE  EntryInv'
<1> DEFINE o == worker[k].key
<1>1. CASE GetObject(k)
  <2>1. worker[k].pc = "get" /\ Alone(k) /\ SetStaticRecord(worker[k].ip)
    BY <1>1, GetObjectDoes DEF TypeInv
  <2>2. \/ worker'[k] = Idle
        \/ worker'[k].pc \in {"mutate", "finalize"} /\ worker'[k].rendered = worker[k].rendered
    BY <1>1, GetObjectDoes DEF TypeInv, Read
  <2>3. worker[k].ip \in IPs \cup {NoIP}
    BY <2>1, BusyFields DEF TypeInv
  <2>4. \A p \in Objects : Entry(zone', p) = Entry(zone, p)
    BY <2>1, <2>3, StaticEntries DEF TypeInv
  <2> QED
    BY <2>1, <2>2, <2>4, EntryKept
<1>2. CASE AddFinalizer(k)
  <2>1. UNCHANGED zone /\ ((Goto(k, "refetch")) \/ Retried(k))
    BY <1>2, AddFinalizerDoes
  <2>2. "refetch" \in Steps
    BY DEF Steps
  <2>3. CASE Goto(k, "refetch")
    <3>1. Alone(k) /\ worker'[k].pc = "refetch" /\ worker'[k].rendered = worker[k].rendered
      BY <2>2, <2>3, GotoFields DEF TypeInv
    <3> QED
      BY <2>1, <3>1, EntryKept
  <2>4. CASE Retried(k)
    BY <2>1, <2>4, EntryKept DEF Retried
  <2> QED
    BY <2>1, <2>3, <2>4
<1>3. CASE RefetchObject(k)
  <2>1. /\ UNCHANGED zone
        /\ \/ Alone(k) /\ worker'[k].pc = "mutate" /\ worker'[k].rendered = worker[k].rendered
           \/ Retried(k)
    BY <1>3, RefetchObjectDoes DEF TypeInv, Read
  <2> QED
    BY <2>1, EntryKept DEF Retried
<1>4. CASE MutateZone(k)
  <2>1. /\ worker[k].pc = "mutate" /\ Onward(k, "render") /\ UpdateRecords(o, Said(worker[k]))
        /\ worker'[k].rendered = worker[k].rendered
    BY <1>4, MutateZoneDoes DEF TypeInv
  <2>2. o \in Objects
    BY <2>1, BusyFields DEF TypeInv
  <2>3. /\ Said(worker[k]) \in SUBSET Record /\ KeysOf(Said(worker[k])) \subseteq KeysOfObject[o]
        /\ Said(worker[k]) \in ContentsOfObject[o] \cup {{}}
    BY <2>1, SaidFacts
  <2>4. /\ Entry(zone', o) = Said(worker[k])
        /\ \A p \in Objects \ {o} : Entry(zone', p) = Entry(zone, p)
    BY <2>1, <2>2, <2>3, UpdateEntries DEF TypeInv
  <2>5. \A p \in Objects : Entry(zone', p) \in ContentsOfObject[p] \cup {{}}
    BY <2>2, <2>3, <2>4 DEF EntryInv
  <2>6. \A j \in Kinds \ {k} : worker'[j] = worker[j]
    BY <2>1 DEF Onward, Alone
  <2>7. ASSUME NEW j \in Kinds, worker'[j].pc = "render"
        PROVE  Entry(zone', worker'[j].key) = Said(worker'[j])
    <3>1. CASE j = k
      <4>1. worker'[k].key = o /\ Said(worker'[k]) = Said(worker[k])
        BY <2>1 DEF Onward, Said
      <4> QED
        BY <2>4, <3>1, <4>1
    <3>2. CASE j # k
      <4>1. worker'[j] = worker[j] /\ worker[j].key \in Objects /\ worker[j].key # o
        BY <2>1, <2>6, <2>7, <3>2, DistinctRequests, BusyFields DEF TypeInv
      <4> QED
        BY <2>4, <2>7, <4>1 DEF EntryInv
    <3> QED
      BY <3>1, <3>2
  <2>8. ASSUME NEW j \in Kinds
        PROVE  /\ worker'[j].rendered = worker[j].rendered
               /\ worker'[j].pc \in {"write", "mirror", "release"} => worker'[j] = worker[j]
    BY <2>1, <2>6 DEF Onward
  <2> QED
    BY <2>5, <2>7, <2>8 DEF EntryInv
<1>5. CASE RenderZone(k)
  <2>1. /\ worker[k].pc = "render" /\ Onward(k, "write") /\ worker'[k].rendered = zone
        /\ UNCHANGED zone
    BY <1>5, RenderZoneDoes DEF TypeInv
  <2>2. worker'[k].key = o /\ Said(worker'[k]) = Said(worker[k]) /\ worker'[k].pc = "write"
    BY <2>1 DEF Onward, Said
  <2>3. \A j \in Kinds \ {k} : worker'[j] = worker[j]
    BY <2>1 DEF Onward, Alone
  <2>4. Entry(worker'[k].rendered, worker'[k].key) = Said(worker'[k])
    BY <2>1, <2>2 DEF EntryInv
  <2>5. \A p \in Objects : Entry(worker'[k].rendered, p) \in ContentsOfObject[p] \cup {{}}
    BY <2>1 DEF EntryInv
  <2> QED
    BY <2>1, <2>2, <2>3, <2>4, <2>5 DEF EntryInv
<1>6. CASE WritePrimary(k)
  <2>1. worker[k].pc = "write" /\ UNCHANGED zone
    BY <1>6, WritePrimaryDoes DEF TypeInv
  <2>2. CASE Onward(k, "mirror") /\ worker'[k].rendered = worker[k].rendered
    <3>1. worker'[k].key = o /\ Said(worker'[k]) = Said(worker[k]) /\ worker'[k].pc = "mirror"
      BY <2>2 DEF Onward, Said
    <3>2. \A j \in Kinds \ {k} : worker'[j] = worker[j]
      BY <2>2 DEF Onward, Alone
    <3> QED
      BY <2>1, <2>2, <3>1, <3>2 DEF EntryInv
  <2>3. CASE Retried(k)
    BY <2>1, <2>3, EntryKept DEF Retried
  <2> QED
    BY <1>6, <2>2, <2>3, WritePrimaryDoes DEF TypeInv
<1>7. CASE WriteMirror(k)
  <2>1. worker[k].pc = "mirror" /\ UNCHANGED zone
    BY <1>7, WriteMirrorDoes DEF TypeInv
  <2>2. CASE Onward(k, "release") /\ worker'[k].rendered = worker[k].rendered
    <3>1. worker'[k].key = o /\ Said(worker'[k]) = Said(worker[k]) /\ worker'[k].pc = "release"
      BY <2>2 DEF Onward, Said
    <3>2. \A j \in Kinds \ {k} : worker'[j] = worker[j]
      BY <2>2 DEF Onward, Alone
    <3> QED
      BY <2>1, <2>2, <3>1, <3>2 DEF EntryInv
  <2>3. CASE Alone(k) /\ worker'[k] = Idle
    BY <2>1, <2>3, EntryKept
  <2> QED
    BY <1>7, <2>2, <2>3, WriteMirrorDoes DEF TypeInv
<1>8. CASE ReleaseFinalizer(k)
  <2>1. UNCHANGED zone /\ (worker' = [worker EXCEPT ![k] = Idle] \/ Retried(k))
    BY <1>8, ReleaseFinalizerDoes
  <2>2. Alone(k) /\ worker'[k] = Idle
    BY <2>1, ReturnFields DEF Retried, TypeInv
  <2> QED
    BY <2>1, <2>2, EntryKept
<1>9. CASE CallFails(k)
  <2>1. /\ worker[k].pc # "idle" /\ Retried(k)
        /\ SetStaticRecord(worker[k].ip) \/ UNCHANGED zone
    BY <1>9, CallFailsDoes DEF TypeInv
  <2>2. worker[k].ip \in IPs \cup {NoIP}
    BY <2>1, BusyFields DEF TypeInv
  <2>3. \A p \in Objects : Entry(zone', p) = Entry(zone, p)
    BY <2>1, <2>2, StaticEntries DEF TypeInv
  <2> QED
    BY <2>1, <2>3, EntryKept DEF Retried
<1>10. ASSUME NEW p \in Objects, RefreshNSGlue(k, p) PROVE EntryInv'
  <2>1. Alone(k) /\ worker'[k].pc = "get" /\ worker'[k].rendered = {} /\ UNCHANGED zone
    BY <1>10, RefreshNSGlueDoes DEF TypeInv
  <2> QED
    BY <2>1, EntryKept
<1> QED
    BY <1>1, <1>2, <1>3, <1>4, <1>5, <1>6, <1>7, <1>8, <1>9, <1>10 DEF Reconcile, Work

\* Every step keeps the entries whole.
LEMMA EntryStep == TypeInv /\ OwnInv /\ EntryInv /\ [Next]_vars => EntryInv'
<1>1. EntryInv /\ UNCHANGED vars => EntryInv'
    BY DEF EntryInv, vars
<1> QED
    BY <1>1, EntryEnvironment, EntryReconcile DEF Next

\* They are whole always.
LEMMA EntryAlways == Spec => []EntryInv
    BY EntryInit, EntryStep, TypeAlways, PTL DEF Spec

=============================================================================
