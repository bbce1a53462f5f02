------------------------------ MODULE DSNSNotify ------------------------------
(***************************************************************************)
(* DSNS with notification sinks: Apply ends with SinkRegistry.Notify,      *)
(* which starts one goroutine per sink and returns.  A sink may take the   *)
(* event, fail, run into the five-second timeout, or never come back; the  *)
(* goroutines of a process die with it.                                    *)
(*                                                                         *)
(* inflight is the set of the events that at least one goroutine carries   *)
(* to a sink: when a goroutine ends, another one may still carry an equal  *)
(* event.                                                                  *)
(***************************************************************************)
EXTENDS DSNS

CONSTANTS
    Sinks,      \* the registered NotificationSinks
    Responsive, \* the sinks that take an event they are offered again and again
    CategoryOf, \* [Kinds -> category]: categoryForKind
    ContextOf,  \* [Objects -> cluster]: clusterContextForNamespace
    SeverityOf  \* [Objects -> [States -> severity]]: severityForObject

ASSUME SinksAssumption == Responsive \subseteq Sinks

VARIABLES
    inflight,  \* SUBSET (Sinks \X Events)
    latest,    \* [Responsive -> [Objects -> the event about it that was taken last]]
    announced  \* history: [Objects -> operation of the last event about it]

notifyVars == <<inflight, latest, announced>>
allVars == <<vars, notifyVars>>

-----------------------------------------------------------------------------
DefaultTTL == 300

\* One line per record; no derived record has a TTL of its own.
recordStrings(records) == {[key |-> r.key, ttl |-> DefaultTTL, value |-> r.value] : r \in records}

DSNSEvent(o, operation, records, severity) ==
    [source |-> o, category |-> CategoryOf[KindOf[o]], context |-> ContextOf[o],
     operation |-> operation, records |-> records, severity |-> severity]

updateEvent(o, s) == DSNSEvent(o, "updated", recordStrings(Derive[o][s]), SeverityOf[o][s])
deletionEvent(o) == DSNSEvent(o, "deleted", {}, "informational")

Events == {updateEvent(o, s) : o \in Objects, s \in States} \cup {deletionEvent(o) : o \in Objects}
NoEvent(o) == DSNSEvent(o, "none", {}, "informational")

\* The event that Reconcile hands to Apply.
EventOf(w) == IF w.op = "update" THEN updateEvent(w.key, w.copy.state) ELSE deletionEvent(w.key)

\* Mutant: Notify returns when every sink has answered.
NotifyWaits(event) ==
    /\ inflight = {}
    /\ inflight' = {<<s, event>> : s \in Sinks}
    /\ announced' = [announced EXCEPT ![event.source] = event.operation]
    /\ UNCHANGED latest

\* Mutant: an event that repeats the last one is dropped.
NotifyChanges(event) ==
    /\ inflight' = IF announced[event.source] = event.operation THEN inflight
                   ELSE inflight \cup {<<s, event>> : s \in Sinks}
    /\ announced' = [announced EXCEPT ![event.source] = event.operation]
    /\ UNCHANGED latest

\* SinkRegistry.Notify.
Notify(event) ==
    /\ inflight' = inflight \cup {<<s, event>> : s \in Sinks}
    /\ announced' = [announced EXCEPT ![event.source] = event.operation]
    /\ UNCHANGED latest

\* Apply notifies once both ConfigMaps are written; nothing else does.
NotifyingWork(k) ==
    /\ Work(k)
    /\ IF worker[k].pc = "mirror" THEN Notify(EventOf(worker[k])) ELSE UNCHANGED notifyVars

\* A goroutine ends.
EndNotify(g) == inflight' \in {inflight, inflight \ {g}}

SinkAccepts(s, event) ==
    /\ <<s, event>> \in inflight
    /\ EndNotify(<<s, event>>)
    /\ latest' = IF s \in Responsive THEN [latest EXCEPT ![s][event.source] = event] ELSE latest
    /\ UNCHANGED <<vars, announced>>

\* An error or the timeout, which is logged.
SinkFails(s, event) ==
    /\ <<s, event>> \in inflight
    /\ EndNotify(<<s, event>>)
    /\ UNCHANGED <<vars, latest, announced>>

NotifyingRestart == Restart /\ inflight' = {} /\ UNCHANGED <<latest, announced>>

-----------------------------------------------------------------------------
NotifyInit ==
    /\ Init
    /\ inflight = {}
    /\ latest = [s \in Responsive |-> [o \in Objects |-> NoEvent(o)]]
    /\ announced = [o \in Objects |-> "none"]

Silent ==
    \/ \E o \in Objects, s \in States : CreateObject(o, s) \/ ChangeObject(o, s)
    \/ \E o \in Objects : DeleteObject(o) \/ ReleaseHold(o)
    \/ \E ip \in IPs \cup {NoIP} : SetLoadBalancer(ip)
    \/ DeleteConfigMap \/ DeliverConfigMap
    \/ \E k \in Kinds : Resync(k) \/ CallFails(k) \/ \E o \in Objects : RefreshNSGlue(k, o)

NotifyNext ==
    \/ Silent /\ UNCHANGED notifyVars
    \/ NotifyingRestart
    \/ \E k \in Kinds : NotifyingWork(k)
    \/ \E s \in Sinks, event \in Events : SinkAccepts(s, event) \/ SinkFails(s, event)

NotifySpec == NotifyInit /\ [][NotifyNext]_allVars

\* As in DSNS; besides, a responsive sink that is offered an event again and
\* again takes it.  The other sinks owe nothing: they may hang for good.
NotifyFairness ==
    /\ WF_allVars(DeliverConfigMap /\ UNCHANGED notifyVars)
    /\ \A k \in Kinds :
        /\ WF_allVars(Resync(k) /\ UNCHANGED notifyVars)
        /\ WF_allVars(NotifyingWork(k))
        /\ SF_allVars(NotifyingWork(k) /\ worker[k].pc = "mirror" /\ MirrorWritten(k))
        /\ \A o \in Objects : SF_allVars(RefreshNSGlue(k, o) /\ UNCHANGED notifyVars)
    /\ \A s \in Responsive, event \in Events : SF_allVars(SinkAccepts(s, event))

NotifyFairSpec == NotifySpec /\ NotifyFairness

-----------------------------------------------------------------------------
(* Properties. *)

\* "Sinks are called concurrently and never block or error the reconcile
\* path": whatever the sinks do, hanging for good included, DSNS takes the
\* steps it takes without them, in the same order and under the same fairness.
SinksNeverBlock == FairSpec

\* "DerivedRecords contains the DNS record strings written to the zone file
\* for this event": when Apply notifies, what it wrote of the object is what
\* the event says, and nothing of it for a deletion.
EventsAccurate ==
    \A k \in Kinds : worker[k].pc = "mirror" =>
        EventOf(worker[k]).records =
            recordStrings({r \in worker[k].rendered : r.key \in KeysOfObject[worker[k].key]})

\* An object that was announced is protected by the finalizer until its
\* deletion was announced: no crash or conflict lets it go without an event.
DeletionAnnounced ==
    \A o \in Objects : announced[o] = "updated" => object[o].finalizer

\* Events are lost with a process and with a failed sink, but the records of
\* an object that stays are announced again and again: a responsive sink gets
\* to know them.
EventuallyAnnounced ==
    \A o \in Objects, s \in States, sink \in Responsive :
        <>[](object[o].exists /\ ~object[o].deleting /\ object[o].state = s)
            => []<>(latest[sink][o] = updateEvent(o, s))

=============================================================================
