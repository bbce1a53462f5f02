---------------------------- MODULE ZoneDirectory ----------------------------
(***************************************************************************)
(* What the DNS projection promises a reader of the zone, without caches,  *)
(* workers, queues or failures: a directory of objects.  Each object has   *)
(* an entry, which is empty or one whole set of records that a state of    *)
(* the object gives, never a mixture of two; and an object is listed only  *)
(* while it is registered.  DSNS implements it.                            *)
(***************************************************************************)
CONSTANTS
    Objects,
    Contents  \* [Objects -> the sets of records a state of the object gives]

VARIABLES
    registered, \* [Objects -> BOOLEAN]
    entries     \* [Objects -> set of records]

vars == <<registered, entries>>

Init ==
    /\ registered = [o \in Objects |-> FALSE]
    /\ entries = [o \in Objects |-> {}]

Register(o) ==
    /\ ~registered[o]
    /\ registered' = [registered EXCEPT ![o] = TRUE]
    /\ UNCHANGED entries

\* An object leaves the register once nothing is listed of it.
Deregister(o) ==
    /\ registered[o]
    /\ entries[o] = {}
    /\ registered' = [registered EXCEPT ![o] = FALSE]
    /\ UNCHANGED entries

\* The directory is replaced as a whole, and changes for registered objects.
Publish ==
    /\ DOMAIN entries' = Objects
    /\ \A o \in Objects :
          entries'[o] # entries[o] => registered[o] /\ entries'[o] \in Contents[o] \cup {{}}
    /\ UNCHANGED registered

Next == Publish \/ \E o \in Objects : Register(o) \/ Deregister(o)

Spec == Init /\ [][Next]_vars

=============================================================================
