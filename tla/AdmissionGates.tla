--------------------------- MODULE AdmissionGates ---------------------------
(***************************************************************************)
(* The admission webhook of seam-core: three pure gates, their handlers,   *)
(* and one InfrastructureLineageIndex that the API server stores when      *)
(* every registered gate allows the request.                               *)
(*                                                                         *)
(* spec.rootBinding reaches the gate as raw JSON: absent, null, or a value *)
(* in one of several spellings (order of the fields, white space).         *)
(***************************************************************************)
EXTENDS Integers, FiniteSets

CONSTANTS
    Bindings,    \* values of rootBinding
    Spellings,   \* spellings of the JSON of one value
    DomainRefs,  \* values of domainRef other than "" and the valid one
    Users,       \* user names other than the LineageController's
    Registered   \* gates main registers

Controller == "system:serviceaccount:seam-system:lineage-controller"
ValidDomainRef == "infrastructure.core.ontai.dev"
ILIKind == "InfrastructureLineageIndex"

NoBinding == [json |-> "absent", value |-> "none", spelling |-> "none"]
NullBinding == [NoBinding EXCEPT !.json = "null"]
Raw == {NoBinding, NullBinding}
         \cup [json : {"object"}, value : Bindings, spelling : Spellings]

ASSUME GatesAssumption ==
    /\ Registered \subseteq {"immutability", "authorship", "domainRef"}
    /\ NoBinding.value \notin Bindings

\* An object on its way to or in the API server.
Object == [rootBinding : Raw, domainRef : DomainRefs \cup {"", ValidDomainRef}]
Nothing == [rootBinding |-> NoBinding, domainRef |-> ""]

VARIABLES
    stored, \* the object, Nothing when there is none
    exists,
    author, \* history: who wrote the stored object last
    sealed  \* history: the binding the object was created with

vars == <<stored, exists, author, sealed>>

-----------------------------------------------------------------------------
Empty(raw) == raw.json \in {"absent", "null"}

\* Mutant: a binding that is missing on one side is not compared.
RawEqualLenient(a, b) == Empty(a) \/ Empty(b) \/ a.value = b.value

\* Mutant: the bytes are compared.
RawEqualBytes(a, b) == a = b

\* rootBindingRawEqual: both empty, or the same value whatever the spelling.
rootBindingRawEqual(a, b) ==
    \/ Empty(a) /\ Empty(b)
    \/ ~Empty(a) /\ ~Empty(b) /\ a.value = b.value

EvaluateRootBindingImmutability(req) ==
    \/ req.kind # ILIKind
    \/ req.operation # "UPDATE"
    \/ rootBindingRawEqual(req.old.rootBinding, req.new.rootBinding)

\* Mutant: only CREATE is gated.
EvaluateAuthorshipOfCreate(req) ==
    \/ req.kind # ILIKind
    \/ req.operation # "CREATE"
    \/ req.user = Controller

EvaluateAuthorshipGate(req) ==
    \/ req.kind # ILIKind
    \/ req.operation = "DELETE"
    \/ req.user = Controller

EvaluateDomainRefValidation(req) ==
    \/ req.kind # ILIKind
    \/ req.operation # "CREATE"
    \/ req.new.domainRef \in {"", ValidDomainRef}

\* The API server asks every gate that main registered.
Admitted(req) ==
    /\ "immutability" \in Registered => EvaluateRootBindingImmutability(req)
    /\ "authorship" \in Registered => EvaluateAuthorshipGate(req)
    /\ "domainRef" \in Registered => EvaluateDomainRefValidation(req)

-----------------------------------------------------------------------------
Init ==
    /\ stored = Nothing
    /\ exists = FALSE
    /\ author = "none"
    /\ sealed = "none"

IndexRequest(operation, user, obj) ==
    [kind |-> ILIKind, operation |-> operation, user |-> user, old |-> stored, new |-> obj]

Create(user, obj) ==
    /\ ~exists
    /\ Admitted(IndexRequest("CREATE", user, obj))
    /\ stored' = obj
    /\ exists' = TRUE
    /\ author' = user
    /\ sealed' = obj.rootBinding.value

Update(user, obj) ==
    /\ exists
    /\ Admitted(IndexRequest("UPDATE", user, obj))
    /\ stored' = obj
    /\ author' = user
    /\ UNCHANGED <<exists, sealed>>

Delete(user) ==
    /\ exists
    /\ Admitted(IndexRequest("DELETE", user, Nothing))
    /\ stored' = Nothing
    /\ exists' = FALSE
    /\ author' = "none"
    /\ sealed' = "none"

Next ==
    \/ \E user \in Users \cup {Controller}, obj \in Object : Create(user, obj) \/ Update(user, obj)
    \/ \E user \in Users \cup {Controller} : Delete(user)

Spec == Init /\ [][Next]_vars

-----------------------------------------------------------------------------
(* Properties. *)

\* Through any number of updates, re-spelled, emptied or filled in, the
\* binding is the one the index was created with.
RootBindingSealed == exists => stored.rootBinding.value = sealed

\* What is stored was last written by the LineageController.
ControllerAuthored == exists => author = Controller

\* The gates never stop the controller from writing back the binding it read,
\* in whatever spelling it is serialised the second time.
RewriteAllowed ==
    exists => \A raw \in Raw :
        raw.value = stored.rootBinding.value =>
            Admitted(IndexRequest("UPDATE", Controller, [stored EXCEPT !.rootBinding = raw]))

=============================================================================
