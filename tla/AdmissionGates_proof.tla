------------------------ MODULE AdmissionGates_proof ------------------------
(* What the registered admission gates guarantee of a stored index, for     *)
(* every set of bindings, spellings and users.                              *)
EXTENDS AdmissionGates, TLAPS

\* What is stored is an object, and if it exists it has the binding it was
\* created with: comparing with the stored binding says something about its
\* value only when it is well formed.
Stored == stored \in Object
SealedInv == Stored /\ RootBindingSealed

\* rootBindingRawEqual ignores spelling and the difference between an absent
\* and a null binding, and nothing else.
LEMMA RawEqualValue ==
    ASSUME NEW a \in Raw, NEW b \in Raw, rootBindingRawEqual(a, b)
    PROVE  a.value = b.value
BY DEF Raw, NoBinding, NullBinding, rootBindingRawEqual, Empty

\* The empty object is one.
LEMMA NothingIsObject == Nothing \in Object
<1>1. NoBinding \in Raw
  BY DEF Raw
<1>2. "" \in DomainRefs \cup {"", ValidDomainRef}
  OBVIOUS
<1> QED
  BY <1>1, <1>2 DEF Nothing, Object

\* Every request stores an object of the schema.
LEMMA StoredStep == Stored /\ [Next]_vars => Stored'
<1> SUFFICES ASSUME Stored, [Next]_vars PROVE Stored'
  OBVIOUS
<1>1. CASE \E user \in Users \cup {Controller}, obj \in Object : Create(user, obj) \/ Update(user, obj)
  BY <1>1 DEF Stored, Create, Update
<1>2. CASE \E user \in Users \cup {Controller} : Delete(user)
  BY <1>2, NothingIsObject DEF Stored, Delete
<1>3. CASE UNCHANGED vars
  BY <1>3 DEF Stored, vars
<1> QED
  BY <1>1, <1>2, <1>3 DEF Next

\* With the immutability gate registered, the rootBinding of an index is for
\* ever the one it was created with (rootbinding_immutability.go).
THEOREM RootBindingIsSealed ==
    ASSUME "immutability" \in Registered
    PROVE  Spec => []RootBindingSealed
<1>1. Init => SealedInv
  BY NothingIsObject DEF Init, SealedInv, Stored, RootBindingSealed
<1>2. SealedInv /\ [Next]_vars => SealedInv'
  <2> SUFFICES ASSUME SealedInv, [Next]_vars PROVE RootBindingSealed'
    BY StoredStep DEF SealedInv
  <2>1. ASSUME NEW user \in Users \cup {Controller}, NEW obj \in Object, Create(user, obj)
        PROVE  RootBindingSealed'
    BY <2>1 DEF Create, RootBindingSealed
  <2>2. ASSUME NEW user \in Users \cup {Controller}, NEW obj \in Object, Update(user, obj)
        PROVE  RootBindingSealed'
    <3>1. rootBindingRawEqual(stored.rootBinding, obj.rootBinding)
      BY <2>2 DEF Update, Admitted, IndexRequest, EvaluateRootBindingImmutability
    <3>2. stored.rootBinding \in Raw /\ obj.rootBinding \in Raw
      BY DEF SealedInv, Stored, Object
    <3>3. stored.rootBinding.value = obj.rootBinding.value
      BY <3>1, <3>2, RawEqualValue
    <3> QED
      BY <2>2, <3>3 DEF Update, SealedInv, RootBindingSealed
  <2>3. ASSUME NEW user \in Users \cup {Controller}, Delete(user)
        PROVE  RootBindingSealed'
    BY <2>3 DEF Delete, RootBindingSealed
  <2>4. CASE UNCHANGED vars
    BY <2>4 DEF vars, SealedInv, RootBindingSealed
  <2> QED
    BY <2>1, <2>2, <2>3, <2>4 DEF Next
<1>3. SealedInv => RootBindingSealed
  BY DEF SealedInv
<1> QED
  BY <1>1, <1>2, <1>3, PTL DEF Spec

\* With the authorship gate registered, whatever is stored was last written by
\* the LineageController (authorship_gate.go).
THEOREM IndexIsControllerAuthored ==
    ASSUME "authorship" \in Registered
    PROVE  Spec => []ControllerAuthored
<1>1. Init => ControllerAuthored
  BY DEF Init, ControllerAuthored
<1>2. ControllerAuthored /\ [Next]_vars => ControllerAuthored'
  <2> SUFFICES ASSUME ControllerAuthored, [Next]_vars PROVE ControllerAuthored'
    OBVIOUS
  <2>1. ASSUME NEW user \in Users \cup {Controller}, NEW obj \in Object,
               Create(user, obj) \/ Update(user, obj)
        PROVE  ControllerAuthored'
    BY <2>1 DEF Create, Update, ControllerAuthored, Admitted, IndexRequest, EvaluateAuthorshipGate
  <2>2. ASSUME NEW user \in Users \cup {Controller}, Delete(user)
        PROVE  ControllerAuthored'
    BY <2>2 DEF Delete, ControllerAuthored
  <2>3. CASE UNCHANGED vars
    BY <2>3 DEF vars, ControllerAuthored
  <2> QED
    BY <2>1, <2>2, <2>3 DEF Next
<1> QED
  BY <1>1, <1>2, PTL DEF Spec

\* Bindings of one value, in whatever spelling, are equal for the gate; absent
\* and null are.
LEMMA ValueRawEqual ==
    ASSUME NEW a \in Raw, NEW b \in Raw, a.value = b.value
    PROVE  rootBindingRawEqual(a, b)
<1>1. \A raw \in Raw : Empty(raw) <=> raw.value = NoBinding.value
  BY GatesAssumption DEF Raw, NoBinding, NullBinding, Empty
<1> QED
  BY <1>1 DEF rootBindingRawEqual

\* Whichever gates are registered, and whatever has been stored before, they
\* let the LineageController write back the binding it read, in any spelling
\* (rootbinding_immutability.go, authorship_gate.go, domainref_validation.go).
THEOREM RewriteIsAllowed == Spec => []RewriteAllowed
<1>1. Init => Stored
  BY NothingIsObject DEF Init, Stored
<1>2. Stored => RewriteAllowed
  <2> SUFFICES ASSUME Stored, NEW raw \in Raw, raw.value = stored.rootBinding.value
               PROVE  Admitted(IndexRequest("UPDATE", Controller, [stored EXCEPT !.rootBinding = raw]))
    BY DEF RewriteAllowed
  <2> DEFINE new == [stored EXCEPT !.rootBinding = raw]
             req == IndexRequest("UPDATE", Controller, new)
  <2>1. stored.rootBinding \in Raw /\ new.rootBinding = raw
    BY DEF Stored, Object
  <2> HIDE DEF new
  <2>2. /\ req.operation = "UPDATE" /\ req.user = Controller
        /\ req.old.rootBinding = stored.rootBinding /\ req.new.rootBinding = raw
    BY <2>1 DEF IndexRequest
  <2>3. rootBindingRawEqual(stored.rootBinding, raw)
    BY <2>1, ValueRawEqual
  <2> HIDE DEF req
  <2>4. Admitted(req)
    BY <2>2, <2>3
    DEF Admitted, EvaluateRootBindingImmutability, EvaluateAuthorshipGate, EvaluateDomainRefValidation
  <2> QED
    BY <2>4 DEF req, new
<1> QED
  BY <1>1, <1>2, StoredStep, PTL DEF Spec

=============================================================================
