------------------------- MODULE MCLineageRegistry -------------------------
(* Instances of LineageRegistry for TLC. *)
EXTENDS LineageRegistry, TLC

CONSTANTS u1, u2, n1, n2, k1, k2, i1, i2, alice

Tracks(i, a) == [ili |-> i, inEnum |-> TRUE, actor |-> a]

\* Two objects, of one kind or of two, tracked by the same index.
NameOfTwo == u1 :> n1 @@ u2 :> n2
KindOfOneKind == n1 :> k1 @@ n2 :> k1
KindOfTwoKinds == n1 :> k1 @@ n2 :> k2
LabelsTwo == u1 :> Tracks(i1, alice) @@ u2 :> Tracks(i1, alice)

\* An object that is deleted and created again under the same name: by the
\* same principal, or without one and with a rationale the CRD refuses.
NameOfRecreated == u1 :> n1 @@ u2 :> n1
KindOfRecreated == n1 :> k1
LabelsRefused == u1 :> Tracks(i1, alice) @@ u2 :> [Tracks(i1, NoPrincipal) EXCEPT !.inEnum = FALSE]

=============================================================================
