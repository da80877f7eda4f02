-------------------------- MODULE IdentityWitnesses --------------------------
(***************************************************************************)
(* What the adapter keeps of who was seen on the receiver, so that it can  *)
(* answer whether a scope was taken over: src/tellyq/cast_backend.py       *)
(* keeps at most two observations for each identity field instead of all.  *)
(***************************************************************************)
EXTENDS Naturals

CONSTANTS
    Identities,       \* values of the identity fields
    None              \* Python's None

Fields == {"session", "application", "content"}

Identity == [Fields -> Identities \cup {None}]

\* An observation, as far as the takeover query reads it; `order' is its instant.
Sighting == [order : Nat, ids : Identity]

\* PlaybackScope, as far as the query reads it.
Scope == [generation : Nat, started : Nat, ids : [Fields -> Identities]]

\* Somebody else was seen since the scope began.
TakenOver(scope, sightings) ==
    \E e \in sightings, f \in Fields :
        /\ e.order > scope.started
        /\ e.ids[f] # None
        /\ e.ids[f] # scope.ids[f]

Later(S, e, f) == {d \in S : d.order > e.order /\ d.ids[f] # None}

\* e is the last sighting of its value of f, and at most one other value came later.
Witnesses(S, e, f) ==
    /\ e.ids[f] # None
    /\ \A d \in Later(S, e, f) : d.ids[f] # e.ids[f]
    /\ \A c, d \in Later(S, e, f) : c.ids[f] = d.ids[f]

\* Mutant of Remembered: only the last value of each field is kept.
LastOnly(S) ==
    {e \in S : \E f \in Fields : e.ids[f] # None /\ Later(S, e, f) = {}}

\* _remember_identity()
Remembered(S) == {e \in S : \E f \in Fields : Witnesses(S, e, f)}
=============================================================================
