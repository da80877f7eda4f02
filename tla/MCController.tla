---------------------------- MODULE MCController ----------------------------
(* Two sessions of this owner, and somebody else's. *)
EXTENDS Controller, TLC

CONSTANTS s1, s2

TheSessions == {s1, s2}
SessionSymmetry == Permutations(TheSessions)
=============================================================================
