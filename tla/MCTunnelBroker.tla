--------------------------- MODULE MCTunnelBroker ---------------------------
(***************************************************************************)
(* TunnelBroker for TLC: two sessions, either of different processes that  *)
(* want different endpoints, or of one shell that wants one endpoint.      *)
(***************************************************************************)
EXTENDS TunnelBroker, TLC

CONSTANTS s1, s2, o1, o2, e1, e2, c1, c2

NoSession == {}
OneSession == {s1}
TwoSessions == {s1, s2}
TwoOwners == {o1, o2}
TwoSpecs == {e1, e2}
OneChild == {c1}
TwoChildren == {c1, c2}

OwnerOfOne == s1 :> o1
SpecOfOne == s1 :> e1
OwnerOfTwo == s1 :> o1 @@ s2 :> o2
SpecOfTwo == s1 :> e1 @@ s2 :> e2
OwnerOfShared == s1 :> o1 @@ s2 :> o1
SpecOfShared == s1 :> e1 @@ s2 :> e1

\* Children are interchangeable: no action prefers one.
ChildSymmetry == Permutations(TwoChildren)
=============================================================================
