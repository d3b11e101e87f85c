-------------------------- MODULE MCReleaseEndpoint --------------------------
(* Instances of ReleaseEndpoint for TLC. *)
EXTENDS ReleaseEndpoint

CONSTANTS a1, a2, a3, x2

\* One artifact per version, a second signed artifact for version 2, and one
\* that is signed as version 3 but reports version 2.
MCSigned == {<<1, a1>>, <<2, a2>>, <<2, x2>>, <<3, a3>>, <<3, a2>>}

MCEmbeds == [a \in Artifacts |-> IF a = a1 THEN 1 ELSE IF a = a3 THEN 3 ELSE 2]

MCIndex == [v \in Versions |-> IF v = 1 THEN a1 ELSE IF v = 2 THEN a2 ELSE a3]
=============================================================================
