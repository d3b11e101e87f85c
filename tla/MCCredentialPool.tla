-------------------------- MODULE MCCredentialPool --------------------------
(* Instances of CredentialPool for TLC. *)
EXTENDS CredentialPool

CONSTANTS a, b, a2, a3, c1, c2, c3, r1

\* Names whose numbered variants nobody else uses, as _unique_target tries them.
MCVariants ==
  [n \in Names |-> IF n = a THEN <<a, a2>> ELSE <<n>>]

\* One archive name for each file, where no name is ever taken twice.
MCPlain == [n \in Names |-> <<n>>]

\* Two active files, and one active file.
MCTwo == [n \in Names |-> IF n = a THEN c1 ELSE IF n = b THEN c2 ELSE None]
MCOne == [n \in Names |-> IF n = a THEN c1 ELSE None]

\* The names tried for a.json include a.2.json, a file of its own.
MCTwinVariants ==
  [n \in Names |-> IF n = a THEN <<a, a2, a3>> ELSE <<n>>]

\* a.json and a.2.json side by side.
MCTwins == [n \in Names |-> IF n = a THEN c1 ELSE IF n = a2 THEN c2 ELSE None]
=============================================================================
