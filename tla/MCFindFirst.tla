----------------------------- MODULE MCFindFirst -----------------------------
(***************************************************************************)
(* FindFirst for TLC: slices with at most MaxHits matches, which is enough *)
(* for a match that must be preferred to a later one, and lets slices be   *)
(* long enough for two rounds of the unrolled loop.                        *)
(***************************************************************************)
EXTENDS FindFirst, FiniteSets

CONSTANT MaxHits    \* bound on the number of matches in a slice

MCInit == Init /\ Cardinality(hits) <= MaxHits

MCSpec == MCInit /\ [][Next]_vars /\ WF_vars(Next)

=============================================================================
