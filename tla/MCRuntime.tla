------------------------------ MODULE MCRuntime ------------------------------
(***************************************************************************)
(* TLC instance of Runtime: two contexts, so that one takes the tracker    *)
(* over from the other and drains its jobs.                                *)
(***************************************************************************)
EXTENDS Runtime, TLC

CONSTANTS c1, c2, p1, p2

MCContexts == {c1, c2}
MCPromises == {p1, p2}
MCSymmetry == Permutations(MCContexts) \union Permutations(MCPromises)
==============================================================================
