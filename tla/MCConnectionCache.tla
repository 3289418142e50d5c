------------------------- MODULE MCConnectionCache -------------------------
(***************************************************************************)
(* Small instances of ConnectionCache for TLC: hosts, tasks and            *)
(* connections are interchangeable.                                        *)
(***************************************************************************)
EXTENDS ConnectionCache, TLC

Symmetry == Permutations(Hosts) \cup Permutations(Tasks) \cup Permutations(Conns)
=============================================================================
