---------------------------- MODULE MCLifecycle ----------------------------
(***************************************************************************)
(* Small instances of Lifecycle for TLC.                                   *)
(***************************************************************************)
EXTENDS Lifecycle

CONSTANTS n1, n2, n3

MCNodes == {n1, n2, n3}

MCAddrs == 1..3

(* A cluster of the nodes in P, led by n1.  n3 has the address a, which may be
   that of n2: it is a restart of n2, or announces the address by mistake. *)
Formed(P, a) ==
    /\ addr = [n \in Nodes |-> CASE n = n1 -> 1 [] n = n2 -> 2 [] n = n3 -> a]
    /\ pc = [n \in Nodes |-> IF n \in P THEN "running" ELSE "off"]
    /\ on = P
    /\ seed = [n \in Nodes |-> None]
    /\ target = [n \in Nodes |-> None]
    /\ answer = [n \in Nodes |-> None]
    /\ inbox = [n \in Nodes |-> {}]
    /\ busy = [n \in Nodes |-> None]
    /\ leader = IF P = {} THEN None ELSE n1
    /\ believes = [n \in Nodes |-> IF n \in P THEN n1 ELSE None]
    /\ voters = P /\ learners = {} /\ change = None

(* Two nodes of which one may crash, or none and no crash. *)
MCInit ==
    \/ \E a \in 2..3 : Formed({n1, n2}, a) /\ crashes = 0
    \/ Formed({}, 2) /\ crashes = MaxCrashes

MCSpec == MCInit /\ [][Next]_vars /\ Fairness
=============================================================================
