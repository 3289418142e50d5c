------------------------- MODULE MCReplicatedStore -------------------------
(***************************************************************************)
(* Small instances of ReplicatedStore for TLC: three nodes of which any    *)
(* two decide, two clients at different nodes, one map with one key.       *)
(***************************************************************************)
EXTENDS ReplicatedStore, StoreRefinement, TLC

CONSTANTS n1, n2, n3, c1, c2, a, k, v, w

MCNodes == {n1, n2, n3}
MCQuorums == {Q \in SUBSET MCNodes : Cardinality(Q) = 2}
MCHome == c1 :> n1 @@ c2 :> n2
MCHomeOfOne == c1 :> n1

(* The two values are alike. *)
Symmetry == Permutations({v, w})

InsertReq(x) == [op |-> "Insert", name |-> a, key |-> k, value |-> x]
InsertMultiReq(x) == [op |-> "InsertMulti", name |-> a, key |-> k, value |-> x]
GetReq(consistency) == [op |-> "Get", name |-> a, key |-> k, consistency |-> consistency]
GetMultiReq(consistency) == [op |-> "GetMulti", name |-> a, key |-> k, consistency |-> consistency]
ContainsReq(consistency) == [op |-> "ContainsKey", name |-> a, key |-> k, consistency |-> consistency]
LenReq(consistency) == [op |-> "Len", name |-> a, consistency |-> consistency]
RemoveReq == [op |-> "Remove", name |-> a, key |-> k]
RemoveMultiReq(x) == [op |-> "RemoveMulti", name |-> a, key |-> k, value |-> x]
ClearReq == [op |-> "Clear", name |-> a]

(* Instances of Requests *)
InsertRead == {InsertReq(v), InsertReq(w), GetReq("ReadIndex"), LenReq("Stale")}
InsertReadRemove == {InsertMultiReq(v), GetMultiReq("LeaseRead"), ContainsReq("LeaderStale"),
                     RemoveMultiReq(v)}
InsertRemove == {InsertReq(v), RemoveReq}
InsertClear == {InsertReq(v), ClearReq}

(* One home leads and the other follows at first. *)
InitFromN1 == Init /\ leader = n1

SpecFromN1 == InitFromN1 /\ [][Next]_vars
FairSpecFromN1 == SpecFromN1 /\ Fairness
=============================================================================
