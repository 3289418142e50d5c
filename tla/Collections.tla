---------------------------- MODULE Collections ----------------------------
(***************************************************************************)
(* The replicated data of a node and the requests on it: StateMachineData, *)
(* the read and remove methods of StateMachine and the per-entry part of   *)
(* RaftStateMachine::apply (src/src/raft/state.rs), and the request and    *)
(* response enums (src/src/connection/message.rs, src/src/raft/mod.rs).    *)
(*                                                                         *)
(* A HashMap is a total function in which an absent key has the value None *)
(* (maps) or {} (multi-maps).  A map that was never created and an empty   *)
(* one answer every request alike, and so do a multi-map key that was      *)
(* never inserted and one whose last value was removed.                    *)
(***************************************************************************)
EXTENDS Naturals, FiniteSets

CONSTANTS
    Names,   \* names of maps and multi-maps
    Keys,    \* serialized keys
    Values,  \* serialized values
    None     \* Rust's Option::None

(* The keys of a map can be counted, as len does. *)
ASSUME CollectionsAssumption ==
    /\ \A K \in SUBSET Keys : Cardinality(K) \in Nat
    /\ None \notin Values

Option == Values \cup {None}

Data == [maps : [Names -> [Keys -> Option]],
         multi_maps : [Names -> [Keys -> SUBSET Values]]]

EmptyMap == [k \in Keys |-> None]

EmptyData == [maps |-> [n \in Names |-> EmptyMap],
              multi_maps |-> [n \in Names |-> [k \in Keys |-> {}]]]

-----------------------------------------------------------------------------
(* Requests *)

ReadConsistency == {"Stale", "LeaderStale", "LeaseRead", "ReadIndex"}

(* Requests that become log entries (RaftRequest). *)
LogRequests ==
    [op : {"Insert", "InsertMulti"}, name : Names, key : Keys, value : Values]
        \cup [op : {"Clear"}, name : Names]

(* Requests answered from the state machine without changing it. *)
ReadRequests ==
    [op : {"ContainsKey", "Get", "GetMulti"}, name : Names, key : Keys,
     consistency : ReadConsistency]
        \cup [op : {"Len"}, name : Names, consistency : ReadConsistency]

(* Requests that change the state machine of the node that serves them. *)
RemoveRequests ==
    [op : {"Remove"}, name : Names, key : Keys]
        \cup [op : {"RemoveMulti"}, name : Names, key : Keys, value : Values]

RequestBody == LogRequests \cup ReadRequests \cup RemoveRequests

-----------------------------------------------------------------------------
(* Operations on the data *)

(* The effect of one log entry on the data. *)
ApplyRequest(d, r) ==
    CASE r.op = "Insert"      -> [d EXCEPT !.maps[r.name][r.key] = r.value]
      [] r.op = "InsertMulti" -> [d EXCEPT !.multi_maps[r.name][r.key] = @ \cup {r.value}]
      [] r.op = "Clear"       -> [d EXCEPT !.maps[r.name] = EmptyMap]

(* The RaftResponse of one log entry applied to data d: insert returns the
   old value, insert_multi whether the value is new. *)
ApplyResponse(d, r) ==
    CASE r.op = "Insert"      -> d.maps[r.name][r.key]
      [] r.op = "InsertMulti" -> r.value \notin d.multi_maps[r.name][r.key]
      [] r.op = "Clear"       -> None

(* contains_key, get_with_lock, get_with_lock_multi and map_len. *)
ReadResponse(d, r) ==
    CASE r.op = "ContainsKey" -> d.maps[r.name][r.key] # None
      [] r.op = "Get"         -> d.maps[r.name][r.key]
      [] r.op = "GetMulti"    -> d.multi_maps[r.name][r.key]
      [] r.op = "Len"         -> Cardinality({k \in Keys : d.maps[r.name][k] # None})

(* remove and remove_multi_value. *)
RemoveFrom(d, r) ==
    CASE r.op = "Remove"      -> [d EXCEPT !.maps[r.name][r.key] = None]
      [] r.op = "RemoveMulti" -> [d EXCEPT !.multi_maps[r.name][r.key] = @ \ {r.value}]

RemoveResponse(d, r) ==
    CASE r.op = "Remove"      -> d.maps[r.name][r.key]
      [] r.op = "RemoveMulti" -> r.value \in d.multi_maps[r.name][r.key]

(* The Response variant handle_message answers r with. *)
ResponseVariant(r) ==
    CASE r.op \in {"Insert", "InsertMulti", "Clear"} -> "ClientWrite"
      [] OTHER -> r.op

(* The Response variant the Client method that sent r accepts. *)
ExpectedVariant(r) ==
    CASE r.op \in {"Insert", "InsertMulti"} -> "ClientWrite"
      [] OTHER -> r.op
=============================================================================
