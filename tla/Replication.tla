---------------------------- MODULE Replication ----------------------------
(***************************************************************************)
(* How a leader brings one follower up to date: the calls of openraft's    *)
(* replication task as the network makes them (src/src/raft/network.rs,    *)
(* Client::append_entries), the server's reading of a request              *)
(* (src/src/connection/server.rs) and the handling of Append in main_loop  *)
(* (src/src/cluster.rs).                                                   *)
(*                                                                         *)
(* An entry is described by its size.  openraft sends the entries that the *)
(* follower does not have, at most MaxBatch in one request, again and      *)
(* again until the request succeeds; it builds a snapshot every now and    *)
(* then and purges the log up to it but for the last Keep entries; where   *)
(* entries are purged it sends the snapshot.  Only the entries' indices    *)
(* count, conflicts between logs are openraft's business.                  *)
(***************************************************************************)
EXTENDS Integers, Sequences, Functions

CONSTANTS
    Sizes,          \* sizes of entries
    Overhead,       \* what an Append request adds to its entries
    Limit,          \* the limit of handle_request
    MaxBatch,       \* openraft: max_payload_entries
    SnapshotEvery,  \* openraft: snapshot_policy
    Keep,           \* openraft: max_in_snapshot_log_to_keep
    MaxLog,         \* bound on the length of the log
    MaxLost,        \* bound on the number of requests and answers lost
    Nothing

ASSUME ReplicationAssumption ==
    /\ Sizes \subseteq Nat \ {0}
    /\ {Overhead, Limit, MaxBatch, SnapshotEvery, Keep, MaxLog, MaxLost} \subseteq Nat
    /\ MaxBatch > 0 /\ SnapshotEvery > 0

VARIABLES
    log,        \* the leader's entries since the beginning
    purged,     \* number of entries purged from it
    snapshot,   \* number of entries in the last snapshot
    matched,    \* openraft: entries the follower is known to have
    stream,     \* the replication task: "ready", "calling" or "panicked"
    request,    \* the Append request under way
    reply,      \* its answer under way
    late,       \* requests that their caller no longer waits for
    follower,   \* the follower's entries
    lost        \* number of losses so far

leaderVars == <<log, purged, snapshot>>
repVars == <<leaderVars, matched, stream, request, reply, late, follower, lost>>

Size(entries) == SumFunction(entries)

RepInit ==
    /\ log = << >>
    /\ purged = 0
    /\ snapshot = 0
    /\ matched = 0
    /\ stream = "ready"
    /\ request = Nothing
    /\ reply = Nothing
    /\ late = {}
    /\ follower = << >>
    /\ lost = 0

-----------------------------------------------------------------------------
(* The leader's log *)

(* A write has passed handle_request, so its entry is within the limit. *)
Write(size) ==
    /\ Len(log) < MaxLog /\ size <= Limit
    /\ log' = Append(log, size)
    /\ UNCHANGED <<purged, snapshot, matched, stream, request, reply, late, follower, lost>>

BuildSnapshot ==
    /\ Len(log) - snapshot >= SnapshotEvery
    /\ snapshot' = Len(log)
    /\ purged' = IF Len(log) > Keep + purged THEN Len(log) - Keep ELSE purged
    /\ UNCHANGED <<log, matched, stream, request, reply, late, follower, lost>>

-----------------------------------------------------------------------------
(* The replication task and Network *)

(* The entries the follower is not known to have, as far as one request goes. *)
NextRequest ==
    LET last == IF matched + MaxBatch < Len(log) THEN matched + MaxBatch ELSE Len(log)
    IN  [prev |-> matched, entries |-> SubSeq(log, matched + 1, last)]

AppendEntries ==
    /\ stream = "ready" /\ purged <= matched /\ matched < Len(log)
    /\ stream' = "calling"
    /\ request' = NextRequest
    /\ UNCHANGED <<leaderVars, matched, reply, late, follower, lost>>

(* install_snapshot is todo!(): the task panics. *)
InstallSnapshot ==
    /\ stream = "ready" /\ matched < purged
    /\ stream' = "panicked"
    /\ UNCHANGED <<leaderVars, matched, request, reply, late, follower, lost>>

(* perform_raft_action returns a result. *)
Succeeds ==
    /\ stream = "calling" /\ reply # Nothing /\ reply.ok
    /\ stream' = "ready"
    /\ matched' = reply.end
    /\ reply' = Nothing
    /\ UNCHANGED <<leaderVars, request, late, follower, lost>>

(* perform_raft_action returns an error; openraft tries again. *)
Fails ==
    /\ stream = "calling" /\ reply # Nothing /\ ~reply.ok
    /\ stream' = "ready"
    /\ reply' = Nothing
    /\ UNCHANGED <<leaderVars, matched, request, late, follower, lost>>

(* Mutant: the call has no timeout. *)
NoTimeout == stream = "calling" /\ FALSE /\ UNCHANGED repVars

(* soft_ttl is over: the request, or its answer, is lost or late, and a late
   request is still handled. *)
TimesOut ==
    /\ stream = "calling"
    /\ stream' = "ready"
    /\ request' = Nothing /\ reply' = Nothing
    /\ \/ request = Nothing /\ reply = Nothing /\ UNCHANGED <<late, lost>>
       \/ /\ request # Nothing /\ lost < MaxLost
          /\ late' = late \cup {request}
          /\ lost' = lost + 1
    /\ UNCHANGED <<leaderVars, matched, follower>>

-----------------------------------------------------------------------------
(* The follower *)

(* handle_request reads at most Limit bytes. *)
Fits(r) == Size(r.entries) + Overhead <= Limit

(* If there are more, it drops the stream, and the client cannot read an
   answer. *)
TooLarge ==
    /\ request # Nothing /\ ~Fits(request)
    /\ reply' = [ok |-> FALSE, end |-> request.prev]
    /\ request' = Nothing
    /\ UNCHANGED <<leaderVars, matched, stream, late, follower, lost>>

(* Mutant: the entries are appended wherever the log ends. *)
AppendedAtEnd(r) == follower \o r.entries

(* raft.append_entries: the entries follow the one before them; those that are
   already there stay. *)
Appended(r) ==
    IF Len(follower) >= r.prev + Len(r.entries) THEN follower
    ELSE SubSeq(follower, 1, r.prev) \o r.entries

(* Mutant: the answer counts the follower's entries and the request's. *)
AnswerSum ==
    /\ request # Nothing /\ Fits(request)
    /\ follower' = Appended(request)
    /\ reply' = [ok |-> TRUE, end |-> Len(follower) + Len(request.entries)]
    /\ request' = Nothing
    /\ UNCHANGED <<leaderVars, matched, stream, late, lost>>

(* handle_message of Append, and the answer. *)
HandleAppend ==
    /\ request # Nothing /\ Fits(request)
    /\ follower' = Appended(request)
    /\ reply' = [ok |-> TRUE, end |-> request.prev + Len(request.entries)]
    /\ request' = Nothing
    /\ UNCHANGED <<leaderVars, matched, stream, late, lost>>

(* The same when nobody waits for the answer. *)
HandleLate ==
    \E r \in late :
        /\ late' = late \ {r}
        /\ follower' = IF Fits(r) THEN Appended(r) ELSE follower
        /\ UNCHANGED <<leaderVars, matched, stream, request, reply, lost>>

(* A request or an answer is lost. *)
Lose ==
    /\ lost < MaxLost /\ (request # Nothing \/ reply # Nothing)
    /\ request' = Nothing /\ reply' = Nothing
    /\ lost' = lost + 1
    /\ UNCHANGED <<leaderVars, matched, stream, late, follower>>

Network == AppendEntries \/ InstallSnapshot \/ Succeeds \/ Fails \/ TimesOut
Server == TooLarge \/ HandleAppend \/ HandleLate

RepNext ==
    \/ \E size \in Sizes : Write(size)
    \/ BuildSnapshot \/ Network \/ Server \/ Lose

RepSpec == RepInit /\ [][RepNext]_repVars
RepFairSpec == RepSpec /\ WF_repVars(Network) /\ WF_repVars(Server)

-----------------------------------------------------------------------------
(* Properties *)

(* The types of the variables. *)
RepTypeOK ==
    /\ log \in Seq(Sizes) /\ Len(log) <= MaxLog
    /\ purged \in 0..Len(log) /\ snapshot \in 0..Len(log) /\ matched \in 0..Len(log)
    /\ stream \in {"ready", "calling", "panicked"}
    /\ request # Nothing => request.prev \in 0..Len(log) /\ request.entries \in Seq(Sizes)
    /\ reply # Nothing => reply \in [ok : BOOLEAN, end : 0..Len(log)]
    /\ follower \in Seq(Sizes) /\ lost \in 0..MaxLost

(* Whatever is lost and sent again, the follower has the leader's first
   entries, each once, and at least those the leader knows it to have. *)
FollowerHasPrefix ==
    /\ Len(follower) <= Len(log) /\ follower = SubSeq(log, 1, Len(follower))
    /\ matched <= Len(follower)

(* The follower gets all entries, whatever is lost, late or sent again: the
   nodes come to the same view.  There are two ways to fall behind for good:
   the next request is over the limit and stays so; or the task has met the
   unfinished install_snapshot. *)
CatchesUp ==
    <>[](Len(follower) = Len(log) \/ ~Fits(NextRequest) \/ stream = "panicked")
=============================================================================
